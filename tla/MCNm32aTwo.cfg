SPECIFICATION Spec
CONSTANTS
  Chans = {0, 1}
  Cabled = {0}
  FifoCap = 1
  MaxRx = 1
  MaxWithdraw = 0
  MaxEoiFail = 0
  RingCap = 2
  MaxRoom = 1
  ErrLimit = 2
  Burst = 2
  UcodeStates = {"running"}
  MaxTx = 2
  MaxTests = 0
INVARIANTS ContextDiscipline TxExact RxOrdered
