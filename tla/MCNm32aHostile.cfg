SPECIFICATION Spec
CONSTANTS
  Chans = {0}
  Cabled = {0}
  FifoCap = 2
  MaxRx = 2
  MaxWithdraw = 1
  MaxEoiFail = 1
  RingCap = 2
  MaxRoom = 1
  ErrLimit = 1
  Burst = 1
  UcodeStates = {"running", "boot", "dead"}
  MaxTx = 1
  MaxTests = 1
INVARIANT RxOrdered
CHECK_DEADLOCK FALSE
