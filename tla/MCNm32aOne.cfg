SPECIFICATION FairSpec
CONSTANTS
  Chans = {0}
  Cabled = {0}
  FifoCap = 2
  MaxRx = 3
  MaxWithdraw = 0
  MaxEoiFail = 0
  RingCap = 2
  MaxRoom = 2
  ErrLimit = 2
  Burst = 2
  UcodeStates = {"running"}
  MaxTx = 1
  MaxTests = 0
INVARIANTS TypeOK NoStall StormMutes RxComplete ClosedQuiet
PROPERTIES SilentWhenClosed TxDrains RxCollected
