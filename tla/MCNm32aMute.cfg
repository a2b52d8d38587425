SPECIFICATION Spec
CONSTANTS
  Chans = {0}
  Cabled = {0}
  FifoCap = 1
  MaxRx = 2
  RingCap = 2
  MaxRoom = 1
  ErrLimit = 2
  Burst = 2
  MaxWithdraw = 0
  MaxEoiFail = 0
  UcodeStates = {"running"}
  MaxTx = 1
  MaxTests = 0
PROPERTY MuteSurvivesPolling
