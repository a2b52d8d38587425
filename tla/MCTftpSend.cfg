SPECIFICATION FairSpec
CONSTANTS
  Root = TRUE
  Full <- MCFull
  Wire = 2
  MaxTries = 1
  OackTimeouts = 1
  NumSessions = 2
  MaxAsks = 2
  MaxRepeats = 1
INVARIANTS TypeOK ImageExact DoneMeansWhole NoStaleRequest
PROPERTY TransferEnds
CHECK_DEADLOCK FALSE
