SPECIFICATION FairSpec
CONSTANTS
  Sources = {4, 9, 32}
  Lines = {3, 5}
  Wired = 3
  MaxEvents = 2
  MaxClaims = 2
  MaxStrays = 1
  MaxPokes = 1
INVARIANTS TypeOK ClaimedListens CascadeKept
PROPERTIES NoLivelock RaisedServed UnclaimedReported
CHECK_DEADLOCK FALSE
