SPECIFICATION FairSpec
CONSTANTS
  c1 = c1
  c2 = c2
  Conns <- MCConns
  Dials <- MCDials
  Ports = {0, 1}
  NumFds = 4
  Backlog = 2
  SockCap = 1
  MaxUnits = 1
  MaxChars = 1
  MaxFaults = 1
CHECK_DEADLOCK FALSE
PROPERTIES IdlePortAnswers HangupReleases
