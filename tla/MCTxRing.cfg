SPECIFICATION Spec
CONSTANTS
  N = 5
  Data = {0, 129}
  MaxRoom = 3
  MaxWrite = 2
  MaxAsked = 5
  Cor2 = 0
INVARIANTS TypeOK StreamWhole
PROPERTY ImplementsQueue
