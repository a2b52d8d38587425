SPECIFICATION Spec
CONSTANTS
  N = 4
  Data = {0, 129}
  MaxRoom = 2
  MaxWrite = 2
  MaxAsked = 3
  Cor2 = 0
INVARIANTS LineExact
