SPECIFICATION Spec
CONSTANTS
  Component <- Boundaries
  Kind <- Kinds
  MaxLen = 3
  MaxOther = 2
INVARIANTS
  ClassifiesByTheLast
  CircuitsNameTheirRelay
  KeySeparates
CHECK_DEADLOCK FALSE
