SPECIFICATION Spec
CONSTANTS
  Sample = {1, 27, 30, 63, 1019}
  Typers = {0, 7, 31}
INVARIANTS TickExact AckExpected
PROPERTY TicksForever
