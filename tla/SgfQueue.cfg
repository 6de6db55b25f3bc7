SPECIFICATION Spec
CONSTANTS
  Score = {1, 2, 3}
  MaxEntries = 7
  Null = Null
  M = 2
  R = 2
  T = 5
  BadCap = 1
INVARIANTS TiersSound
PROPERTY ImplementsQueue
