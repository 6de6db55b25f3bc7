SPECIFICATION Spec
CONSTANTS
  Score = {1, 2, 3}
  MaxEntries = 6
  Null = Null
  M = 2
  R = 1
INVARIANT RefillKeepsTop
