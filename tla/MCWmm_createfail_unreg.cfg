SPECIFICATION Spec
CONSTANTS
  Thread = {0, 1, 2}
  Main = 0
  Event <- JoinEvents
  Loc = {"x", "y"}
  ValMod = 4
  Prog <- JoinProg
  Graphs <- JoinGraphs
  MaxNext = 128
  HistCap = 4
  CreateMayFail = TRUE
  None = None
INVARIANT FailedCreateUnregistered
