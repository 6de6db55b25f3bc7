SPECIFICATION Spec
CONSTANTS
  Thread = {0, 1, 2}
  Main = 0
  Event <- EvictEvents
  Loc = {"x", "y"}
  ValMod = 4
  Prog <- EvictProg
  Graphs <- EvictGraphs
  MaxNext = 128
  HistCap = 39
  CreateMayFail = FALSE
  None = None
INVARIANT VerdictCorrect
