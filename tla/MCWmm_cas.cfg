SPECIFICATION Spec
CONSTANTS
  Thread = {0, 1, 2}
  Main = 0
  Event <- CasEvents
  Loc = {"x", "y"}
  ValMod = 4
  Prog <- CasProg
  Graphs <- CasGraphs
  MaxNext = 1
  HistCap = 4
  CreateMayFail = TRUE
  None = None
INVARIANT ReadsFromExecuted
INVARIANT Code20Sound
INVARIANT VerdictCorrect
INVARIANT CountersExact
INVARIANT NextEventsComplete
