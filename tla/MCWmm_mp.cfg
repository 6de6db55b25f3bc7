SPECIFICATION Spec
CONSTANTS
  Thread = {0, 1, 2}
  Main = 0
  Event <- MpEvents
  Loc = {"x", "y"}
  ValMod = 4
  Prog <- MpProg
  Graphs <- MpGraphs
  MaxNext = 128
  HistCap = 4
  CreateMayFail = FALSE
  None = None
INVARIANT VerdictCorrect
INVARIANT NextEventsComplete
PROPERTY ExitsUnlessOrphan
