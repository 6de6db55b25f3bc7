SPECIFICATION Spec
CONSTANTS
  Thread = {0, 1}
  Main = 0
  Event <- OrphanEvents
  Loc = {"x", "y"}
  ValMod = 4
  Prog <- OrphanProg
  Graphs <- OrphanGraphs
  MaxNext = 128
  HistCap = 4
  CreateMayFail = FALSE
  None = None
PROPERTY EventuallyExits
