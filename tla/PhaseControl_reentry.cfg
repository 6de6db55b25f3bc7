SPECIFICATION LoopSpec
CONSTANTS
  StagnantSeeds = 3
  EmptyCycles = 2
  TargetItems = 2
  TargetSeeds = 2
  SafetyCap = 4
  MinPhaseRuns = 0
  GrowthReq = 2
  ClearAfterPhases = FALSE
  Seeds = 1
  MaxFinds = 4
  MaxKids = 2
PROPERTY LeavingResetsTriggers
