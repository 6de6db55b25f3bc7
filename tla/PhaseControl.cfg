SPECIFICATION LoopSpec
CONSTANTS
  StagnantSeeds = 4
  EmptyCycles = 2
  TargetItems = 2
  TargetSeeds = 2
  SafetyCap = 4
  MinPhaseRuns = 1
  GrowthReq = 2
  ClearAfterPhases = TRUE
  Seeds = 1
  MaxFinds = 4
  MaxKids = 2
INVARIANTS CountersSound
PROPERTIES PruningOnlyWhenStuck PruningEnds
