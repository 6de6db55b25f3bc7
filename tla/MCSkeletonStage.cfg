SPECIFICATION Spec
CONSTANTS
  Graphs <- MCGraphs
  Events <- MCEvents
  Adds <- MCAdds
  Rewires <- MCRewires
  SeedGraphs <- MCSeeds
  Unrealisable = {"y", "xy2"}
  EnableFeedback = TRUE
  HighestStep = 2
  NoGraph = NoGraph
  NoEvent = NoEvent
  NoFeedback = NoFeedback
INVARIANTS AddedOnce AddedHasFeedback ForbiddenIsDoomed
CHECK_DEADLOCK FALSE
