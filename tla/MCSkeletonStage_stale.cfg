SPECIFICATION Spec
CONSTANTS
  Graphs <- MCGraphs
  Events <- MCEvents
  Adds <- MCAdds
  Rewires <- MCRewires
  SeedGraphs <- MCSeeds
  Unrealisable = {"y", "xy2"}
  EnableFeedback = TRUE
  HighestStep = 2
  NoGraph = NoGraph
  NoEvent = NoEvent
  NoFeedback = NoFeedback
INVARIANT FeedbackIsOwn
CHECK_DEADLOCK FALSE
