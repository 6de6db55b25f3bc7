SPECIFICATION CorpusSpec
CONSTANTS
  Edges = {e1, e2}
  KeepPerEdge = 1
  GrowthReq = 2
  ClearAfterPhases = TRUE
  Seeds = 2
  MaxIds = 4
  MaxKids = 1
  NoEntry = NoEntry
INVARIANTS QueueSound PendingCounts CandidatesFresh
PROPERTIES EdgesKept TableCoversCorpus
CHECK_DEADLOCK FALSE
