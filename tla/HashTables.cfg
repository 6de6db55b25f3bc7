CONSTANTS
  Graphs <- MCGraphs
  Hash <- MCHash
  Mix <- MCMix
  Keys <- MCKeys
  MinCap = 4
  U32 = 65536
  None = None
  Empty = 0
  Edges <- MCEdges
  EventHash <- MCEventHash
  MinSlots = 2
  MaxCalls = 6
SPECIFICATION TablesSpec
INVARIANT LookupExact
INVARIANT CountsExact
PROPERTY ImplementsSet
PROPERTY CallsReturn
