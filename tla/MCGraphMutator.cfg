CONSTANTS
  Threads <- MCThreads
  Locations <- MCLocations
  NoLocation = NoLocation
  Campaigns <- MCCampaigns
SPECIFICATION Spec
INVARIANTS
  WellFormed
  Coherent
  ConsistentWritesExact
  RacesExact
  PotentialExact
  ScCheckSound
CHECK_DEADLOCK FALSE
