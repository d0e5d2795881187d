SPECIFICATION Spec
CONSTANTS
  n1 = n1
  n2 = n2
  n3 = n3
  Node = {n1, n2, n3}
  Null = Null
  InvalidPointer = InvalidPointer
  NoPointer = NoPointer
  StatsPointer = StatsPointer
  NoRoots = NoRoots
  MinNeighbors = 2
  UsualNeighbors = 2
  Scale = 6
  WordBits = 64
  Fresh <- MCFresh
  Legacy <- MCLegacy
  Queries <- MCQueries
  CacheBudget = 30
  MaxSessions = 2
  MaxCalls = 3
  MaxOthers = 1
INVARIANTS TrainedExactly OpensAsBuilt FlatDimensionsCoded DistancesTrue CacheSound FilterExact
CHECK_DEADLOCK FALSE
