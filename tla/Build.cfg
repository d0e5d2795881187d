SPECIFICATION FairSpec
CONSTANTS
  n1 = n1
  n2 = n2
  n3 = n3
  Node = {n1, n2, n3}
  NumNeighbors = 2
  Rank <- MCRank
  Worker = {w1, w2}
  NoNode = NoNode
  Leader = Leader
  Requests <- MCRequests
  MinVectors = 3
  SearchListSize = 2
  MaxNeighbors = 2
  CacheSize = 2
  SeedCounts = {1, 2, 3}
  FlushInterval = 3
  Occludes = FALSE
INVARIANTS SeedsPublished RowsReachable RowsCounted TrainedBeforeUse HeldForWorkersOnly
PROPERTIES BuildEnds
CHECK_DEADLOCK FALSE
