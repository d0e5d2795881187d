SPECIFICATION FairSpec
CONSTANTS
  a = a
  b1 = b1
  b2 = b2
  b3 = b3
  Node = {a, b1, b2, b3}
  InvalidPointer = InvalidPointer
  Backend = {p1, p2}
  NoCall = NoCall
  NumNeighbors = 2
  MaxCalls = 2
  Rank <- MCRank
  Additions <- MixedAdditions
  Vacuumed = {a}
  Targets <- MCTargets
  CallModes = {"Disk", "Evict"}
INVARIANTS TypeOK WellFormed ListFits
PROPERTIES EdgesLostOnlyByPruning ImplementsAtomicMerge CallsTerminate
CHECK_DEADLOCK FALSE
