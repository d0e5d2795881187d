SPECIFICATION FairSpec
CONSTANTS
  n1 = n1
  n2 = n2
  n3 = n3
  l1 = l1
  l2 = l2
  Node = {n1, n2, n3}
  NumNeighbors = 1
  Rank <- MCRank
  Backend = {p1, p2}
  Label = {}
  DefaultRoot = DefaultRoot
  NoNode = NoNode
  LabelsOf <- NoLabels
  SearchListSize = 1
  CopiesWhenFound = TRUE
INVARIANTS PointersOnTape
PROPERTIES InsertionsFinish
CHECK_DEADLOCK FALSE
