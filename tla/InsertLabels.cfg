SPECIFICATION Spec
CONSTANTS
  n1 = n1
  n2 = n2
  n3 = n3
  l1 = l1
  l2 = l2
  Node = {n1, n2, n3}
  NumNeighbors = 3
  Rank <- MCRank
  Backend = {p1, p2, p3}
  Label = {l1, l2}
  DefaultRoot = DefaultRoot
  NoNode = NoNode
  LabelsOf <- MixedLabels
  SearchListSize = 3
  CopiesWhenFound = FALSE
SYMMETRY BackendSymmetry
INVARIANTS RowsReachable RowsReachableByLabel
CHECK_DEADLOCK FALSE
