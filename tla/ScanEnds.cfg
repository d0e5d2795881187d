SPECIFICATION FairSpec
CONSTANTS
  la = la
  lb = lb
  n1 = n1
  n2 = n2
  n3 = n3
  Node = {n1, n2, n3}
  Slot = {s1}
  Scanner = {p1}
  BlockOf <- TwoPages
  Label = {la, lb}
  DefaultRoot = DefaultRoot
  LabelsOf <- OverlappingLabels
  Filters <- LabelFilters
  NoNode = NoNode
  NoSlot = NoSlot
  NoBlock = NoBlock
  SearchListSize = 1
  ResortSize = 0
  CopiesWhenFound = FALSE
INVARIANTS ScanComplete
PROPERTIES ScansAndPassesEnd
CHECK_DEADLOCK FALSE
