SPECIFICATION Spec
CONSTANTS
  la = la
  lb = lb
  n1 = n1
  n2 = n2
  n3 = n3
  Node = {n1, n2, n3}
  Slot = {s1, s2}
  Scanner = {p1}
  BlockOf <- TwoPages
  Label = {}
  DefaultRoot = DefaultRoot
  LabelsOf <- NoLabels
  Filters <- NoFilter
  NoNode = NoNode
  NoSlot = NoSlot
  NoBlock = NoBlock
  SearchListSize = 1
  ResortSize = 0
  CopiesWhenFound = FALSE
INVARIANTS ReturnedItemStays
CHECK_DEADLOCK FALSE
