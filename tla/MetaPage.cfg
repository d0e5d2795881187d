SPECIFICATION FairSpec
CONSTANTS
  Backend = {p1, p2}
  Node = {n1, n2}
  Label = {l1, l2}
  LongLabel = {l2}
  DefaultRoot = DefaultRoot
  NoNode = NoNode
  NewPage = NewPage
  NoBlock = NoBlock
  Corrupt = Corrupt
  NoView = NoView
  MaxBlock = 4
  RowLabels <- MCRowLabels
  Chunks <- MCChunks
INVARIANTS ChainWhole FetchSeesOneVersion RowsHaveRoots RootsOnTape
PROPERTIES RootsOnlyGrow ImplementsEntryPoints InsertionsPass
CHECK_DEADLOCK FALSE
