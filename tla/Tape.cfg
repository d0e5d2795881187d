SPECIFICATION Spec
CONSTANTS
  Backend = {p1, p2}
  NoBackend = NoBackend
  NoItem = NoItem
  Item = {i1, i2}
  Capacity = 1
  MaxBlock = 3
  MaxCrashes = 1
INVARIANTS NoPageFails ItemsKept WalkComplete NoWaitCircle
CHECK_DEADLOCK FALSE
SYMMETRY TapeSymmetry
