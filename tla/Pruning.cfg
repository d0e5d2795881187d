SPECIFICATION Spec
CONSTANTS
  p = p
  c1 = c1
  c2 = c2
  c3 = c3
  l1 = l1
  Point = p
  Candidate = {c1, c2, c3}
  Label = {l1}
  Distance = {0, 1, 10, 12}
  Epsilon = 2
  Place <- MCPlace
  NumNeighbors = 2
  Alphas <- MCAlphas
INVARIANTS MeetsContract DroppedForAReason
CHECK_DEADLOCK FALSE
