CONSTANTS
  N = 3
  Depth = 2
  Leavers <- FirstLeaves
  Strings <- OneIsZero
  MaxTimeouts = 1
  MaxSearches = 2
SPECIFICATION Spec
INVARIANTS Linked CountsRanges Forgotten BordersNearest
CHECK_DEADLOCK FALSE
