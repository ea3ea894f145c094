SPECIFICATION Spec
CONSTANTS
  Proc = {p1, p2}
  Files = 2
  NBlocks = 10
  InitSize = 1
  Lengths = {1, 2}
  Restarts = FALSE
INVARIANTS
  BlocksAreNotShared
