SPECIFICATION FairSpec
CONSTANTS
  Proc = {p1}
  Files = 2
  NBlocks = 10
  InitSize = 2
  Lengths = {1, 3}
  Restarts = TRUE
INVARIANTS
  NoBlockLost
  FileIsWhole
PROPERTIES
  WriteReturns
