SPECIFICATION Spec
CONSTANTS
  Len = 19
  Sizes = {5, 6}
  Word = 77
CHECK_DEADLOCK FALSE
INVARIANTS
  HeapIsWhole
  NeverBad
PROPERTIES
  PayloadKept
  ImplementsAllocator
