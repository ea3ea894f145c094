SPECIFICATION FairSpec
CONSTANTS
  Reader = {r1, r2}
  Letter = {q}
  Arrow = {left}
  Modifier = {shift}
  N = 2
  NoChar = NoChar
CHECK_DEADLOCK FALSE
INVARIANTS
  SlotsAccounted
PROPERTIES
  ImplementsStream
  ReaderReturns
