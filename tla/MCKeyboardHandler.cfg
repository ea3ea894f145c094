SPECIFICATION Spec
CONSTANTS
  Reader = {r1, r2}
  Letter = {q}
  Arrow = {left}
  Modifier = {shift}
  N = 3
  NoChar = NoChar
CHECK_DEADLOCK FALSE
INVARIANTS
  HandlerNeverBlocks
