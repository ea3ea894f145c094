SPECIFICATION Spec
CONSTANTS
    Proc = {p1, p2, p3}
    First = p1
    Slots = 1
    File = {f}
    Shell = f
    Sem = {}
    MaxLeak = 2
    None = None
INVARIANTS
    ExitNeverBlocksInHandler
CHECK_DEADLOCK FALSE
