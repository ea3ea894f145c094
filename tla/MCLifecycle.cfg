SPECIFICATION Spec
CONSTANTS
    Proc = {p1, p2}
    First = p1
    Slots = 2
    File = {f}
    Shell = f
    Sem = {s}
    MaxLeak = 2
    None = None
CHECK_DEADLOCK FALSE
INVARIANTS
    CountsAgree
    TerminatedHoldsNothing
PROPERTIES
    CallsReturn
    JoinServed
