CONSTANTS
    NumCtxs = 3
    MaxTimed = 1
    Procs = {p1}
    Customs = {}
    Background = Background
    None = None
SPECIFICATION Spec
CHECK_DEADLOCK FALSE
INVARIANTS CancelledTogether Released
PROPERTY CancelReturns
