CONSTANTS
    NumCtxs = 2
    MaxTimed = 1
    Procs = {p1}
    Customs = {x}
    Background = Background
    None = None
SPECIFICATION Spec
CHECK_DEADLOCK FALSE
PROPERTIES Implements WatchersEnd
