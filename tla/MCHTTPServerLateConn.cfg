CONSTANTS
    Listeners = {l1}
    Conns = {c1}
    Shutdowns = {s1}
    Closers = {}
    Setters = {}
    IdleTimeout = FALSE
    Free = Free
    NoConn = NoConn
SPECIFICATION Spec
INVARIANT NoConnAfterShutdown
