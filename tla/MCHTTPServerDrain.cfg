CONSTANTS
    Listeners = {l1}
    Conns = {c1}
    Shutdowns = {s1}
    Closers = {}
    Setters = {d1}
    IdleTimeout = FALSE
    Free = Free
    NoConn = NoConn
SPECIFICATION FairSpec
INVARIANT NoIdleSurvivor
PROPERTIES ShutdownReturns ServeReturns
