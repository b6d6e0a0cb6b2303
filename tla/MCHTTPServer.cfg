CONSTANTS
    Listeners = {l1}
    Conns = {c1, c2}
    Shutdowns = {s1}
    Closers = {k1}
    Setters = {}
    IdleTimeout = TRUE
    Free = Free
    NoConn = NoConn
SYMMETRY ConnSymmetry
SPECIFICATION Spec
INVARIANTS ListenersClosed ServeReportsShutdown NoLeakedConn AtMostOneLateRequest
PROPERTIES HijackedLeftAlone UnsetNotSwept
