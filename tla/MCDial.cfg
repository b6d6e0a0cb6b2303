CONSTANTS
    Primaries = 2
    Fallbacks = 1
    MaxAddrs <- MCMaxAddrs
    MaxRetries = 1
    None = None
SPECIFICATION Spec
INVARIANTS NoSocketLeaks ReturnedConnUsable ErrorIsPrimarys
PROPERTIES CancelEndsDial LosersEnd
CHECK_DEADLOCK FALSE
