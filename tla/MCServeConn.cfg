CONSTANTS
    Requests <- MCRequests
    MaxRequests = 3
    BufCap = 2
    maxPostHandlerReadBytes = 2
    ReadTimeout = TRUE
SPECIFICATION MCSpec
CHECK_DEADLOCK FALSE
INVARIANTS NoConcurrentRead AbortLeavesNoTrace HijackComplete
PROPERTIES Implements AbortReturns HangUpCancels
