CONSTANTS
    Size = 2
    MaxSize = 3
    MaxBytes = 4
    UTFMax = 2
    SmallBuffer = 2
    MinRead = 2
    MaxCap = 6
    BufLen = 2
    Inputs <- MCInputs
    Texts <- MCTexts
    Headers <- MCHeaders
    LineEnds <- MCLineEnds
    Jobs <- MCJobs
CHECK_DEADLOCK FALSE
SPECIFICATION Spec
INVARIANTS Streams CanUnread DotDecoded HeaderUnfolded
PROPERTY ErrorSticks
CONSTRAINT Followed
