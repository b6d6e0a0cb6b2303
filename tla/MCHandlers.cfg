CONSTANTS
    Codes = {0, 404}
    Names = {n}
    MaxWrites = 2
    Procs = {p1, p2}
    Priority = 14
    MaxCalls = 2
    MaxDials = 3
    Prefixes = {"a"}
    None = None
    BufSize = 2
    SniffLen = 1
    MaxBody = 4
    HeadReadFrom = FALSE
    FlushBeforeReading = FALSE
    Parts = {"timeout", "mux", "reply", "log", "message"}
    FlagSets <- MCFlagSets
    Patterns <- MCPatterns
    Requests <- MCRequests
    Exchanges <- MCExchanges
    Messages <- MCMessages
SPECIFICATION MCSpec
CHECK_DEADLOCK FALSE
INVARIANTS OneReply RedirectsEnd Framed ContinueFirst WholeLines SyslogKeeps MessagesArrive
PROPERTIES AcceptedInTime GoroutinesEnd MuxChoice
