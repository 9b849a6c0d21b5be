SPECIFICATION FairSpec
CONSTANTS
    OutCap = 1
    MaxWrites = 1
    Grace = 1
    WriteTimeout = 1
    MaxLines = 3
    MaxCalls = 4
    Timeout = 2
    TooLong = {}
INVARIANT AnsweredInTime
CHECK_DEADLOCK FALSE
