SPECIFICATION FairSpec
CONSTANTS
    OutCap = 1
    MaxWrites = 1
    Grace = 1
    WriteTimeout = 1
    MaxLines = 2
    MaxCalls = 2
    Timeout = 2
    TooLong = {1}
INVARIANT ReadsAMessage
CHECK_DEADLOCK FALSE
