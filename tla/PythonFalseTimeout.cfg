SPECIFICATION FairSpec
CONSTANTS
    MaxLines = 3
    MaxCalls = 4
    Timeout = 2
    TooLong = {}
PROPERTY NoFalseTimeout
CHECK_DEADLOCK FALSE
