SPECIFICATION FairSpec
CONSTANTS
    MaxLines = 3
    MaxCalls = 4
    Timeout = 2
    TooLong = {3}
    OutCap = 1
    MaxWrites = 1
    Grace = 1
    WriteTimeout = 1
    ProcLines = 2
    ProcCalls = 2
    ProcTimeout = 1
    ProcTooLong = {1}
INVARIANTS
    GoProcessOnlyExitExtends
    JsProcessOwnAnswers
PROPERTIES
    PythonServes
    PythonReturns
    GoStdinServes
    GoStdinNoFalseTimeout
    GoStdinReturns
    GoProcessServes
    GoProcessReturns
    JsStdinServes
    JsStdinNoFalseTimeout
    JsStdinReturns
    JsProcessServes
    JsProcessReturns
CHECK_DEADLOCK FALSE
