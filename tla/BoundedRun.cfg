SPECIFICATION FairSpec
CONSTANTS
    Asked <- MCAsked
    ExitCode <- MCExitCode
    Bound = {shell, daemon}
    Stubborn = {daemon}
    MaxInput = 2
    MaxPrinted <- MCMaxPrinted
    LimitCode = {13}
    Deadline = 1
    Grace = 1
    shell = shell
    daemon = daemon
INVARIANTS
    ResultIsTrue
    NothingOutlivesStop
    ReportsMade
PROPERTIES
    
    RunEndsAlways
CHECK_DEADLOCK FALSE
