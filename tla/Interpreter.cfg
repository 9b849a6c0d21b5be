SPECIFICATION FairSpec
CONSTANTS
    a = a
    b = b
    x = x
    s = s
    e = e
    stdin = stdin
    stdout = stdout
    proc = proc
    nowhere = nowhere
    NotInteger = NotInteger
    Unlimited = Unlimited
    Symbol <- MCSymbol
    Meta <- MCMeta
    PctDecode <- MCPctDecode
    Doubled <- MCDoubled
    Resource <- MCResource
    Readable <- MCReadable
    Writable <- MCWritable
    Flaky <- MCFlaky
    Script <- MCScript
    PctEncode <- MCPctEncode
    BuiltinTable <- MCBuiltinTable
    ErrorMarker <- MCErrorMarker
    Programs <- AllPrograms
    InitialStates <- MCInitialStates
    LimitChoices <- MCLimits
    MaxRuns = 2
INVARIANTS
    FirstRuleWins
    QuiescentIsNormalForm
    TraceIsPath
    MetricsMatchTrace
    LinesServedOnce
    CoverageMatchesTrace
    BudgetsHold
PROPERTIES
    ImplementsRewriting
    RunReturns
CHECK_DEADLOCK FALSE
