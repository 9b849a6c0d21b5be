SPECIFICATION Spec
CONSTANTS
    Letter <- MCLetter
    Variants <- MCVariants
    ClassOf <- MCClassOf
    EscapeOf <- MCEscapeOf
    Spelling <- MCSpelling
    MaxWord = 5
    AliasName <- MCAliasName
    Capture <- MCCapture
    Arity <- MCArity
    BadAlias <- MCBadAlias
    Unbalanced <- MCUnbalanced
    SyntaxError <- MCSyntaxError
    MaxSubstitutions = 2
    MaxPattern = 9
    PatternSet <- MCPatternSet
    LineUnit <- MCLineUnit
    MaxLineUnits = 6
    SourceRow <- MCSourceRow
    MaxRows = 3
    PayloadByte <- MCPayloadByte
    MaxPayload = 4
    Operand <- MCOperand
    Key <- MCKey
    Figure = {1, 2}
    AnyHost = {"go", "python"}
    MaxComments = 4
INVARIANTS
    PrefixSound
    RowsAreKept
    CodecsInvert
    NumbersAreExact
    ReportIsTrue
    CommentIsSticky
CHECK_DEADLOCK FALSE
