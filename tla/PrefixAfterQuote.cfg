SPECIFICATION Spec
CONSTANTS
    Letter <- MCLetter
    Variants <- MCVariants
    ClassOf <- MCClassOf
    EscapeOf <- MCEscapeOf
    Spelling <- MCSpelling
    MaxWord = 5
    AliasName <- MCAliasName
    Capture <- MCCapture
    Arity <- MCArity
    BadAlias <- MCBadAlias
    Unbalanced <- MCUnbalanced
    SyntaxError <- MCSyntaxError
    MaxSubstitutions = 2
    MaxPattern = 9
    PatternSet <- QuotingSet
    LineUnit <- MCLineUnit
    MaxLineUnits = 0
    SourceRow <- MCSourceRow
    MaxRows = 0
    PayloadByte <- MCPayloadByte
    MaxPayload = 0
    Operand <- MCOperand
    Key = {}
    Figure = {}
    AnyHost = {"go"}
    MaxComments = 0
INVARIANTS
    PrefixSoundEverywhere
CHECK_DEADLOCK FALSE
