CONSTANTS
    I32 = 3
    I64 = 4
    Undefined = Undefined
    Parameters <- MCParameters
    BinaryKinds <- BinaryOps
    MaxValues = 8
    IntWidths = {1, 2, 3}
    ArrayWidths = {1, 3}
    MaxPairs = 5
    NativeParameters <- MCNativeParameters
    NativeKinds <- BinaryOps
    IndexConstants <- MCIndexConstants
    CastTypes <- MCCastTypes
    SupportedInt = {"i1", "i32"}
    OtherTypes = {"qubit"}
    NoBlock = NoBlock
    NoClause = NoClause
    NoYield = NoYield
    NoOp = NoOp
    NoText = NoText
    Operations <- MCOperations
    Texts <- MCTexts
    Erased = Erased
    Executions <- MCExecutions
SPECIFICATION PassesSpec
INVARIANTS
    ValuesKept CompatibleTypes
    NativeKept RoundTripKept RoundTripConverts
    PrintedAccepted
    OperandsLeft ResultsKept
PROPERTIES
    RoundTrips TextSettles
    Canonical
\* Conversions and canonicalization end.
CHECK_DEADLOCK FALSE
