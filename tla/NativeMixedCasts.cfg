CONSTANTS
    I32 = 3
    I64 = 4
    Undefined = Undefined
    NativeParameters <- WideParameters
    IntWidths = {1, 3, 4}
    IndexConstants = {1}
    CastTypes <- WideCastTypes
    ArrayWidths = {3}
    NativeKinds = {"add"}
    MaxPairs = 4
SPECIFICATION NativeSpec
INVARIANTS Compatible
CHECK_DEADLOCK FALSE
