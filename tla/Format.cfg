CONSTANTS
    Gates <- AllGates
    U8 = 4
    Memory = 9
    Args <- TheArgs
    Lengths <- TheLengths
    IntWidths = {1, 32}
    FloatWidths = {32, 64}
    MaxOps = 2
    Types <- MCTypes
    WidthLimit = 256
    LengthLimit = 4
    DynamicLength <- MCDynamic
    Question = Question
    small = small
    large = large
    deep = deep
    flawed = flawed
    other = other
    Absent = Absent
    NoProgram = NoProgram
    Encodable <- MCEncodable
    Flawed <- MCFlawed
    Readable <- MCReadable
    Words <- MCWords
    WordBytes = 2
    Others <- MCOthers
SPECIFICATION FormatSpec
INVARIANTS
    GateRestored
    TypesRestored BlockAccepted ClassesKept
    FittingTypesKept
PROPERTIES
    GateRead
    TypesSettle
    ImplementsStore FlawedKeepsFile SavesEnd
\* A gate is read, a block is read, a type is refused: all of it ends.
CHECK_DEADLOCK FALSE
