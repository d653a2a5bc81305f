CONSTANTS
    d1 = d1
    d2 = d2
    Dicts = {d1, d2}
    Flawed = Flawed
    Scalar = Scalar
    Null = Null
    Failure = Failure
    NoCall = NoCall
    Arguments <- MCArguments
    Operations <- MCOperations
    Names = {"theta", "phi"}
    Texts = {"", "large"}
    Other = Other
    Corrupt = Corrupt
    Failed = Failed
    SegmentsOf <- MCSegmentsOf
    Entries <- MCEntries
    Messages <- MCMessages
SPECIFICATION MetadataSpec
INVARIANTS
    MetadataTypeOK NothingUnread TextKept
PROPERTIES
    ImplementsMap
    MeaningKept PayloadsSettle
\* A list that cannot be written or read goes nowhere.
CHECK_DEADLOCK FALSE
