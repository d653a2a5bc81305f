CONSTANTS
  Names = {"f", "g", "m", "n"}
  NoName = NoName
  Types = {"q", "i"}
  Malformed = Malformed
  FlatKinds = {"alloc", "measureNd"}
  Signature <- TheSignature
  IntType = "i"
  Files <- TheFiles
  U16 = 2

SPECIFICATION Spec

INVARIANT ReaderTypeOK
INVARIANT OperandsResolve
INVARIANT MetadataPlaced
INVARIANT CallsResolve
PROPERTY ReaderTerminates

\* The call of deserialize returns or becomes undefined.
CHECK_DEADLOCK FALSE
