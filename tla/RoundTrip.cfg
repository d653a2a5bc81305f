CONSTANTS
  Names = {"f", "g", "m", "n"}
  NoName = NoName
  Nothing = Nothing
  Types = {"q", "i"}
  Malformed = Malformed
  FlatKinds = {"alloc", "measureNd"}
  Signature <- TheSignature
  IntType = "i"
  Modules <- TheModules
  OpShapes <- TheShapes
  MaxOps = 2
  U16 = 65536

SPECIFICATION RoundTripSpec

INVARIANT StringsStable
PROPERTY ImplementsExchange

\* A round trip ends.
CHECK_DEADLOCK FALSE
