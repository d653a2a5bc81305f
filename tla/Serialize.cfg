CONSTANTS
  Names = {"f", "g", "m", "n"}
  NoName = NoName
  Types = {"q", "i"}
  Malformed = Malformed
  FlatKinds = {"alloc", "measureNd"}
  Modules <- AllModules
  OpShapes <- AllShapes
  MaxOps = 3
  U16 = 4

SPECIFICATION FamilySpec

INVARIANT TypeOK
INVARIANT ValueIdsDense
INVARIANT MessageReadable
INVARIANT IndicesResolve
INVARIANT FailureReported
PROPERTY Terminates

\* The call of serialize returns, aborts or becomes undefined.
CHECK_DEADLOCK FALSE
