CONSTANTS
  Names = {"f", "g", "m", "n"}
  NoName = NoName
  Types = {"q", "i"}
  Malformed = Malformed
  FlatKinds = {"alloc", "measureNd"}
  Modules <- NamesModules
  OpShapes <- NamesShapes
  MaxOps = 3
  U16 = 4

SPECIFICATION Spec

INVARIANT FailureIsDiagnosed

\* The call of serialize returns, aborts or becomes undefined.
CHECK_DEADLOCK FALSE
