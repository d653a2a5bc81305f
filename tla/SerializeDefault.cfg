CONSTANTS
  Names = {"f", "g", "m", "n"}
  NoName = NoName
  Types = {"q", "i"}
  Malformed = Malformed
  FlatKinds = {"alloc", "measureNd"}
  Modules <- ValuesModules
  OpShapes <- DefaultShapes
  MaxOps = 3
  U16 = 2

SPECIFICATION Spec

INVARIANT DefaultIsOptional

\* The call of serialize returns, aborts or becomes undefined.
CHECK_DEADLOCK FALSE
