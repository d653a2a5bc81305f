CONSTANTS
  Gates <- AllGates
  U8 = 4
  Memory = 9

SPECIFICATION Spec

INVARIANT ImportReturns

\* The gate is read, or cannot be written.
CHECK_DEADLOCK FALSE
