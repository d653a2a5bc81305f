--------------------------- MODULE MCInstructions ---------------------------
(***************************************************************************)
(* A small instance of Instructions for TLC: a value of every base type,   *)
(* and two of the types an operation may mix.                              *)
(***************************************************************************)
EXTENDS Instructions

TheArgs ==
    <<Qubit, T("qureg", 0, 2), I1, I32, T("ints", 32, Dynamic),
      T("float", 32, 0), T("floats", 64, 2)>>
TheLengths == {Dynamic, 2}
=============================================================================
