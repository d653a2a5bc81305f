--------------------------- MODULE MCTypeEncoding ---------------------------
(* Widths below, at and beyond the limit of their field, a short limit for lengths, and tensors of *)
(* none, one and two dimensions.                                                                   *)
EXTENDS TypeEncoding

MCIntWidths == {1, 7, 8, 16, 32, 64, 128, 256, 257, 264, 320}
MCFloatWidths == {16, 32, 64, 128}
MCDynamic == -9
Shapes == {<<>>, <<MCDynamic>>, <<0>>, <<3>>, <<4>>, <<9>>, <<2, 2>>}

MCTypes ==
    {MakeType("qubit", 0, "other", <<>>)}
    \cup {MakeType("qureg", 0, "other", <<l>>) : l \in {MCDynamic, -5, 0, 1, 3, 4, 7}}
    \cup {MakeType("int", w, "other", <<>>) : w \in MCIntWidths}
    \cup {MakeType("float", w, "other", <<>>) : w \in MCFloatWidths}
    \cup {MakeType("tensor", w, "int", s) : w \in MCIntWidths, s \in Shapes}
    \cup {MakeType("tensor", w, "float", s) : w \in MCFloatWidths, s \in Shapes}
    \cup {MakeType("tensor", 0, "other", s) : s \in Shapes}
=============================================================================
