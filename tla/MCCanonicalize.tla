---- MODULE MCCanonicalize ----
(***************************************************************************)
(* Blocks of a parameter, two constants, three xors and a use of two of    *)
(* the values, with every choice of operands.                              *)
(***************************************************************************)
EXTENDS Canonicalize

Leaf(kind, w, v)  == [kind |-> kind, width |-> w, val |-> v, a |-> 0, b |-> 0]
Inner(kind, w, i, k) == [kind |-> kind, width |-> w, val |-> 0, a |-> i, b |-> k]

MCBlocks ==
    {<<Leaf("parameter", w, p), Leaf("const", w, c), Leaf("const", w, d),
       Inner("xor", w, x[1], x[2]), Inner("xor", w, y[1], y[2]), Inner("xor", w, 4, z),
       Inner("use", w, 6, u)>> :
        w \in {1, I32}, p \in 0..1, c \in {0, 1, 2^I32 - 1}, d \in {1, 2^I32 - 1},
        x \in (1..3) \X (1..3), y \in {2, 4} \X (1..4), z \in 1..5, u \in 2..5}

\* Constants of the width of the block.
MCWellTyped == {b \in MCBlocks : b[2].val < 2^b[2].width /\ b[3].val < 2^b[3].width}

ValuesOf(b) ==
    LET v[i \in DOMAIN b] ==
            IF b[i].kind = "xor" THEN Binary("xor", v[b[i].a], v[b[i].b], b[i].width) ELSE b[i].val
    IN v

MCExecutions == {[block |-> b, results |-> ValuesOf(b)] : b \in MCWellTyped}
====
