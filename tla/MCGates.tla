------------------------------ MODULE MCGates ------------------------------
(***************************************************************************)
(* Small instances of Gates for TLC: U8 = 4 stands for 256.                *)
(***************************************************************************)
EXTENDS Gates

Numbers == {<<>>, <<3>>, <<0, 2>>, <<1, 1, 2>>, <<0, 4>>}
AllGates ==
    {g \in [kind : Kinds, targets : 0 .. 3, controls : 0 .. U8 - 1, params : 0 .. 3,
            adjoint : BOOLEAN, power : {0, 2}, paulis : Numbers] : Verified(g)}
=============================================================================
