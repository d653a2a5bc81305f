--------------------------- MODULE MCFileExchange ---------------------------
(* Three programs of different sizes, one of them beyond the limits of the reader, and one that    *)
(* cannot be encoded; contents of other producers, of a whole number of words and not.             *)
EXTENDS FileExchange

CONSTANTS small, large, deep, flawed, other

MCEncodable == {small, large, deep}
MCFlawed == {flawed}
MCReadable == {small, large}
MCWords(p) == IF p = large THEN 3 ELSE 2
MCOthers == {<<>>} \cup {[i \in 1..n |-> <<other, i>>] : n \in {3, 8}}
=============================================================================
