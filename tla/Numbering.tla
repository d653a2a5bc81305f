----------------------------- MODULE Numbering -----------------------------
(***************************************************************************)
(* Index assignment by first use.  The writer gives an SSA value the next  *)
(* free index the first time it meets it (SerializationContext::getValueId)*)
(* and a metadata entry name the next free slot of the string table        *)
(* (SerializationContext::serializeMetadata).  Both walk a list and call   *)
(* "look it up, else append"; the operators below say what such a walk     *)
(* leaves behind, in closed form.                                          *)
(***************************************************************************)
EXTENDS Naturals, Sequences, FiniteSets, Functions

\* The elements of the list s that are not known yet.
Fresh(known, s) == Range(s) \ known

\* Where x is met first.
FirstAt(s, x) == CHOOSE i \in DOMAIN s :
                    /\ s[i] = x
                    /\ \A j \in DOMAIN s : s[j] = x => i <= j

\* How many new elements are met before x.
Rank(known, s, x) ==
    Cardinality({y \in Fresh(known, s) : FirstAt(s, y) < FirstAt(s, x)})

\* The new elements in the order in which they are met.
FirstUses(known, s) ==
    [r \in 1 .. Cardinality(Fresh(known, s)) |->
        CHOOSE x \in Fresh(known, s) : Rank(known, s, x) = r - 1]

\* The table `ids` after a walk over s: what it knows keeps its index, what is
\* new gets the next one, starting at `next`.
Enter(ids, s, next) ==
    [x \in DOMAIN ids \cup Range(s) |->
        IF x \in DOMAIN ids THEN ids[x] ELSE next + Rank(DOMAIN ids, s, x)]

\* Every index below the number of entries is used, by one entry.
Dense(ids) ==
    /\ \A x \in DOMAIN ids : ids[x] \in 0 .. Cardinality(DOMAIN ids) - 1
    /\ \A x, y \in DOMAIN ids : ids[x] = ids[y] => x = y
    /\ \A k \in 0 .. Cardinality(DOMAIN ids) - 1 : \E x \in DOMAIN ids : ids[x] = k
=============================================================================
