---- MODULE MetadataMap ----
(***************************************************************************)
(* What lib/Translation/Metadata.cpp promises to its callers: metadata is  *)
(* a map from the owners of an operation (the operation itself, its        *)
(* results, its regions, the arguments of its regions) to lists of         *)
(* entries.  A call names an owner and a list.  It changes the metadata of *)
(* that owner to that list and nothing else, or it is refused, for a list  *)
(* that is not sound or because the storage of that owner cannot be read.  *)
(***************************************************************************)
EXTENDS Naturals, Sequences

CONSTANTS Maps,        \* the maps from owners to lists at the beginning
          Dicts,       \* the sound entries
          Unreadable,  \* what an owner with malformed storage is mapped to
          Arguments,   \* the metadata callers pass
          NoCall       \* no setter was called yet

VARIABLES map,         \* map[o]: the metadata of owner o
          call,        \* the owner and the list of the last call
          refused      \* it failed

Sound(m) == \A k \in 1..Len(m) : m[k] \in Dicts

Init == map \in Maps /\ call = NoCall /\ refused = FALSE

\* The list is stored.  The metadata of an owner that could not be read may stay unreadable,
\* because its flaw is in a part of the storage the call does not write.
Store(o, m) ==
    /\ Sound(m)
    /\ \/ map' = [map EXCEPT ![o] = m]
       \/ map[o] = Unreadable /\ map' = map
    /\ refused' = FALSE

Refuse(o, m) ==
    /\ ~Sound(m) \/ map[o] = Unreadable
    /\ refused' = TRUE
    /\ map' = map

Call(o, m) ==
    /\ call' = <<o, m>>
    /\ Store(o, m) \/ Refuse(o, m)

Next == \E o \in DOMAIN map, m \in Arguments : Call(o, m)

Spec == Init /\ [][Next]_<<map, call, refused>>
====
