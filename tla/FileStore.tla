----------------------------- MODULE FileStore -----------------------------
(***************************************************************************)
(* What serializeToFile and deserializeFromFile promise together: a path   *)
(* holds a program or none.  A call that reports success has stored its    *)
(* program; one that is refused before there is anything to write leaves   *)
(* what was there; one that fails or dies later may lose it, but leaves no *)
(* other program behind.  Loading returns the program that is stored, or   *)
(* none.  So does loading from memory, where nothing is lost on the way.   *)
(***************************************************************************)
CONSTANTS
    Encodable,  \* the programs that can be written
    Flawed,     \* the programs serializeModule refuses
    Readable,   \* the encodable programs within the limits of the reader
    NoProgram

VARIABLES
    stored,     \* the program at the path
    asked,      \* the program of the last call
    answer,     \* "none", "pending", "saved", "failed", "died"
    held,       \* the program in memory
    loaded      \* what the last load returned

storeVars == <<stored, asked, answer, held, loaded>>

StoreInit ==
    /\ stored \in Encodable \cup {NoProgram}
    /\ asked = NoProgram
    /\ answer = "none"
    /\ held = NoProgram
    /\ loaded = NoProgram

Call ==
    /\ answer # "pending"
    /\ asked' \in Encodable \cup Flawed
    /\ answer' = "pending"
    /\ UNCHANGED <<stored, held, loaded>>

\* The path is changed for a program that could be encoded only.
Lose ==
    /\ answer = "pending" /\ asked \in Encodable
    /\ stored' = NoProgram
    /\ UNCHANGED <<asked, answer, held, loaded>>

Put ==
    /\ answer = "pending" /\ asked \in Encodable
    /\ stored' = asked
    /\ UNCHANGED <<asked, answer, held, loaded>>

Succeed ==
    /\ answer = "pending" /\ stored = asked
    /\ answer' = "saved"
    /\ UNCHANGED <<stored, asked, held, loaded>>

Fail ==
    /\ answer = "pending"
    /\ answer' \in {"failed", "died"}
    /\ UNCHANGED <<stored, asked, held, loaded>>

Hold ==
    /\ held' \in Encodable \cup {NoProgram}
    /\ UNCHANGED <<stored, asked, answer, loaded>>

Load ==
    /\ \E program \in {stored, held} :
          loaded' = IF program \in Readable THEN program ELSE NoProgram
    /\ UNCHANGED <<stored, asked, answer, held>>

StoreSpec ==
    /\ StoreInit
    /\ [][Call \/ Lose \/ Put \/ Succeed \/ Fail \/ Hold \/ Load]_storeVars
=============================================================================
