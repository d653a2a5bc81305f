---------------------------- MODULE FileExchange ----------------------------
(***************************************************************************)
(* serializeToFile and deserializeFromFile, on one path, and the overloads *)
(* of serialize and deserialize that use a buffer in memory.               *)
(*                                                                         *)
(* A save encodes the whole message in memory, opens the file, which       *)
(* truncates it, and writes the bytes in as many calls of the operating    *)
(* system as that takes.  Each step may fail, and the process may die      *)
(* between any two of them.  A load finds whatever is there: the file of   *)
(* another producer, nothing, a part of a message, a message.              *)
(*                                                                         *)
(* A byte is a pair of where it comes from and its place, so that a file   *)
(* is the message of a program exactly if it has all of its bytes in their *)
(* places.  Encoding and decoding proper are Serialize and Deserialize.    *)
(***************************************************************************)
EXTENDS Naturals, SequencesExt

CONSTANTS
    Encodable, Flawed, Readable, NoProgram,     \* see FileStore
    Words(_),   \* the size of the message of a program
    WordBytes,  \* the size of a Cap'n Proto word, 8
    Others,     \* contents that are not of this library, of any size
    Absent      \* no file at the path

ASSUME ProgramsAssumption ==
    /\ Readable \subseteq Encodable
    /\ Encodable \cap Flawed = {}
    /\ NoProgram \notin Encodable \cup Flawed
    /\ \A p \in Encodable : Words(p) \in Nat \ {0}
    /\ WordBytes \in Nat \ {0}

VARIABLES
    file,       \* the bytes at the path, or Absent
    asked,      \* the program of the last save
    answer,     \* "none", "pending", "saved", "failed", "died"
    step,       \* "encode", "open", "write": where the save is
    message,    \* the bytes of the encoded message
    offset,     \* how many of them are written
    buffer,     \* what the last serialize to memory returned
    loaded      \* what the last load returned

fileVars == <<file, asked, answer, step, message, offset, buffer, loaded>>

Bytes(p) == [k \in 1..(Words(p) * WordBytes) |-> <<p, k>>]

----------------------------------------------------------------------------
(* Saving.                                                                 *)

Return(a) == answer' = a /\ UNCHANGED <<file, asked, step, message, offset, buffer, loaded>>

Save ==
    /\ answer # "pending"
    /\ asked' \in Encodable \cup Flawed
    /\ answer' = "pending"
    /\ step' = "encode"
    /\ UNCHANGED <<file, message, offset, buffer, loaded>>

\* The mutant opens the file for the encoder to write to.
EncodeIntoFile ==
    /\ file' = <<>>
    /\ message' = IF asked \in Encodable THEN Bytes(asked) ELSE <<>>
    /\ offset' = 0
    /\ step' = "open"
    /\ answer' = IF asked \in Encodable THEN "pending" ELSE "failed"
    /\ UNCHANGED <<asked, buffer, loaded>>

Encoded ==
    \/ /\ asked \in Encodable
       /\ message' = Bytes(asked)
       /\ step' = "open"
       /\ UNCHANGED <<file, asked, answer, offset, buffer, loaded>>
    \/ asked \in Flawed /\ Return("failed")

EncodeMessage == answer = "pending" /\ step = "encode" /\ Encoded

\* CD_CreateAlways: the file is created, or truncated.
OpenedKeeping == IF file = Absent THEN <<>> ELSE file
Opened == <<>>

Open ==
    /\ answer = "pending" /\ step = "open"
    /\ \/ /\ file' = Opened
          /\ offset' = 0
          /\ step' = "write"
          /\ UNCHANGED <<asked, answer, message, buffer, loaded>>
       \/ Return("failed")

\* One call of the operating system writes k bytes at the offset.
Overwritten(k) ==
    [i \in 1..(IF Len(file) > offset + k THEN Len(file) ELSE offset + k) |->
        IF i \in (offset + 1)..(offset + k) THEN message[i] ELSE file[i]]

Write ==
    /\ answer = "pending" /\ step = "write" /\ offset < Len(message)
    /\ \E k \in 1..(Len(message) - offset) :
          file' = Overwritten(k) /\ offset' = offset + k
    /\ UNCHANGED <<asked, answer, step, message, buffer, loaded>>

\* The mutant opens the file anew and tries again.
WriteFailsRetrying ==
    /\ answer = "pending" /\ step = "write" /\ offset < Len(message)
    /\ step' = "open"
    /\ UNCHANGED <<file, asked, answer, message, offset, buffer, loaded>>
WriteFails ==
    /\ answer = "pending" /\ step = "write" /\ offset < Len(message)
    /\ Return("failed")

Written ==
    /\ answer = "pending" /\ step = "write" /\ offset = Len(message)
    /\ Return("saved")

Die == answer = "pending" /\ Return("died")

\* An empty buffer tells the caller that serialize failed.
SerializeToBuffer ==
    /\ \E p \in Encodable \cup Flawed : buffer' = IF p \in Encodable THEN Bytes(p) ELSE <<>>
    /\ UNCHANGED <<file, asked, answer, step, message, offset, loaded>>

----------------------------------------------------------------------------
(* Loading.                                                                *)

\* The program whose message the words begin with; Cap'n Proto refuses a buffer that ends
\* before the segments it announces, and ignores what follows them.
MessageIn(bytes) ==
    LET found == {p \in Encodable : IsPrefix(Bytes(p), bytes)}
    IN IF found = {} THEN NoProgram ELSE CHOOSE p \in found : TRUE

Decoded(bytes) ==
    IF MessageIn(bytes) \in Readable THEN MessageIn(bytes) ELSE NoProgram

ASSUME OthersAssumption ==
    /\ \A o \in Others : MessageIn(o) = NoProgram
    /\ \A p \in Encodable : Absent # Bytes(p)

DeserializeFromFile ==
    /\ loaded' = IF file = Absent \/ Len(file) % WordBytes # 0
                 THEN NoProgram
                 ELSE Decoded(file)
    /\ UNCHANGED <<file, asked, answer, step, message, offset, buffer>>

DeserializeBuffer ==
    /\ loaded' = Decoded(buffer)
    /\ UNCHANGED <<file, asked, answer, step, message, offset, buffer>>

----------------------------------------------------------------------------
FileInit ==
    /\ file \in {Absent} \cup Others \cup {Bytes(p) : p \in Encodable}
    /\ asked = NoProgram
    /\ answer = "none"
    /\ step = "encode"
    /\ message = <<>>
    /\ offset = 0
    /\ buffer = <<>>
    /\ loaded = NoProgram

SerializeToFile == EncodeMessage \/ Open \/ Write \/ WriteFails \/ Written

FileNext ==
    \/ Save \/ SerializeToFile \/ Die \/ DeserializeFromFile
    \/ SerializeToBuffer \/ DeserializeBuffer

FileSpec == FileInit /\ [][FileNext]_fileVars /\ WF_fileVars(SerializeToFile)

----------------------------------------------------------------------------
(* Properties.                                                             *)

\* What bytes hold, as a program.
Program(bytes) ==
    IF \E p \in Encodable : bytes = Bytes(p)
    THEN CHOOSE p \in Encodable : bytes = Bytes(p)
    ELSE NoProgram

Store == INSTANCE FileStore WITH stored <- Program(file), held <- Program(buffer)

\* serializeToFile and deserializeFromFile implement the store: success means that the program is
\* on file in full, a save that failed or died half way never makes a load return anything else
\* than what is wholly there, and a load of what is there, within the limits of the reader, returns it.
ImplementsStore == Store!StoreSpec

\* A module that cannot be encoded never changes the file, whatever it holds
\* (test_metadata.cpp, InvalidPayloadDoesNotTruncateOutputFile).
FlawedKeepsFile == [][answer = "pending" /\ asked \in Flawed => file' = file]_fileVars

\* A save that has been called returns, or its process dies: every write makes progress.
SavesEnd == answer = "pending" ~> answer # "pending"
=============================================================================
