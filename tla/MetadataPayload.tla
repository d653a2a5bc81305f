---- MODULE MetadataPayload ----
(***************************************************************************)
(* One list of metadata on its way between attributes and messages,        *)
(* lib/Translation/Metadata.cpp.                                           *)
(*                                                                         *)
(* In an attribute, an entry has a name and a payload: bytes that hold a   *)
(* whole Cap'n Proto message.  In a message, it has the index of its name  *)
(* in the string table and a pointer to what is the root of the payload.   *)
(* Writing unpacks the payloads, reading frames them again.  Anyone can    *)
(* write the bytes of a payload and anyone can write a message, so both    *)
(* sides may meet data of a wrong form.                                    *)
(***************************************************************************)
EXTENDS Naturals, SequencesExt, Numbering

CONSTANTS
    Names,         \* names of entries
    Texts,         \* contents of text roots
    Other,         \* any root that is not text
    Corrupt,       \* a root with a pointer that leads out of its message
    Failed,        \* what a call that fails yields
    SegmentsOf(_), \* number of segments in which a root is framed
    Entries,       \* the lists of entries callers store
    Messages       \* strings and metadata of messages of other producers

NoRoot == <<"none">>
Text(t) == <<"text", t>>
Roots == {NoRoot, Other, Corrupt} \cup {Text(t) : t \in Texts}

\* aligned: the size is a multiple of the word; sound: the segment table matches the words and
\* there is a root; trailing: words follow the message.
Payload == [aligned: BOOLEAN, sound: BOOLEAN, segments: Nat, trailing: BOOLEAN, root: Roots]
PayloadEntry   == [name: Names, value: Payload]
Meta    == [name: Nat, value: Roots]

\* The kinds of roots differ, and a failure is none of the values of a call that succeeds.
ASSUME RootsAssumption ==
    /\ Other # Corrupt
    /\ \A r \in {Other, Corrupt} : r # NoRoot /\ \A t \in Texts : r # Text(t)
    /\ Failed \notin Roots \cup Payload \cup PayloadEntry
    /\ \A r \in Roots : SegmentsOf(r) \in Nat
ASSUME EntriesAssumption == Entries \subseteq Seq(PayloadEntry)
ASSUME MessagesAssumption ==
    \A m \in Messages : m.strings \in Seq(Names) /\ m.wire \in Seq(Meta)

VARIABLES
    entries,       \* the attribute
    strings, wire, \* the string table and the metadata of the message
    status,        \* "stored", "written" or "failed"
    framed,        \* every payload of entries was framed by this library
    given          \* given[k]: name and text of the last text a caller stored in entry k, or <<>>

payloadVars == <<entries, strings, wire, status, framed, given>>

----------------------------------------------------------------------------
\* Framing a root in a new message, and the way back.  Copying a corrupt root throws; the
\* exception is caught and the call fails.

\* The mutant does not trim the buffer.
FrameUntrimmed(root) ==
    IF root = Corrupt THEN Failed
    ELSE [aligned |-> TRUE, sound |-> TRUE, segments |-> SegmentsOf(root), trailing |-> TRUE,
          root |-> root]
Frame(root) ==
    IF root = Corrupt THEN Failed
    ELSE [aligned |-> TRUE, sound |-> TRUE, segments |-> SegmentsOf(root), trailing |-> FALSE,
          root |-> root]

RootOf(payload) ==
    IF payload.aligned /\ payload.sound /\ ~payload.trailing THEN payload.root ELSE Failed

\* The mutant copies what the bytes hold, well formed or not.
CopiedUnchecked(payload) == IF payload.root = Corrupt THEN Failed ELSE payload.root

\* builder.set(root)
Copied(payload) == IF RootOf(payload) = Corrupt THEN Failed ELSE RootOf(payload)

SerializeText(t) == Frame(Text(t))

DeserializeText(payload) ==
    LET root == RootOf(payload)
    IN IF root = NoRoot THEN "" ELSE IF root \in {Text(t) : t \in Texts} THEN root[2] ELSE Failed

----------------------------------------------------------------------------
\* The writer registers the names it does not find in the table, then fills a list of the
\* message; at a payload that cannot be copied it stops, with the list half filled.

IndexOf(table, name) == (CHOOSE i \in DOMAIN table : table[i] = name) - 1

NamesOf(list) == [k \in DOMAIN list |-> list[k].name]
Registered(table, list) == table \o FirstUses(Range(table), NamesOf(list))

SerializeMetadata ==
    LET bad == {k \in DOMAIN entries : Copied(entries[k].value) = Failed}
        table == Registered(strings, entries)
        filled(k) == [name |-> IndexOf(table, entries[k].name), value |-> Copied(entries[k].value)]
    IN /\ status = "stored"
       /\ strings' = table
       /\ IF bad = {} THEN /\ wire' = [k \in DOMAIN entries |-> filled(k)]
                           /\ status' = "written"
          ELSE LET stop == CHOOSE k \in bad : \A j \in bad : k <= j
               IN /\ wire' = [k \in 1..(stop - 1) |-> filled(k)]
                  /\ status' = "failed"
       /\ UNCHANGED <<entries, framed, given>>

DeserializeEntry(m) ==
    IF m.name >= Len(strings) \/ Frame(m.value) = Failed THEN Failed
    ELSE [name |-> strings[m.name + 1], value |-> Frame(m.value)]

DeserializeMetadata ==
    LET read == [k \in DOMAIN wire |-> DeserializeEntry(wire[k])]
    IN /\ status = "written"
       /\ IF \E k \in DOMAIN read : read[k] = Failed
          THEN status' = "failed" /\ UNCHANGED <<entries, framed>>
          ELSE status' = "stored" /\ entries' = read /\ framed' = TRUE
       /\ UNCHANGED <<strings, wire, given>>

\* A caller sets one entry to a text.  The mutant writes it over the bytes that are there.
StoreTextOver(k, t) ==
    LET left == entries[k].value.segments > SegmentsOf(Text(t))
    IN /\ status = "stored"
       /\ entries' = [entries EXCEPT ![k].value = [SerializeText(t) EXCEPT !.trailing = left]]
       /\ given' = [given EXCEPT ![k] = <<entries[k].name, t>>]
       /\ UNCHANGED <<strings, wire, status, framed>>
StoreText(k, t) ==
    /\ status = "stored"
    /\ entries' = [entries EXCEPT ![k].value = SerializeText(t)]
    /\ given' = [given EXCEPT ![k] = <<entries[k].name, t>>]
    /\ UNCHANGED <<strings, wire, status, framed>>

InitStored ==
    /\ entries \in Entries
    /\ strings = <<>> /\ wire = <<>>
    /\ status = "stored"
    /\ given = [k \in DOMAIN entries |-> <<>>]

InitWritten ==
    /\ \E m \in Messages : strings = m.strings /\ wire = m.wire
    /\ entries = <<>>
    /\ status = "written"
    /\ given = [k \in DOMAIN wire |-> <<>>]

PayloadInit == (InitStored \/ InitWritten) /\ framed = FALSE

PayloadNext ==
    \/ SerializeMetadata \/ DeserializeMetadata
    \/ \E k \in DOMAIN entries, t \in Texts : StoreText(k, t)

PayloadSpec == PayloadInit /\ [][PayloadNext]_payloadVars

----------------------------------------------------------------------------
\* Lists and the table are what the code makes of them.
PayloadTypeOK ==
    /\ entries \in Seq(PayloadEntry)
    /\ strings \in Seq(Names) /\ wire \in Seq(Meta)
    /\ status \in {"stored", "written", "failed"} /\ framed \in BOOLEAN
    /\ given \in Seq({<<>>} \cup Names \X Texts)
    /\ status = "stored" => DOMAIN given = DOMAIN entries

\* What a list means: its names and the roots of its payloads.
MeaningOfEntries(list) == [k \in DOMAIN list |-> <<list[k].name, RootOf(list[k].value)>>]
MeaningOfWire(table, list) == [k \in DOMAIN list |-> <<table[list[k].name + 1], list[k].value>>]

\* Neither direction changes the meaning, whatever the table held before: what the writer accepts
\* is in the message entry for entry, and what the reader accepts is in the attribute.
MeaningKept ==
    [][/\ status = "stored" /\ status' = "written" =>
              MeaningOfWire(strings', wire') = MeaningOfEntries(entries)
       /\ status = "written" /\ status' = "stored" =>
              MeaningOfEntries(entries') = MeaningOfWire(strings, wire)]_payloadVars

\* The bytes of a payload may change the first time it is read, if its producer framed it in
\* another way; from then on every round trip gives the same attribute, and none fails.
PayloadsSettle ==
    [][framed => /\ status' # "failed"
                 /\ status = "written" => entries' = entries]_payloadVars

\* The text a caller stored last in an entry is what a reader of text finds there, under the name it
\* was stored under, after any number of trips through messages and whatever else the list holds:
\* payloads of other producers, text stored before, names that are in the table already.
TextKept ==
    \A k \in DOMAIN given :
        given[k] # <<>> =>
            given[k] = <<entries[k].name, DeserializeText(entries[k].value)>>
====
