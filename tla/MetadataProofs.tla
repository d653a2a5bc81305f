--------------------------- MODULE MetadataProofs ---------------------------
(***************************************************************************)
(* The storage of metadata is a map from owners to lists, for operations   *)
(* of any shape with attributes of any form and any metadata callers pass; *)
(* a list keeps its meaning on its way through messages, for any table of  *)
(* strings, any payloads and any messages of other producers.              *)
(***************************************************************************)
EXTENDS Metadata, NumberingProofs

----------------------------------------------------------------------------
(* A list through a message.                                               *)

\* Whatever is new in a list is somewhere in the list of its first uses.
LEMMA FirstUsesHave ==
  ASSUME NEW known, NEW s, NEW n \in Nat, DOMAIN s = 1 .. n, NEW x \in Fresh(known, s)
  PROVE  \E r \in DOMAIN FirstUses(known, s) : FirstUses(known, s)[r] = x
<1> DEFINE c == Cardinality(Fresh(known, s))
           k == Rank(known, s, x)
<1>1. c \in Nat /\ k \in 0 .. c - 1
  BY RankBelow
<1>2. DOMAIN FirstUses(known, s) = 1 .. c
  BY DEF FirstUses
<1>3. k + 1 \in 1 .. c /\ (k + 1) - 1 = k
  BY <1>1
<1>4. FirstUses(known, s)[k + 1] = CHOOSE y \in Fresh(known, s) : Rank(known, s, y) = k
  BY <1>3 DEF FirstUses
<1>5. \A y, z \in Fresh(known, s) : Rank(known, s, y) = Rank(known, s, z) => y = z
  BY RankBijective
<1>6. FirstUses(known, s)[k + 1] = x
  BY <1>4, <1>5
<1> QED
  BY <1>2, <1>3, <1>6

\* The table of strings has every name of the list, and only names.
LEMMA NamesAreRegistered ==
  ASSUME NEW table \in Seq(Names), NEW list \in Seq(PayloadEntry)
  PROVE  /\ Registered(table, list) \in Seq(Names)
         /\ \A k \in DOMAIN list :
               \E i \in DOMAIN Registered(table, list) : Registered(table, list)[i] = list[k].name
<1> DEFINE s == NamesOf(list)
           known == Range(table)
           first == FirstUses(known, s)
<1>1. Len(list) \in Nat /\ DOMAIN list = 1 .. Len(list) /\ DOMAIN s = 1 .. Len(list)
  BY DEF NamesOf
<1>2. \A k \in DOMAIN list : list[k].name \in Names /\ s[k] = list[k].name
  <2>1. \A k \in DOMAIN list : list[k] \in PayloadEntry
    OBVIOUS
  <2>2. \A k \in DOMAIN list : s[k] = list[k].name
    BY DEF NamesOf
  <2> QED
    BY <2>1, <2>2 DEF PayloadEntry
<1>3. \A k \in DOMAIN list : s[k] \in Range(s)
  BY <1>1 DEF Range
<1>4. Range(s) \subseteq Names
  BY <1>1, <1>2 DEF Range
<1>5. first \in Seq(Fresh(known, s)) /\ Fresh(known, s) \subseteq Names
  BY <1>1, <1>4, FirstUsesList DEF Fresh
<1>6. \A x \in Fresh(known, s) : \E r \in DOMAIN first : first[r] = x
  BY <1>1, FirstUsesHave
<1>7. \A x \in known : \E i \in DOMAIN table : table[i] = x
  BY DEF Range
<1>8. Registered(table, list) = table \o first
  BY DEF Registered
<1> HIDE DEF s, known, first
<1>9. first \in Seq(Names)
  BY <1>5
<1>10. /\ table \o first \in Seq(Names)
       /\ \A i \in DOMAIN table : i \in DOMAIN (table \o first) /\ (table \o first)[i] = table[i]
       /\ \A r \in DOMAIN first : /\ Len(table) + r \in DOMAIN (table \o first)
                                  /\ (table \o first)[Len(table) + r] = first[r]
  BY <1>9
<1>11. ASSUME NEW k \in DOMAIN list
       PROVE  \E i \in DOMAIN (table \o first) : (table \o first)[i] = list[k].name
  <2>1. CASE s[k] \in known
    BY <1>2, <1>7, <1>10, <2>1
  <2>2. CASE s[k] \notin known
    <3>1. s[k] \in Fresh(known, s)
      BY <1>3, <2>2 DEF Fresh
    <3>2. PICK r \in DOMAIN first : first[r] = s[k]
      BY <1>6, <3>1
    <3> QED
      BY <1>2, <1>10, <3>2
  <2> QED
    BY <2>1, <2>2
<1> QED
  BY <1>8, <1>10, <1>11

\* The index of a name that is in the table leads to it.
LEMMA IndexLeads ==
  ASSUME NEW table \in Seq(Names), NEW name, \E i \in DOMAIN table : table[i] = name
  PROVE  /\ IndexOf(table, name) \in Nat /\ IndexOf(table, name) < Len(table)
         /\ table[IndexOf(table, name) + 1] = name
<1>1. PICK j : j = CHOOSE i \in DOMAIN table : table[i] = name
  OBVIOUS
<1>2. j \in DOMAIN table /\ table[j] = name
  BY <1>1
<1>3. IndexOf(table, name) = j - 1
  BY <1>1 DEF IndexOf
<1>4. j \in Nat /\ 1 <= j /\ j <= Len(table)
  BY <1>2
<1>5. (j - 1) + 1 = j
  BY <1>4
<1> QED
  BY <1>2, <1>3, <1>4, <1>5

\* Framing: the root of what was framed is the root given.
LEMMA Framed ==
  ASSUME NEW r \in Roots, r # Corrupt
  PROVE  /\ Frame(r) \in Payload /\ Frame(r) # Failed
         /\ RootOf(Frame(r)) = r /\ Frame(r).root = r
         /\ Copied(Frame(r)) = r /\ Copied(Frame(r)) # Failed
<1>1. Frame(r) = [aligned |-> TRUE, sound |-> TRUE, segments |-> SegmentsOf(r),
                  trailing |-> FALSE, root |-> r]
  BY DEF Frame
<1>2. Frame(r) \in Payload
  BY <1>1, RootsAssumption DEF Payload
<1>3. Frame(r) # Failed /\ r # Failed
  BY <1>2, RootsAssumption
<1>4. RootOf(Frame(r)) = r
  BY <1>1 DEF RootOf
<1> QED
  BY <1>1, <1>2, <1>3, <1>4 DEF Copied

\* What can be copied from a payload is its root.
LEMMA CopiedRoot ==
  ASSUME NEW p \in Payload, Copied(p) # Failed
  PROVE  Copied(p) = RootOf(p) /\ Copied(p) \in Roots /\ Copied(p) # Corrupt
BY DEF Copied, RootOf, Payload

LEMMA TextIsRoot == \A t \in Texts : Text(t) \in Roots /\ Text(t) # Corrupt
BY RootsAssumption DEF Roots

\* What this library has framed it can copy and read; what it has written of it, it reads as it
\* was.
Library == \A k \in DOMAIN entries : \E r \in Roots \ {Corrupt} : entries[k].value = Frame(r)
SameList ==
    /\ DOMAIN wire = DOMAIN entries
    /\ \A k \in DOMAIN entries :
          /\ wire[k].name < Len(strings) /\ strings[wire[k].name + 1] = entries[k].name
          /\ Frame(wire[k].value) = entries[k].value
          /\ wire[k].value # Corrupt
PayloadTyped ==
    /\ entries \in Seq(PayloadEntry)
    /\ strings \in Seq(Names) /\ wire \in Seq(Meta)
    /\ status \in {"stored", "written", "failed"} /\ framed \in BOOLEAN
PayloadInv ==
    /\ PayloadTyped
    /\ framed => Library
    /\ framed /\ status = "written" => SameList

LEMMA PayloadInvInit == PayloadInit => PayloadInv
<1> SUFFICES ASSUME PayloadInit PROVE PayloadInv
  OBVIOUS
<1>1. /\ framed = FALSE /\ status \in {"stored", "written"}
  BY DEF PayloadInit, InitStored, InitWritten
<1>2. entries \in Seq(PayloadEntry) /\ strings \in Seq(Names) /\ wire \in Seq(Meta)
  <2>1. CASE InitStored
    BY <2>1, EntriesAssumption DEF InitStored
  <2>2. CASE InitWritten
    <3>1. PICK m \in Messages : strings = m.strings /\ wire = m.wire
      BY <2>2 DEF InitWritten
    <3> QED
      BY <2>2, <3>1, MessagesAssumption DEF InitWritten
  <2> QED
    BY <2>1, <2>2 DEF PayloadInit
<1> QED
  BY <1>1, <1>2 DEF PayloadInv, PayloadTyped

\* The writer makes a list whose entries are those of the attribute, or fails.
LEMMA Written ==
  ASSUME PayloadInv, SerializeMetadata
  PROVE  /\ strings' \in Seq(Names) /\ wire' \in Seq(Meta) /\ status' \in {"written", "failed"}
         /\ UNCHANGED <<entries, framed, given>>
         /\ framed => status' = "written"
         /\ status' = "written" =>
               /\ DOMAIN wire' = DOMAIN entries
               /\ \A k \in DOMAIN entries :
                     /\ wire'[k].name < Len(strings')
                     /\ strings'[wire'[k].name + 1] = entries[k].name
                     /\ wire'[k].value = RootOf(entries[k].value)
                     /\ Copied(entries[k].value) # Failed
<1> DEFINE bad == {k \in DOMAIN entries : Copied(entries[k].value) = Failed}
           filled(k) == [name |-> IndexOf(strings', entries[k].name),
                         value |-> Copied(entries[k].value)]
           stop == CHOOSE k \in bad : \A j \in bad : k <= j
<1>1. /\ strings' = Registered(strings, entries)
      /\ IF bad = {} THEN wire' = [k \in DOMAIN entries |-> filled(k)] /\ status' = "written"
                     ELSE wire' = [k \in 1 .. stop - 1 |-> filled(k)] /\ status' = "failed"
      /\ UNCHANGED <<entries, framed, given>>
  BY DEF SerializeMetadata
<1>2. /\ entries \in Seq(PayloadEntry) /\ strings \in Seq(Names)
      /\ framed => Library
  BY DEF PayloadInv, PayloadTyped
<1>3. PICK n \in Nat : DOMAIN entries = 1 .. n
  BY <1>2
<1>4. \A k \in DOMAIN entries : entries[k].name \in Names /\ entries[k].value \in Payload
  <2>1. \A k \in DOMAIN entries : entries[k] \in PayloadEntry
    BY <1>2
  <2> QED
    BY <2>1 DEF PayloadEntry
<1>5. /\ strings' \in Seq(Names)
      /\ \A k \in DOMAIN entries : \E i \in DOMAIN strings' : strings'[i] = entries[k].name
  BY <1>1, <1>2, NamesAreRegistered
<1>6. \A k \in DOMAIN entries :
         LET i == IndexOf(strings', entries[k].name)
         IN i \in Nat /\ i < Len(strings') /\ strings'[i + 1] = entries[k].name
  BY <1>5, IndexLeads
<1>7. \A k \in DOMAIN entries : k \notin bad =>
         /\ filled(k) \in Meta
         /\ filled(k).name = IndexOf(strings', entries[k].name)
         /\ filled(k).value = RootOf(entries[k].value)
  BY <1>4, <1>6, CopiedRoot DEF Meta
<1>8. framed => bad = {}
  <2> SUFFICES ASSUME framed, NEW k \in DOMAIN entries PROVE Copied(entries[k].value) # Failed
    OBVIOUS
  <2>1. PICK r \in Roots \ {Corrupt} : entries[k].value = Frame(r)
    BY <1>2 DEF Library
  <2> QED
    BY <2>1, Framed
<1>9. CASE bad = {}
  <2>1. wire' = [k \in 1 .. n |-> filled(k)] /\ status' = "written"
    BY <1>1, <1>3, <1>9
  <2>2. \A k \in 1 .. n : filled(k) \in Meta
    BY <1>3, <1>7, <1>9
  <2> HIDE DEF filled
  <2>3. wire' \in Seq(Meta) /\ DOMAIN wire' = DOMAIN entries
    BY <1>3, <2>1, <2>2
  <2>4. \A k \in DOMAIN entries : wire'[k] = filled(k)
    BY <1>3, <2>1
  <2>5. \A k \in DOMAIN entries : Copied(entries[k].value) # Failed
    BY <1>9
  <2> QED
    BY <1>1, <1>5, <1>6, <1>7, <1>9, <2>1, <2>3, <2>4, <2>5
<1>10. CASE bad # {}
  <2>1. bad \in SUBSET Nat
    BY <1>3
  <2>2. \E k \in bad : \A j \in bad : k <= j
    BY <1>10, <2>1, LeastNat
  <2>3. stop \in bad /\ \A j \in bad : stop <= j
    BY <2>2
  <2>4. wire' = [k \in 1 .. stop - 1 |-> filled(k)] /\ status' = "failed"
    BY <1>1, <1>10
  <2>5. stop \in 1 .. n
    BY <1>3, <2>3
  <2>6. \A k \in 1 .. stop - 1 : k \in DOMAIN entries /\ k \notin bad
    <3> HIDE DEF bad, stop
    <3> QED  BY <1>3, <2>3, <2>5
  <2>7. \A k \in 1 .. stop - 1 : filled(k) \in Meta
    BY <1>7, <2>6
  <2>8. stop - 1 \in Nat
    BY <2>5
  <2> HIDE DEF filled, stop, bad
  <2>9. wire' \in Seq(Meta)
    BY <2>4, <2>7, <2>8
  <2> QED
    BY <1>1, <1>5, <1>8, <1>10, <2>4, <2>9
<1> QED
  BY <1>9, <1>10

\* The reader makes an attribute whose entries are those of the list, or fails.
LEMMA ReadBack ==
  ASSUME PayloadInv, DeserializeMetadata
  PROVE  /\ UNCHANGED <<strings, wire>>
         /\ entries' \in Seq(PayloadEntry) /\ status' \in {"stored", "failed"}
         /\ framed => status' # "failed"
         /\ status' = "failed" => UNCHANGED <<entries, framed>>
         /\ status' = "stored" =>
               /\ framed' = TRUE /\ DOMAIN entries' = DOMAIN wire
               /\ \A k \in DOMAIN wire :
                     /\ entries'[k].name = strings[wire[k].name + 1]
                     /\ entries'[k].value = Frame(wire[k].value)
                     /\ entries'[k] = [name |-> strings[wire[k].name + 1],
                                       value |-> Frame(wire[k].value)]
                     /\ wire[k].value \in Roots \ {Corrupt}
<1> DEFINE read == [k \in DOMAIN wire |-> DeserializeEntry(wire[k])]
<1>1. /\ status = "written" /\ UNCHANGED <<strings, wire>>
      /\ IF \E k \in DOMAIN read : read[k] = Failed
         THEN status' = "failed" /\ UNCHANGED <<entries, framed>>
         ELSE status' = "stored" /\ entries' = read /\ framed' = TRUE
  BY DEF DeserializeMetadata
<1>2. /\ wire \in Seq(Meta) /\ strings \in Seq(Names) /\ entries \in Seq(PayloadEntry)
      /\ framed => SameList
  BY <1>1 DEF PayloadInv, PayloadTyped
<1>3. \A k \in DOMAIN wire : wire[k].name \in Nat /\ wire[k].value \in Roots
  <2>1. \A k \in DOMAIN wire : wire[k] \in Meta
    BY <1>2
  <2> QED
    BY <2>1 DEF Meta
<1>4. ASSUME NEW k \in DOMAIN wire, DeserializeEntry(wire[k]) # Failed
      PROVE  /\ wire[k].name < Len(strings) /\ wire[k].value # Corrupt
             /\ DeserializeEntry(wire[k]) = [name |-> strings[wire[k].name + 1],
                                             value |-> Frame(wire[k].value)]
             /\ DeserializeEntry(wire[k]) \in PayloadEntry
  <2>1. ~(wire[k].name >= Len(strings)) /\ Frame(wire[k].value) # Failed
        /\ DeserializeEntry(wire[k]) = [name |-> strings[wire[k].name + 1],
                                        value |-> Frame(wire[k].value)]
    BY <1>4 DEF DeserializeEntry
  <2>2. wire[k].value # Corrupt
    BY <2>1 DEF Frame
  <2>3. wire[k].name < Len(strings) /\ strings[wire[k].name + 1] \in Names
    BY <1>2, <1>3, <2>1
  <2>4. Frame(wire[k].value) \in Payload
    BY <1>3, <2>2, Framed
  <2> QED
    BY <2>1, <2>2, <2>3, <2>4 DEF PayloadEntry
<1>5. ASSUME NEW k \in DOMAIN wire, framed
      PROVE  DeserializeEntry(wire[k]) # Failed
  <2>1. wire[k].name < Len(strings) /\ wire[k].value # Corrupt
    BY <1>2, <1>5 DEF SameList
  <2>2. ~(wire[k].name >= Len(strings))
    BY <1>2, <1>3, <2>1
  <2>3. Frame(wire[k].value) \in Payload /\ Frame(wire[k].value) # Failed
    BY <1>3, <2>1, Framed
  <2>4. strings[wire[k].name + 1] \in Names
    BY <1>2, <1>3, <2>1
  <2>5. DeserializeEntry(wire[k]) \in PayloadEntry
    BY <2>2, <2>3, <2>4 DEF DeserializeEntry, PayloadEntry
  <2> QED
    BY <2>5, RootsAssumption
<1>6. CASE \E k \in DOMAIN wire : DeserializeEntry(wire[k]) = Failed
  BY <1>1, <1>2, <1>5, <1>6
<1>7. CASE \A k \in DOMAIN wire : DeserializeEntry(wire[k]) # Failed
  <2>1. status' = "stored" /\ entries' = read /\ framed' = TRUE
    BY <1>1, <1>7
  <2>2. PICK n \in Nat : DOMAIN wire = 1 .. n
    BY <1>2
  <2>3. entries' = [k \in 1 .. n |-> DeserializeEntry(wire[k])]
    BY <2>1, <2>2
  <2>4. \A k \in 1 .. n : DeserializeEntry(wire[k]) \in PayloadEntry
    BY <1>4, <1>7, <2>2
  <2>5. entries' \in Seq(PayloadEntry)
    BY <2>3, <2>4
  <2>6. \A k \in DOMAIN wire : entries'[k] = [name |-> strings[wire[k].name + 1],
                                              value |-> Frame(wire[k].value)]
    BY <1>4, <1>7, <2>2, <2>3
  <2>7. \A k \in DOMAIN wire : wire[k].value \in Roots \ {Corrupt}
    BY <1>3, <1>4, <1>7
  <2>8. DOMAIN entries' = DOMAIN wire
    BY <2>2, <2>3
  <2> QED
    BY <1>1, <2>1, <2>5, <2>6, <2>7, <2>8
<1> QED
  BY <1>6, <1>7

\* A caller stores a text: its payload is framed here.
LEMMA TextStored ==
  ASSUME PayloadInv, NEW k \in DOMAIN entries, NEW t \in Texts, StoreText(k, t)
  PROVE  PayloadInv'
<1>1. /\ status = "stored" /\ entries' = [entries EXCEPT ![k].value = Frame(Text(t))]
      /\ UNCHANGED <<strings, wire, status, framed>>
  BY DEF StoreText, SerializeText
<1>2. Text(t) \in Roots \ {Corrupt} /\ Frame(Text(t)) \in Payload
  BY TextIsRoot, Framed
<1>3. PICK f : f = Frame(Text(t))
  OBVIOUS
<1>4. entries \in Seq(PayloadEntry) /\ entries[k] \in PayloadEntry
  BY DEF PayloadInv, PayloadTyped
<1>5. [entries[k] EXCEPT !.value = f] \in PayloadEntry /\ [entries[k] EXCEPT !.value = f].value = f
  BY <1>2, <1>3, <1>4 DEF PayloadEntry
<1>6. PICK e : e = [entries[k] EXCEPT !.value = f]
  OBVIOUS
<1>7. entries' = [entries EXCEPT ![k] = e]
  BY <1>1, <1>3, <1>6
<1>8. entries' \in Seq(PayloadEntry) /\ DOMAIN entries' = DOMAIN entries
  BY <1>4, <1>5, <1>6, <1>7
<1>9. \A j \in DOMAIN entries : entries'[j] = IF j = k THEN e ELSE entries[j]
  BY <1>4, <1>7
<1>10. PayloadTyped'
  BY <1>1, <1>8 DEF PayloadInv, PayloadTyped
<1>11. framed' => Library'
  <2> SUFFICES ASSUME framed, NEW j \in DOMAIN entries
               PROVE  \E r \in Roots \ {Corrupt} : entries'[j].value = Frame(r)
    BY <1>1, <1>8 DEF Library
  <2>1. \E r \in Roots \ {Corrupt} : entries[j].value = Frame(r)
    BY DEF PayloadInv, Library
  <2>2. CASE j = k
    BY <1>2, <1>3, <1>5, <1>6, <1>9, <2>2
  <2>3. CASE j # k
    BY <1>9, <2>1, <2>3
  <2> QED
    BY <2>2, <2>3
<1> QED
  BY <1>1, <1>10, <1>11 DEF PayloadInv

\* No step breaks the invariant.
LEMMA PayloadInvNext == PayloadInv /\ [PayloadNext]_payloadVars => PayloadInv'
<1> SUFFICES ASSUME PayloadInv, [PayloadNext]_payloadVars PROVE PayloadInv'
  OBVIOUS
<1>1. CASE SerializeMetadata
  <2>1. PayloadTyped'
    BY <1>1, Written DEF PayloadInv, PayloadTyped
  <2>2. framed' => Library'
    BY <1>1, Written DEF PayloadInv, Library
  <2>3. ASSUME framed', status' = "written" PROVE SameList'
    <3>1. framed /\ Library /\ entries' = entries
      BY <1>1, <2>3, Written DEF PayloadInv
    <3>2. DOMAIN wire' = DOMAIN entries
      BY <1>1, <2>3, Written
    <3>3. ASSUME NEW k \in DOMAIN entries
          PROVE  /\ wire'[k].name < Len(strings') /\ strings'[wire'[k].name + 1] = entries[k].name
                 /\ Frame(wire'[k].value) = entries[k].value /\ wire'[k].value # Corrupt
      <4>1. PICK r \in Roots \ {Corrupt} : entries[k].value = Frame(r)
        BY <3>1 DEF Library
      <4>2. wire'[k].value = r
        BY <1>1, <2>3, <4>1, Written, Framed
      <4> QED
        BY <1>1, <2>3, <4>1, <4>2, Written
    <3> QED
      BY <3>1, <3>2, <3>3 DEF SameList
  <2> QED
    BY <2>1, <2>2, <2>3 DEF PayloadInv
<1>2. CASE DeserializeMetadata
  <2>1. PayloadTyped'
    BY <1>2, ReadBack DEF PayloadInv, PayloadTyped
  <2>2. CASE status' = "stored"
    <3>1. Library'
      BY <1>2, <2>2, ReadBack DEF Library
    <3> QED
      BY <2>1, <2>2, <3>1 DEF PayloadInv
  <2>3. CASE status' = "failed"
    <3>1. UNCHANGED <<entries, framed>>
      BY <1>2, <2>3, ReadBack
    <3> QED
      BY <2>1, <2>3, <3>1 DEF PayloadInv, Library
  <2> QED
    BY <1>2, <2>2, <2>3, ReadBack
<1>3. CASE \E k \in DOMAIN entries, t \in Texts : StoreText(k, t)
  BY <1>3, TextStored
<1>4. CASE UNCHANGED payloadVars
  BY <1>4 DEF payloadVars, PayloadInv, PayloadTyped, Library, SameList
<1> QED
  BY <1>1, <1>2, <1>3, <1>4 DEF PayloadNext

\* For every table, list and message: a list has the names and roots it had before it was written
\* or read, entry for entry.
THEOREM MeaningIsKept == PayloadSpec => MeaningKept
<1>1. PayloadInv /\ [PayloadNext]_payloadVars =>
        [/\ status = "stored" /\ status' = "written" =>
              MeaningOfWire(strings', wire') = MeaningOfEntries(entries)
         /\ status = "written" /\ status' = "stored" =>
              MeaningOfEntries(entries') = MeaningOfWire(strings, wire)]_payloadVars
  <2> SUFFICES ASSUME PayloadInv, [PayloadNext]_payloadVars
               PROVE  /\ status = "stored" /\ status' = "written" =>
                            MeaningOfWire(strings', wire') = MeaningOfEntries(entries)
                      /\ status = "written" /\ status' = "stored" =>
                            MeaningOfEntries(entries') = MeaningOfWire(strings, wire)
    OBVIOUS
  <2>1. ASSUME status = "stored", status' = "written"
        PROVE  MeaningOfWire(strings', wire') = MeaningOfEntries(entries)
    <3>1. SerializeMetadata
      BY <2>1 DEF PayloadNext, DeserializeMetadata, StoreText, payloadVars
    <3>2. /\ DOMAIN wire' = DOMAIN entries
          /\ \A k \in DOMAIN entries : /\ strings'[wire'[k].name + 1] = entries[k].name
                                       /\ wire'[k].value = RootOf(entries[k].value)
      BY <2>1, <3>1, Written
    <3> QED
      BY <3>2 DEF MeaningOfWire, MeaningOfEntries
  <2>2. ASSUME status = "written", status' = "stored"
        PROVE  MeaningOfEntries(entries') = MeaningOfWire(strings, wire)
    <3>1. DeserializeMetadata
      BY <2>2 DEF PayloadNext, SerializeMetadata, StoreText, payloadVars
    <3>2. /\ DOMAIN entries' = DOMAIN wire
          /\ \A k \in DOMAIN wire : /\ entries'[k].name = strings[wire[k].name + 1]
                                    /\ RootOf(entries'[k].value) = wire[k].value
      BY <2>2, <3>1, ReadBack, Framed
    <3> QED
      BY <3>2 DEF MeaningOfWire, MeaningOfEntries
  <2> QED
    BY <2>1, <2>2
<1> QED
  BY <1>1, PayloadInvInit, PayloadInvNext, PTL DEF PayloadSpec, MeaningKept

\* What this library has framed is neither refused nor changed by any later trip.
THEOREM PayloadsDoSettle == PayloadSpec => PayloadsSettle
<1>1. PayloadInv /\ [PayloadNext]_payloadVars =>
        [framed => /\ status' # "failed"
                   /\ status = "written" => entries' = entries]_payloadVars
  <2> SUFFICES ASSUME PayloadInv, PayloadNext, framed
               PROVE  status' # "failed" /\ (status = "written" => entries' = entries)
    OBVIOUS
  <2>1. CASE SerializeMetadata
    BY <2>1, Written DEF SerializeMetadata
  <2>2. CASE DeserializeMetadata
    <3>1. SameList /\ entries \in Seq(PayloadEntry)
      BY <2>2 DEF PayloadInv, PayloadTyped, DeserializeMetadata
    <3>2. /\ status' = "stored" /\ DOMAIN entries' = DOMAIN entries /\ entries' \in Seq(PayloadEntry)
          /\ \A k \in DOMAIN entries : entries'[k].name = entries[k].name
                                       /\ entries'[k].value = entries[k].value
      BY <2>2, <3>1, ReadBack DEF SameList
    <3>3. ASSUME NEW k \in DOMAIN entries PROVE entries'[k] = entries[k]
      <4>1. entries[k] \in PayloadEntry /\ entries'[k] \in PayloadEntry
        BY <3>1, <3>2
      <4> QED
        BY <3>2, <4>1 DEF PayloadEntry
    <3> QED
      BY <3>1, <3>2, <3>3
  <2>3. CASE \E k \in DOMAIN entries, t \in Texts : StoreText(k, t)
    BY <2>3 DEF StoreText
  <2> QED
    BY <2>1, <2>2, <2>3 DEF PayloadNext
<1> QED
  BY <1>1, PayloadInvInit, PayloadInvNext, PTL DEF PayloadSpec, PayloadsSettle

\* The text given last is in the entry, framed here, and in the message once that is written.
Holds(k, t) ==
    /\ k \in DOMAIN entries
    /\ given[k] = <<entries[k].name, t>> /\ entries[k].value = Frame(Text(t))
    /\ status = "written" =>
          /\ k \in DOMAIN wire /\ wire[k].name < Len(strings)
          /\ strings[wire[k].name + 1] = entries[k].name /\ wire[k].value = Text(t)
GivenInv ==
    /\ given \in Seq({<<>>} \cup Names \X Texts)
    /\ status = "stored" => DOMAIN given = DOMAIN entries
    /\ status = "written" => DOMAIN given = DOMAIN wire
    /\ \A k \in DOMAIN given : given[k] # <<>> => \E t \in Texts : Holds(k, t)

LEMMA GivenInvInit == PayloadInit => GivenInv
<1> SUFFICES ASSUME PayloadInit PROVE GivenInv
  OBVIOUS
<1>1. PICK list : /\ list = entries \/ list = wire
                  /\ given = [k \in DOMAIN list |-> <<>>]
                  /\ status = "stored" => list = entries
                  /\ status = "written" => list = wire
                  /\ list \in Seq(PayloadEntry) \/ list \in Seq(Meta)
  BY PayloadInvInit DEF PayloadInit, InitStored, InitWritten, PayloadInv, PayloadTyped
<1>2. PICK n \in Nat : DOMAIN list = 1 .. n
  BY <1>1
<1>3. given = [k \in 1 .. n |-> <<>>]
  BY <1>1, <1>2
<1>4. given \in Seq({<<>>} \cup Names \X Texts) /\ DOMAIN given = 1 .. n
      /\ \A k \in DOMAIN given : given[k] = <<>>
  BY <1>3
<1> QED
  BY <1>1, <1>2, <1>4 DEF GivenInv

\* The writer puts the text in the message.
LEMMA GivenWritten ==
  ASSUME PayloadInv, GivenInv, SerializeMetadata
  PROVE  GivenInv'
<1>1. /\ given' = given /\ entries' = entries /\ status = "stored"
      /\ status' \in {"written", "failed"}
      /\ status' = "written" =>
            /\ DOMAIN wire' = DOMAIN entries
            /\ \A k \in DOMAIN entries : /\ wire'[k].name < Len(strings')
                                         /\ strings'[wire'[k].name + 1] = entries[k].name
                                         /\ wire'[k].value = RootOf(entries[k].value)
  BY Written DEF SerializeMetadata
<1>2. ASSUME NEW k \in DOMAIN given, given[k] # <<>>
      PROVE  \E t \in Texts : Holds(k, t)'
  <2>1. PICK t \in Texts : Holds(k, t)
    BY <1>2 DEF GivenInv
  <2>2. k \in DOMAIN entries /\ given[k] = <<entries[k].name, t>> /\ entries[k].value = Frame(Text(t))
    BY <2>1 DEF Holds
  <2>3. RootOf(Frame(Text(t))) = Text(t)
    BY TextIsRoot, Framed
  <2>4. Holds(k, t)'
    BY <1>1, <2>2, <2>3 DEF Holds
  <2> QED
    BY <2>4
<1> QED
  BY <1>1, <1>2 DEF GivenInv

\* The reader finds it there.
LEMMA GivenRead ==
  ASSUME PayloadInv, GivenInv, DeserializeMetadata
  PROVE  GivenInv'
<1>1. /\ given' = given /\ status = "written" /\ status' \in {"stored", "failed"}
      /\ status' = "failed" => entries' = entries
      /\ status' = "stored" =>
            /\ DOMAIN entries' = DOMAIN wire
            /\ \A k \in DOMAIN wire : /\ entries'[k].name = strings[wire[k].name + 1]
                                      /\ entries'[k].value = Frame(wire[k].value)
  BY ReadBack DEF DeserializeMetadata
<1>2. ASSUME NEW k \in DOMAIN given, given[k] # <<>>
      PROVE  \E t \in Texts : Holds(k, t)'
  <2>1. PICK t \in Texts : Holds(k, t)
    BY <1>2 DEF GivenInv
  <2>2. /\ k \in DOMAIN entries /\ given[k] = <<entries[k].name, t>>
        /\ entries[k].value = Frame(Text(t))
        /\ k \in DOMAIN wire /\ strings[wire[k].name + 1] = entries[k].name
        /\ wire[k].value = Text(t)
    BY <1>1, <2>1 DEF Holds
  <2>3. k \in DOMAIN entries' /\ entries'[k].name = entries[k].name
        /\ entries'[k].value = Frame(Text(t))
    BY <1>1, <2>2
  <2>4. Holds(k, t)'
    BY <1>1, <2>2, <2>3 DEF Holds
  <2> QED
    BY <2>4
<1> QED
  BY <1>1, <1>2 DEF GivenInv

\* A text that is stored is the text of its entry, and the others are what they were.
LEMMA GivenStored ==
  ASSUME PayloadInv, GivenInv, NEW k \in DOMAIN entries, NEW t \in Texts, StoreText(k, t)
  PROVE  GivenInv'
<1>1. /\ status = "stored" /\ status' = status
      /\ entries' = [entries EXCEPT ![k].value = Frame(Text(t))]
      /\ given' = [given EXCEPT ![k] = <<entries[k].name, t>>]
  BY DEF StoreText, SerializeText
<1>2. entries \in Seq(PayloadEntry) /\ entries[k] \in PayloadEntry
  BY DEF PayloadInv, PayloadTyped
<1>3. PICK f : f = Frame(Text(t))
  OBVIOUS
<1>4. PICK e : e = [entries[k] EXCEPT !.value = f]
  OBVIOUS
<1>5. e.name = entries[k].name /\ e.value = f /\ entries[k].name \in Names
  BY <1>2, <1>4 DEF PayloadEntry
<1>6. entries' = [entries EXCEPT ![k] = e]
  BY <1>1, <1>3, <1>4
<1>7. /\ DOMAIN entries' = DOMAIN entries
      /\ \A j \in DOMAIN entries : entries'[j] = IF j = k THEN e ELSE entries[j]
  BY <1>2, <1>6
<1>8. PICK g : g = <<entries[k].name, t>>
  OBVIOUS
<1>9. g \in Names \X Texts
  BY <1>5, <1>8
<1>10. given \in Seq({<<>>} \cup Names \X Texts) /\ DOMAIN given = DOMAIN entries
  BY <1>1 DEF GivenInv
<1>11. /\ given' \in Seq({<<>>} \cup Names \X Texts) /\ DOMAIN given' = DOMAIN given
       /\ \A j \in DOMAIN given : given'[j] = IF j = k THEN g ELSE given[j]
  <2>1. given' = [given EXCEPT ![k] = g]
    BY <1>1, <1>8
  <2> QED
    BY <1>9, <1>10, <2>1
<1>12. ASSUME NEW j \in DOMAIN given, given'[j] # <<>>
       PROVE  \E u \in Texts : Holds(j, u)'
  <2>1. CASE j = k
    <3>1. entries'[j] = e /\ given'[j] = g /\ j \in DOMAIN entries'
      BY <1>7, <1>10, <1>11, <2>1
    <3>2. Holds(j, t)'
      BY <1>1, <1>3, <1>5, <1>8, <2>1, <3>1 DEF Holds
    <3> QED
      BY <3>2
  <2>2. CASE j # k
    <3>1. entries'[j] = entries[j] /\ given'[j] = given[j]
      BY <1>7, <1>10, <1>11, <2>2
    <3>2. PICK u \in Texts : Holds(j, u)
      BY <1>12, <3>1 DEF GivenInv
    <3>3. Holds(j, u)'
      BY <1>1, <1>7, <3>1, <3>2 DEF Holds
    <3> QED
      BY <3>3
  <2> QED
    BY <2>1, <2>2
<1> QED
  BY <1>1, <1>7, <1>10, <1>11, <1>12 DEF GivenInv

LEMMA GivenInvNext == PayloadInv /\ GivenInv /\ [PayloadNext]_payloadVars => GivenInv'
<1>1. ASSUME GivenInv, UNCHANGED payloadVars PROVE GivenInv'
  BY <1>1 DEF payloadVars, GivenInv, Holds
<1> QED
  BY <1>1, GivenWritten, GivenRead, GivenStored DEF PayloadNext

\* For any list, with any payloads and any names, and any number of trips: the text stored last in
\* an entry is what a reader of text gets from it, under its name.
THEOREM TextIsKept == PayloadSpec => []TextKept
<1>1. GivenInv => TextKept
  <2> SUFFICES ASSUME GivenInv, NEW k \in DOMAIN given, given[k] # <<>>
               PROVE  given[k] = <<entries[k].name, DeserializeText(entries[k].value)>>
    BY DEF TextKept
  <2>1. PICK t \in Texts : Holds(k, t)
    BY DEF GivenInv
  <2>2. RootOf(Frame(Text(t))) = Text(t)
    BY TextIsRoot, Framed
  <2>3. Text(t) # NoRoot /\ Text(t) \in {Text(u) : u \in Texts} /\ Text(t)[2] = t
    BY DEF Text, NoRoot
  <2>4. DeserializeText(Frame(Text(t))) = t
    BY <2>2, <2>3 DEF DeserializeText
  <2> QED
    BY <2>1, <2>4 DEF Holds
<1> QED
  BY <1>1, PayloadInvInit, PayloadInvNext, GivenInvInit, GivenInvNext, PTL DEF PayloadSpec

----------------------------------------------------------------------------
(* Arrays of lists.                                                        *)

\* What a caller of a getter gets: no metadata is the empty list.
Slot(array, j, size) == AsArray(Checked(GetElement(GetArray(array), j, size)))

\* No list is one of the atoms, nor is any other array.
LEMMA Atoms ==
  /\ Null # Scalar /\ Null # Failure /\ Scalar # Failure
  /\ \A x \in List \cup Row \cup Table : x # Null /\ x # Scalar /\ x # Failure
  /\ <<>> \in List /\ <<>> \in Row /\ <<>> \in Table
  /\ <<>> # Null /\ <<>> # Failure /\ <<>> # Scalar
<1>1. <<>> \in List /\ <<>> \in Row /\ <<>> \in Table
  BY DEF List, Row, Table
<1> QED
  BY <1>1, AtomsAssumption

\* Replacing an element makes an array of the right size, with the element in its place and the
\* others as they were.
LEMMA ElementReplaced ==
  ASSUME NEW E, <<>> \in E, NEW array \in Seq(E) \cup {Null}, array # Failure,
         NEW size \in Nat, NEW index \in 1 .. size, SizeFits(array, size),
         NEW element \in E, element # Failure, Null \notin Seq(E)
  PROVE  LET new == ReplaceElement(array, index, size, element)
         IN /\ new \in Seq(E) /\ Len(new) = size /\ ~Missing(new)
            /\ new[index] = element
            /\ \A j \in 1 .. size :
                  j # index => new[j] = IF Missing(array) THEN <<>> ELSE array[j]
<1> DEFINE old == IF Missing(array) THEN [k \in 1 .. size |-> <<>>] ELSE array
           new == ReplaceElement(array, index, size, element)
<1>1. old \in Seq(E) /\ Len(old) = size
      /\ \A j \in 1 .. size : old[j] = IF Missing(array) THEN <<>> ELSE array[j]
  <2>1. CASE Missing(array)
    BY <2>1
  <2>2. CASE ~Missing(array)
    BY <2>2 DEF SizeFits, Missing
  <2> QED
    BY <2>1, <2>2
<1>2. new = [old EXCEPT ![index] = element]
  BY DEF ReplaceElement
<1> HIDE DEF old
<1>3. new \in Seq(E) /\ Len(new) = size /\ new[index] = element
      /\ \A j \in 1 .. size : j # index => new[j] = old[j]
  BY <1>1, <1>2
<1>4. new # <<>> /\ new # Null
  BY <1>3
<1> QED
  BY <1>1, <1>3, <1>4 DEF Missing

\* The metadata callers pass.
LEMMA Passed ==
  ASSUME NEW m, m = Null \/ m \in List
  PROVE  /\ AsArray(m) \in List /\ m # Failure
         /\ Missing(m) => AsArray(m) = <<>>
         /\ CheckMetadata(m) <=> \A k \in 1 .. Len(AsArray(m)) : AsArray(m)[k] \in Dicts
         /\ CheckMetadata(m) => Checked(AsArray(m)) = AsArray(m)
<1>1. CASE m = Null
  BY <1>1, Atoms DEF AsArray, Missing, CheckMetadata, Checked
<1>2. CASE m \in List
  BY <1>2, Atoms DEF AsArray, Missing, CheckMetadata, Checked
<1> QED
  BY <1>1, <1>2

\* Replacing one list in an array of lists.
LEMMA ListReplaced ==
  ASSUME NEW array \in Row \cup {Null}, NEW n \in Nat, NEW i \in 1 .. n, SizeFits(array, n),
         NEW m, m = Null \/ m \in List, CheckMetadata(m),
         NEW value, value = ReplaceElement(array, i, n, AsArray(m))
  PROVE  /\ value \in Row /\ value # Failure /\ value # Scalar /\ ~Missing(value)
         /\ Len(value) = n /\ SizeFits(value, n)
         /\ Slot(value, i, n) = AsArray(m)
         /\ \A j \in 1 .. n : j # i => Slot(value, j, n) = Slot(array, j, n)
<1> DEFINE E == List \cup {Scalar}
<1>1. AsArray(m) \in List /\ AsArray(m) # Failure /\ AsArray(m) # Scalar
  BY Passed, Atoms
<1>2. GetArray(array) = array /\ array # Failure
  BY Atoms DEF GetArray
<1>3. array \in Seq(E) \cup {Null} /\ <<>> \in E /\ Null \notin Seq(E) /\ Failure \notin Seq(E)
      /\ Scalar \notin Seq(E) /\ AsArray(m) \in E
  BY <1>1, Atoms DEF Row
<1> HIDE DEF E
<1>4. /\ value \in Seq(E) /\ Len(value) = n /\ ~Missing(value) /\ value[i] = AsArray(m)
      /\ \A j \in 1 .. n : j # i => value[j] = IF Missing(array) THEN <<>> ELSE array[j]
  BY <1>1, <1>2, <1>3, ElementReplaced
<1>5. value \in Row /\ value # Failure /\ value # Scalar /\ SizeFits(value, n)
  BY <1>3, <1>4 DEF E, Row, SizeFits
<1>6. \A j \in 1 .. n : Slot(value, j, n) = AsArray(Checked(GetArray(value[j])))
  BY <1>4, <1>5 DEF Slot, GetArray, GetElement
<1>7. Slot(value, i, n) = AsArray(m)
  <2>1. GetArray(value[i]) = AsArray(m)
    BY <1>1, <1>4 DEF GetArray
  <2>2. Checked(AsArray(m)) = AsArray(m)
    BY Passed
  <2> QED
    BY <1>1, <1>6, <2>1, <2>2, Atoms DEF AsArray
<1>8. ASSUME NEW j \in 1 .. n, j # i PROVE Slot(value, j, n) = Slot(array, j, n)
  <2>1. CASE Missing(array)
    <3>1. value[j] = <<>>
      BY <1>4, <1>8, <2>1
    <3>2. Slot(value, j, n) = <<>>
      BY <1>6, <3>1, Atoms DEF GetArray, Checked, CheckMetadata, AsArray
    <3>3. Slot(array, j, n) = <<>>
      BY <1>2, <2>1, Atoms DEF Slot, GetElement, Checked, CheckMetadata, AsArray
    <3> QED
      BY <3>2, <3>3
  <2>2. CASE ~Missing(array)
    <3>1. value[j] = array[j] /\ Len(array) = n
      BY <1>4, <1>8, <2>2 DEF SizeFits
    <3>2. Slot(array, j, n) = AsArray(Checked(GetArray(array[j])))
      BY <1>2, <2>2, <3>1 DEF Slot, GetElement
    <3> QED
      BY <1>6, <3>1, <3>2
  <2> QED
    BY <2>1, <2>2
<1> QED
  BY <1>4, <1>5, <1>7, <1>8

\* The setters of results and regions: a failure is one of the metadata or of a slot that cannot
\* be read; otherwise the slot has the metadata and the other slots are what they were.
LEMMA SlotReplaced ==
  ASSUME NEW array \in Row \cup {Null, Scalar}, NEW n \in Nat, NEW i \in 1 .. n,
         NEW m, m = Null \/ m \in List,
         NEW value, value = Replaced(array, m, ReplaceElement(GetArray(array), i, n, AsArray(m)))
  PROVE  /\ value = Failure => ~CheckMetadata(m) \/ Slot(array, i, n) = Failure
         /\ value # Failure =>
               /\ CheckMetadata(m) /\ array # Scalar /\ SizeFits(array, n)
               /\ value \in Row \cup {Null} /\ SizeFits(value, n)
               /\ Slot(value, i, n) = AsArray(m)
               /\ \A j \in 1 .. n : j # i => Slot(value, j, n) = Slot(array, j, n)
<1>1. AsArray(m) \in List /\ AsArray(m) # Failure /\ AsArray(m) # Scalar
  BY Passed, Atoms
<1>2. CASE ~CheckMetadata(m)
  BY <1>2 DEF Replaced
<1>3. CASE CheckMetadata(m) /\ Missing(m) /\ array = Null
  <2>1. value = array /\ array # Failure /\ array # Scalar /\ SizeFits(array, n)
    BY <1>3, Atoms DEF Replaced, SizeFits, Missing
  <2>2. Slot(array, i, n) = <<>> /\ AsArray(m) = <<>>
    BY <1>3, Passed, Atoms DEF Slot, GetArray, GetElement, Missing, Checked, CheckMetadata, AsArray
  <2> QED
    BY <1>3, <2>1, <2>2
<1>4. CASE CheckMetadata(m) /\ ~(Missing(m) /\ array = Null)
  <2>1. value = ReplaceElement(GetArray(array), i, n, AsArray(m))
    BY <1>4 DEF Replaced
  <2>2. CASE array = Scalar
    <3>1. GetArray(array) = Failure
      BY <2>2 DEF GetArray
    <3>2. Slot(array, i, n) = Failure /\ value = Failure
      BY <2>1, <3>1, Atoms DEF ReplaceElement, Slot, GetElement, Checked, AsArray
    <3> QED
      BY <3>2
  <2>3. CASE array # Scalar /\ ~SizeFits(array, n)
    <3>1. GetArray(array) = array /\ array # Failure /\ ~Missing(array) /\ Len(array) # n
      BY <2>3, Atoms DEF GetArray, SizeFits
    <3>2. Slot(array, i, n) = Failure /\ value = Failure
      BY <2>1, <2>3, <3>1, Atoms DEF ReplaceElement, Slot, GetElement, Checked, AsArray
    <3> QED
      BY <3>2
  <2>4. CASE array # Scalar /\ SizeFits(array, n)
    <3>1. array \in Row \cup {Null} /\ GetArray(array) = array
      BY <2>4 DEF GetArray
    <3> QED
      BY <1>4, <2>1, <2>4, <3>1, ListReplaced
  <2> QED
    BY <2>2, <2>3, <2>4
<1> QED
  BY <1>2, <1>3, <1>4

\* The same for the lists of block arguments, in the rows of a table.
RowOf(table, r, n) == GetElement(GetArray(table), r, n)
Cell(table, r, n, i, k) == AsArray(Checked(GetElement(RowOf(table, r, n), i, k)))
RowFits(table, r, n, k) ==
    LET row == GetElement(table, r, n) IN row # Failure /\ SizeFits(row, k)

\* The row of a region, if there is one that can be read.
LEMMA RowRead ==
  ASSUME NEW table \in Table \cup {Null}, NEW n \in Nat, NEW r \in 1 .. n, SizeFits(table, n)
  PROVE  /\ RowOf(table, r, n) = IF Missing(table) THEN Null ELSE GetArray(table[r])
         /\ RowOf(table, r, n) = GetElement(table, r, n)
         /\ RowOf(table, r, n) \in Row \cup {Null, Failure}
<1>1. GetArray(table) = table /\ table # Failure
  BY Atoms DEF GetArray
<1>2. CASE Missing(table)
  BY <1>1, <1>2 DEF RowOf, GetElement
<1>3. CASE ~Missing(table)
  <2>1. table \in Table /\ Len(table) = n
    BY <1>3 DEF Missing, SizeFits
  <2>2. table[r] \in Row \cup {Scalar}
    BY <2>1 DEF Table
  <2>3. GetArray(table[r]) \in Row \cup {Failure}
    BY <2>2 DEF GetArray
  <2> QED
    BY <1>1, <1>3, <2>1, <2>3 DEF RowOf, GetElement
<1> QED
  BY <1>2, <1>3

\* A row that was read is an array of lists.
LEMMA CellIsSlot ==
  ASSUME NEW table, NEW r, NEW n, NEW i, NEW k, RowOf(table, r, n) \in Row \cup {Null}
  PROVE  Cell(table, r, n, i, k) = Slot(RowOf(table, r, n), i, k)
<1>1. GetArray(RowOf(table, r, n)) = RowOf(table, r, n)
  BY Atoms DEF GetArray
<1> QED
  BY <1>1 DEF Cell, Slot

LEMMA CellReplaced ==
  ASSUME NEW table \in Table \cup {Null, Scalar}, NEW n \in Nat, NEW sizes \in [1 .. n -> Nat],
         NEW r \in 1 .. n, NEW i \in 1 .. sizes[r], NEW m, m = Null \/ m \in List,
         NEW updated,
         updated = ReplaceElement(RowOf(table, r, n), i, sizes[r], AsArray(m)),
         NEW value, value = Replaced(table, m, ReplaceElement(GetArray(table), r, n, updated))
  PROVE  /\ value = Failure => ~CheckMetadata(m) \/ Cell(table, r, n, i, sizes[r]) = Failure
         /\ value # Failure =>
               /\ CheckMetadata(m) /\ table # Scalar /\ SizeFits(table, n)
               /\ value \in Table \cup {Null} /\ SizeFits(value, n)
               /\ Cell(value, r, n, i, sizes[r]) = AsArray(m)
               /\ \A q \in 1 .. n : \A j \in 1 .. sizes[q] :
                     q # r \/ j # i => Cell(value, q, n, j, sizes[q]) = Cell(table, q, n, j, sizes[q])
               /\ \A q \in 1 .. n : RowFits(value, q, n, sizes[q]) <=> RowFits(table, q, n, sizes[q])
<1> DEFINE row == RowOf(table, r, n)
           size == sizes[r]
<1>1. size \in Nat /\ AsArray(m) \in List /\ AsArray(m) # Failure
  BY Passed, Atoms
<1>2. CASE ~CheckMetadata(m)
  BY <1>2 DEF Replaced
<1>3. CASE CheckMetadata(m) /\ Missing(m) /\ table = Null
  <2>1. value = table /\ table # Failure /\ table # Scalar /\ SizeFits(table, n)
    BY <1>3, Atoms DEF Replaced, SizeFits, Missing
  <2>2. row = Null /\ AsArray(m) = <<>>
    BY <1>3, Passed, Atoms DEF RowOf, GetArray, GetElement, Missing
  <2>3. Cell(table, r, n, i, size) = <<>>
    BY <2>2, Atoms DEF Cell, GetElement, Missing, Checked, CheckMetadata, AsArray
  <2> QED
    BY <1>3, <2>1, <2>2, <2>3
<1>4. CASE CheckMetadata(m) /\ ~(Missing(m) /\ table = Null)
  <2>1. value = ReplaceElement(GetArray(table), r, n, updated)
    BY <1>4 DEF Replaced
  <2>2. ASSUME row = Failure PROVE Cell(table, r, n, i, size) = Failure /\ value = Failure
    <3>1. updated = Failure
      BY <2>2 DEF ReplaceElement
    <3> QED
      BY <2>1, <2>2, <3>1, Atoms DEF ReplaceElement, Cell, GetElement, Checked, AsArray
  <2>3. CASE table = Scalar
    <3>1. row = Failure
      BY <2>3 DEF RowOf, GetArray, GetElement
    <3> QED
      BY <2>2, <3>1
  <2>4. CASE table # Scalar /\ ~SizeFits(table, n)
    <3>1. row = Failure
      BY <2>4, Atoms DEF RowOf, GetArray, GetElement, SizeFits
    <3> QED
      BY <2>2, <3>1
  <2>5. CASE table # Scalar /\ SizeFits(table, n) /\ row # Failure /\ ~SizeFits(row, size)
    <3>1. updated = Failure
      BY <2>5 DEF ReplaceElement
    <3>2. ~Missing(row) /\ Len(row) # size
      BY <2>5 DEF SizeFits
    <3>3. Cell(table, r, n, i, size) = Failure /\ value = Failure
      BY <2>1, <2>5, <3>1, <3>2, Atoms DEF ReplaceElement, Cell, GetElement, Checked, AsArray
    <3> QED
      BY <3>3
  <2>6. CASE table # Scalar /\ SizeFits(table, n) /\ row # Failure /\ SizeFits(row, size)
    <3> DEFINE E == Row \cup {Scalar}
    <3>1. table \in Table \cup {Null} /\ GetArray(table) = table /\ table # Failure
      BY <2>6, Atoms DEF GetArray
    <3>2. row \in Row \cup {Null}
      BY <2>6, <3>1, RowRead
    <3>3. /\ updated \in Row /\ updated # Failure /\ updated # Scalar /\ ~Missing(updated)
          /\ Len(updated) = size /\ SizeFits(updated, size)
          /\ Slot(updated, i, size) = AsArray(m)
          /\ \A j \in 1 .. size : j # i => Slot(updated, j, size) = Slot(row, j, size)
      BY <1>1, <1>4, <2>6, <3>2, ListReplaced
    <3>4. table \in Seq(E) \cup {Null} /\ <<>> \in E /\ Null \notin Seq(E) /\ Failure \notin Seq(E)
          /\ Scalar \notin Seq(E) /\ updated \in E
      BY <3>1, <3>3, Atoms DEF Table
    <3> HIDE DEF E
    <3>5. /\ value \in Seq(E) /\ Len(value) = n /\ ~Missing(value) /\ value[r] = updated
          /\ \A q \in 1 .. n : q # r => value[q] = IF Missing(table) THEN <<>> ELSE table[q]
      BY <2>1, <2>6, <3>1, <3>3, <3>4, ElementReplaced
    <3>6. value \in Table /\ value # Failure /\ value # Scalar /\ SizeFits(value, n)
      BY <3>4, <3>5 DEF E, Table, SizeFits
    <3>7. \A q \in 1 .. n : RowOf(value, q, n) = GetArray(value[q])
      BY <3>5, <3>6, RowRead
    <3>8. RowOf(value, r, n) = updated
      BY <3>3, <3>5, <3>7 DEF GetArray
    <3>9. ASSUME NEW q \in 1 .. n, q # r
          PROVE  \/ RowOf(value, q, n) = RowOf(table, q, n)
                 \/ RowOf(value, q, n) = <<>> /\ RowOf(table, q, n) = Null
      <4>1. RowOf(table, q, n) = IF Missing(table) THEN Null ELSE GetArray(table[q])
        BY <2>6, <3>1, RowRead
      <4> QED
        BY <3>5, <3>7, <3>9, <4>1, Atoms DEF GetArray
    <3>10. Cell(value, r, n, i, size) = AsArray(m)
      BY <3>3, <3>8, CellIsSlot
    <3>11. ASSUME NEW q \in 1 .. n, NEW j \in 1 .. sizes[q], q # r \/ j # i
           PROVE  Cell(value, q, n, j, sizes[q]) = Cell(table, q, n, j, sizes[q])
      <4>1. CASE q = r
        BY <3>2, <3>3, <3>8, <3>11, <4>1, CellIsSlot
      <4>2. CASE q # r
        <5>1. GetElement(<<>>, j, sizes[q]) = Null /\ GetElement(Null, j, sizes[q]) = Null
          BY Atoms DEF GetElement, Missing
        <5> QED
          BY <3>9, <4>2, <5>1 DEF Cell
      <4> QED
        BY <4>1, <4>2
    <3>12. ASSUME NEW q \in 1 .. n
           PROVE  RowFits(value, q, n, sizes[q]) <=> RowFits(table, q, n, sizes[q])
      <4>1. /\ GetElement(value, q, n) = RowOf(value, q, n)
            /\ GetElement(table, q, n) = RowOf(table, q, n)
        BY <2>6, <3>1, <3>6, RowRead
      <4>2. CASE q = r
        BY <2>6, <3>3, <3>8, <4>1, <4>2 DEF RowFits
      <4>3. CASE q # r
        <5>1. SizeFits(<<>>, sizes[q]) /\ SizeFits(Null, sizes[q])
          BY DEF SizeFits, Missing
        <5> QED
          BY <3>9, <4>1, <4>3, <5>1, Atoms DEF RowFits
      <4> QED
        BY <4>2, <4>3
    <3> QED
      BY <1>4, <2>6, <3>6, <3>10, <3>11, <3>12
  <2> QED
    BY <2>2, <2>3, <2>4, <2>5, <2>6
<1> QED
  BY <1>2, <1>3, <1>4

----------------------------------------------------------------------------
(* The storage of an operation.                                            *)

\* The last call was one a caller can make.
CallTyped == called = NoCall \/ called \in Owners(shape) \X List

\* A function keeps the metadata of its arguments with them, and nothing else has such arguments.
StorageInv ==
    /\ shape \in Shape /\ attrs \in Storage /\ failed \in BOOLEAN
    /\ shape.func => /\ shape.results = 0 /\ Len(shape.regions) = 1
                     /\ Len(attrs.args) = shape.regions[1]
    /\ ~shape.func => attrs.args = <<>>

LEMMA ShapeTyped ==
  ASSUME StorageInv
  PROVE  /\ shape.results \in Nat /\ shape.func \in BOOLEAN /\ Len(shape.regions) \in Nat
         /\ shape.regions \in [1 .. Len(shape.regions) -> Nat]
         /\ attrs.own \in List \cup {Null, Scalar} /\ attrs.results \in Row \cup {Null, Scalar}
         /\ attrs.regions \in Row \cup {Null, Scalar}
         /\ attrs.arguments \in Table \cup {Null, Scalar}
         /\ attrs.args \in Seq(List \cup {Null, Scalar})
<1>1. shape \in Shape /\ attrs \in Storage
  BY DEF StorageInv
<1>2. shape.regions \in Seq(Nat)
  BY <1>1 DEF Shape
<1>3. shape.regions \in [1 .. Len(shape.regions) -> Nat] /\ Len(shape.regions) \in Nat
  BY <1>2
<1> QED
  BY <1>1, <1>3 DEF Shape, Storage

\* The owners, by kind.
LEMMA OwnerKinds ==
  ASSUME NEW s
  PROVE  /\ <<"operation">> \in Owners(s)
         /\ \A i \in 1 .. s.results : <<"result", i>> \in Owners(s)
         /\ \A r \in 1 .. Len(s.regions) : <<"region", r>> \in Owners(s)
         /\ \A r \in 1 .. Len(s.regions) : \A i \in 1 .. s.regions[r] :
               <<"argument", r, i>> \in Owners(s)
         /\ \A o \in Owners(s) :
               \/ o = <<"operation">>
               \/ \E i \in 1 .. s.results : o = <<"result", i>>
               \/ \E r \in 1 .. Len(s.regions) : o = <<"region", r>>
               \/ \E r \in 1 .. Len(s.regions) : \E i \in 1 .. s.regions[r] :
                     o = <<"argument", r, i>>
BY DEF Owners, ResultOwners, RegionOwners, ArgumentOwners

\* What the getter of each kind gives.
LEMMA Gets ==
  ASSUME NEW s, NEW a
  PROVE  /\ Get(s, a, <<"operation">>) = GetOperation(s, a)
         /\ \A i : AsArray(Get(s, a, <<"result", i>>)) = Slot(a.results, i, s.results)
         /\ \A r : AsArray(Get(s, a, <<"region", r>>)) = Slot(a.regions, r, Len(s.regions))
         /\ \A r, i : AsArray(Get(s, a, <<"argument", r, i>>)) =
               IF s.func THEN AsArray(Checked(GetArray(a.args[i])))
               ELSE Cell(a.arguments, r, Len(s.regions), i, s.regions[r])
<1>1. Get(s, a, <<"operation">>) = GetOperation(s, a)
  BY DEF Get
<1>2. ASSUME NEW i PROVE AsArray(Get(s, a, <<"result", i>>)) = Slot(a.results, i, s.results)
  <2>1. Get(s, a, <<"result", i>>) = GetResult(s, a, i)
    BY DEF Get
  <2> QED
    BY <2>1 DEF GetResult, Slot
<1>3. ASSUME NEW r PROVE AsArray(Get(s, a, <<"region", r>>)) = Slot(a.regions, r, Len(s.regions))
  <2>1. Get(s, a, <<"region", r>>) = GetRegion(s, a, r)
    BY DEF Get
  <2> QED
    BY <2>1 DEF GetRegion, Slot
<1>4. ASSUME NEW r, NEW i
      PROVE  AsArray(Get(s, a, <<"argument", r, i>>)) =
               IF s.func THEN AsArray(Checked(GetArray(a.args[i])))
               ELSE Cell(a.arguments, r, Len(s.regions), i, s.regions[r])
  <2>1. Get(s, a, <<"argument", r, i>>) = GetArgument(s, a, r, i)
    BY DEF Get
  <2> QED
    BY <2>1 DEF GetArgument, Cell, RowOf
<1> QED
  BY <1>1, <1>2, <1>3, <1>4

\* Owners of a kind whose attribute is not changed have what they had.
LEMMA OthersKept ==
  ASSUME NEW s, NEW a, NEW b, NEW p
  PROVE  /\ a.results = b.results /\ (\E i \in 1 .. s.results : p = <<"result", i>>)
              => AsArray(Get(s, a, p)) = AsArray(Get(s, b, p))
         /\ a.regions = b.regions /\ (\E r \in 1 .. Len(s.regions) : p = <<"region", r>>)
              => AsArray(Get(s, a, p)) = AsArray(Get(s, b, p))
         /\ (\E r \in 1 .. Len(s.regions) : \E i \in 1 .. s.regions[r] : p = <<"argument", r, i>>)
              => (a.arguments = b.arguments /\ a.args = b.args
                    => AsArray(Get(s, a, p)) = AsArray(Get(s, b, p)))
<1>1. ASSUME a.results = b.results, NEW i \in 1 .. s.results, p = <<"result", i>>
      PROVE  AsArray(Get(s, a, p)) = AsArray(Get(s, b, p))
  <2>1. /\ AsArray(Get(s, a, <<"result", i>>)) = Slot(a.results, i, s.results)
        /\ AsArray(Get(s, b, <<"result", i>>)) = Slot(b.results, i, s.results)
    BY Gets
  <2> QED
    BY <1>1, <2>1
<1>2. ASSUME a.regions = b.regions, NEW r \in 1 .. Len(s.regions), p = <<"region", r>>
      PROVE  AsArray(Get(s, a, p)) = AsArray(Get(s, b, p))
  <2>1. /\ AsArray(Get(s, a, <<"region", r>>)) = Slot(a.regions, r, Len(s.regions))
        /\ AsArray(Get(s, b, <<"region", r>>)) = Slot(b.regions, r, Len(s.regions))
    BY Gets
  <2> QED
    BY <1>2, <2>1
<1>3. ASSUME a.arguments = b.arguments, a.args = b.args, NEW r \in 1 .. Len(s.regions),
             NEW i \in 1 .. s.regions[r], p = <<"argument", r, i>>
      PROVE  AsArray(Get(s, a, p)) = AsArray(Get(s, b, p))
  <2>1. /\ AsArray(Get(s, a, <<"argument", r, i>>)) =
              IF s.func THEN AsArray(Checked(GetArray(a.args[i])))
              ELSE Cell(a.arguments, r, Len(s.regions), i, s.regions[r])
        /\ AsArray(Get(s, b, <<"argument", r, i>>)) =
              IF s.func THEN AsArray(Checked(GetArray(b.args[i])))
              ELSE Cell(b.arguments, r, Len(s.regions), i, s.regions[r])
    BY Gets
  <2> QED
    BY <1>3, <2>1
<1>4. (\E i \in 1 .. s.results : p = <<"result", i>>) /\ a.results = b.results
        => AsArray(Get(s, a, p)) = AsArray(Get(s, b, p))
  BY <1>1
<1>5. (\E r \in 1 .. Len(s.regions) : p = <<"region", r>>) /\ a.regions = b.regions
        => AsArray(Get(s, a, p)) = AsArray(Get(s, b, p))
  BY <1>2
<1>6. (\E r \in 1 .. Len(s.regions) : \E i \in 1 .. s.regions[r] : p = <<"argument", r, i>>)
        => (a.arguments = b.arguments /\ a.args = b.args
              => AsArray(Get(s, a, p)) = AsArray(Get(s, b, p)))
  BY <1>3
<1> QED
  BY <1>4, <1>5, <1>6

LEMMA ReadGets ==
  ASSUME NEW s, NEW a
  PROVE  /\ DOMAIN Read(s, a) = Owners(s)
         /\ \A o \in Owners(s) : Read(s, a)[o] = AsArray(Get(s, a, o))
BY DEF Read, AsArray

\* The getter of an operation looks at its own list, if everything else about the storage is in
\* order.
InOrder(s, a) ==
    LET n == Len(s.regions)
    IN /\ Scalar \notin {a.results, a.regions, a.arguments}
       /\ SizeFits(a.results, s.results) /\ SizeFits(a.regions, n) /\ SizeFits(a.arguments, n)
       /\ s.func => Missing(a.arguments)
       /\ \A r \in 1 .. n : RowFits(a.arguments, r, n, s.regions[r])
LEMMA OperationGets ==
  ASSUME NEW s, NEW a
  PROVE  GetOperation(s, a) = IF InOrder(s, a) THEN Checked(GetArray(a.own)) ELSE Failure
BY DEF GetOperation, InOrder, RowFits

\* A call does to the map of owners what the abstract specification says.
Does(o, m) ==
    LET old == Read(shape, attrs)
        new == Read(shape', attrs')
    IN \/ /\ CheckMetadata(m) /\ failed' = FALSE
          /\ new = [old EXCEPT ![o] = AsArray(m)] \/ (old[o] = Failure /\ new = old)
       \/ /\ ~CheckMetadata(m) \/ old[o] = Failure
          /\ failed' = TRUE /\ new = old

\* It does so if it changes what is read for its owner only.
LEMMA DoesOne ==
  ASSUME NEW o \in Owners(shape), NEW m, CheckMetadata(m), failed' = FALSE, shape' = shape,
         AsArray(Get(shape, attrs', o)) = AsArray(m),
         \A p \in Owners(shape) : p # o => AsArray(Get(shape, attrs', p)) = AsArray(Get(shape, attrs, p))
  PROVE  Does(o, m)
<1>1. Read(shape', attrs') = Read(shape, attrs')
  OBVIOUS
<1>2. /\ DOMAIN Read(shape, attrs) = Owners(shape)
      /\ \A p \in Owners(shape) : Read(shape, attrs)[p] = AsArray(Get(shape, attrs, p))
  BY ReadGets
<1>3. PICK a : a = attrs'
  OBVIOUS
<1>4. /\ Read(shape, a) = [p \in Owners(shape) |-> AsArray(Get(shape, a, p))]
  BY DEF Read, AsArray
<1>5. /\ Read(shape, attrs) = [p \in Owners(shape) |-> AsArray(Get(shape, attrs, p))]
  BY DEF Read, AsArray
<1>6. Read(shape, a) = [Read(shape, attrs) EXCEPT ![o] = AsArray(m)]
  BY <1>3, <1>4, <1>5
<1> QED
  BY <1>1, <1>3, <1>6 DEF Does

\* A failure leaves everything as it is.
LEMMA DoesNothing ==
  ASSUME NEW o \in Owners(shape), NEW m, failed' = TRUE, shape' = shape, attrs' = attrs,
         ~CheckMetadata(m) \/ AsArray(Get(shape, attrs, o)) = Failure
  PROVE  Does(o, m)
<1>1. Read(shape, attrs)[o] = AsArray(Get(shape, attrs, o))
  BY ReadGets
<1> QED
  BY <1>1 DEF Does

\* What could not be read for another reason may stay so.
LEMMA DoesKeep ==
  ASSUME NEW o \in Owners(shape), NEW m, CheckMetadata(m), failed' = FALSE, shape' = shape,
         AsArray(Get(shape, attrs, o)) = Failure,
         \A p \in Owners(shape) : AsArray(Get(shape, attrs', p)) = AsArray(Get(shape, attrs, p))
  PROVE  Does(o, m)
<1>1. Read(shape, attrs)[o] = Failure
  BY ReadGets
<1>2. PICK a : a = attrs'
  OBVIOUS
<1>3. Read(shape, a) = [p \in Owners(shape) |-> AsArray(Get(shape, a, p))]
  BY DEF Read, AsArray
<1>4. Read(shape, attrs) = [p \in Owners(shape) |-> AsArray(Get(shape, attrs, p))]
  BY DEF Read, AsArray
<1>5. Read(shape, a) = Read(shape, attrs)
  BY <1>2, <1>3, <1>4
<1> QED
  BY <1>1, <1>2, <1>5 DEF Does

\* How a setter ends.
LEMMA Returned ==
  ASSUME NEW value, NEW stored, Return(value, stored)
  PROVE  /\ shape' = shape
         /\ value = Failure => failed' = TRUE /\ attrs' = attrs
         /\ value # Failure => failed' = FALSE /\ attrs' = stored
<1>1. shape' = shape /\ attrs' = IF value = Failure THEN attrs ELSE stored
  BY DEF Return
<1>2. failed' = (value = Failure)
  BY DEF Return
<1>3. ASSUME value = Failure PROVE failed' = TRUE
  BY Zenon, <1>2, <1>3
<1>4. ASSUME value # Failure PROVE failed' = FALSE
  BY Zenon, <1>2, <1>4
<1> QED
  BY <1>1, <1>3, <1>4

\* Metadata is a list or null.
LEMMA IsMetadata == \A m \in Arguments : m = Null \/ m \in List
BY ArgumentsAssumption

LEMMA SetsOperation ==
  ASSUME StorageInv, NEW m \in Arguments, SetOperation(m)
  PROVE  StorageInv' /\ Does(<<"operation">>, m)
<1> DEFINE value == IF CheckMetadata(m) THEN (IF Missing(m) THEN Null ELSE m) ELSE Failure
           o == <<"operation">>
<1>1. Return(value, [attrs EXCEPT !.own = value])
  BY DEF SetOperation
<1>2. o \in Owners(shape)
  BY OwnerKinds
<1>3. CASE ~CheckMetadata(m)
  <2>1. failed' = TRUE /\ shape' = shape /\ attrs' = attrs
    BY <1>1, <1>3, Returned
  <2>2. StorageInv'
    BY <2>1 DEF StorageInv
  <2>3. Does(o, m)
    BY <1>2, <1>3, <2>1, DoesNothing
  <2> QED
    BY <2>2, <2>3
<1>4. CASE CheckMetadata(m)
  <2>1. value \in List \cup {Null} /\ value # Failure /\ value # Scalar
    BY <1>4, IsMetadata, Atoms DEF Missing
  <2>2. AsArray(value) = AsArray(m) /\ Checked(value) = value /\ GetArray(value) = value
    <3>1. CASE Missing(m)
      BY <1>4, <3>1, Atoms DEF Missing, AsArray, Checked, CheckMetadata, GetArray
    <3>2. CASE ~Missing(m)
      BY <1>4, <2>1, <3>2 DEF AsArray, Checked, GetArray
    <3> QED
      BY <3>1, <3>2
  <2> HIDE DEF value
  <2>3. failed' = FALSE /\ shape' = shape /\ attrs' = [attrs EXCEPT !.own = value]
    BY <1>1, <2>1, Returned
  <2>4. attrs \in Storage
    BY DEF StorageInv
  <2>5. /\ attrs' \in Storage /\ attrs'.own = value /\ attrs'.results = attrs.results
        /\ attrs'.regions = attrs.regions /\ attrs'.arguments = attrs.arguments
        /\ attrs'.args = attrs.args
    BY <2>1, <2>3, <2>4 DEF Storage
  <2>6. StorageInv'
    BY <2>3, <2>5 DEF StorageInv
  <2>7. InOrder(shape, attrs') <=> InOrder(shape, attrs)
    BY <2>5 DEF InOrder
  <2>8. ASSUME NEW p \in Owners(shape), p # o
        PROVE  AsArray(Get(shape, attrs', p)) = AsArray(Get(shape, attrs, p))
    <3>1. PICK a : a = attrs'
      OBVIOUS
    <3>2. CASE \E i \in 1 .. shape.results : p = <<"result", i>>
      BY <2>5, <3>1, <3>2, OthersKept
    <3>3. CASE \E r \in 1 .. Len(shape.regions) : p = <<"region", r>>
      BY <2>5, <3>1, <3>3, OthersKept
    <3>4. CASE \E r \in 1 .. Len(shape.regions) : \E i \in 1 .. shape.regions[r] :
                  p = <<"argument", r, i>>
      BY <2>5, <3>1, <3>4, OthersKept
    <3> QED
      BY <2>8, <3>2, <3>3, <3>4, OwnerKinds
  <2>9. PICK a : a = attrs'
    OBVIOUS
  <2>10. Get(shape, a, o) = GetOperation(shape, a) /\ Get(shape, attrs, o) = GetOperation(shape, attrs)
    BY Gets
  <2>11. CASE InOrder(shape, attrs)
    <3>1. Get(shape, a, o) = value
      BY <2>2, <2>5, <2>7, <2>9, <2>10, <2>11, OperationGets
    <3>2. AsArray(Get(shape, attrs', o)) = AsArray(m)
      BY <2>2, <2>9, <3>1
    <3> QED
      BY <1>2, <1>4, <2>3, <2>6, <2>8, <3>2, DoesOne
  <2>12. CASE ~InOrder(shape, attrs)
    <3>1. Get(shape, a, o) = Failure /\ Get(shape, attrs, o) = Failure
      BY <2>7, <2>9, <2>10, <2>12, OperationGets
    <3>2. AsArray(Get(shape, attrs', o)) = Failure /\ AsArray(Get(shape, attrs, o)) = Failure
      BY <2>9, <3>1, Atoms DEF AsArray
    <3> QED
      BY <1>2, <1>4, <2>3, <2>6, <2>8, <3>2, DoesKeep
  <2> QED
    BY <2>11, <2>12
<1> QED
  BY <1>3, <1>4

LEMMA SetsResult ==
  ASSUME StorageInv, NEW m \in Arguments, NEW i \in 1 .. shape.results, SetResult(i, m)
  PROVE  StorageInv' /\ Does(<<"result", i>>, m)
<1> DEFINE value == Replaced(attrs.results, m,
                       ReplaceElement(GetArray(attrs.results), i, shape.results, AsArray(m)))
           o == <<"result", i>>
           n == shape.results
<1>1. Return(value, [attrs EXCEPT !.results = value])
  BY DEF SetResult
<1>2. o \in Owners(shape) /\ AsArray(Get(shape, attrs, o)) = Slot(attrs.results, i, n)
  BY OwnerKinds, Gets
<1>3. /\ value = Failure => ~CheckMetadata(m) \/ Slot(attrs.results, i, n) = Failure
      /\ value # Failure =>
            /\ CheckMetadata(m) /\ attrs.results # Scalar /\ SizeFits(attrs.results, n)
            /\ value \in Row \cup {Null} /\ SizeFits(value, n)
            /\ Slot(value, i, n) = AsArray(m)
            /\ \A j \in 1 .. n : j # i => Slot(value, j, n) = Slot(attrs.results, j, n)
  BY IsMetadata, ShapeTyped, SlotReplaced
<1> HIDE DEF value
<1>4. CASE value = Failure
  <2>1. failed' = TRUE /\ shape' = shape /\ attrs' = attrs
    BY <1>1, <1>4, Returned
  <2>2. StorageInv'
    BY <2>1 DEF StorageInv
  <2>3. Does(o, m)
    BY <1>2, <1>3, <1>4, <2>1, DoesNothing
  <2> QED
    BY <2>2, <2>3
<1>5. CASE value # Failure
  <2>1. failed' = FALSE /\ shape' = shape /\ attrs' = [attrs EXCEPT !.results = value]
    BY <1>1, <1>5, Returned
  <2>2. attrs \in Storage
    BY DEF StorageInv
  <2>3. /\ attrs' \in Storage /\ attrs'.own = attrs.own /\ attrs'.results = value
        /\ attrs'.regions = attrs.regions /\ attrs'.arguments = attrs.arguments
        /\ attrs'.args = attrs.args
    BY <1>3, <1>5, <2>1, <2>2 DEF Storage
  <2>4. StorageInv'
    BY <2>1, <2>3 DEF StorageInv
  <2>5. InOrder(shape, attrs') <=> InOrder(shape, attrs)
    <3>1. value # Scalar
      BY <1>3, <1>5, Atoms
    <3> QED
      BY <1>3, <1>5, <2>3, <3>1 DEF InOrder
  <2>6. PICK a : a = attrs'
    OBVIOUS
  <2>7. AsArray(Get(shape, a, o)) = AsArray(m)
    BY <1>3, <1>5, <2>3, <2>6, Gets
  <2>8. ASSUME NEW p \in Owners(shape), p # o
        PROVE  AsArray(Get(shape, a, p)) = AsArray(Get(shape, attrs, p))
    <3>1. CASE p = <<"operation">>
      <4>1. GetOperation(shape, a) = GetOperation(shape, attrs)
        BY <2>3, <2>5, <2>6, OperationGets
      <4> QED
        BY <3>1, <4>1, Gets
    <3>2. CASE \E j \in 1 .. n : p = <<"result", j>>
      <4>1. PICK j \in 1 .. n : p = <<"result", j>>
        BY <3>2
      <4>2. j # i
        BY <2>8, <4>1
      <4> QED
        BY <1>3, <1>5, <2>3, <2>6, <4>1, <4>2, Gets
    <3>3. CASE \E r \in 1 .. Len(shape.regions) : p = <<"region", r>>
      BY <2>3, <2>6, <3>3, OthersKept
    <3>4. CASE \E r \in 1 .. Len(shape.regions) : \E j \in 1 .. shape.regions[r] :
                  p = <<"argument", r, j>>
      BY <2>3, <2>6, <3>4, OthersKept
    <3> QED
      BY <3>1, <3>2, <3>3, <3>4, OwnerKinds
  <2> QED
    BY <1>2, <1>3, <1>5, <2>1, <2>4, <2>6, <2>7, <2>8, DoesOne
<1> QED
  BY <1>4, <1>5

LEMMA SetsRegion ==
  ASSUME StorageInv, NEW m \in Arguments, NEW r \in 1 .. Len(shape.regions), SetRegion(r, m)
  PROVE  StorageInv' /\ Does(<<"region", r>>, m)
<1> DEFINE value == Replaced(attrs.regions, m,
                       ReplaceElement(GetArray(attrs.regions), r, Len(shape.regions), AsArray(m)))
           o == <<"region", r>>
           n == Len(shape.regions)
<1>1. Return(value, [attrs EXCEPT !.regions = value])
  BY DEF SetRegion
<1>2. o \in Owners(shape) /\ AsArray(Get(shape, attrs, o)) = Slot(attrs.regions, r, n)
  BY OwnerKinds, Gets
<1>3. /\ value = Failure => ~CheckMetadata(m) \/ Slot(attrs.regions, r, n) = Failure
      /\ value # Failure =>
            /\ CheckMetadata(m) /\ attrs.regions # Scalar /\ SizeFits(attrs.regions, n)
            /\ value \in Row \cup {Null} /\ SizeFits(value, n)
            /\ Slot(value, r, n) = AsArray(m)
            /\ \A j \in 1 .. n : j # r => Slot(value, j, n) = Slot(attrs.regions, j, n)
  BY IsMetadata, ShapeTyped, SlotReplaced
<1> HIDE DEF value
<1>4. CASE value = Failure
  <2>1. failed' = TRUE /\ shape' = shape /\ attrs' = attrs
    BY <1>1, <1>4, Returned
  <2>2. StorageInv'
    BY <2>1 DEF StorageInv
  <2>3. Does(o, m)
    BY <1>2, <1>3, <1>4, <2>1, DoesNothing
  <2> QED
    BY <2>2, <2>3
<1>5. CASE value # Failure
  <2>1. failed' = FALSE /\ shape' = shape /\ attrs' = [attrs EXCEPT !.regions = value]
    BY <1>1, <1>5, Returned
  <2>2. attrs \in Storage
    BY DEF StorageInv
  <2>3. /\ attrs' \in Storage /\ attrs'.own = attrs.own /\ attrs'.regions = value
        /\ attrs'.results = attrs.results /\ attrs'.arguments = attrs.arguments
        /\ attrs'.args = attrs.args
    BY <1>3, <1>5, <2>1, <2>2 DEF Storage
  <2>4. StorageInv'
    BY <2>1, <2>3 DEF StorageInv
  <2>5. InOrder(shape, attrs') <=> InOrder(shape, attrs)
    <3>1. value # Scalar
      BY <1>3, <1>5, Atoms
    <3> QED
      BY <1>3, <1>5, <2>3, <3>1 DEF InOrder
  <2>6. PICK a : a = attrs'
    OBVIOUS
  <2>7. AsArray(Get(shape, a, o)) = AsArray(m)
    BY <1>3, <1>5, <2>3, <2>6, Gets
  <2>8. ASSUME NEW p \in Owners(shape), p # o
        PROVE  AsArray(Get(shape, a, p)) = AsArray(Get(shape, attrs, p))
    <3>1. CASE p = <<"operation">>
      <4>1. GetOperation(shape, a) = GetOperation(shape, attrs)
        BY <2>3, <2>5, <2>6, OperationGets
      <4> QED
        BY <3>1, <4>1, Gets
    <3>2. CASE \E j \in 1 .. n : p = <<"region", j>>
      <4>1. PICK j \in 1 .. n : p = <<"region", j>>
        BY <3>2
      <4>2. j # r
        BY <2>8, <4>1
      <4> QED
        BY <1>3, <1>5, <2>3, <2>6, <4>1, <4>2, Gets
    <3>3. CASE \E i \in 1 .. shape.results : p = <<"result", i>>
      BY <2>3, <2>6, <3>3, OthersKept
    <3>4. CASE \E q \in 1 .. Len(shape.regions) : \E j \in 1 .. shape.regions[q] :
                  p = <<"argument", q, j>>
      BY <2>3, <2>6, <3>4, OthersKept
    <3> QED
      BY <3>1, <3>2, <3>3, <3>4, OwnerKinds
  <2> QED
    BY <1>2, <1>3, <1>5, <2>1, <2>4, <2>6, <2>7, <2>8, DoesOne
<1> QED
  BY <1>4, <1>5

LEMMA SetsFunctionArgument ==
  ASSUME StorageInv, NEW m \in Arguments, NEW r \in 1 .. Len(shape.regions),
         NEW i \in 1 .. shape.regions[r], SetFunctionArgument(i, m)
  PROVE  StorageInv' /\ Does(<<"argument", r, i>>, m)
<1> DEFINE value == IF CheckMetadata(m) THEN (IF Missing(m) THEN Null ELSE m) ELSE Failure
           o == <<"argument", r, i>>
<1>1. shape.func /\ Return(value, [attrs EXCEPT !.args[i] = value])
  BY DEF SetFunctionArgument
<1>2. o \in Owners(shape)
  BY OwnerKinds
<1>3. CASE ~CheckMetadata(m)
  <2>1. failed' = TRUE /\ shape' = shape /\ attrs' = attrs
    BY <1>1, <1>3, Returned
  <2>2. StorageInv'
    BY <2>1 DEF StorageInv
  <2>3. Does(o, m)
    BY <1>2, <1>3, <2>1, DoesNothing
  <2> QED
    BY <2>2, <2>3
<1>4. CASE CheckMetadata(m)
  <2>1. value \in List \cup {Null} /\ value # Failure
    BY <1>4, IsMetadata, Atoms DEF Missing
  <2>2. AsArray(Checked(GetArray(value))) = AsArray(m)
    <3>1. CASE Missing(m)
      BY <1>4, <3>1, Atoms DEF Missing, AsArray, Checked, CheckMetadata, GetArray
    <3>2. CASE ~Missing(m)
      BY <1>4, <2>1, <3>2, Atoms DEF AsArray, Checked, GetArray
    <3> QED
      BY <3>1, <3>2
  <2> HIDE DEF value
  <2>3. failed' = FALSE /\ shape' = shape /\ attrs' = [attrs EXCEPT !.args[i] = value]
    BY <1>1, <2>1, Returned
  <2>4. /\ attrs \in Storage /\ Len(shape.regions) = 1 /\ Len(attrs.args) = shape.regions[1]
        /\ shape.results = 0
    BY <1>1 DEF StorageInv
  <2>5. r = 1 /\ i \in 1 .. Len(attrs.args)
    BY <2>4
  <2>6. attrs.args \in Seq(List \cup {Null, Scalar})
    BY ShapeTyped
  <2>7. PICK args : args = [attrs.args EXCEPT ![i] = value]
    OBVIOUS
  <2>8. /\ args \in Seq(List \cup {Null, Scalar}) /\ Len(args) = Len(attrs.args) /\ args[i] = value
        /\ \A j \in 1 .. Len(attrs.args) : j # i => args[j] = attrs.args[j]
    BY <2>1, <2>5, <2>6, <2>7
  <2>9. attrs' = [attrs EXCEPT !.args = args]
    BY <2>3, <2>4, <2>7 DEF Storage
  <2>10. /\ attrs' \in Storage /\ attrs'.own = attrs.own /\ attrs'.results = attrs.results
         /\ attrs'.regions = attrs.regions /\ attrs'.arguments = attrs.arguments
         /\ attrs'.args = args
    BY <2>4, <2>8, <2>9 DEF Storage
  <2>11. StorageInv'
    BY <1>1, <2>3, <2>4, <2>8, <2>10 DEF StorageInv
  <2>12. PICK a : a = attrs'
    OBVIOUS
  <2>13. AsArray(Get(shape, a, o)) = AsArray(m)
    <3>1. AsArray(Get(shape, a, o)) = AsArray(Checked(GetArray(a.args[i])))
      BY <1>1, Gets
    <3> QED
      BY <2>2, <2>8, <2>10, <2>12, <3>1
  <2>14. ASSUME NEW p \in Owners(shape), p # o
         PROVE  AsArray(Get(shape, a, p)) = AsArray(Get(shape, attrs, p))
    <3>1. CASE p = <<"operation">>
      <4>1. InOrder(shape, a) <=> InOrder(shape, attrs)
        BY <2>10, <2>12 DEF InOrder
      <4>2. GetOperation(shape, a) = GetOperation(shape, attrs)
        BY <2>10, <2>12, <4>1, OperationGets
      <4> QED
        BY <3>1, <4>2, Gets
    <3>2. CASE \E j \in 1 .. shape.results : p = <<"result", j>>
      BY <2>10, <2>12, <3>2, OthersKept
    <3>3. CASE \E q \in 1 .. Len(shape.regions) : p = <<"region", q>>
      BY <2>10, <2>12, <3>3, OthersKept
    <3>4. CASE \E q \in 1 .. Len(shape.regions) : \E j \in 1 .. shape.regions[q] :
                  p = <<"argument", q, j>>
      <4>1. PICK q \in 1 .. Len(shape.regions) :
                \E j \in 1 .. shape.regions[q] : p = <<"argument", q, j>>
        BY <3>4
      <4>2. PICK j \in 1 .. shape.regions[q] : p = <<"argument", q, j>>
        BY <4>1
      <4>3. q = 1 /\ j # i /\ j \in 1 .. Len(attrs.args)
        BY <2>4, <2>5, <2>14, <4>2
      <4>4. /\ AsArray(Get(shape, a, <<"argument", q, j>>))
                  = AsArray(Checked(GetArray(a.args[j])))
            /\ AsArray(Get(shape, attrs, <<"argument", q, j>>))
                  = AsArray(Checked(GetArray(attrs.args[j])))
        BY <1>1, Gets
      <4>5. a.args[j] = attrs.args[j]
        BY <2>8, <2>10, <2>12, <4>3
      <4> QED
        BY <4>2, <4>4, <4>5
    <3> QED
      BY <3>1, <3>2, <3>3, <3>4, OwnerKinds
  <2> QED
    BY <1>2, <1>4, <2>3, <2>11, <2>12, <2>13, <2>14, DoesOne
<1> QED
  BY <1>3, <1>4

LEMMA SetsBlockArgument ==
  ASSUME StorageInv, NEW m \in Arguments, NEW r \in 1 .. Len(shape.regions),
         NEW i \in 1 .. shape.regions[r], SetBlockArgument(r, i, m)
  PROVE  StorageInv' /\ Does(<<"argument", r, i>>, m)
<1> DEFINE n == Len(shape.regions)
           updated == UpdatedRow(shape, attrs, r, i, m)
           value == Replaced(attrs.arguments, m,
                       ReplaceElement(GetArray(attrs.arguments), r, n, updated))
           o == <<"argument", r, i>>
           at(table) == Cell(table, r, n, i, shape.regions[r])
<1>1. ~shape.func /\ Return(value, [attrs EXCEPT !.arguments = value])
  BY DEF SetBlockArgument
<1>2. o \in Owners(shape) /\ AsArray(Get(shape, attrs, o)) = at(attrs.arguments)
  <2>1. o \in Owners(shape)
    BY OwnerKinds
  <2>2. AsArray(Get(shape, attrs, <<"argument", r, i>>)) = at(attrs.arguments)
    BY <1>1, Gets
  <2> QED
    BY <2>1, <2>2
<1>3. updated = ReplaceElement(RowOf(attrs.arguments, r, n), i, shape.regions[r], AsArray(m))
  BY DEF UpdatedRow, RowOf
<1> HIDE DEF updated
<1>4. /\ value = Failure => ~CheckMetadata(m) \/ at(attrs.arguments) = Failure
      /\ value # Failure =>
            /\ CheckMetadata(m) /\ attrs.arguments # Scalar /\ SizeFits(attrs.arguments, n)
            /\ value \in Table \cup {Null} /\ SizeFits(value, n)
            /\ at(value) = AsArray(m)
            /\ \A q \in 1 .. n : \A j \in 1 .. shape.regions[q] :
                  q # r \/ j # i =>
                     Cell(value, q, n, j, shape.regions[q])
                        = Cell(attrs.arguments, q, n, j, shape.regions[q])
            /\ \A q \in 1 .. n : RowFits(value, q, n, shape.regions[q])
                                    <=> RowFits(attrs.arguments, q, n, shape.regions[q])
  <2>1. PICK t, k, sizes, u, v :
           t = attrs.arguments /\ k = n /\ sizes = shape.regions /\ u = updated /\ v = value
    OBVIOUS
  <2>2. /\ t \in Table \cup {Null, Scalar} /\ k \in Nat /\ sizes \in [1 .. k -> Nat]
        /\ m = Null \/ m \in List
    BY <2>1, IsMetadata, ShapeTyped
  <2>3. r \in 1 .. k /\ i \in 1 .. sizes[r]
    BY <2>1
  <2>4. u = ReplaceElement(RowOf(t, r, k), i, sizes[r], AsArray(m))
    BY <1>3, <2>1
  <2>5. v = Replaced(t, m, ReplaceElement(GetArray(t), r, k, u))
    BY <2>1
  <2> HIDE DEF n, value, o, at
  <2>6. /\ v = Failure => ~CheckMetadata(m) \/ Cell(t, r, k, i, sizes[r]) = Failure
        /\ v # Failure =>
            /\ CheckMetadata(m) /\ t # Scalar /\ SizeFits(t, k)
            /\ v \in Table \cup {Null} /\ SizeFits(v, k)
            /\ Cell(v, r, k, i, sizes[r]) = AsArray(m)
            /\ \A q \in 1 .. k : \A j \in 1 .. sizes[q] :
                  q # r \/ j # i => Cell(v, q, k, j, sizes[q]) = Cell(t, q, k, j, sizes[q])
            /\ \A q \in 1 .. k : RowFits(v, q, k, sizes[q]) <=> RowFits(t, q, k, sizes[q])
    BY <2>2, <2>3, <2>4, <2>5, CellReplaced
  <2> QED
    BY <2>1, <2>6 DEF at
<1> HIDE DEF value
<1>5. CASE value = Failure
  <2>1. failed' = TRUE /\ shape' = shape /\ attrs' = attrs
    BY <1>1, <1>5, Returned
  <2>2. StorageInv'
    BY <2>1 DEF StorageInv
  <2>3. Does(o, m)
    BY <1>2, <1>4, <1>5, <2>1, DoesNothing
  <2> QED
    BY <2>2, <2>3
<1>6. CASE value # Failure
  <2>1. failed' = FALSE /\ shape' = shape /\ attrs' = [attrs EXCEPT !.arguments = value]
    BY <1>1, <1>6, Returned
  <2>2. attrs \in Storage
    BY DEF StorageInv
  <2>3. /\ attrs' \in Storage /\ attrs'.own = attrs.own /\ attrs'.results = attrs.results
        /\ attrs'.regions = attrs.regions /\ attrs'.arguments = value
        /\ attrs'.args = attrs.args
    BY <1>4, <1>6, <2>1, <2>2 DEF Storage
  <2>4. StorageInv'
    BY <2>1, <2>3 DEF StorageInv
  <2>5. PICK a : a = attrs'
    OBVIOUS
  <2>6. InOrder(shape, a) <=> InOrder(shape, attrs)
    <3>1. value # Scalar
      BY <1>4, <1>6, Atoms
    <3> QED
      BY <1>1, <1>4, <1>6, <2>3, <2>5, <3>1 DEF InOrder
  <2>7. AsArray(Get(shape, a, o)) = AsArray(m)
    <3>1. AsArray(Get(shape, a, <<"argument", r, i>>)) = at(a.arguments)
      BY <1>1, Gets
    <3> QED
      BY <1>4, <1>6, <2>3, <2>5, <3>1
  <2>8. ASSUME NEW p \in Owners(shape), p # o
        PROVE  AsArray(Get(shape, a, p)) = AsArray(Get(shape, attrs, p))
    <3>1. CASE p = <<"operation">>
      <4>1. GetOperation(shape, a) = GetOperation(shape, attrs)
        BY <2>3, <2>5, <2>6, OperationGets
      <4> QED
        BY <3>1, <4>1, Gets
    <3>2. CASE \E j \in 1 .. shape.results : p = <<"result", j>>
      BY <2>3, <2>5, <3>2, OthersKept
    <3>3. CASE \E q \in 1 .. Len(shape.regions) : p = <<"region", q>>
      BY <2>3, <2>5, <3>3, OthersKept
    <3>4. CASE \E q \in 1 .. Len(shape.regions) : \E j \in 1 .. shape.regions[q] :
                  p = <<"argument", q, j>>
      <4>1. PICK q \in 1 .. Len(shape.regions) :
                \E j \in 1 .. shape.regions[q] : p = <<"argument", q, j>>
        BY <3>4
      <4>2. PICK j \in 1 .. shape.regions[q] : p = <<"argument", q, j>>
        BY <4>1
      <4>3. q # r \/ j # i
        BY <2>8, <4>2
      <4>4. Cell(value, q, n, j, shape.regions[q])
              = Cell(attrs.arguments, q, n, j, shape.regions[q])
        BY <1>4, <1>6, <4>3
      <4>5. /\ AsArray(Get(shape, a, <<"argument", q, j>>))
                  = Cell(a.arguments, q, n, j, shape.regions[q])
            /\ AsArray(Get(shape, attrs, <<"argument", q, j>>))
                  = Cell(attrs.arguments, q, n, j, shape.regions[q])
        BY <1>1, Gets
      <4> QED
        BY <2>3, <2>5, <4>2, <4>4, <4>5
    <3> QED
      BY <3>1, <3>2, <3>3, <3>4, OwnerKinds
  <2> QED
    BY <1>2, <1>4, <1>6, <2>1, <2>4, <2>5, <2>7, <2>8, DoesOne
<1> QED
  BY <1>5, <1>6

LEMMA StorageInvInit == Init => StorageInv
<1> SUFFICES ASSUME Init PROVE StorageInv
  OBVIOUS
<1>1. PICK x \in Operations : shape = x.shape /\ attrs = x.storage
  BY DEF Init
<1> QED
  BY <1>1, OperationsAssumption DEF Init, StorageInv, TypeOK

\* Every call keeps the form of the attributes and does to the map what was called for.
LEMMA StorageInvNext ==
  ASSUME StorageInv, Next
  PROVE  /\ StorageInv' /\ shape' = shape
         /\ \E o \in Owners(shape) : \E m \in Arguments : Does(o, m) /\ Called(o, m)
<1>1. PICK m \in Arguments :
         \/ SetOperation(m) /\ Called(<<"operation">>, m)
         \/ \E i \in 1 .. shape.results : SetResult(i, m) /\ Called(<<"result", i>>, m)
         \/ \E r \in 1 .. Len(shape.regions) :
               \/ SetRegion(r, m) /\ Called(<<"region", r>>, m)
               \/ \E i \in 1 .. shape.regions[r] :
                     /\ SetFunctionArgument(i, m) \/ SetBlockArgument(r, i, m)
                     /\ Called(<<"argument", r, i>>, m)
  BY DEF Next
<1> DEFINE Done == /\ StorageInv' /\ shape' = shape
                   /\ \E o \in Owners(shape) : Does(o, m) /\ Called(o, m)
<1>2. CASE SetOperation(m) /\ Called(<<"operation">>, m)
  <2>1. <<"operation">> \in Owners(shape)
    BY OwnerKinds
  <2>2. shape' = shape
    BY <1>2 DEF SetOperation, Return
  <2> QED
    BY <1>2, <2>1, <2>2, SetsOperation
<1>3. CASE \E i \in 1 .. shape.results : SetResult(i, m) /\ Called(<<"result", i>>, m)
  <2>1. PICK i \in 1 .. shape.results : SetResult(i, m) /\ Called(<<"result", i>>, m)
    BY <1>3
  <2>2. <<"result", i>> \in Owners(shape)
    BY OwnerKinds
  <2>3. shape' = shape
    BY <2>1 DEF SetResult, Return
  <2> QED
    BY <2>1, <2>2, <2>3, SetsResult
<1>4. ASSUME NEW r \in 1 .. Len(shape.regions), SetRegion(r, m), Called(<<"region", r>>, m)
      PROVE  Done
  <2>1. <<"region", r>> \in Owners(shape)
    BY OwnerKinds
  <2>2. shape' = shape
    BY <1>4 DEF SetRegion, Return
  <2> QED
    BY <1>4, <2>1, <2>2, SetsRegion
<1>5. ASSUME NEW r \in 1 .. Len(shape.regions), NEW i \in 1 .. shape.regions[r],
             SetFunctionArgument(i, m) \/ SetBlockArgument(r, i, m),
             Called(<<"argument", r, i>>, m)
      PROVE  Done
  <2>1. <<"argument", r, i>> \in Owners(shape)
    BY OwnerKinds
  <2>2. StorageInv' /\ Does(<<"argument", r, i>>, m)
    BY <1>5, SetsFunctionArgument, SetsBlockArgument
  <2>3. shape' = shape
    BY <1>5 DEF SetFunctionArgument, SetBlockArgument, Return
  <2> QED
    BY <1>5, <2>1, <2>2, <2>3
<1> QED
  BY <1>1, <1>2, <1>3, <1>4, <1>5

LEMMA StorageInvStutters == StorageInv /\ UNCHANGED vars => StorageInv'
BY DEF StorageInv, vars

\* The call that is recorded is one of an owner of the operation, with a list.
LEMMA CallTypedNext ==
  ASSUME StorageInv, CallTyped, [Next]_vars
  PROVE  CallTyped'
<1>1. CASE Next
  <2>1. PICK o \in Owners(shape), m \in Arguments : Called(o, m)
    BY <1>1, StorageInvNext
  <2>2. AsArray(m) \in List
    BY ArgumentsAssumption, Atoms DEF AsArray
  <2>3. shape' = shape
    BY <1>1, StorageInvNext
  <2> QED
    BY <2>1, <2>2, <2>3 DEF Called, CallTyped
<1>2. CASE UNCHANGED vars
  BY <1>2 DEF vars, CallTyped
<1> QED
  BY <1>1, <1>2

\* The attributes keep their form, whoever wrote them first and whatever is stored.
THEOREM StorageTypeCorrect == Spec => []TypeOK
<1>1. StorageInv /\ CallTyped /\ [Next]_vars => StorageInv' /\ CallTyped'
  BY StorageInvNext, StorageInvStutters, CallTypedNext
<1>2. StorageInv /\ CallTyped => TypeOK
  BY DEF StorageInv, CallTyped, TypeOK
<1>3. Init => CallTyped
  BY DEF Init, CallTyped
<1> QED
  BY <1>1, <1>2, <1>3, StorageInvInit, PTL DEF Spec

\* For operations with any number of results, regions and arguments, attributes of any form and
\* any metadata: setters and getters implement a map from owners to lists.  A call stores its list
\* for its owner and changes no other, or it is refused, and then its list is flawed or the getter
\* of its owner fails.
THEOREM StorageImplementsMap == Spec => ImplementsMap
<1>1. Init => Map!Init
  BY DEF Init, Map!Init, InitialMaps
<1>2. StorageInv /\ [Next]_vars => [Map!Next]_<<Read(shape, attrs), called, failed>>
  <2> SUFFICES ASSUME StorageInv, [Next]_vars
               PROVE  [Map!Next]_<<Read(shape, attrs), called, failed>>
    OBVIOUS
  <2>1. CASE UNCHANGED vars
    BY <2>1 DEF vars
  <2>2. CASE Next
    <3>1. PICK o \in Owners(shape) : \E m \in Arguments : Does(o, m) /\ Called(o, m)
      BY <2>2, StorageInvNext
    <3>2. PICK m \in Arguments : Does(o, m) /\ Called(o, m)
      BY <3>1
    <3>3. PICK list : list = AsArray(m)
      OBVIOUS
    <3>4. Map!Sound(list) <=> CheckMetadata(m)
      BY <3>3, Passed, IsMetadata DEF Map!Sound
    <3>5. o \in DOMAIN Read(shape, attrs) /\ list \in {AsArray(x) : x \in Arguments}
      BY <3>3, ReadGets
    <3>6. Map!Store(o, list) \/ Map!Refuse(o, list)
      BY <3>2, <3>3, <3>4 DEF Does, Map!Store, Map!Refuse
    <3>7. Map!Call(o, list)
      BY <3>2, <3>3, <3>6 DEF Called, Map!Call
    <3> QED
      BY <3>5, <3>7 DEF Map!Next
  <2> QED
    BY <2>1, <2>2
<1>3. StorageInv /\ [Next]_vars => StorageInv'
  BY StorageInvNext, StorageInvStutters
<1> QED
  BY <1>1, <1>2, <1>3, StorageInvInit, PTL DEF Spec, ImplementsMap, Map!Spec

\* What is stored and what the getters give.
LEMMA AllRead ==
  ASSUME StorageInv, Failure \notin Lists(shape, attrs)
  PROVE  StoredLists(attrs) \subseteq Lists(shape, attrs) \cup {Null, <<>>}
<1> DEFINE n == Len(shape.regions)
           a == attrs
           read == Lists(shape, a) \cup {Null, <<>>}
<1>1. /\ \A o \in Owners(shape) : Get(shape, a, o) # Failure /\ Get(shape, a, o) \in read
  BY DEF Lists
<1>2. /\ shape.results \in Nat /\ n \in Nat
      /\ a.results \in Row \cup {Null, Scalar} /\ a.regions \in Row \cup {Null, Scalar}
      /\ a.arguments \in Table \cup {Null, Scalar} /\ a.args \in Seq(List \cup {Null, Scalar})
  BY ShapeTyped
<1>3. /\ InOrder(shape, a) /\ a.own \in read
  <2>1. GetOperation(shape, a) # Failure /\ GetOperation(shape, a) \in read
    BY <1>1, OwnerKinds, Gets
  <2>2. InOrder(shape, a) /\ Checked(GetArray(a.own)) # Failure
        /\ Checked(GetArray(a.own)) \in read
    BY <2>1, OperationGets
  <2> QED
    BY <2>2 DEF Checked, GetArray
<1>4. ASSUME NEW k \in DOMAIN a.results, a.results \notin {Null, Scalar}
      PROVE  a.results[k] \in read
  <2>1. a.results \in Row /\ ~Missing(a.results) /\ Len(a.results) = shape.results
    BY <1>2, <1>3, <1>4 DEF InOrder, SizeFits, Missing
  <2>2. k \in 1 .. shape.results
    BY <1>4, <2>1 DEF Row
  <2>3. <<"result", k>> \in Owners(shape)
    BY <2>2, OwnerKinds
  <2>4. Get(shape, a, <<"result", k>>) = GetResult(shape, a, k)
    BY DEF Get
  <2>5. GetResult(shape, a, k) = Checked(GetArray(a.results[k]))
    BY <1>4, <2>1, Atoms DEF GetResult, GetElement, GetArray
  <2> QED
    BY <1>1, <2>3, <2>4, <2>5 DEF Checked, GetArray
<1>5. ASSUME NEW k \in DOMAIN a.regions, a.regions \notin {Null, Scalar}
      PROVE  a.regions[k] \in read
  <2>1. a.regions \in Row /\ ~Missing(a.regions) /\ Len(a.regions) = n
    BY <1>2, <1>3, <1>5 DEF InOrder, SizeFits, Missing
  <2>2. k \in 1 .. n
    BY <1>5, <2>1 DEF Row
  <2>3. <<"region", k>> \in Owners(shape)
    BY <2>2, OwnerKinds
  <2>4. Get(shape, a, <<"region", k>>) = GetRegion(shape, a, k)
    BY DEF Get
  <2>5. GetRegion(shape, a, k) = Checked(GetArray(a.regions[k]))
    BY <1>5, <2>1, Atoms DEF GetRegion, GetElement, GetArray
  <2> QED
    BY <1>1, <2>3, <2>4, <2>5 DEF Checked, GetArray
<1>6. ASSUME NEW k \in DOMAIN a.args PROVE a.args[k] \in read
  <2>1. shape.func /\ n = 1 /\ Len(a.args) = shape.regions[1]
    BY <1>6 DEF StorageInv
  <2>2. 1 \in 1 .. n /\ k \in 1 .. shape.regions[1]
    BY <1>2, <1>6, <2>1
  <2>3. <<"argument", 1, k>> \in Owners(shape)
    BY <2>2, OwnerKinds
  <2>4. Get(shape, a, <<"argument", 1, k>>) = Checked(GetArray(a.args[k]))
    BY <2>1 DEF Get, GetArgument
  <2> QED
    BY <1>1, <2>3, <2>4 DEF Checked, GetArray
<1>7. ASSUME NEW r \in DOMAIN a.arguments, a.arguments \notin {Null, Scalar},
             a.arguments[r] \notin {Null, Scalar}, NEW k \in DOMAIN a.arguments[r]
      PROVE  a.arguments[r][k] \in read
  <2>1. a.arguments \in Table /\ ~Missing(a.arguments) /\ Len(a.arguments) = n /\ ~shape.func
    BY <1>2, <1>3, <1>7 DEF InOrder, SizeFits, Missing
  <2>2. r \in 1 .. n /\ a.arguments[r] \in Row
    BY <1>7, <2>1 DEF Table
  <2>3. GetArray(a.arguments[r]) = a.arguments[r] /\ GetArray(a.arguments) = a.arguments
        /\ a.arguments # Failure /\ a.arguments[r] # Failure
    BY <1>7, <2>1, <2>2, Atoms DEF GetArray
  <2>4. GetElement(a.arguments, r, n) = a.arguments[r]
    BY <2>1, <2>3 DEF GetElement
  <2>5. SizeFits(a.arguments[r], shape.regions[r])
    BY <1>3, <2>2, <2>4 DEF InOrder, RowFits
  <2>6. ~Missing(a.arguments[r]) /\ Len(a.arguments[r]) = shape.regions[r]
    BY <1>7, <2>2, <2>5 DEF SizeFits, Missing
  <2>7. k \in 1 .. shape.regions[r]
    BY <1>7, <2>2, <2>6 DEF Row
  <2>8. <<"argument", r, k>> \in Owners(shape)
    BY <2>2, <2>7, OwnerKinds
  <2>9. Get(shape, a, <<"argument", r, k>>) = GetArgument(shape, a, r, k)
    BY DEF Get
  <2>10. GetArgument(shape, a, r, k) = Checked(GetArray(a.arguments[r][k]))
    BY <2>1, <2>3, <2>4, <2>6 DEF GetArgument, GetElement
  <2> QED
    BY <1>1, <2>8, <2>9, <2>10 DEF Checked, GetArray
<1> QED
  <2> HIDE DEF read, a
  <2> SUFFICES ASSUME NEW x \in StoredLists(a) PROVE x \in read
    BY DEF read, a
  <2>1. \/ x = a.own
        \/ a.results \notin {Null, Scalar} /\ \E k \in DOMAIN a.results : x = a.results[k]
        \/ a.regions \notin {Null, Scalar} /\ \E k \in DOMAIN a.regions : x = a.regions[k]
        \/ a.args \notin {Null, Scalar} /\ \E k \in DOMAIN a.args : x = a.args[k]
        \/ /\ a.arguments \notin {Null, Scalar}
           /\ \E r \in DOMAIN a.arguments :
                 /\ a.arguments[r] \notin {Null, Scalar}
                 /\ \E k \in DOMAIN a.arguments[r] : x = a.arguments[r][k]
    BY DEF StoredLists
  <2> QED
    BY <1>3, <1>4, <1>5, <1>6, <1>7, <2>1

\* Whatever the operation and its attributes: if every owner can be read, nothing that is stored
\* is left unread.
THEOREM EverythingIsRead == Spec => []NothingUnread
<1>1. StorageInv /\ [Next]_vars => StorageInv'
  BY StorageInvNext, StorageInvStutters
<1>2. StorageInv => NothingUnread
  BY AllRead DEF NothingUnread
<1> QED
  BY <1>1, <1>2, StorageInvInit, PTL DEF Spec

----------------------------------------------------------------------------
\* Next to each other, both keep the form of what they store.
THEOREM MetadataTypeCorrect == MetadataSpec => []MetadataTypeOK
<1> DEFINE Both == StorageInv /\ CallTyped /\ PayloadInv /\ GivenInv
<1>1. MetadataInit => Both
  <2> SUFFICES ASSUME MetadataInit PROVE Both
    OBVIOUS
  <2>1. Init
    BY DEF MetadataInit, Init
  <2>2. PayloadInit
    BY DEF MetadataInit, PayloadInit
  <2>3. CallTyped
    BY <2>1 DEF Init, CallTyped
  <2> QED
    BY <2>1, <2>2, <2>3, StorageInvInit, PayloadInvInit, GivenInvInit
<1>2. Both /\ [StorageStep \/ PayloadStep]_<<active, vars, payloadVars>> => Both'
  <2> SUFFICES ASSUME Both, [StorageStep \/ PayloadStep]_<<active, vars, payloadVars>>
               PROVE  Both'
    OBVIOUS
  <2>1. CASE StorageStep
    BY <2>1, StorageInvNext, CallTypedNext, PayloadInvNext, GivenInvNext DEF StorageStep
  <2>2. CASE PayloadStep
    BY <2>2, StorageInvStutters, CallTypedNext, PayloadInvNext, GivenInvNext DEF PayloadStep
  <2>3. CASE UNCHANGED <<active, vars, payloadVars>>
    BY <2>3, StorageInvStutters, CallTypedNext, PayloadInvNext, GivenInvNext
  <2> QED
    BY <2>1, <2>2, <2>3
<1>3. Both => MetadataTypeOK
  BY DEF StorageInv, CallTyped, PayloadInv, PayloadTyped, GivenInv, MetadataTypeOK, TypeOK,
         PayloadTypeOK
<1> QED
  BY <1>1, <1>2, <1>3, PTL DEF MetadataSpec
=============================================================================
