--------------------------- MODULE RoundTripProofs ---------------------------
(***************************************************************************)
(* A module that serialize writes and deserialize reads back arrives       *)
(* unchanged, for every module, every set of operation shapes the verifier *)
(* accepts, every nesting of regions and every number of functions, as     *)
(* long as the strings can be counted with 16 bits.                        *)
(*                                                                         *)
(* The argument has two halves.  DeserializeProofs shows what the reader   *)
(* makes of a message that encodes a module; here the writer is shown to   *)
(* leave such a message, so the composition keeps promising what the       *)
(* reader's half assumes from the step in which serialize reports success. *)
(***************************************************************************)
EXTENDS RoundTrip, SerializeProofs

\* The messages deserialize may be given: their bodies are trees.
GoodFiles == {m \in Message : \A f \in DOMAIN m.functions :
                m.functions[f].hasBody => Reader!WellNested(m.functions[f].items)}
RP == INSTANCE DeserializeProofs WITH file <- message, Files <- GoodFiles

----------------------------------------------------------------------------
(* What the writer's message says of the module.                           *)

\* What the verifier requires of an item of a body, ts being the types of its
\* operands; a call has the results of the function that has its name.
Obeys(it, ts) ==
    /\ it.tag \notin {"custom", "call"} => it.ref = NoName
    /\ it.tag = "call" =>
          \E g \in DOMAIN module.funcs :
              module.funcs[g].name = it.ref /\ module.funcs[g].region.yields = TypesOf(it.res)
    /\ it.tag \in FlatKinds \cup {"custom"} =>
          Len(it.ins) = Len(Signature[it.tag].ins) /\ TypesOf(it.res) = Signature[it.tag].res
    /\ it.tag = "for" => TypesOf(it.res) = SubSeq(ts, 4, Len(ts))
    /\ it.tag = "enter" => it.ins = <<>>
    /\ it.tag = "leave" => it.res = <<>> /\ it.meta = <<>>

\* An item and its copy in the message: operands are defined before it, and
\* their indices are those of their definitions; where the value table is
\* written, the types are those of the results.
ItemCopied(f, i) ==
    LET items == program[f].items
        old == items[i]
        new == message.functions[f].items[i]
        table == message.functions[f].values
    IN /\ new.tag = old.tag /\ new.regions = old.regions
       /\ DOMAIN new.ins = DOMAIN old.ins
       /\ \A k \in DOMAIN old.ins :
             old.ins[k][2] \in 1 .. i - 1 /\ RP!Leads(f, old.ins[k], new.ins[k])
       /\ DOMAIN new.outs = DOMAIN old.res
       /\ \A k \in DOMAIN old.res :
             new.outs[k] < Len(table) => table[new.outs[k] + 1].type = old.res[k].type
       /\ Obeys(old, RP!OperandTypes(items, i))
FunctionCopied(f) ==
    /\ message.functions[f].hasBody
    /\ DOMAIN message.functions[f].items = DOMAIN program[f].items
    /\ \A i \in DOMAIN program[f].items : ItemCopied(f, i)
Copied == \A f \in DOMAIN program : FunctionCopied(f)

\* The reader's words for types and kinds are the writer's.
LEMMA SameWords ==
  /\ \A d : RP!TypesOf(d) = TypesOf(d)
  /\ RP!ScfKinds = ScfKinds
  /\ RP!Item = Item /\ RP!Def = Def /\ RP!Metadata = Metadata /\ RP!Value = Value
  /\ RP!Message = Message /\ RP!MessageItem = MessageItem
BY DEF RP!TypesOf, TypesOf, RP!ScfKinds, ScfKinds, RP!Item, Item, RP!Def, Def, RP!Metadata,
       Metadata, RP!Entry, Entry, RP!Value, Value, RP!Tags, Tags, RP!Bounds, Bounds,
       RP!Message, Message, RP!MessageItem, MessageItem, RP!MessageFunction, MessageFunction

\* The types of operands depend on the items before only.
LEMMA OperandTypesKept ==
  ASSUME NEW a, NEW b, NEW i \in Nat, b[i] = a[i],
         \A k \in DOMAIN a[i].ins : b[a[i].ins[k][2]] = a[a[i].ins[k][2]]
  PROVE  RP!OperandTypes(b, i) = RP!OperandTypes(a, i)
BY DEF RP!OperandTypes

\* Where an item leads stays while items are added.
LEMMA LeadsStays ==
  ASSUME NEW f, NEW v, NEW x, RP!Leads(f, v, x),
         DOMAIN message.functions[f].items \subseteq DOMAIN message'.functions[f].items,
         \A i \in DOMAIN message.functions[f].items :
             message'.functions[f].items[i] = message.functions[f].items[i]
  PROVE  RP!Leads(f, v, x)'
BY DEF RP!Leads, RP!Items

\* A copy stays one while items are added after it and the table stays.
LEMMA ItemStaysCopied ==
  ASSUME NEW f, NEW i, i \in DOMAIN program[f].items, program[f].items \in Seq(Item),
         module' = module,
         \A j \in DOMAIN program[f].items : program'[f].items[j] = program[f].items[j],
         DOMAIN message.functions[f].items \subseteq DOMAIN message'.functions[f].items,
         DOMAIN message.functions[f].items = DOMAIN program[f].items,
         \A j \in DOMAIN message.functions[f].items :
             message'.functions[f].items[j] = message.functions[f].items[j],
         \A k \in DOMAIN program[f].items[i].res :
             LET x == message.functions[f].items[i].outs[k]
             IN x < Len(message'.functions[f].values) =>
                  message'.functions[f].values[x + 1].type = program[f].items[i].res[k].type,
         ItemCopied(f, i)
  PROVE  ItemCopied(f, i)'
<1> DEFINE items == program[f].items
           old == items[i]
           new == message.functions[f].items[i]
           types == RP!OperandTypes(items, i)
<1>1. /\ new.tag = old.tag /\ new.regions = old.regions
      /\ DOMAIN new.ins = DOMAIN old.ins
      /\ \A k \in DOMAIN old.ins :
            old.ins[k][2] \in 1 .. i - 1 /\ RP!Leads(f, old.ins[k], new.ins[k])
      /\ DOMAIN new.outs = DOMAIN old.res
      /\ Obeys(old, types)
  BY DEF ItemCopied
<1>2. program'[f].items[i] = old /\ message'.functions[f].items[i] = new
  OBVIOUS
<1>3. i \in Nat /\ \A j \in 1 .. i - 1 : j \in DOMAIN items
  <2>1. PICK n : n = Len(items)
    OBVIOUS
  <2>2. n \in Nat /\ DOMAIN items = 1 .. n /\ i \in 1 .. n
    BY <2>1
  <2> HIDE DEF items
  <2> QED
    BY <2>2
<1>4. \A k \in DOMAIN old.ins : RP!Leads(f, old.ins[k], new.ins[k])'
  BY <1>1, <1>2, LeadsStays
<1>5. RP!OperandTypes(program'[f].items, i) = types
  BY <1>1, <1>2, <1>3, OperandTypesKept
<1>6. Obeys(old, types)'
  <2>1. PICK o, t : o = old /\ t = types
    OBVIOUS
  <2>2. Obeys(o, t)'
    BY <1>1, <2>1 DEF Obeys
  <2> QED
    BY <1>2, <1>5, <2>1, <2>2
<1> QED
  BY <1>1, <1>2, <1>4, <1>5, <1>6 DEF ItemCopied

----------------------------------------------------------------------------
(* Steps of the writer keep the copies.                                    *)

\* What is appended to the program and to the message with an item.
LEMMA ItemAdded ==
  ASSUME FullInv, Mirrored, program # <<>>, NEW item \in Item, NEW ACTION refId,
         WriteItem(item.tag, item.ins, item.res, item.meta, item.ref, refId, item.regions)
  PROVE  /\ Cur \in DOMAIN program /\ Cur' = Cur /\ DOMAIN program' = DOMAIN program
         /\ program[Cur].items \in Seq(Item)
         /\ Here \in Nat /\ Here = Len(program[Cur].items) + 1
         /\ \A f \in DOMAIN program : f # Cur =>
               program'[f] = program[f] /\ message'.functions[f] = message.functions[f]
         /\ program'[Cur].items = Append(program[Cur].items, item)
         /\ program'[Cur].items[Here] = item
         /\ DOMAIN program'[Cur].items = DOMAIN program[Cur].items \cup {Here}
         /\ \A j \in DOMAIN program[Cur].items :
               j # Here /\ program'[Cur].items[j] = program[Cur].items[j]
         /\ message'.functions[Cur].values = message.functions[Cur].values
         /\ message'.functions[Cur].hasBody = message.functions[Cur].hasBody
         /\ DOMAIN message.functions[Cur].items = DOMAIN program[Cur].items
         /\ DOMAIN message'.functions[Cur].items = DOMAIN message.functions[Cur].items \cup {Here}
         /\ \A j \in DOMAIN message.functions[Cur].items :
               message'.functions[Cur].items[j] = message.functions[Cur].items[j]
         /\ message'.functions[Cur].items[Here].tag = item.tag
         /\ message'.functions[Cur].items[Here].regions = item.regions
         /\ message'.functions[Cur].items[Here].ins = [k \in DOMAIN item.ins |-> values'[item.ins[k]]]
         /\ message'.functions[Cur].items[Here].outs
               = [k \in DOMAIN item.res |-> values'[<<Cur, Here, k>>]]
<1> DEFINE new == [tag     |-> item.tag,
                   ins     |-> [i \in DOMAIN item.ins |-> values'[item.ins[i]]],
                   outs    |-> [k \in DOMAIN item.res |-> values'[<<Cur, Here, k>>]],
                   meta    |-> WrittenMeta(item.meta),
                   ref     |-> refId,
                   regions |-> item.regions]
           olds == program[Cur].items
           news == message.functions[Cur].items
<1>1. program' = [program EXCEPT ![Cur].items = Append(@, item)]
  <2>1. item = [tag |-> item.tag, ins |-> item.ins, res |-> item.res, meta |-> item.meta,
                ref |-> item.ref, regions |-> item.regions]
    BY DEF Item
  <2> QED
    BY <2>1, Zenon DEF WriteItem
<1>2. message' = [message EXCEPT !.functions[Cur].items = Append(@, new)]
  BY Zenon DEF WriteItem
<1>3. /\ new.tag = item.tag /\ new.regions = item.regions
      /\ new.ins = [i \in DOMAIN item.ins |-> values'[item.ins[i]]]
      /\ new.outs = [k \in DOMAIN item.res |-> values'[<<Cur, Here, k>>]]
  OBVIOUS
<1> HIDE DEF new
<1>4. /\ program \in Seq(ProgramFunction) /\ Cur \in DOMAIN program
      /\ program[Cur] \in ProgramFunction /\ Encoding
  BY DEF FullInv, Inv, Walk, Cur
<1>5. /\ message.functions \in Seq(MessageFunction) /\ Cur \in DOMAIN message.functions
      /\ message.functions[Cur] \in MessageFunction /\ message \in Message
      /\ DOMAIN message.functions = DOMAIN program
  BY <1>4 DEF Encoding, Message, Cur
<1>6. olds \in Seq(Item) /\ news \in Seq(MessageItem) /\ DOMAIN news = DOMAIN olds
  BY <1>4, <1>5 DEF ProgramFunction, MessageFunction, Mirrored
<1>7. /\ DOMAIN program' = DOMAIN program /\ Len(program') = Len(program)
      /\ program'[Cur].items = Append(olds, item)
      /\ \A f \in DOMAIN program : f # Cur => program'[f] = program[f]
  BY <1>1, <1>4 DEF ProgramFunction
<1>8. /\ message'.functions[Cur].items = Append(news, new)
      /\ message'.functions[Cur].values = message.functions[Cur].values
      /\ message'.functions[Cur].hasBody = message.functions[Cur].hasBody
      /\ \A f \in DOMAIN program : f # Cur => message'.functions[f] = message.functions[f]
  BY <1>2, <1>5 DEF Message, MessageFunction
<1>9. Len(news) = Len(olds) /\ Len(olds) \in Nat /\ Here = Len(olds) + 1
  BY <1>6, SameLength DEF Here
<1> HIDE DEF olds, news
<1>10. /\ DOMAIN Append(olds, item) = DOMAIN olds \cup {Here}
       /\ \A i \in DOMAIN olds : i # Here /\ Append(olds, item)[i] = olds[i]
       /\ Append(olds, item)[Here] = item
  BY <1>6, <1>9
<1>11. /\ DOMAIN Append(news, new) = DOMAIN news \cup {Here}
       /\ \A i \in DOMAIN news : Append(news, new)[i] = news[i]
       /\ Append(news, new)[Here] = new
  BY <1>6, <1>9
<1>12. Cur' = Cur
  BY <1>7 DEF Cur
<1> QED
  BY <1>3, <1>4, <1>6, <1>7, <1>8, <1>9, <1>10, <1>11, <1>12 DEF olds, news

\* A function that is not touched stays copied.
LEMMA FunctionStaysCopied ==
  ASSUME NEW f, program'[f] = program[f], message'.functions[f] = message.functions[f],
         module' = module, program[f] \in ProgramFunction, FunctionCopied(f)
  PROVE  FunctionCopied(f)'
<1>1. program[f].items \in Seq(Item)
  BY DEF ProgramFunction
<1>2. ASSUME NEW i \in DOMAIN program[f].items PROVE ItemCopied(f, i)'
  <2>1. ItemCopied(f, i) /\ DOMAIN message.functions[f].items = DOMAIN program[f].items
    BY DEF FunctionCopied
  <2>2. \A k \in DOMAIN program[f].items[i].res :
           LET x == message.functions[f].items[i].outs[k]
           IN x < Len(message'.functions[f].values) =>
                message'.functions[f].values[x + 1].type = program[f].items[i].res[k].type
    BY <2>1 DEF ItemCopied
  <2> QED
    BY <1>1, <2>1, <2>2, ItemStaysCopied
<1> QED
  BY <1>2 DEF FunctionCopied

\* An item whose operands are visible and obey the verifier is copied.
LEMMA ItemCopies ==
  ASSUME FullInv, Readable, Copied, program # <<>>, NEW item \in Item, NEW ACTION refId,
         WriteItem(item.tag, item.ins, item.res, item.meta, item.ref, refId, item.regions),
         module' = module, Range(item.ins) \subseteq DOMAIN values,
         NEW ts \in Seq(Types), DOMAIN ts = DOMAIN item.ins,
         \A k \in DOMAIN item.ins : DefOf(item.ins[k]).type = ts[k],
         Obeys(item, ts)
  PROVE  Copied' /\ RP!OperandTypes(program'[Cur].items, Here) = ts
<1>0. PICK c, h : c = Cur /\ h = Here
  OBVIOUS
<1> DEFINE olds == program[c].items
           news == message.functions[c].items
           new == message'.functions[c].items[h]
           table == message.functions[c].values
<1>1. /\ c \in DOMAIN program /\ Cur' = c /\ DOMAIN program' = DOMAIN program
      /\ olds \in Seq(Item)
      /\ h \in Nat /\ h = Len(olds) + 1
      /\ \A f \in DOMAIN program : f # c =>
            program'[f] = program[f] /\ message'.functions[f] = message.functions[f]
      /\ program'[c].items[h] = item
      /\ DOMAIN program'[c].items = DOMAIN olds \cup {h}
      /\ \A j \in DOMAIN olds : j # h /\ program'[c].items[j] = olds[j]
      /\ message'.functions[c].values = table
      /\ message'.functions[c].hasBody = message.functions[c].hasBody
      /\ DOMAIN news = DOMAIN olds
      /\ DOMAIN message'.functions[c].items = DOMAIN news \cup {h}
      /\ \A j \in DOMAIN news : message'.functions[c].items[j] = news[j]
      /\ new.tag = item.tag /\ new.regions = item.regions
      /\ new.ins = [k \in DOMAIN item.ins |-> values'[item.ins[k]]]
      /\ new.outs = [k \in DOMAIN item.res |-> values'[<<c, h, k>>]]
  <2>1. Mirrored
    BY DEF Readable
  <2> QED
    BY <1>0, <2>1, ItemAdded
<1> HIDE DEF olds, news, new, table
<1>2. item.ins \in Seq(Value) /\ item.res \in Seq(Def)
  BY DEF Item
<1>3. /\ program \in Seq(ProgramFunction) /\ Numbered /\ Scoped /\ Mirrored
  BY DEF FullInv, Inv, Walk, Readable
<1>4. ASSUME NEW k \in DOMAIN item.ins
      PROVE  /\ item.ins[k][1] = c /\ item.ins[k][2] \in DOMAIN olds
             /\ item.ins[k][3] \in DOMAIN news[item.ins[k][2]].outs
             /\ item.ins[k][3] \in DOMAIN olds[item.ins[k][2]].res
             /\ news[item.ins[k][2]].outs[item.ins[k][3]] = new.ins[k]
             /\ TypesOf(olds[item.ins[k][2]].res)[item.ins[k][3]] = ts[k]
  <2>1. PICK v : v = item.ins[k]
    OBVIOUS
  <2>2. v \in DOMAIN values
    BY <2>1 DEF Range
  <2>3. Defined(v) /\ v[1] = c
    BY <1>0, <1>3, <2>2 DEF Scoped, Mirrored
  <2>4. v[2] \in DOMAIN olds /\ v[3] \in DOMAIN olds[v[2]].res /\ v = <<c, v[2], v[3]>>
    BY <2>3 DEF Defined, Value, olds
  <2>5. /\ v[3] \in DOMAIN news[v[2]].outs
        /\ news[v[2]].outs[v[3]] = values[<<c, v[2], v[3]>>]
    BY <1>0, <1>1, <1>3, <2>4 DEF Mirrored, news, olds
  <2>6. values'[v] = values[v]
    BY <1>2, <1>3, <2>2, ItemNumbered
  <2>7. new.ins[k] = values'[v]
    BY <1>1, <2>1
  <2>8. olds[v[2]].res[v[3]].type = ts[k]
    BY <2>1, <2>3 DEF DefOf, olds
  <2>9. TypesOf(olds[v[2]].res)[v[3]] = ts[k]
    BY <2>4, <2>8 DEF TypesOf
  <2> QED
    BY <2>1, <2>3, <2>4, <2>5, <2>6, <2>7, <2>9
<1>5. RP!OperandTypes(program'[c].items, h) = ts
  <2>1. \A k \in DOMAIN item.ins :
           program'[c].items[item.ins[k][2]] = olds[item.ins[k][2]]
    BY <1>1, <1>4
  <2>2. \A k \in DOMAIN item.ins :
           RP!TypesOf(program'[c].items[item.ins[k][2]].res)[item.ins[k][3]] = ts[k]
    BY <1>4, <2>1, SameWords
  <2>3. ts = [k \in DOMAIN item.ins |-> ts[k]]
    OBVIOUS
  <2> QED
    BY <1>1, <2>2, <2>3 DEF RP!OperandTypes
<1>6. ItemCopied(c, h)'
  <2>1. ASSUME NEW k \in DOMAIN item.ins, NEW x, x = new.ins[k]
        PROVE  RP!Leads(c, item.ins[k], x)'
    <3>1. PICK v : v = item.ins[k]
      OBVIOUS
    <3>2. /\ v[1] = c /\ v[2] \in DOMAIN news /\ v[3] \in DOMAIN news[v[2]].outs
          /\ news[v[2]].outs[v[3]] = x
      BY <1>1, <1>4, <2>1, <3>1
    <3>3. /\ v[2] \in DOMAIN message'.functions[c].items
          /\ message'.functions[c].items[v[2]] = news[v[2]]
      BY <1>1, <3>2
    <3>4. RP!Leads(c, v, x)'
      BY <3>2, <3>3 DEF RP!Leads, RP!Items
    <3> QED
      BY <3>1, <3>4
  <2>2. ASSUME NEW k \in DOMAIN item.res PROVE ~(new.outs[k] < Len(table))
    <3>1. ~(values'[<<Cur, Here, k>>] < Len(message.functions[Cur].values))
      BY <1>2, OutsBeyondTable
    <3>2. new.outs[k] = values'[<<c, h, k>>]
      BY <1>1
    <3> QED
      BY <1>0, <3>1, <3>2 DEF table
  <2>3. \A k \in DOMAIN item.ins : item.ins[k][2] \in 1 .. h - 1
    <3>1. DOMAIN olds = 1 .. h - 1
      BY <1>1
    <3> QED
      BY <1>4, <3>1
  <2>4. Obeys(item, ts)'
    BY DEF Obeys
  <2>5. DOMAIN new.ins = DOMAIN item.ins /\ DOMAIN new.outs = DOMAIN item.res
    BY <1>1
  <2> QED
    BY <1>1, <1>5, <2>1, <2>2, <2>3, <2>4, <2>5 DEF ItemCopied, new
<1>7. ASSUME NEW i \in DOMAIN olds PROVE ItemCopied(c, i)'
  <2>1. ItemCopied(c, i)
    BY <1>1 DEF Copied, FunctionCopied, olds
  <2>2. \A k \in DOMAIN olds[i].res :
           LET x == news[i].outs[k]
           IN x < Len(message'.functions[c].values) =>
                message'.functions[c].values[x + 1].type = olds[i].res[k].type
    BY <1>1, <2>1 DEF ItemCopied, olds, news, table
  <2>3. \A j \in DOMAIN olds : program'[c].items[j] = olds[j]
    BY <1>1
  <2> QED
    BY <1>1, <2>1, <2>2, <2>3, ItemStaysCopied DEF olds, news
<1>8. FunctionCopied(c)'
  <2>1. message.functions[c].hasBody
    BY <1>1 DEF Copied, FunctionCopied
  <2>2. DOMAIN message'.functions[c].items = DOMAIN program'[c].items
    BY <1>1
  <2>3. \A i \in DOMAIN program'[c].items : ItemCopied(c, i)'
    BY <1>1, <1>6, <1>7
  <2> QED
    BY <1>1, <2>1, <2>2, <2>3 DEF FunctionCopied
<1>9. ASSUME NEW f \in DOMAIN program, f # c PROVE FunctionCopied(f)'
  BY <1>1, <1>3, <1>9, FunctionStaysCopied DEF Copied
<1> QED
  BY <1>0, <1>1, <1>5, <1>8, <1>9 DEF Copied

\* The item of an operation.
OpItem(s, ins) ==
    [tag |-> s.tag, ins |-> ins, res |-> s.res, meta |-> s.meta, ref |-> s.ref,
     regions |-> [r \in DOMAIN s.regions |-> s.regions[r].block]]

\* It is an item, of the types that the verifier requires.
LEMMA OperationItem ==
  ASSUME FullInv, Readable, frames # <<>>, NEW s \in OpShapes, NEW ins \in Operands(s.ins)
  PROVE  /\ OpItem(s, ins) \in Item
         /\ s.ins \in Seq(Types) /\ DOMAIN s.ins = DOMAIN ins
         /\ \A k \in DOMAIN ins : DefOf(ins[k]).type = s.ins[k]
         /\ Range(ins) \subseteq DOMAIN values
<1>1. /\ s.tag \in Tags /\ s.ins \in Seq(Types) /\ s.res \in Seq(Def) /\ s.meta \in Metadata
      /\ s.ref \in Names \cup {NoName} /\ s.regions \in Seq(RegionShape)
  BY ConstantsAssumption DEF OpShape
<1>2. frames \in Seq(Frame) /\ Visible
  BY DEF FullInv, Inv, Walk, Readable
<1>3. ins \in Seq(Value) /\ Range(ins) \subseteq DOMAIN values
  BY <1>1, <1>2, OperandsAreValues, OperandsNumbered
<1>4. [r \in DOMAIN s.regions |-> s.regions[r].block] \in Seq(BOOLEAN)
  BY <1>1, PresentRegions
<1>5. OpItem(s, ins) \in Item
  BY <1>1, <1>3, <1>4 DEF OpItem, Item
<1>6. ins \in [DOMAIN s.ins -> Top.scope] /\ \A k \in DOMAIN s.ins : DefOf(ins[k]).type = s.ins[k]
  BY DEF Operands
<1> QED
  BY <1>1, <1>3, <1>5, <1>6

\* An operation the verifier accepts obeys it wherever it is met.
LEMMA OperationObeys ==
  ASSUME NEW s \in OpShapes, NEW ins, Len(ins) = Len(s.ins),
         s.tag = "call" => \E g \in DOMAIN module.funcs :
             module.funcs[g].name = s.ref /\ module.funcs[g].region.yields = TypesOf(s.res)
  PROVE  Obeys(OpItem(s, ins), s.ins)
<1>1. s.tag \notin Bounds
  BY ConstantsAssumption DEF OpShape
<1>2. PlainVerifies(s) /\ ForVerifies(s)
  BY VerifiedAssumption
<1>3. DOMAIN Signature = FlatKinds \cup {"custom"}
  BY TablesAssumption
<1>4. /\ OpItem(s, ins).tag = s.tag /\ OpItem(s, ins).ins = ins /\ OpItem(s, ins).res = s.res
      /\ OpItem(s, ins).ref = s.ref
  BY DEF OpItem
<1> QED
  BY <1>1, <1>2, <1>3, <1>4 DEF Obeys, PlainVerifies, ForVerifies, Bounds

\* An operation, whatever its shape and operands.
LEMMA OperationCopies ==
  ASSUME FullInv, Readable, Copied, frames # <<>>, NEW s \in OpShapes,
         NEW ins \in Operands(s.ins), NEW ACTION refId, SerializeOp(s, ins, refId),
         s.tag = "call" => \E g \in DOMAIN module.funcs :
             module.funcs[g].name = s.ref /\ module.funcs[g].region.yields = TypesOf(s.res)
  PROVE  /\ Copied'
         /\ RP!OperandTypes(program'[Cur].items, Here) = s.ins
         /\ program'[Cur].items = Append(program[Cur].items, OpItem(s, ins))
<1> DEFINE item == OpItem(s, ins)
<1>1. /\ item \in Item /\ s.ins \in Seq(Types) /\ DOMAIN s.ins = DOMAIN ins
      /\ \A k \in DOMAIN ins : DefOf(ins[k]).type = s.ins[k]
      /\ Range(ins) \subseteq DOMAIN values
  BY OperationItem
<1>2. item.ins = ins
  BY DEF OpItem
<1>3. Len(ins) = Len(s.ins)
  <2>1. ins \in Seq(Value)
    BY <1>1, <1>2 DEF Item
  <2> QED
    BY <1>1, <2>1, SameLength
<1>4. Obeys(item, s.ins)
  BY <1>3, OperationObeys
<1>5. /\ WriteItem(item.tag, item.ins, item.res, item.meta, item.ref, refId, item.regions)
      /\ module' = module
  BY DEF SerializeOp, OpItem
<1>6. program # <<>> /\ Mirrored
  BY DEF FullInv, Inv, Walk, Readable
<1> HIDE DEF item
<1>7. Copied' /\ RP!OperandTypes(program'[Cur].items, Here) = s.ins
  BY <1>1, <1>2, <1>4, <1>5, <1>6, ItemCopies
<1>8. program'[Cur].items = Append(program[Cur].items, item)
  BY <1>1, <1>5, <1>6, ItemAdded
<1> QED
  BY <1>7, <1>8 DEF item

\* Block arguments.
EnterItem(region) ==
    [tag |-> "enter", ins |-> <<>>, res |-> region.args, meta |-> region.meta,
     ref |-> NoName, regions |-> <<>>]

\* The first item of a block is copied.
LEMMA EnterCopies ==
  ASSUME FullInv, Readable, Copied, EnterRegion
  PROVE  /\ Copied'
         /\ program'[Cur].items = Append(program[Cur].items, EnterItem(Head(Top.todo)))
         /\ EnterItem(Head(Top.todo)) \in Item
<1> DEFINE region == Head(Top.todo)
           item == EnterItem(region)
<1>1. /\ Top \in Frame /\ Top.todo # <<>> /\ program # <<>> /\ Mirrored
  BY DEF FullInv, Inv, Walk, EnterRegion, Readable, Top
<1>2. region \in RegionShape
  BY <1>1 DEF Frame
<1>3. /\ item.ins = <<>> /\ item.tag = "enter" /\ item.res = region.args
      /\ item.meta = region.meta /\ item.ref = NoName /\ item.regions = <<>>
  BY DEF EnterItem
<1>4. item \in Item
  BY <1>2 DEF EnterItem, Item, RegionShape, Tags, Bounds
<1>5. /\ WriteItem("enter", <<>>, region.args, region.meta, NoName, 0, <<>>)
      /\ module' = module
  BY DEF EnterRegion
<1>6. WriteItem(item.tag, item.ins, item.res, item.meta, item.ref, 0, item.regions)
  BY <1>3, <1>5
<1>7. Obeys(item, <<>>)
  BY <1>3, FormatAssumption DEF Obeys, Bounds
<1> HIDE DEF item, region
<1>8. Copied'
  <2>1. <<>> \in Seq(Types) /\ DOMAIN <<>> = DOMAIN item.ins /\ DOMAIN item.ins = {}
    BY <1>3
  <2>2. Range(item.ins) = {}
    BY <2>1 DEF Range
  <2> QED
    BY <1>1, <1>4, <1>5, <1>6, <1>7, <2>1, <2>2, ItemCopies
<1>9. program'[Cur].items = Append(program[Cur].items, item)
  BY <1>1, <1>4, <1>6, ItemAdded
<1> QED
  BY <1>4, <1>8, <1>9 DEF item, region

\* A terminator.
LeaveItem(ins) ==
    [tag |-> "leave", ins |-> ins, res |-> <<>>, meta |-> <<>>, ref |-> NoName, regions |-> <<>>]

\* The last item of a block is copied; its operands are those the block yields.
LEMMA LeaveCopies ==
  ASSUME FullInv, Readable, Copied, LeaveRegion
  PROVE  /\ Copied'
         /\ RP!OperandTypes(program'[Cur].items, Here) = Top.yields
         /\ \E ins : /\ program'[Cur].items = Append(program[Cur].items, LeaveItem(ins))
                     /\ LeaveItem(ins) \in Item
<1>1. /\ frames \in Seq(Frame) /\ frames # <<>> /\ Top \in Frame /\ program # <<>> /\ Mirrored
      /\ Visible
  BY DEF FullInv, Inv, Walk, LeaveRegion, InBlock, Readable, Top
<1>2. PICK ins \in Operands(Top.yields) : WriteItem("leave", ins, <<>>, <<>>, NoName, 0, <<>>)
  BY DEF LeaveRegion
<1>3. Top.yields \in Seq(Types) /\ module' = module
  BY <1>1 DEF Frame, LeaveRegion
<1>4. ins \in Seq(Value) /\ Range(ins) \subseteq DOMAIN values
  BY <1>1, <1>3, OperandsAreValues, OperandsNumbered
<1>5. /\ DOMAIN ins = DOMAIN Top.yields
      /\ \A k \in DOMAIN ins : DefOf(ins[k]).type = Top.yields[k]
  BY DEF Operands
<1> DEFINE item == LeaveItem(ins)
<1>6. /\ item.ins = ins /\ item.tag = "leave" /\ item.res = <<>>
      /\ item.meta = <<>> /\ item.ref = NoName /\ item.regions = <<>>
  BY DEF LeaveItem
<1>7. item \in Item
  <2>1. <<>> \in Metadata
    BY DEF Metadata
  <2> QED
    BY <1>4, <2>1 DEF LeaveItem, Item, Tags, Bounds
<1>8. WriteItem(item.tag, item.ins, item.res, item.meta, item.ref, 0, item.regions)
  BY <1>2, <1>6
<1>9. Obeys(item, Top.yields)
  BY <1>6, FormatAssumption DEF Obeys, Bounds
<1> HIDE DEF item
<1>10. Copied' /\ RP!OperandTypes(program'[Cur].items, Here) = Top.yields
  BY <1>1, <1>3, <1>4, <1>5, <1>6, <1>7, <1>8, <1>9, ItemCopies
<1>11. program'[Cur].items = Append(program[Cur].items, item)
  BY <1>1, <1>7, <1>8, ItemAdded
<1> QED
  BY <1>7, <1>10, <1>11 DEF item

\* A function is begun.
LEMMA BeginCopies ==
  ASSUME FullInv, Copied, BeginFunction
  PROVE  /\ Copied'
         /\ Cur' = Cur + 1 /\ Cur \in Nat /\ DOMAIN program' = DOMAIN program \cup {Cur + 1}
         /\ \A f \in DOMAIN program : f # Cur + 1 /\ program'[f] = program[f]
         /\ program'[Cur + 1].items = <<>>
<1> DEFINE func == module.funcs[Cur + 1]
           new == [name   |-> stringIds[func.name],
                   meta   |-> WrittenMeta(func.meta),
                   hasBody |-> TRUE, hasOperations |-> TRUE,
                   items  |-> <<>>, values |-> <<>>]
           old == [name |-> func.name, meta |-> func.meta, items |-> <<>>]
<1>1. /\ program \in Seq(ProgramFunction)
      /\ message.functions \in Seq(MessageFunction) /\ Len(message.functions) = Len(program)
  BY DEF FullInv, Inv, Walk, Encoding, Message
<1>2. /\ program' = Append(program, old)
      /\ message' = [message EXCEPT !.functions = Append(@, new)]
      /\ module' = module
  BY Zenon DEF BeginFunction
<1>3. new.items = <<>> /\ new.hasBody /\ old.items = <<>>
  OBVIOUS
<1> HIDE DEF new, old
<1>4. message'.functions = Append(message.functions, new)
  BY <1>1, <1>2 DEF FullInv, Encoding, Message
<1>5. /\ Len(program) \in Nat /\ Len(program') = Len(program) + 1
      /\ DOMAIN program' = DOMAIN program \cup {Cur + 1}
      /\ \A f \in DOMAIN program : f # Cur + 1 /\ program'[f] = program[f]
      /\ program'[Cur + 1] = old
  BY <1>1, <1>2 DEF Cur
<1>6. /\ \A f \in DOMAIN program : message'.functions[f] = message.functions[f]
      /\ message'.functions[Cur + 1] = new
  BY <1>1, <1>4 DEF Cur
<1>7. ASSUME NEW f \in DOMAIN program PROVE FunctionCopied(f)'
  BY <1>1, <1>2, <1>5, <1>6, FunctionStaysCopied DEF Copied
<1>8. ASSUME NEW f, f = Cur + 1 PROVE FunctionCopied(f)'
  <2>1. program'[f].items = <<>> /\ message'.functions[f].items = <<>> /\ DOMAIN <<>> = {}
    BY <1>3, <1>5, <1>6, <1>8
  <2>2. message'.functions[f].hasBody
    BY <1>3, <1>6, <1>8
  <2> QED
    BY <2>1, <2>2 DEF FunctionCopied
<1>9. Copied'
  BY <1>5, <1>7, <1>8 DEF Copied
<1>10. Cur' = Cur + 1 /\ Cur \in Nat
  BY <1>5 DEF Cur
<1> QED
  BY <1>3, <1>5, <1>9, <1>10

\* One more value of the table: the type is that of the value its index was given to.
LEMMA ValueCopies ==
  ASSUME FullInv, Readable, Copied, SerializeValue
  PROVE  Copied'
<1> DEFINE table == message.functions[Cur].values
           id == Len(table)
           x == CHOOSE v \in DOMAIN values : values[v] = id
           entry == [type |-> DefOf(x).type, meta |-> WrittenMeta(DefOf(x).meta)]
<1>1. /\ UNCHANGED <<module, program, values>>
      /\ Len(frames) = 1 /\ ~TableFull
      /\ message' = [message EXCEPT !.functions[Cur].values = Append(@, entry)]
  BY Zenon DEF SerializeValue, InTable
<1>2. frames # <<>> /\ program # <<>> /\ program \in Seq(ProgramFunction) /\ Cur \in DOMAIN program
  <2>1. frames # <<>>
    BY <1>1
  <2> QED
    BY <2>1 DEF FullInv, Inv, Walk, Cur
<1>3. /\ StringTable /\ Encoding /\ Numbered /\ Scoped /\ Mirrored
  BY DEF FullInv, Inv, Readable
<1>4. /\ message.functions \in Seq(MessageFunction) /\ Cur \in DOMAIN message.functions
      /\ message.functions[Cur] \in MessageFunction
      /\ table \in Seq([type : Types, meta : Seq(Nat)]) /\ id \in Nat
  <2>1. /\ message.functions \in Seq(MessageFunction) /\ Cur \in DOMAIN message.functions
        /\ message.functions[Cur] \in MessageFunction
    BY <1>2, <1>3 DEF Encoding, Message, Cur
  <2>2. table \in Seq([type : Types, meta : Seq(Nat)])
    BY <2>1 DEF MessageFunction
  <2> QED
    BY <2>1, <2>2
<1>5. x \in DOMAIN values /\ values[x] = id
  <2>1. Cardinality(DOMAIN values) \in Nat
    BY <1>3, NumberedTyped DEF Numbered
  <2>2. id <= Cardinality(DOMAIN values) /\ id # Cardinality(DOMAIN values)
    BY <1>1, <1>2, <1>3 DEF Encoding, TableFull
  <2>3. id \in 0 .. Cardinality(DOMAIN values) - 1
    BY <1>4, <2>1, <2>2
  <2>4. \E v \in DOMAIN values : values[v] = id
    BY <1>3, <2>3 DEF Numbered, Dense
  <2> QED
    BY <2>4
<1>6. entry.type = DefOf(x).type
  OBVIOUS
<1> HIDE DEF entry, x
<1>7. /\ message'.functions[Cur].items = message.functions[Cur].items
      /\ message'.functions[Cur].hasBody = message.functions[Cur].hasBody
      /\ message'.functions[Cur].values = Append(table, entry)
      /\ \A f \in DOMAIN message.functions :
            f # Cur => message'.functions[f] = message.functions[f]
  BY <1>1, <1>3, <1>4 DEF Encoding, Message, MessageFunction
<1>8. PICK c : c = Cur
  OBVIOUS
<1>9. /\ Len(Append(table, entry)) = id + 1
      /\ Append(table, entry)[id + 1] = entry
      /\ \A j \in 1 .. id : Append(table, entry)[j] = table[j]
  BY <1>4
<1> HIDE DEF table, id
<1>10. ASSUME NEW f \in DOMAIN program, f # c PROVE FunctionCopied(f)'
  <2>1. f \in DOMAIN message.functions /\ program[f] \in ProgramFunction /\ FunctionCopied(f)
    BY FunctionsTyped DEF Copied
  <2> QED
    BY <1>1, <1>7, <1>8, <1>10, <2>1, FunctionStaysCopied
<1>11. FunctionCopied(c)'
  <2> DEFINE items == program[c].items
             news == message.functions[c].items
  <2>1. /\ items \in Seq(Item) /\ news \in Seq(MessageItem) /\ FunctionCopied(c)
        /\ DOMAIN news = DOMAIN items
    <3>1. program[c] \in ProgramFunction /\ message.functions[c] \in MessageFunction
          /\ FunctionCopied(c)
      BY <1>2, <1>4, <1>8, FunctionsTyped DEF Copied
    <3> QED
      BY <3>1 DEF ProgramFunction, MessageFunction, FunctionCopied
  <2>2. ASSUME NEW i \in DOMAIN items PROVE ItemCopied(c, i)'
    <3> DEFINE old == items[i]
               new == news[i]
    <3>1. ItemCopied(c, i)
      BY <2>1 DEF FunctionCopied
    <3>2. /\ DOMAIN new.outs = DOMAIN old.res
          /\ \A k \in DOMAIN old.res : new.outs[k] < id => table[new.outs[k] + 1].type = old.res[k].type
      BY <1>8, <3>1 DEF ItemCopied, id, table
    <3>3. new \in MessageItem
      BY <2>1
    <3>4. \A k \in DOMAIN old.res :
             <<Cur, i, k>> \in DOMAIN values /\ new.outs[k] = values[<<Cur, i, k>>]
      BY <1>2, <1>3, <1>8, <2>1, <3>2 DEF Mirrored
    <3>5. \A k \in DOMAIN old.res : DefOf(<<Cur, i, k>>) = old.res[k]
      BY <1>8 DEF DefOf
    <3> HIDE DEF old, new
    <3>6. ASSUME NEW k \in DOMAIN old.res, new.outs[k] < id + 1
          PROVE  Append(table, entry)[new.outs[k] + 1].type = old.res[k].type
      <4>1. new.outs[k] \in Nat
        BY <3>2, <3>3 DEF MessageItem
      <4>2. CASE new.outs[k] = id
        <5>1. x = <<Cur, i, k>>
          BY <1>3, <1>5, <3>4, <4>2 DEF Numbered, Dense
        <5>2. DefOf(x) = old.res[k]
          BY <3>5, <5>1
        <5> QED
          BY <1>6, <1>9, <4>2, <5>2
      <4>3. CASE new.outs[k] # id
        <5>1. new.outs[k] < id /\ new.outs[k] + 1 \in 1 .. id
          BY <1>4, <3>6, <4>1, <4>3
        <5> QED
          BY <1>9, <3>2, <5>1
      <4> QED
        BY <4>2, <4>3
    <3>7. \A k \in DOMAIN old.res :
             LET y == new.outs[k]
             IN y < Len(message'.functions[c].values) =>
                  message'.functions[c].values[y + 1].type = old.res[k].type
      BY <1>7, <1>8, <1>9, <3>6
    <3>8. program' = program /\ message'.functions[c].items = news /\ module' = module
      BY <1>1, <1>7, <1>8
    <3> HIDE DEF items, news
    <3> QED
      BY <2>1, <3>1, <3>7, <3>8, ItemStaysCopied DEF items, news, old, new
  <2>3. program' = program /\ message'.functions[c].items = news
        /\ message'.functions[c].hasBody = message.functions[c].hasBody
    BY <1>1, <1>7, <1>8
  <2> QED
    BY <2>1, <2>2, <2>3 DEF FunctionCopied
<1> QED
  BY <1>1, <1>10, <1>11 DEF Copied

\* A step that leaves what was visited and its functions in the message as they are.
LEMMA OtherCopies ==
  ASSUME FullInv, Copied, UNCHANGED <<module, program>>, message'.functions = message.functions
  PROVE  Copied'
<1>1. ASSUME NEW f \in DOMAIN program PROVE FunctionCopied(f)'
  <2>1. program[f] \in ProgramFunction /\ FunctionCopied(f)
    BY FunctionsTyped DEF Copied
  <2> QED
    BY <2>1, FunctionStaysCopied
<1> QED
  BY <1>1 DEF Copied

\* The callee's results are those of the call.
LEMMA CallOperation ==
  ASSUME SerializeCall
  PROVE  \E s \in OpShapes : \E ins \in Operands(s.ins) :
            /\ s.tag = "call" /\ SerializeOp(s, ins, funcs[s.ref])
            /\ \E g \in DOMAIN module.funcs :
                  module.funcs[g].name = s.ref /\ module.funcs[g].region.yields = TypesOf(s.res)
BY DEF SerializeCall

\* No step of the walk breaks a copy.
LEMMA NextCopied == FullInv /\ Readable /\ Copied /\ [Next]_vars => Copied'
<1> SUFFICES ASSUME FullInv, Readable, Copied, [Next]_vars PROVE Copied'
  OBVIOUS
<1>1. CASE SerializeModule \/ FinishModule
  <2>1. UNCHANGED <<module, program>> /\ message'.functions = message.functions
    BY <1>1 DEF SerializeModule, FinishModule, FullInv, Encoding, Message
  <2> QED
    BY <2>1, OtherCopies
<1>2. CASE BeginFunction
  BY <1>2, BeginCopies
<1>3. CASE FunctionNameMissing \/ EnterAbsentRegion \/ CustomNameMissing \/ UNCHANGED vars
  <2>1. UNCHANGED <<module, program, message>>
    BY <1>3 DEF FunctionNameMissing, EnterAbsentRegion, CustomNameMissing, vars
  <2> QED
    BY <2>1, OtherCopies
<1>4. CASE EnterRegion
  BY <1>4, EnterCopies
<1>5. CASE LeaveRegion
  BY <1>5, LeaveCopies
<1>6. CASE SerializeFlatOp \/ SerializeCustom \/ SerializeCall \/ SerializeScf
  <2>1. frames # <<>>
    BY <1>6 DEF SerializeFlatOp, SerializeCustom, SerializeCall, SerializeScf, AtOperation, InBlock
  <2>2. CASE SerializeFlatOp \/ SerializeCustom \/ SerializeScf
    <3>1. "call" \notin FlatKinds \cup ScfKinds
      BY FormatAssumption DEF ScfKinds
    <3>2. CASE SerializeFlatOp \/ SerializeScf
      BY <2>1, <3>1, <3>2, OperationCopies DEF SerializeFlatOp, SerializeScf
    <3>3. CASE SerializeCustom
      BY <2>1, <3>3, OperationCopies DEF SerializeCustom
    <3> QED
      BY <2>2, <3>2, <3>3
  <2>3. CASE SerializeCall
    BY <2>1, <2>3, CallOperation, OperationCopies
  <2> QED
    BY <1>6, <2>2, <2>3
<1>7. CASE SerializeValue
  BY <1>7, ValueCopies
<1> QED
  BY <1>1, <1>2, <1>3, <1>4, <1>5, <1>6, <1>7 DEF Next

----------------------------------------------------------------------------
(* Regions: the stack of frames is what the items of the current function  *)
(* leave open.                                                             *)

\* No region is absent; an absent region is still to be visited.
Present(items) == \A i \in DOMAIN items : \A r \in DOMAIN items[i].regions : items[i].regions[r]
Pending(fs) == \E k \in DOMAIN fs : \E r \in DOMAIN fs[k].todo : ~fs[k].todo[r].block

\* The block arguments that frames have still to come; the first frame holds
\* the body.
Awaits(fs, stack) ==
    /\ Len(stack) = Len(fs) - 1
    /\ \A k \in 1 .. Len(fs) - 1 :
          /\ Len(stack[k]) = Len(fs[k + 1].todo)
          /\ \A r \in DOMAIN fs[k + 1].todo :
                fs[k + 1].todo[r].block => stack[k][r] = TypesOf(fs[k + 1].todo[r].args)

\* A body ends with its results.
Ends(items, region) ==
    items # <<>> /\ RP!OperandTypes(items, Len(items)) = region.yields

\* Frames fit the items of a body that is region, and a body is complete.
Framing(fs, items, region) ==
    /\ fs # <<>>
    /\ \E open : RP!Regions(open, items) /\ Awaits(fs, open[Len(items)])
    /\ Present(items) \/ Pending(fs)
    /\ items = <<>> => Len(fs) = 1 /\ fs[1].todo = <<region>>
    /\ items # <<>> => fs[1].todo = <<>>
    /\ Len(fs) > 1 => fs[2].yields = region.yields
    /\ items # <<>> /\ Len(fs) = 1 => Ends(items, region)
Complete(items, region) ==
    /\ \E open : RP!Regions(open, items) /\ open[Len(items)] = <<>>
    /\ Present(items)
    /\ Ends(items, region)

\* The current function, and those that are finished.
Finished(f) == Complete(program[f].items, module.funcs[f].region)
Framed ==
    /\ program # <<>> => Framing(frames, program[Cur].items, module.funcs[Cur].region)
    /\ \A f \in DOMAIN program : f # Cur => Finished(f)
    /\ status = "success" => \A f \in DOMAIN program : Finished(f)

\* Operands come from items before.
Backward(items) ==
    \A i \in DOMAIN items : \A k \in DOMAIN items[i].ins : items[i].ins[k][2] \in 1 .. i - 1

\* An empty body opens nothing.
LEMMA NothingOpen ==
  \E open : RP!Regions(open, <<>>) /\ open[0] = <<>>
<1> DEFINE open == [n \in 0 .. 0 |-> <<>>]
<1>1. open \in [0 .. Len(<<>>) -> Seq(Seq(Seq(Types)))] /\ open[0] = <<>> /\ DOMAIN <<>> = {}
  OBVIOUS
<1> HIDE DEF open
<1> QED
  BY <1>1 DEF RP!Regions

\* What may come next where stack is still to come: block arguments first,
\* those of the next region of the innermost operation.
MayFollow(stack, item, n) ==
    /\ n = 0 \/ stack # <<>>
    /\ item.tag = "enter" <=> n = 0 \/ stack[Len(stack)] # <<>>
    /\ item.tag = "enter" /\ n # 0 => TypesOf(item.res) = Head(stack[Len(stack)])

\* One item more.
ComesAfter(items, item, open) ==
    RP!AfterTypes(open[Len(items)], Append(items, item), Len(items) + 1)

\* The nesting of a body goes on with an item that may come next.
LEMMA RegionsExtended ==
  ASSUME NEW items \in Seq(Item), Backward(items), NEW open, RP!Regions(open, items),
         NEW item \in Item, MayFollow(open[Len(items)], item, Len(items)),
         ComesAfter(items, item, open) \in Seq(Seq(Seq(Types)))
  PROVE  \E wider : /\ RP!Regions(wider, Append(items, item))
                     /\ wider[Len(items) + 1] = ComesAfter(items, item, open)
<1>0. PICK n, more, after :
         /\ n = Len(items) /\ more = Append(items, item) /\ after = ComesAfter(items, item, open)
  OBVIOUS
<1> DEFINE wider == [m \in 0 .. n + 1 |-> IF m = n + 1 THEN after ELSE open[m]]
<1>1. /\ open \in [0 .. n -> Seq(Seq(Seq(Types)))]
      /\ open[0] = <<>>
      /\ \A i \in DOMAIN items :
            /\ open[i] = RP!AfterTypes(open[i - 1], items, i)
            /\ i = 1 \/ open[i - 1] # <<>>
            /\ items[i].tag = "enter" <=> i = 1 \/ open[i - 1][Len(open[i - 1])] # <<>>
            /\ items[i].tag = "enter" /\ i # 1 =>
                  TypesOf(items[i].res) = Head(open[i - 1][Len(open[i - 1])])
  BY <1>0, SameWords DEF RP!Regions
<1>2. /\ n \in Nat /\ DOMAIN items = 1 .. n /\ DOMAIN more = 1 .. n + 1 /\ Len(more) = n + 1
      /\ more[n + 1] = item /\ \A i \in 1 .. n : more[i] = items[i]
  BY <1>0
<1>3. /\ wider \in [0 .. n + 1 -> Seq(Seq(Seq(Types)))]
      /\ \A m \in 0 .. n : wider[m] = open[m]
      /\ wider[n + 1] = after
  BY <1>0, <1>1, <1>2
<1> HIDE DEF wider
<1>4. ASSUME NEW i \in 1 .. n
      PROVE  RP!AfterTypes(open[i - 1], more, i) = RP!AfterTypes(open[i - 1], items, i)
  <2>1. RP!OperandTypes(more, i) = RP!OperandTypes(items, i)
    <3>1. i \in Nat /\ more[i] = items[i] /\ i \in DOMAIN items
      BY <1>2
    <3>2. ASSUME NEW k \in DOMAIN items[i].ins
          PROVE  more[items[i].ins[k][2]] = items[items[i].ins[k][2]]
      <4>1. PICK j : j = items[i].ins[k][2]
        OBVIOUS
      <4>2. j \in 1 .. i - 1
        BY <3>1, <4>1 DEF Backward
      <4>3. j \in 1 .. n
        BY <1>2, <4>2
      <4> QED
        BY <1>2, <4>1, <4>3
    <3> QED
      BY <3>1, <3>2, OperandTypesKept
  <2>2. RP!RegionTypes(more, i) = RP!RegionTypes(items, i)
    BY <1>2, <2>1 DEF RP!RegionTypes
  <2> QED
    BY <1>2, <2>2 DEF RP!AfterTypes
<1>5. ASSUME NEW i \in DOMAIN more
      PROVE  /\ wider[i] = RP!AfterTypes(wider[i - 1], more, i)
             /\ i = 1 \/ wider[i - 1] # <<>>
             /\ more[i].tag = "enter" <=> i = 1 \/ wider[i - 1][Len(wider[i - 1])] # <<>>
             /\ more[i].tag = "enter" /\ i # 1 =>
                   TypesOf(more[i].res) = Head(wider[i - 1][Len(wider[i - 1])])
  <2>1. CASE i \in 1 .. n
    <3>1. /\ wider[i] = open[i] /\ wider[i - 1] = open[i - 1] /\ i \in DOMAIN items
          /\ more[i] = items[i]
      <4>1. i \in 0 .. n /\ i - 1 \in 0 .. n /\ i # n + 1
        BY <1>2, <2>1
      <4> QED
        BY <1>2, <1>3, <2>1, <4>1
    <3> QED
      BY <1>1, <1>4, <2>1, <3>1
  <2>2. CASE i = n + 1
    <3>1. /\ wider[i] = after /\ wider[i - 1] = open[n] /\ more[i] = item /\ (i = 1 <=> n = 0)
      BY <1>2, <1>3, <2>2
    <3> QED
      BY <1>0, <2>2, <3>1 DEF MayFollow, ComesAfter
  <2> QED
    BY <1>2, <2>1, <2>2
<1>6. RP!Regions(wider, more)
  BY <1>1, <1>2, <1>3, <1>5, SameWords DEF RP!Regions
<1> QED
  BY <1>0, <1>3, <1>6

\* What the invariants say of the current function when an item is added.
LEMMA CurrentParts ==
  ASSUME FullInv, Readable, Copied, program # <<>>
  PROVE  /\ Cur \in DOMAIN program /\ Cur \in Nat
         /\ program[Cur].items \in Seq(Item) /\ Backward(program[Cur].items)
         /\ Here = Len(program[Cur].items) + 1
<1>1. Cur \in DOMAIN program /\ program[Cur] \in ProgramFunction /\ Cur \in Nat
  BY DEF FullInv, Inv, Walk, Cur
<1>2. program[Cur].items \in Seq(Item)
  BY <1>1 DEF ProgramFunction
<1>3. \A i \in DOMAIN program[Cur].items : ItemCopied(Cur, i)
  BY <1>1 DEF Copied, FunctionCopied
<1>4. Backward(program[Cur].items)
  BY <1>3 DEF Backward, ItemCopied
<1> QED
  BY <1>1, <1>2, <1>4 DEF Here

\* The reader's words for the nesting of bodies are the same in both of its instances.
LEMMA SameNesting ==
  /\ RP!ScfKinds = ScfKinds /\ Reader!ScfKinds = ScfKinds
  /\ \A it : RP!RegionCount(it) = Reader!RegionCount(it)
  /\ \A open, it : RP!AfterItem(open, it) = Reader!AfterItem(open, it)
  /\ \A items : Reader!WellNested(items) => RP!WellNested(items)
<1>1. RP!ScfKinds = ScfKinds /\ Reader!ScfKinds = ScfKinds
  BY DEF RP!ScfKinds, Reader!ScfKinds, ScfKinds
<1>2. \A it : RP!RegionCount(it) = Reader!RegionCount(it)
  BY DEF RP!RegionCount, Reader!RegionCount, RP!Cardinality, Reader!Cardinality
<1>3. \A open, it : RP!AfterItem(open, it) = Reader!AfterItem(open, it)
  BY <1>1, <1>2 DEF RP!AfterItem, Reader!AfterItem
<1>4. ASSUME NEW items, Reader!WellNested(items) PROVE RP!WellNested(items)
  BY <1>3, <1>4 DEF RP!WellNested, Reader!WellNested
<1> QED
  BY <1>1, <1>2, <1>3, <1>4

\* The assumptions of the reader's half hold for the messages of the writer.
LEMMA ReaderAssumptions ==
  RP!FormatAssumption /\ RP!SignatureAssumption /\ RP!FilesAssumption
<1>1. RP!FormatAssumption
  BY FormatAssumption DEF RP!FormatAssumption, RP!ScfKinds, RP!Bounds, ScfKinds, Bounds
<1>2. GoodFiles \subseteq Message
  BY DEF GoodFiles
<1>3. RP!SignatureAssumption
  BY <1>2, TablesAssumption, ConstantsAssumption, SameWords DEF RP!SignatureAssumption
<1>4. RP!FilesAssumption
  BY SameNesting DEF RP!FilesAssumption, GoodFiles
<1> QED
  BY <1>1, <1>3, <1>4

\* A list with one element more.
LEMMA OneMore ==
  ASSUME NEW S, NEW s \in Seq(S), NEW x \in S, NEW n, n = Len(s), NEW more, more = Append(s, x)
  PROVE  /\ n \in Nat /\ DOMAIN s = 1 .. n /\ (s = <<>> <=> n = 0)
         /\ more \in Seq(S) /\ Len(more) = n + 1 /\ more # <<>> /\ DOMAIN more = 1 .. n + 1
         /\ more[n + 1] = x /\ \A i \in 1 .. n : more[i] = s[i]
OBVIOUS

\* What is to come after the start of a block.
EnteredAll(after, now, n, S) ==
    /\ after \in Seq(S) /\ Len(after) = n + 1 /\ after[n + 1] = <<>>
    /\ \A k \in 1 .. n : after[k] = IF k < n THEN now[k] ELSE Tail(now[k])

\* A block is open, of whose arguments none are to come; those it has taken are not.
LEMMA AfterEnter ==
  ASSUME NEW S, <<>> \in S, NEW now \in Seq(S), NEW n \in Nat, Len(now) = n,
         n # 0 => Tail(now[n]) \in S,
         NEW items, NEW i, items[i].tag = "enter"
  PROVE  EnteredAll(RP!AfterTypes(now, items, i), now, n, S)
<1> DEFINE rest == [k \in DOMAIN now |-> IF k < Len(now) THEN now[k] ELSE Tail(now[k])]
<1>0. PICK after : after = RP!AfterTypes(now, items, i)
  OBVIOUS
<1>1. after = Append(rest, <<>>)
  BY <1>0 DEF RP!AfterTypes, RP!ScfKinds
<1>2. /\ rest = [k \in 1 .. n |-> rest[k]]
      /\ \A k \in 1 .. n : rest[k] = IF k < n THEN now[k] ELSE Tail(now[k])
  OBVIOUS
<1>3. ASSUME NEW k \in 1 .. n PROVE rest[k] \in S
  <2>1. k < n => now[k] \in S
    OBVIOUS
  <2>2. ~(k < n) => k = n /\ n # 0
    OBVIOUS
  <2> HIDE DEF rest
  <2> QED
    BY <1>2, <2>1, <2>2
<1> HIDE DEF rest
<1>4. rest \in Seq(S) /\ Len(rest) = n
  BY <1>2, <1>3, ListSeq
<1>5. /\ after \in Seq(S) /\ Len(after) = n + 1 /\ after[n + 1] = <<>>
      /\ \A k \in 1 .. n : after[k] = rest[k]
  BY <1>1, <1>4
<1> QED
  BY <1>0, <1>2, <1>5 DEF EnteredAll

\* A list without its last element.
LEMMA AllButLast ==
  ASSUME NEW S, NEW s \in Seq(S), s # <<>>
  PROVE  /\ SubSeq(s, 1, Len(s) - 1) \in Seq(S) /\ Len(SubSeq(s, 1, Len(s) - 1)) = Len(s) - 1
         /\ \A k \in 1 .. Len(s) - 1 : SubSeq(s, 1, Len(s) - 1)[k] = s[k]
<1>1. Len(s) \in Nat /\ Len(s) # 0 /\ Len(s) - 1 \in Nat
  OBVIOUS
<1>2. PICK n : n = Len(s) - 1
  OBVIOUS
<1>3. /\ SubSeq(s, 1, n) \in Seq(S) /\ Len(SubSeq(s, 1, n)) = n
      /\ \A k \in 1 .. n : SubSeq(s, 1, n)[k] = s[k]
  BY <1>1, <1>2
<1> QED
  BY <1>2, <1>3

\* What is to come after the end of a block.
LEMMA AfterLeave ==
  ASSUME NEW now, NEW items, NEW i, items[i].tag = "leave"
  PROVE  RP!AfterTypes(now, items, i) = SubSeq(now, 1, Len(now) - 1)
BY DEF RP!AfterTypes, RP!ScfKinds

\* What is to come after an operation of a block.
AfterAll(after, now, item, types, n, S) ==
    /\ after \in Seq(S) /\ Len(after) = n
    /\ \A k \in 1 .. n : after[k] = IF item.tag \in ScfKinds /\ k = n THEN types ELSE now[k]

\* The arguments of the regions of the operation are to come.
LEMMA AfterOperation ==
  ASSUME NEW S, NEW now \in Seq(S), NEW n \in Nat \ {0}, Len(now) = n,
         NEW items, NEW i, items[i].tag \notin Bounds,
         NEW types, types = RP!RegionTypes(items, i),
         items[i].tag \in ScfKinds => types \in S
  PROVE  AfterAll(RP!AfterTypes(now, items, i), now, items[i], types, n, S)
<1>1. RP!AfterTypes(now, items, i)
         = IF items[i].tag \in ScfKinds THEN [now EXCEPT ![n] = types] ELSE now
  BY SameWords DEF RP!AfterTypes, Bounds
<1>2. PICK item, after : item = items[i] /\ after = RP!AfterTypes(now, items, i)
  OBVIOUS
<1>3. AfterAll(after, now, item, types, n, S)
  BY <1>1, <1>2 DEF AfterAll
<1> QED
  BY <1>2, <1>3

\* The innermost frame.
LEMMA TopFrame ==
  ASSUME NEW fs \in Seq(Frame), fs # <<>>, NEW L, L = Len(fs)
  PROVE  /\ L \in Nat \ {0} /\ DOMAIN fs = 1 .. L /\ L \in DOMAIN fs /\ fs[L] \in Frame
         /\ fs[L].todo \in Seq(RegionShape)
<1>1. L \in Nat \ {0} /\ DOMAIN fs = 1 .. L /\ L \in DOMAIN fs /\ fs[L] \in Frame
  OBVIOUS
<1> QED
  BY <1>1 DEF Frame

\* What frames say of the block arguments that are still to come.
Waiting(fs, now) ==
    /\ now \in Seq(Seq(Seq(Types)))
    /\ Len(now) = Len(fs) - 1 /\ DOMAIN now = 1 .. Len(fs) - 1
    /\ \A k \in 1 .. Len(fs) - 1 :
          /\ now[k] \in Seq(Seq(Types))
          /\ Len(now[k]) = Len(fs[k + 1].todo)
          /\ now[k] = <<>> <=> fs[k + 1].todo = <<>>
          /\ \A r \in DOMAIN fs[k + 1].todo :
                fs[k + 1].todo[r].block => now[k][r] = TypesOf(fs[k + 1].todo[r].args)

\* The frames of a body say it, as long as they fit its items.
LEMMA OpenParts ==
  ASSUME NEW fs \in Seq(Frame), NEW items \in Seq(Item), NEW region, Framing(fs, items, region)
  PROVE  \E open : RP!Regions(open, items) /\ Waiting(fs, open[Len(items)])
<1>1. PICK L : L = Len(fs)
  OBVIOUS
<1>2. L \in Nat \ {0} /\ DOMAIN fs = 1 .. L
  BY <1>1, TopFrame DEF Framing
<1>3. PICK open : RP!Regions(open, items) /\ Awaits(fs, open[Len(items)])
  BY DEF Framing
<1>4. PICK now : now = open[Len(items)]
  OBVIOUS
<1>5. now \in Seq(Seq(Seq(Types)))
  <2>1. Len(items) \in 0 .. Len(items)
    OBVIOUS
  <2> QED
    BY <1>3, <1>4, <2>1 DEF RP!Regions
<1>6. Len(now) = L - 1 /\ DOMAIN now = 1 .. L - 1
  BY <1>1, <1>2, <1>3, <1>4, <1>5 DEF Awaits
<1>7. ASSUME NEW k \in 1 .. L - 1
      PROVE  /\ now[k] \in Seq(Seq(Types))
             /\ Len(now[k]) = Len(fs[k + 1].todo)
             /\ now[k] = <<>> <=> fs[k + 1].todo = <<>>
  <2>1. now[k] \in Seq(Seq(Types))
    BY <1>5, <1>6
  <2>2. Len(now[k]) = Len(fs[k + 1].todo)
    BY <1>1, <1>3, <1>4 DEF Awaits
  <2>3. fs[k + 1] \in Frame
    BY <1>2
  <2>4. fs[k + 1].todo \in Seq(RegionShape)
    BY <2>3 DEF Frame
  <2> QED
    BY <2>1, <2>2, <2>4
<1>8. Waiting(fs, now)
  BY <1>1, <1>3, <1>4, <1>5, <1>6, <1>7 DEF Awaits, Waiting
<1> QED
  BY <1>3, <1>4, <1>8

\* Regions of an item that is present, or of none.
LEMMA PresentMore ==
  ASSUME NEW items \in Seq(Item), NEW item \in Item, Present(items),
         \A r \in DOMAIN item.regions : item.regions[r]
  PROVE  Present(Append(items, item))
BY DEF Present

\* Block arguments: the next region is not to come any more, one frame more.
LEMMA EnterFraming ==
  ASSUME NEW fs \in Seq(Frame), NEW items \in Seq(Item), Backward(items), NEW region,
         Framing(fs, items, region), NEW L, L = Len(fs),
         fs[L].todo # <<>>, NEW next, next = Head(fs[L].todo), next.block,
         EnterItem(next) \in Item,
         NEW fr \in Frame, fr.todo = <<>>, fr.yields = next.yields,
         NEW fs2 \in Seq(Frame), Len(fs2) = L + 1, fs2[L + 1] = fr,
         fs2[L].todo = Tail(fs[L].todo), fs2[L].yields = fs[L].yields,
         \A k \in 1 .. L - 1 : fs2[k] = fs[k]
  PROVE  Framing(fs2, Append(items, EnterItem(next)), region)
<1>0. PICK item, more, n, todo :
         /\ item = EnterItem(next) /\ more = Append(items, item)
         /\ n = Len(items) /\ todo = fs[L].todo
  OBVIOUS
<1>1. /\ fs # <<>> /\ L \in Nat \ {0} /\ DOMAIN fs = 1 .. L /\ DOMAIN fs2 = 1 .. L + 1
      /\ todo \in Seq(RegionShape) /\ todo # <<>>
  BY <1>0, TopFrame DEF Framing
<1>2. /\ n \in Nat /\ DOMAIN items = 1 .. n /\ (items = <<>> <=> n = 0)
      /\ Len(more) = n + 1 /\ more # <<>> /\ more[n + 1] = item
  BY <1>0, OneMore
<1>3. /\ item.tag = "enter" /\ item.ins = <<>> /\ item.res = next.args /\ item.regions = <<>>
  BY <1>0 DEF EnterItem
<1>4. PICK open : RP!Regions(open, items) /\ Waiting(fs, open[n])
  BY <1>0, OpenParts
<1>5. PICK now : now = open[n]
  OBVIOUS
<1>6. /\ now \in Seq(Seq(Seq(Types)))
      /\ Len(now) = L - 1 /\ DOMAIN now = 1 .. L - 1
      /\ \A k \in 1 .. L - 1 :
            /\ now[k] \in Seq(Seq(Types))
            /\ Len(now[k]) = Len(fs[k + 1].todo)
            /\ now[k] = <<>> <=> fs[k + 1].todo = <<>>
            /\ \A r \in DOMAIN fs[k + 1].todo :
                  fs[k + 1].todo[r].block => now[k][r] = TypesOf(fs[k + 1].todo[r].args)
  BY <1>4, <1>5 DEF Waiting
<1>7. /\ n = 0 => L = 1 /\ todo = <<region>>
      /\ n # 0 => L # 1
  BY <1>0, <1>1, <1>2 DEF Framing
<1>8. /\ Tail(todo) \in Seq(RegionShape) /\ Len(Tail(todo)) = Len(todo) - 1
      /\ \A r \in DOMAIN Tail(todo) : Tail(todo)[r] = todo[r + 1] /\ r + 1 \in DOMAIN todo
      /\ todo[1] = next /\ 1 \in DOMAIN todo
      /\ \A r \in DOMAIN todo : r # 1 => r - 1 \in DOMAIN Tail(todo)
  BY <1>0, <1>1
<1>9. ASSUME L # 1, NEW top, top = now[L - 1]
      PROVE  /\ top # <<>> /\ Head(top) = TypesOf(next.args)
             /\ Tail(top) \in Seq(Seq(Types))
             /\ Len(Tail(top)) = Len(Tail(todo))
             /\ \A r \in DOMAIN Tail(todo) : Tail(top)[r] = top[r + 1]
             /\ \A r \in DOMAIN todo : todo[r].block => top[r] = TypesOf(todo[r].args)
  <2>1. L - 1 \in 1 .. L - 1 /\ (L - 1) + 1 = L
    BY <1>1, <1>9
  <2>2. /\ top \in Seq(Seq(Types)) /\ Len(top) = Len(todo)
        /\ \A r \in DOMAIN todo : todo[r].block => top[r] = TypesOf(todo[r].args)
    BY <1>0, <1>6, <1>9, <2>1
  <2>3. Len(top) # 0
    BY <1>1, <2>2
  <2>4. top # <<>> /\ top[1] = TypesOf(next.args)
    <3>1. top # <<>>
      BY <2>2, <2>3
    <3>2. todo[1] = next /\ 1 \in DOMAIN todo
      BY <1>8
    <3>3. top[1] = TypesOf(todo[1].args)
      BY <2>2, <3>2
    <3> QED
      BY <3>1, <3>2, <3>3
  <2>5. Head(top) = top[1] /\ Tail(top) \in Seq(Seq(Types)) /\ Len(Tail(top)) = Len(top) - 1
        /\ \A r \in 1 .. Len(top) - 1 : Tail(top)[r] = top[r + 1]
    BY <2>2, <2>3
  <2>6. DOMAIN Tail(todo) = 1 .. Len(top) - 1
    BY <1>8, <2>2
  <2> QED
    BY <1>8, <2>2, <2>4, <2>5, <2>6
<1>10. PICK after : after = RP!AfterTypes(now, more, n + 1)
  OBVIOUS
<1>11. /\ after \in Seq(Seq(Seq(Types))) /\ Len(after) = L /\ after[L] = <<>>
       /\ \A k \in 1 .. L - 1 : after[k] = IF k < L - 1 THEN now[k] ELSE Tail(now[k])
  <2>1. PICK m, i : m = L - 1 /\ i = n + 1
    OBVIOUS
  <2>2. m \in Nat /\ Len(now) = m /\ m + 1 = L /\ (m # 0 => L # 1)
    BY <1>1, <1>6, <2>1
  <2>3. more[i].tag = "enter" /\ after = RP!AfterTypes(now, more, i)
    BY <1>2, <1>3, <1>10, <2>1
  <2>4. m # 0 => Tail(now[m]) \in Seq(Seq(Types))
    BY <1>9, <2>1, <2>2
  <2>5. <<>> \in Seq(Seq(Types))
    OBVIOUS
  <2>7. PICK S : S = Seq(Seq(Types))
    OBVIOUS
  <2>8. /\ now \in Seq(S) /\ <<>> \in S
        /\ m # 0 => Tail(now[m]) \in S
    BY <1>6, <2>4, <2>5, <2>7
  <2>6. EnteredAll(after, now, m, S)
    BY <2>2, <2>3, <2>8, AfterEnter
  <2> QED
    BY <2>1, <2>2, <2>6, <2>7 DEF EnteredAll
<1>12. PICK wider : RP!Regions(wider, more) /\ wider[n + 1] = after
  <2>1. n = 0 \/ now # <<>>
    BY <1>6, <1>7, <1>1
  <2>2. n # 0 => now[Len(now)] # <<>> /\ TypesOf(item.res) = Head(now[Len(now)])
    BY <1>3, <1>6, <1>7, <1>9
  <2>3. /\ item \in Item /\ MayFollow(open[Len(items)], item, Len(items))
        /\ ComesAfter(items, item, open) = after
    BY <1>0, <1>3, <1>5, <1>10, <2>1, <2>2 DEF MayFollow, ComesAfter
  <2> QED
    BY <1>0, <1>4, <1>11, <2>3, RegionsExtended
<1>13. Awaits(fs2, after)
  <2>1. ASSUME NEW k \in 1 .. L
        PROVE  /\ Len(after[k]) = Len(fs2[k + 1].todo)
               /\ \A r \in DOMAIN fs2[k + 1].todo :
                     fs2[k + 1].todo[r].block => after[k][r] = TypesOf(fs2[k + 1].todo[r].args)
    <3>0. PICK t : t = fs2[k + 1].todo
      OBVIOUS
    <3>1. CASE k = L
      BY <1>11, <2>1, <3>0, <3>1
    <3>2. CASE k = L - 1
      <4>1. L # 1 /\ t = Tail(todo)
        BY <1>0, <1>1, <2>1, <3>0, <3>2
      <4>2. PICK top : top = now[L - 1]
        OBVIOUS
      <4>3. after[k] = Tail(top)
        BY <1>11, <3>2, <4>2, SMTT(20)
      <4>4. /\ Len(Tail(top)) = Len(t)
            /\ \A r \in DOMAIN t : Tail(top)[r] = top[r + 1]
            /\ \A r \in DOMAIN todo : todo[r].block => top[r] = TypesOf(todo[r].args)
        BY <1>9, <4>1, <4>2
      <4>5. \A r \in DOMAIN t : t[r] = todo[r + 1] /\ r + 1 \in DOMAIN todo
        BY <1>8, <4>1
      <4>6. ASSUME NEW r \in DOMAIN t, t[r].block PROVE Tail(top)[r] = TypesOf(t[r].args)
        BY <4>4, <4>5, <4>6
      <4> QED
        BY <3>0, <4>3, <4>4, <4>6
    <3>3. CASE k < L - 1
      <4>1. k \in 1 .. L - 1 /\ k + 1 \in 1 .. L - 1
        BY <1>1, <2>1, <3>3
      <4>2. t = fs[k + 1].todo /\ after[k] = now[k]
        BY <1>11, <2>1, <3>0, <3>3, <4>1
      <4>3. /\ Len(now[k]) = Len(t)
            /\ \A r \in DOMAIN t : t[r].block => now[k][r] = TypesOf(t[r].args)
        BY <1>6, <4>1, <4>2
      <4> QED
        BY <3>0, <4>2, <4>3
    <3> QED
      BY <1>1, <2>1, <3>1, <3>2, <3>3
  <2>2. Len(fs2) - 1 = L
    BY <1>1
  <2> QED
    BY <1>11, <2>1, <2>2 DEF Awaits
<1>14. Present(more) \/ Pending(fs2)
  <2>1. CASE Present(items)
    BY <1>0, <1>3, <2>1, PresentMore
  <2>2. CASE Pending(fs)
    <3>1. PICK k \in DOMAIN fs : \E r \in DOMAIN fs[k].todo : ~fs[k].todo[r].block
      BY <2>2 DEF Pending
    <3>4. PICK r \in DOMAIN fs[k].todo : ~fs[k].todo[r].block
      BY <3>1
    <3>2. CASE k # L
      BY <1>1, <3>4, <3>2 DEF Pending
    <3>3. CASE k = L
      <4>1. r \in DOMAIN todo /\ ~todo[r].block /\ r # 1
        BY <1>0, <1>8, <3>4, <3>3
      <4>2. r - 1 \in DOMAIN Tail(todo) /\ Tail(todo)[r - 1] = todo[r]
        <5>1. r - 1 \in DOMAIN Tail(todo) /\ r \in Nat
          BY <1>1, <1>8, <4>1
        <5> QED
          BY <1>8, <5>1
      <4>3. fs2[L].todo = Tail(todo) /\ L \in DOMAIN fs2
        BY <1>0, <1>1
      <4>4. ~fs2[L].todo[r - 1].block /\ r - 1 \in DOMAIN fs2[L].todo
        BY <4>1, <4>2, <4>3
      <4> QED
        BY <4>3, <4>4 DEF Pending
    <3> QED
      BY <3>2, <3>3
  <2> QED
    BY <2>1, <2>2 DEF Framing
<1>15. fs2[1].todo = <<>>
  <2>1. CASE L = 1
    <3>1. todo = <<region>>
      BY <1>7, <2>1
    <3>2. fs2[1].todo = Tail(todo) /\ Len(todo) = 1
      BY <1>0, <2>1, <3>1
    <3> QED
      BY <1>8, <3>2
  <2>2. CASE L # 1
    <3>1. fs2[1] = fs[1] /\ items # <<>>
      BY <1>1, <2>2 DEF Framing
    <3> QED
      BY <3>1 DEF Framing
  <2> QED
    BY <2>1, <2>2
<1>16. fs2[2].yields = region.yields
  <2>1. CASE L = 1
    BY <1>0, <1>7, <2>1
  <2>2. CASE L # 1
    <3>1. fs2[2].yields = fs[2].yields /\ L > 1
      BY <1>1, <2>2
    <3> QED
      BY <3>1 DEF Framing
  <2> QED
    BY <2>1, <2>2
<1>17. Len(fs2) # 1 /\ Len(fs2) > 1 /\ fs2 # <<>>
  BY <1>1
<1> QED
  BY <1>0, <1>2, <1>12, <1>13, <1>14, <1>15, <1>16, <1>17 DEF Framing

\* A terminator: the innermost frame is gone.
LEMMA LeaveFraming ==
  ASSUME NEW fs \in Seq(Frame), NEW items \in Seq(Item), Backward(items), NEW region,
         Framing(fs, items, region), NEW L, L = Len(fs), L > 1, fs[L].todo = <<>>,
         NEW ins, LeaveItem(ins) \in Item,
         NEW more, more = Append(items, LeaveItem(ins)),
         RP!OperandTypes(more, Len(items) + 1) = fs[L].yields
  PROVE  Framing(SubSeq(fs, 1, L - 1), more, region)
<1>0. PICK item, n, fs2 :
         /\ item = LeaveItem(ins) /\ n = Len(items) /\ fs2 = SubSeq(fs, 1, L - 1)
  OBVIOUS
<1>1. /\ fs # <<>> /\ L \in Nat \ {0} /\ DOMAIN fs = 1 .. L /\ L - 1 \in Nat \ {0}
  BY TopFrame DEF Framing
<1>2. /\ n \in Nat /\ DOMAIN items = 1 .. n /\ (items = <<>> <=> n = 0)
      /\ Len(more) = n + 1 /\ more # <<>> /\ more[n + 1] = item
  BY <1>0, OneMore
<1>3. /\ item.tag = "leave" /\ item.regions = <<>> /\ more = Append(items, item)
  BY <1>0 DEF LeaveItem
<1>4. PICK open : RP!Regions(open, items) /\ Waiting(fs, open[n])
  BY <1>0, OpenParts
<1>5. PICK now : now = open[n]
  OBVIOUS
<1>6. /\ now \in Seq(Seq(Seq(Types)))
      /\ Len(now) = L - 1 /\ DOMAIN now = 1 .. L - 1
      /\ \A k \in 1 .. L - 1 :
            /\ Len(now[k]) = Len(fs[k + 1].todo)
            /\ now[k] = <<>> <=> fs[k + 1].todo = <<>>
            /\ \A r \in DOMAIN fs[k + 1].todo :
                  fs[k + 1].todo[r].block => now[k][r] = TypesOf(fs[k + 1].todo[r].args)
  BY <1>4, <1>5 DEF Waiting
<1>7. n # 0 /\ items # <<>>
  BY <1>0, <1>1, <1>2 DEF Framing
<1>8. now # <<>> /\ now[Len(now)] = <<>>
  <2>1. L - 1 \in 1 .. L - 1 /\ (L - 1) + 1 = L
    BY <1>1
  <2> QED
    BY <1>1, <1>6, <2>1
<1>9. PICK after : after = RP!AfterTypes(now, more, n + 1)
  OBVIOUS
<1>10. /\ after \in Seq(Seq(Seq(Types))) /\ Len(after) = L - 2
       /\ \A k \in 1 .. L - 2 : after[k] = now[k]
  <2>1. after = SubSeq(now, 1, Len(now) - 1)
    <3>1. more[n + 1].tag = "leave"
      BY <1>2, <1>3
    <3> QED
      BY <1>9, <3>1, AfterLeave
  <2>2. /\ after \in Seq(Seq(Seq(Types))) /\ Len(after) = Len(now) - 1
        /\ \A k \in 1 .. Len(now) - 1 : after[k] = now[k]
    BY <1>6, <1>8, <2>1, AllButLast
  <2>3. Len(now) - 1 = L - 2
    BY <1>1, <1>6
  <2> QED
    BY <2>2, <2>3
<1>11. PICK wider : RP!Regions(wider, more) /\ wider[n + 1] = after
  <2>1. /\ item \in Item /\ MayFollow(open[Len(items)], item, Len(items))
        /\ ComesAfter(items, item, open) = after
    BY <1>0, <1>3, <1>5, <1>7, <1>8, <1>9 DEF MayFollow, ComesAfter
  <2> QED
    BY <1>0, <1>3, <1>4, <1>10, <2>1, RegionsExtended
<1>12. /\ fs2 # <<>> /\ Len(fs2) = L - 1 /\ \A k \in 1 .. L - 1 : fs2[k] = fs[k]
  <2>1. Len(fs2) = L - 1 /\ \A k \in 1 .. L - 1 : fs2[k] = fs[k]
    BY <1>0, <1>1, AllButLast
  <2> QED
    BY <1>1, <2>1
<1>13. Awaits(fs2, after)
  <2>1. ASSUME NEW k \in 1 .. L - 2
        PROVE  /\ Len(after[k]) = Len(fs2[k + 1].todo)
               /\ \A r \in DOMAIN fs2[k + 1].todo :
                     fs2[k + 1].todo[r].block => after[k][r] = TypesOf(fs2[k + 1].todo[r].args)
    <3>1. k \in 1 .. L - 1 /\ k + 1 \in 1 .. L - 1
      BY <1>1
    <3>2. fs2[k + 1] = fs[k + 1] /\ after[k] = now[k]
      BY <1>10, <1>12, <3>1
    <3> QED
      BY <1>6, <3>1, <3>2
  <2>2. Len(fs2) - 1 = L - 2
    BY <1>1, <1>12
  <2> QED
    BY <1>10, <2>1, <2>2 DEF Awaits
<1>14. Present(more) \/ Pending(fs2)
  <2>1. CASE Present(items)
    BY <1>0, <1>3, <2>1, PresentMore
  <2>2. CASE Pending(fs)
    <3>1. PICK k \in DOMAIN fs : \E r \in DOMAIN fs[k].todo : ~fs[k].todo[r].block
      BY <2>2 DEF Pending
    <3>2. k # L
      BY <3>1
    <3>3. k \in 1 .. L - 1 /\ k \in DOMAIN fs2 /\ fs2[k] = fs[k]
      BY <1>1, <1>12, <1>0, <3>1, <3>2
    <3> QED
      BY <3>1, <3>3 DEF Pending
  <2> QED
    BY <2>1, <2>2 DEF Framing
<1>15. fs2[1].todo = <<>>
  <2>1. 1 \in 1 .. L - 1
    BY <1>1
  <2> QED
    BY <1>7, <1>12, <2>1 DEF Framing
<1>16. Len(fs2) > 1 => fs2[2].yields = region.yields
  <2>1. Len(fs2) > 1 => 2 \in 1 .. L - 1
    BY <1>1, <1>12
  <2> QED
    BY <1>12, <2>1 DEF Framing
<1>17. Len(fs2) = 1 => Ends(more, region)
  <2>1. Len(fs2) = 1 => L = 2
    <3>1. PICK m : m = L - 1
      OBVIOUS
    <3>2. Len(fs2) = m /\ L = m + 1
      BY <1>1, <1>12, <3>1
    <3>3. m = 1 => m + 1 = 2
      OBVIOUS
    <3> QED
      BY <3>2, <3>3
  <2>2. L = 2 => fs[L].yields = region.yields
    BY DEF Framing
  <2>3. Len(more) = Len(items) + 1
    BY <1>0, <1>2
  <2> QED
    BY <1>2, <2>1, <2>2, <2>3 DEF Ends
<1>18. Framing(fs2, more, region)
  BY <1>2, <1>11, <1>12, <1>13, <1>14, <1>15, <1>16, <1>17 DEF Framing
<1> QED
  BY <1>0, <1>18

\* The regions of an operation the verifier accepts have the arguments it requires.
RegionsTyped(types, regions) ==
    /\ types \in Seq(Seq(Types)) /\ Len(types) = Len(regions)
    /\ \A r \in DOMAIN regions : regions[r].block => types[r] = TypesOf(regions[r].args)

\* Those of the shapes of operations do.
LEMMA VerifiedRegions ==
  ASSUME NEW s \in OpShapes, NEW items, NEW i, NEW ins, items[i] = OpItem(s, ins),
         RP!OperandTypes(items, i) = s.ins, s.tag \in ScfKinds
  PROVE  RegionsTyped(RP!RegionTypes(items, i), s.regions)
<1>0. PICK types : types = RP!RegionTypes(items, i)
  OBVIOUS
<1>1. /\ s.ins \in Seq(Types) /\ s.res \in Seq(Def) /\ s.regions \in Seq(RegionShape)
  BY ConstantsAssumption DEF OpShape
<1>2. /\ items[i].tag = s.tag /\ items[i].res = s.res
      /\ DOMAIN items[i].regions = DOMAIN s.regions
  BY DEF OpItem
<1>3. SwitchVerifies(s) /\ ForVerifies(s) /\ WhileVerifies(s)
  BY VerifiedAssumption
<1>4. PICK ts : ts = s.ins
  OBVIOUS
<1>5. CASE s.tag = "switch"
  <2>1. types = [r \in DOMAIN s.regions |-> Tail(ts)]
    BY <1>0, <1>2, <1>4, <1>5 DEF RP!RegionTypes
  <2>2. /\ ts # <<>> /\ ts \in Seq(Types)
        /\ \A r \in DOMAIN s.regions :
              s.regions[r].block => TypesOf(s.regions[r].args) = Tail(ts)
    BY <1>1, <1>3, <1>4, <1>5 DEF SwitchVerifies
  <2>3. Tail(ts) \in Seq(Types)
    BY <2>2
  <2>4. PICK l, rs : l = Len(s.regions) /\ rs = s.regions
    OBVIOUS
  <2>5. l \in Nat /\ DOMAIN rs = 1 .. l
    BY <1>1, <2>4
  <2>6. types \in Seq(Seq(Types)) /\ Len(types) = l
    <3>1. types = [r \in 1 .. l |-> types[r]] /\ \A r \in 1 .. l : types[r] \in Seq(Types)
      BY <2>1, <2>3, <2>4, <2>5
    <3>2. PICK S : S = Seq(Types)
      OBVIOUS
    <3>3. types \in Seq(S) /\ Len(types) = l
      BY <2>5, <3>1, <3>2, ListSeq
    <3> QED
      BY <3>2, <3>3
  <2> QED
    BY <1>0, <2>1, <2>2, <2>4, <2>6 DEF RegionsTyped
<1>6. CASE s.tag = "for"
  <2>1. types = << <<ts[1]>> \o SubSeq(ts, 4, Len(ts)) >>
    BY <1>0, <1>2, <1>4, <1>6 DEF RP!RegionTypes
  <2>2. /\ Len(ts) >= 3 /\ ts \in Seq(Types) /\ Len(s.regions) = 1
        /\ TypesOf(s.regions[1].args) = <<ts[1]>> \o SubSeq(ts, 4, Len(ts))
    BY <1>1, <1>3, <1>4, <1>6 DEF ForVerifies
  <2>3. PICK t : t = <<ts[1]>> \o SubSeq(ts, 4, Len(ts))
    OBVIOUS
  <2>4. t \in Seq(Types)
    <3>1. ts[1] \in Types /\ SubSeq(ts, 4, Len(ts)) \in Seq(Types)
      BY <2>2
    <3> QED
      BY <2>3, <3>1
  <2>5. DOMAIN s.regions = {1}
    BY <1>1, <2>2
  <2> QED
    BY <1>0, <2>1, <2>2, <2>3, <2>4, <2>5 DEF RegionsTyped
<1>7. CASE s.tag = "while"
  <2>1. types = <<ts, TypesOf(s.res)>>
    BY <1>0, <1>2, <1>4, <1>7, SameWords DEF RP!RegionTypes
  <2>2. /\ ts \in Seq(Types) /\ Len(s.regions) = 2
        /\ TypesOf(s.regions[1].args) = ts
        /\ TypesOf(s.regions[2].args) = TypesOf(s.res)
    BY <1>1, <1>3, <1>4, <1>7 DEF WhileVerifies
  <2>3. TypesOf(s.res) \in Seq(Types)
    <3>1. ASSUME NEW k \in DOMAIN s.res PROVE s.res[k].type \in Types
      <4>1. s.res[k] \in Def
        BY <1>1
      <4> QED
        BY <4>1 DEF Def
    <3> QED
      BY <1>1, <3>1 DEF TypesOf
  <2>4. DOMAIN s.regions = {1, 2}
    BY <1>1, <2>2
  <2>5. PICK t : t = TypesOf(s.res)
    OBVIOUS
  <2> QED
    BY <1>0, <2>1, <2>2, <2>3, <2>4, <2>5 DEF RegionsTyped
<1> QED
  BY <1>5, <1>6, <1>7 DEF ScfKinds

\* An operation: its regions are to come.
LEMMA OperationFraming ==
  ASSUME NEW fs \in Seq(Frame), NEW items \in Seq(Item), Backward(items), NEW region,
         Framing(fs, items, region), NEW L, L = Len(fs), L > 1, fs[L].todo = <<>>,
         NEW s \in OpShapes, NEW ins, OpItem(s, ins) \in Item,
         NEW more, more = Append(items, OpItem(s, ins)),
         RP!OperandTypes(more, Len(items) + 1) = s.ins,
         NEW fs2 \in Seq(Frame), Len(fs2) = L,
         fs2[L].todo = s.regions, fs2[L].yields = fs[L].yields,
         \A k \in 1 .. L - 1 : fs2[k] = fs[k]
  PROVE  Framing(fs2, more, region)
<1>0. PICK item, n, todo : item = OpItem(s, ins) /\ n = Len(items) /\ todo = s.regions
  OBVIOUS
<1>1. /\ fs # <<>> /\ L \in Nat \ {0} /\ DOMAIN fs = 1 .. L /\ L - 1 \in Nat \ {0}
      /\ DOMAIN fs2 = 1 .. L /\ fs2 # <<>>
  BY TopFrame DEF Framing
<1>2. /\ n \in Nat /\ DOMAIN items = 1 .. n /\ (items = <<>> <=> n = 0)
      /\ Len(more) = n + 1 /\ more # <<>> /\ more[n + 1] = item
  BY <1>0, OneMore
<1>3. /\ item.tag = s.tag /\ item.tag \notin Bounds /\ todo \in Seq(RegionShape)
      /\ DOMAIN item.regions = DOMAIN todo
      /\ \A r \in DOMAIN todo : item.regions[r] = todo[r].block
      /\ s.tag \notin ScfKinds => todo = <<>>
      /\ more = Append(items, item)
  BY <1>0, ConstantsAssumption, VerifiedAssumption DEF OpItem, OpShape, PlainVerifies
<1>4. PICK open : RP!Regions(open, items) /\ Waiting(fs, open[n])
  BY <1>0, OpenParts
<1>5. PICK now : now = open[n]
  OBVIOUS
<1>6. /\ now \in Seq(Seq(Seq(Types)))
      /\ Len(now) = L - 1 /\ DOMAIN now = 1 .. L - 1
      /\ \A k \in 1 .. L - 1 :
            /\ Len(now[k]) = Len(fs[k + 1].todo)
            /\ now[k] = <<>> <=> fs[k + 1].todo = <<>>
            /\ \A r \in DOMAIN fs[k + 1].todo :
                  fs[k + 1].todo[r].block => now[k][r] = TypesOf(fs[k + 1].todo[r].args)
  BY <1>4, <1>5 DEF Waiting
<1>7. n # 0 /\ items # <<>>
  BY <1>0, <1>1, <1>2 DEF Framing
<1>8. now # <<>> /\ now[L - 1] = <<>>
  <2>1. L - 1 \in 1 .. L - 1 /\ (L - 1) + 1 = L
    BY <1>1
  <2> QED
    BY <1>1, <1>6, <2>1
<1>9. PICK after, types :
         after = RP!AfterTypes(now, more, n + 1) /\ types = RP!RegionTypes(more, n + 1)
  OBVIOUS
<1>10. s.tag \in ScfKinds =>
          /\ types \in Seq(Seq(Types)) /\ Len(types) = Len(todo)
          /\ \A r \in DOMAIN todo : todo[r].block => types[r] = TypesOf(todo[r].args)
  <2> SUFFICES ASSUME s.tag \in ScfKinds
               PROVE  /\ types \in Seq(Seq(Types)) /\ Len(types) = Len(todo)
                      /\ \A r \in DOMAIN todo : todo[r].block => types[r] = TypesOf(todo[r].args)
    OBVIOUS
  <2>1. PICK i : i = n + 1
    OBVIOUS
  <2>2. more[i] = OpItem(s, ins) /\ RP!OperandTypes(more, i) = s.ins
    BY <1>0, <1>2, <2>1
  <2>3. RegionsTyped(RP!RegionTypes(more, i), s.regions)
    BY <2>2, VerifiedRegions
  <2> QED
    BY <1>0, <1>9, <2>1, <2>3 DEF RegionsTyped
<1>11. /\ after \in Seq(Seq(Seq(Types))) /\ Len(after) = L - 1
       /\ \A k \in 1 .. L - 1 :
             after[k] = IF s.tag \in ScfKinds /\ k = L - 1 THEN types ELSE now[k]
  <2>1. PICK m, i, S : m = L - 1 /\ i = n + 1 /\ S = Seq(Seq(Types))
    OBVIOUS
  <2>2. /\ m \in Nat \ {0} /\ Len(now) = m /\ now \in Seq(S)
        /\ more[i].tag = s.tag /\ more[i].tag \notin Bounds
        /\ types = RP!RegionTypes(more, i) /\ after = RP!AfterTypes(now, more, i)
        /\ more[i].tag \in ScfKinds => types \in S
    BY <1>1, <1>2, <1>3, <1>6, <1>9, <1>10, <2>1
  <2>3. AfterAll(RP!AfterTypes(now, more, i), now, more[i], types, m, S)
    BY <2>2, AfterOperation
  <2> QED
    BY <2>1, <2>2, <2>3 DEF AfterAll
<1>12. PICK wider : RP!Regions(wider, more) /\ wider[n + 1] = after
  <2>1. /\ item \in Item /\ MayFollow(open[Len(items)], item, Len(items))
        /\ ComesAfter(items, item, open) = after
    <3>1. item.tag # "enter"
      BY <1>3 DEF Bounds
    <3>2. now[Len(now)] = <<>>
      BY <1>6, <1>8
    <3> QED
      BY <1>0, <1>3, <1>5, <1>7, <1>8, <1>9, <3>1, <3>2 DEF MayFollow, ComesAfter
  <2> QED
    BY <1>0, <1>3, <1>4, <1>11, <2>1, RegionsExtended, ZenonT(30)
<1>13. Awaits(fs2, after)
  <2>1. ASSUME NEW k \in 1 .. L - 1
        PROVE  /\ Len(after[k]) = Len(fs2[k + 1].todo)
               /\ \A r \in DOMAIN fs2[k + 1].todo :
                     fs2[k + 1].todo[r].block => after[k][r] = TypesOf(fs2[k + 1].todo[r].args)
    <3>1. CASE k = L - 1
      <4>1. fs2[k + 1].todo = todo
        BY <1>0, <1>1, <3>1
      <4>2. CASE s.tag \in ScfKinds
        BY <1>10, <1>11, <3>1, <4>1, <4>2
      <4>3. CASE s.tag \notin ScfKinds
        <5>1. todo = <<>> /\ after[k] = <<>>
          BY <1>3, <1>8, <1>11, <3>1, <4>3
        <5> QED
          BY <4>1, <5>1
      <4> QED
        BY <4>2, <4>3
    <3>2. CASE k # L - 1
      <4>1. k + 1 \in 1 .. L - 1
        BY <1>1, <3>2
      <4>2. fs2[k + 1] = fs[k + 1] /\ after[k] = now[k]
        BY <1>11, <3>2, <4>1
      <4> QED
        BY <1>6, <4>2
    <3> QED
      BY <3>1, <3>2
  <2> QED
    BY <1>1, <1>11, <2>1 DEF Awaits
<1>14. Present(more) \/ Pending(fs2)
  <2>1. CASE Pending(fs)
    <3>1. PICK k \in DOMAIN fs : \E r \in DOMAIN fs[k].todo : ~fs[k].todo[r].block
      BY <2>1 DEF Pending
    <3>2. k # L
      BY <3>1
    <3>3. k \in 1 .. L - 1 /\ k \in DOMAIN fs2 /\ fs2[k] = fs[k]
      BY <1>1, <3>1, <3>2
    <3> QED
      BY <3>1, <3>3 DEF Pending
  <2>2. CASE Present(items) /\ \A r \in DOMAIN item.regions : item.regions[r]
    BY <1>0, <1>3, <2>2, PresentMore
  <2>3. CASE \E r \in DOMAIN item.regions : ~item.regions[r]
    <3>1. PICK r \in DOMAIN todo : ~todo[r].block
      BY <1>3, <2>3
    <3>2. L \in DOMAIN fs2 /\ fs2[L].todo = todo
      BY <1>0, <1>1
    <3> QED
      BY <3>1, <3>2 DEF Pending
  <2> QED
    BY <2>1, <2>2, <2>3 DEF Framing
<1>15. fs2[1].todo = <<>>
  <2>1. 1 \in 1 .. L - 1
    BY <1>1
  <2> QED
    BY <1>7, <2>1 DEF Framing
<1>16. fs2[2].yields = region.yields
  <2>1. fs[2].yields = region.yields
    BY DEF Framing
  <2>2. CASE L = 2
    <3>1. fs2[2] = fs2[L] /\ fs[2] = fs[L]
      BY <2>2
    <3>2. fs2[2].yields = fs[2].yields
      BY <3>1
    <3> QED
      BY <2>1, <3>2
  <2>3. CASE L # 2
    <3>1. 2 \in 1 .. L - 1
      BY <1>1, <2>3
    <3> QED
      BY <2>1, <3>1
  <2> QED
    BY <2>2, <2>3
<1>17. Len(fs2) # 1
  BY <1>1
<1> QED
  BY <1>2, <1>1, <1>12, <1>13, <1>14, <1>15, <1>16, <1>17 DEF Framing

\* Framing of the current function carries over a step that adds an item.
LEMMA ItemFramed ==
  ASSUME FullInv, program # <<>>, Framed, module' = module, status' # "success",
         NEW tag, NEW ins, NEW res, NEW meta, NEW ref, NEW ACTION refId, NEW regions,
         WriteItem(tag, ins, res, meta, ref, refId, regions),
         Framing(frames', program'[Cur].items, module.funcs[Cur].region)
  PROVE  Framed'
<1>0. PICK c : c = Cur
  OBVIOUS
<1>1. program \in Seq(ProgramFunction) /\ c \in DOMAIN program
  BY <1>0 DEF FullInv, Inv, Walk, Cur
<1>2. \E new : program' = [program EXCEPT ![c].items = new]
  BY <1>0 DEF WriteItem
<1>3. /\ Len(program') = Len(program) /\ DOMAIN program' = DOMAIN program
      /\ \A f \in DOMAIN program : f # c => program'[f] = program[f]
  BY <1>1, <1>2
<1>4. Cur' = c
  BY <1>0, <1>3 DEF Cur
<1>5. Framing(frames', program'[Cur'].items, module'.funcs[Cur'].region)
  BY <1>0, <1>4
<1>6. ASSUME NEW f \in DOMAIN program', f # Cur' PROVE Finished(f)'
  <2>1. Finished(f) /\ program'[f] = program[f]
    BY <1>0, <1>3, <1>4, <1>6 DEF Framed
  <2> QED
    BY <2>1 DEF Finished
<1> QED
  BY <1>5, <1>6 DEF Framed

\* A body that is written to its end is complete.
LEMMA CurrentFinished ==
  ASSUME FullInv, Readable, Framed, program # <<>>, BetweenFunctions
  PROVE  Finished(Cur)
<1> DEFINE items == program[Cur].items
           region == module.funcs[Cur].region
<1>1. frames \in Seq(Frame) /\ Len(frames) = 1 /\ frames[1].todo = <<>>
  BY DEF FullInv, Inv, Walk, BetweenFunctions, InTable, Readable, Top
<1>2. Framing(frames, items, region)
  BY DEF Framed
<1> HIDE DEF items, region
<1>3. <<region>> # <<>>
  OBVIOUS
<1>4. items # <<>> /\ Ends(items, region)
  BY <1>1, <1>2, <1>3 DEF Framing
<1>5. ~Pending(frames)
  BY <1>1 DEF Pending
<1>6. PICK open : RP!Regions(open, items) /\ Awaits(frames, open[Len(items)])
  BY <1>2 DEF Framing
<1>7. open[Len(items)] = <<>>
  <2>1. items \in Seq(Item)
    <3>1. program[Cur] \in ProgramFunction
      BY DEF FullInv, Inv, Walk, Cur
    <3> QED
      BY <3>1 DEF ProgramFunction, items
  <2>2. open[Len(items)] \in Seq(Seq(Seq(Types)))
    BY <1>6, <2>1 DEF RP!Regions
  <2>3. Len(open[Len(items)]) = 0
    BY <1>1, <1>6 DEF Awaits
  <2> QED
    BY <2>2, <2>3
<1>8. Complete(items, region)
  BY <1>2, <1>4, <1>5, <1>6, <1>7 DEF Complete, Framing
<1> QED
  BY <1>8 DEF Finished, items, region

\* A function is begun: the one before is complete.
LEMMA BeginFramed ==
  ASSUME FullInv, Readable, Copied, Framed, BeginFunction
  PROVE  Framed'
<1>0. PICK c : c = Cur
  OBVIOUS
<1>1. /\ Cur' = c + 1 /\ c \in Nat /\ DOMAIN program' = DOMAIN program \cup {c + 1}
      /\ \A f \in DOMAIN program : f # c + 1 /\ program'[f] = program[f]
      /\ program'[c + 1].items = <<>>
  BY <1>0, BeginCopies
<1>2. /\ frames' = <<[scope |-> {}, todo |-> <<module.funcs[c + 1].region>>, yields |-> <<>>]>>
      /\ module' = module /\ BetweenFunctions /\ status' = "running"
  BY <1>0 DEF BeginFunction, BetweenFunctions, InTable
<1>3. ASSUME NEW f \in DOMAIN program PROVE Finished(f)'
  <2>1. Finished(f)
    <3>1. CASE f = Cur
      <4>1. program # <<>>
        BY <1>3
      <4> QED
        BY <1>2, <3>1, <4>1, CurrentFinished
    <3>2. CASE f # Cur
      BY <1>3, <3>2 DEF Framed
    <3> QED
      BY <3>1, <3>2
  <2> QED
    BY <1>1, <1>2, <1>3, <2>1 DEF Finished
<1>4. Framing(frames', <<>>, module.funcs[c + 1].region)
  <2>1. PICK open : RP!Regions(open, <<>>) /\ open[0] = <<>>
    BY NothingOpen
  <2>2. PICK fs : fs = frames'
    OBVIOUS
  <2>3. Len(fs) = 1 /\ fs # <<>> /\ fs[1].todo = <<module.funcs[c + 1].region>>
    BY <1>2, <2>2
  <2>4. Awaits(fs, open[Len(<<>>)])
    BY <2>1, <2>3 DEF Awaits
  <2>5. Present(<<>>)
    BY DEF Present
  <2>6. Framing(fs, <<>>, module.funcs[c + 1].region)
    BY <2>1, <2>3, <2>4, <2>5 DEF Framing
  <2> QED
    BY <2>2, <2>6
<1>5. Framing(frames', program'[Cur'].items, module'.funcs[Cur'].region)
  BY <1>1, <1>2, <1>4
<1> QED
  BY <1>1, <1>2, <1>3, <1>5 DEF Framed

\* Block arguments.
LEMMA EnterFramed ==
  ASSUME FullInv, Readable, Copied, Framed, EnterRegion
  PROVE  Framed'
<1> DEFINE next == Head(Top.todo)
           items == program[Cur].items
           region == module.funcs[Cur].region
           L == Len(frames)
           fr == [scope |-> Range(Outs(next.args)), todo |-> <<>>, yields |-> next.yields]
           rest == [frames EXCEPT ![L].todo = Tail(@)]
<1>1. /\ frames \in Seq(Frame) /\ frames # <<>> /\ program # <<>>
      /\ Top = frames[L] /\ Top.todo # <<>> /\ next.block
  BY DEF FullInv, Inv, Walk, EnterRegion, Top
<1>2. /\ program'[Cur].items = Append(items, EnterItem(next)) /\ EnterItem(next) \in Item
  BY EnterCopies
<1>3. items \in Seq(Item) /\ Backward(items)
  BY <1>1, CurrentParts
<1>4. /\ WriteItem("enter", <<>>, next.args, next.meta, NoName, 0, <<>>)
      /\ frames' = Append(rest, fr) /\ module' = module /\ status' = "running"
  BY DEF EnterRegion
<1>6. Framing(frames, items, region)
  BY <1>1 DEF Framed
<1>7. fr.todo = <<>> /\ fr.yields = next.yields
  OBVIOUS
<1>8. fr \in Frame /\ Tail(Top.todo) \in Seq(RegionShape)
  <2>1. Top \in Frame
    BY <1>1
  <2>2. next \in RegionShape /\ Tail(Top.todo) \in Seq(RegionShape)
    BY <1>1, <2>1 DEF Frame
  <2>3. next.args \in Seq(Def) /\ next.yields \in Seq(Types)
    BY <2>2 DEF RegionShape
  <2> HIDE DEF next
  <2>4. Range(Outs(next.args)) \subseteq Value
    BY <1>1, <2>3, OutsAreValues DEF Range, FullInv, Inv, Walk
  <2> QED
    BY <2>2, <2>3, <2>4 DEF Frame
<1> HIDE DEF fr, next
<1>9. /\ L \in Nat \ {0} /\ DOMAIN frames = 1 .. L /\ frames[L] \in Frame
      /\ rest \in Seq(Frame) /\ Len(rest) = L
      /\ rest[L].todo = Tail(Top.todo) /\ rest[L].yields = frames[L].yields
      /\ \A k \in 1 .. L - 1 : rest[k] = frames[k]
  <2>1. L \in Nat \ {0} /\ DOMAIN frames = 1 .. L /\ frames[L] \in Frame
    BY <1>1, TopFrame
  <2>2. [frames[L] EXCEPT !.todo = Tail(@)] \in Frame
    BY <1>1, <1>8, <2>1 DEF Frame
  <2> HIDE DEF L
  <2>3. rest[L] = [frames[L] EXCEPT !.todo = Tail(@)]
    BY <1>1, <2>1, SMTT(20)
  <2>4. rest[L].todo = Tail(frames[L].todo) /\ rest[L].yields = frames[L].yields
    BY <2>1, <2>3 DEF Frame
  <2> QED
    BY <1>1, <2>1, <2>2, <2>4
<1> HIDE DEF rest
<1>10. PICK l : l = L
  OBVIOUS
<1> HIDE DEF L
<1>11. PICK fs2 : fs2 = Append(rest, fr)
  OBVIOUS
<1>12. /\ fs2 \in Seq(Frame) /\ Len(fs2) = l + 1 /\ fs2[l + 1] = fr
       /\ \A k \in 1 .. l : fs2[k] = rest[k]
  BY <1>8, <1>9, <1>10, <1>11
<1>13. /\ fs2[l].todo = Tail(frames[l].todo) /\ fs2[l].yields = frames[l].yields
       /\ \A k \in 1 .. l - 1 : fs2[k] = frames[k]
       /\ frames[l].todo # <<>> /\ next = Head(frames[l].todo) /\ l = Len(frames)
  <2>1. l \in 1 .. l /\ \A k \in 1 .. l - 1 : k \in 1 .. l
    BY <1>9, <1>10
  <2> QED
    BY <1>1, <1>9, <1>10, <1>12, <2>1 DEF next, L
<1> HIDE DEF items, region
<1>14. Framing(fs2, Append(items, EnterItem(next)), region)
  BY <1>1, <1>2, <1>3, <1>6, <1>7, <1>8, <1>12, <1>13, EnterFraming
<1>15. Framing(frames', program'[Cur].items, region)
  BY <1>2, <1>4, <1>11, <1>14
<1> QED
  BY <1>1, <1>4, <1>15, ItemFramed DEF region

\* A terminator: the innermost block is closed.
LEMMA LeaveFramed ==
  ASSUME FullInv, Readable, Copied, Framed, LeaveRegion
  PROVE  Framed'
<1> DEFINE items == program[Cur].items
           region == module.funcs[Cur].region
<1>1. /\ frames \in Seq(Frame) /\ Len(frames) > 1 /\ frames # <<>> /\ program # <<>>
      /\ Top.todo = <<>> /\ Top = frames[Len(frames)]
  BY DEF FullInv, Inv, Walk, LeaveRegion, InBlock, Top
<1>2. /\ RP!OperandTypes(program'[Cur].items, Here) = Top.yields
      /\ \E ins : /\ program'[Cur].items = Append(items, LeaveItem(ins))
                  /\ LeaveItem(ins) \in Item
  BY LeaveCopies
<1>3. /\ items \in Seq(Item) /\ Backward(items) /\ Here = Len(items) + 1
  BY <1>1, CurrentParts
<1>4. PICK ins : WriteItem("leave", ins, <<>>, <<>>, NoName, 0, <<>>)
  BY DEF LeaveRegion
<1>5. frames' = SubSeq(frames, 1, Len(frames) - 1) /\ module' = module /\ status' = "running"
  BY DEF LeaveRegion, InBlock
<1>6. Framing(frames, items, region)
  BY <1>1 DEF Framed
<1> HIDE DEF items, region
<1>7. PICK L, more : L = Len(frames) /\ more = program'[Cur].items
  OBVIOUS
<1>8. PICK x : more = Append(items, LeaveItem(x)) /\ LeaveItem(x) \in Item
  BY <1>2, <1>7
<1>9. RP!OperandTypes(more, Len(items) + 1) = frames[L].yields /\ L > 1 /\ frames[L].todo = <<>>
  BY <1>1, <1>2, <1>3, <1>7
<1>10. Framing(SubSeq(frames, 1, L - 1), more, region)
  BY <1>1, <1>3, <1>6, <1>7, <1>8, <1>9, LeaveFraming
<1>11. Framing(frames', program'[Cur].items, region)
  BY <1>5, <1>7, <1>10
<1> QED
  BY <1>1, <1>4, <1>5, <1>11, ItemFramed DEF region

\* An operation.
LEMMA OperationFramed ==
  ASSUME FullInv, Readable, Copied, Framed, InBlock, NEW s \in OpShapes,
         NEW ins \in Operands(s.ins), NEW ACTION refId, SerializeOp(s, ins, refId),
         s.tag = "call" => \E g \in DOMAIN module.funcs :
             module.funcs[g].name = s.ref /\ module.funcs[g].region.yields = TypesOf(s.res)
  PROVE  Framed'
<1> DEFINE items == program[Cur].items
           region == module.funcs[Cur].region
           fr == [scope |-> Top.scope \cup Range(Outs(s.res)), todo |-> s.regions,
                  yields |-> Top.yields]
<1>1. /\ frames \in Seq(Frame) /\ Len(frames) > 1 /\ frames # <<>> /\ program # <<>>
      /\ Top.todo = <<>> /\ Top = frames[Len(frames)] /\ status = "running"
  BY DEF FullInv, Inv, Walk, InBlock, Top
<1>2. /\ RP!OperandTypes(program'[Cur].items, Here) = s.ins
      /\ program'[Cur].items = Append(items, OpItem(s, ins))
  BY <1>1, OperationCopies
<1>3. /\ items \in Seq(Item) /\ Backward(items) /\ Here = Len(items) + 1
      /\ OpItem(s, ins) \in Item
  BY <1>1, CurrentParts, OperationItem
<1>4. /\ WriteItem(s.tag, ins, s.res, s.meta, s.ref, refId,
                   [r \in DOMAIN s.regions |-> s.regions[r].block])
      /\ module' = module /\ status' = "running"
  BY <1>1 DEF SerializeOp
<1>5. frames' = [frames EXCEPT ![Len(frames)] = fr]
  BY <1>1 DEF SerializeOp
<1>6. Framing(frames, items, region)
  BY <1>1 DEF Framed
<1>7. fr \in Frame
  <2>1. Top \in Frame
    BY <1>1
  <2>2. s.res \in Seq(Def) /\ s.regions \in Seq(RegionShape)
    BY ConstantsAssumption DEF OpShape
  <2>3. Range(Outs(s.res)) \subseteq Value
    BY <1>1, <2>2, OutsAreValues DEF Range, FullInv, Inv, Walk
  <2> QED
    BY <2>1, <2>2, <2>3 DEF Frame
<1>8. fr.todo = s.regions /\ fr.yields = Top.yields
  OBVIOUS
<1> HIDE DEF fr, items, region
<1>9. PICK L, more, fs2 :
         /\ L = Len(frames) /\ more = program'[Cur].items /\ fs2 = [frames EXCEPT ![L] = fr]
  OBVIOUS
<1>10. /\ fs2 \in Seq(Frame) /\ Len(fs2) = L /\ fs2[L] = fr
       /\ \A k \in 1 .. L - 1 : fs2[k] = frames[k]
  <2>1. L \in Nat \ {0} /\ DOMAIN frames = 1 .. L /\ L \in DOMAIN frames
    BY <1>1, <1>9, TopFrame
  <2> QED
    BY <1>1, <1>7, <1>9, <2>1
<1>11. /\ RP!OperandTypes(more, Len(items) + 1) = s.ins /\ more = Append(items, OpItem(s, ins))
       /\ L > 1 /\ frames[L].todo = <<>>
       /\ fs2[L].todo = s.regions /\ fs2[L].yields = frames[L].yields
  BY <1>1, <1>2, <1>3, <1>8, <1>9, <1>10
<1>12. Framing(fs2, more, region)
  <2>1. /\ frames \in Seq(Frame) /\ items \in Seq(Item) /\ Backward(items)
        /\ Framing(frames, items, region) /\ L = Len(frames) /\ OpItem(s, ins) \in Item
    BY <1>1, <1>3, <1>6, <1>9
  <2> QED
    BY <1>10, <1>11, <2>1, OperationFraming, Zenon
<1>13. Framing(frames', program'[Cur].items, region)
  BY <1>5, <1>9, <1>12
<1> QED
  BY <1>1, <1>4, <1>13, ItemFramed DEF region

\* The walk is at its end: all functions are complete.
LEMMA FinishFramed ==
  ASSUME FullInv, Readable, Framed, FinishModule
  PROVE  Framed'
<1>1. UNCHANGED <<module, program, frames>> /\ BetweenFunctions
  BY DEF FinishModule
<1>2. Cur' = Cur
  BY <1>1 DEF Cur
<1>3. ASSUME NEW f \in DOMAIN program PROVE Finished(f)'
  <2>1. program # <<>>
    BY <1>3
  <2>2. Finished(f)
    BY <1>1, <1>3, <2>1, CurrentFinished DEF Framed
  <2> QED
    BY <1>1, <2>2 DEF Finished
<1> QED
  BY <1>1, <1>2, <1>3 DEF Framed

\* A step that leaves the walk where it is and is not the last.
LEMMA OtherFramed ==
  ASSUME Framed, UNCHANGED <<module, program, frames>>,
         status' # "success" \/ status' = status
  PROVE  Framed'
<1>1. Cur' = Cur
  BY DEF Cur
<1>2. \A f \in DOMAIN program : Finished(f) => Finished(f)'
  BY DEF Finished
<1> QED
  BY <1>1, <1>2 DEF Framed

\* No step of the walk loses its place.
LEMMA NextFramed == FullInv /\ Readable /\ Copied /\ Framed /\ [Next]_vars => Framed'
<1> SUFFICES ASSUME FullInv, Readable, Copied, Framed, [Next]_vars PROVE Framed'
  OBVIOUS
<1>1. CASE \/ SerializeModule \/ FunctionNameMissing \/ EnterAbsentRegion \/ CustomNameMissing
           \/ SerializeValue \/ UNCHANGED vars
  <2>1. /\ UNCHANGED <<module, program, frames>>
        /\ status' # "success" \/ status' = status
    BY <1>1 DEF SerializeModule, FunctionNameMissing, EnterAbsentRegion, CustomNameMissing,
                SerializeValue, InTable, vars
  <2> QED
    BY <2>1, OtherFramed
<1>2. CASE BeginFunction
  BY <1>2, BeginFramed
<1>3. CASE EnterRegion
  BY <1>3, EnterFramed
<1>4. CASE LeaveRegion
  BY <1>4, LeaveFramed
<1>5. CASE SerializeFlatOp \/ SerializeScf \/ SerializeCustom
  <2>1. "call" \notin FlatKinds \cup ScfKinds
    BY FormatAssumption DEF ScfKinds
  <2>2. InBlock
    BY <1>5 DEF SerializeFlatOp, SerializeScf, SerializeCustom, AtOperation
  <2>3. CASE SerializeFlatOp \/ SerializeScf
    BY <2>1, <2>2, <2>3, OperationFramed DEF SerializeFlatOp, SerializeScf
  <2>4. CASE SerializeCustom
    BY <2>2, <2>4, OperationFramed DEF SerializeCustom
  <2> QED
    BY <1>5, <2>3, <2>4
<1>6. CASE SerializeCall
  <2>1. InBlock
    BY <1>6 DEF SerializeCall, AtOperation
  <2> QED
    BY <1>6, <2>1, CallOperation, OperationFramed
<1>7. CASE FinishModule
  BY <1>7, FinishFramed
<1> QED
  BY <1>1, <1>2, <1>3, <1>4, <1>5, <1>6, <1>7 DEF Next

----------------------------------------------------------------------------
(* The complete message: its bodies are trees, and it encodes the module.  *)

\* How many regions are still to come.
Depth(now) == [k \in DOMAIN now |-> Len(now[k])]

\* A set of truth values that are all true has as many as the list.
LEMMA AllPresent ==
  ASSUME NEW it, it.tag = "switch", it.regions \in Seq(BOOLEAN),
         \A r \in DOMAIN it.regions : it.regions[r]
  PROVE  Reader!RegionCount(it) = Len(it.regions)
<1>1. PICK n : n = Len(it.regions)
  OBVIOUS
<1>2. n \in Nat /\ DOMAIN it.regions = 1 .. n
  BY <1>1
<1>3. {r \in DOMAIN it.regions : it.regions[r]} = 1 .. n
  BY <1>2
<1>4. Cardinality(1 .. n) = IF 1 > n THEN 0 ELSE n - 1 + 1
  BY <1>2, FS_Interval
<1>5. Cardinality(1 .. n) = n
  BY <1>2, <1>4
<1>6. \A S : Reader!Cardinality(S) = Cardinality(S)
  BY DEF Reader!Cardinality, Cardinality
<1> QED
  BY <1>1, <1>3, <1>5, <1>6 DEF Reader!RegionCount

\* The regions of an item have as many lists of arguments as the reader counts.
LEMMA TypesCounted ==
  ASSUME NEW items, NEW i, NEW it, it.tag = items[i].tag, it.tag \in ScfKinds,
         it.regions = items[i].regions, it.regions \in Seq(BOOLEAN),
         \A r \in DOMAIN it.regions : it.regions[r]
  PROVE  Len(RP!RegionTypes(items, i)) = Reader!RegionCount(it)
<1>1. PICK ts : ts = RP!OperandTypes(items, i)
  OBVIOUS
<1>2. CASE it.tag = "switch"
  <2>1. PICK x, n : x = Tail(ts) /\ n = Len(it.regions)
    OBVIOUS
  <2>2. RP!RegionTypes(items, i) = [r \in DOMAIN it.regions |-> x]
    BY <1>1, <1>2, <2>1 DEF RP!RegionTypes
  <2>3. n \in Nat /\ DOMAIN it.regions = 1 .. n
    BY <2>1
  <2>4. [r \in 1 .. n |-> x] \in Seq({x}) /\ Len([r \in 1 .. n |-> x]) = n
    BY <2>3
  <2> QED
    BY <1>2, <2>1, <2>2, <2>3, <2>4, AllPresent
<1>3. CASE it.tag = "for"
  <2>1. PICK x : x = <<ts[1]>> \o SubSeq(ts, 4, Len(ts))
    OBVIOUS
  <2>2. RP!RegionTypes(items, i) = <<x>>
    BY <1>1, <1>3, <2>1 DEF RP!RegionTypes
  <2> QED
    BY <1>3, <2>2 DEF Reader!RegionCount
<1>4. CASE it.tag = "while"
  <2>1. RP!RegionTypes(items, i) = <<ts, RP!TypesOf(items[i].res)>>
    BY <1>1, <1>4 DEF RP!RegionTypes
  <2> QED
    BY <1>4, <2>1 DEF Reader!RegionCount
<1> QED
  BY <1>2, <1>3, <1>4 DEF ScfKinds

\* What is still to come after an item, counted.
LEMMA DepthAfter ==
  ASSUME NEW items, NEW i, NEW it, it.tag = items[i].tag,
         NEW now \in Seq(Seq(Seq(Types))), RP!AfterTypes(now, items, i) \in Seq(Seq(Seq(Types))),
         it.tag = "enter" /\ now # <<>> => now[Len(now)] # <<>>,
         it.tag # "enter" => now # <<>>,
         it.tag \in ScfKinds => Len(RP!RegionTypes(items, i)) = Reader!RegionCount(it)
  PROVE  Depth(RP!AfterTypes(now, items, i)) = Reader!AfterItem(Depth(now), it)
<1>1. PICK n, after, S :
         n = Len(now) /\ after = RP!AfterTypes(now, items, i) /\ S = Seq(Types)
  OBVIOUS
<1>2. /\ n \in Nat /\ DOMAIN now = 1 .. n /\ (now = <<>> <=> n = 0)
      /\ \A k \in 1 .. n : now[k] \in Seq(S)
      /\ after \in Seq(Seq(S))
  BY <1>1
<1>3. PICK d : d = Depth(now)
  OBVIOUS
<1>4. d \in Seq(Nat) /\ Len(d) = n /\ DOMAIN d = 1 .. n /\ \A k \in 1 .. n : d[k] = Len(now[k])
  <2>1. d = [k \in 1 .. n |-> Len(now[k])] /\ \A k \in 1 .. n : Len(now[k]) \in Nat
    BY <1>2, <1>3 DEF Depth
  <2> QED
    BY <1>2, <2>1
<1>5. CASE it.tag = "enter"
  <2>1. Reader!AfterItem(d, it)
          = Append([k \in DOMAIN d |-> IF k < Len(d) THEN d[k] ELSE d[k] - 1], 0)
    BY <1>5 DEF Reader!AfterItem, Reader!ScfKinds
  <2>2. n # 0 => Tail(now[n]) \in Seq(S) /\ Len(Tail(now[n])) = Len(now[n]) - 1 /\ Len(now[n]) - 1 \in Nat
    <3>1. SUFFICES ASSUME n # 0
                   PROVE  /\ Tail(now[n]) \in Seq(S) /\ Len(Tail(now[n])) = Len(now[n]) - 1
                          /\ Len(now[n]) - 1 \in Nat
      OBVIOUS
    <3>2. PICK x : x = now[n]
      OBVIOUS
    <3>3. x \in Seq(S) /\ x # <<>>
      BY <1>1, <1>2, <1>5, <3>1, <3>2
    <3>4. Len(x) \in Nat /\ Len(x) # 0 /\ Tail(x) \in Seq(S) /\ Len(Tail(x)) = Len(x) - 1
      BY <3>3
    <3> QED
      BY <3>2, <3>4
  <2>3. /\ Len(after) = n + 1 /\ after[n + 1] = <<>>
        /\ \A k \in 1 .. n : after[k] = IF k < n THEN now[k] ELSE Tail(now[k])
    <3>1. PICK T : T = Seq(S)
      OBVIOUS
    <3>0. <<>> \in Seq(S) /\ now \in Seq(Seq(S))
      BY <1>1
    <3>2. <<>> \in T /\ now \in Seq(T) /\ (n # 0 => Tail(now[n]) \in T)
      BY <2>2, <3>0, <3>1
    <3>3. items[i].tag = "enter" /\ Len(now) = n
      BY <1>1, <1>5
    <3>4. EnteredAll(RP!AfterTypes(now, items, i), now, n, T)
      BY <1>2, <3>2, <3>3, AfterEnter
    <3> QED
      BY <1>1, <3>4 DEF EnteredAll
  <2>4. Depth(after) = [k \in 1 .. n + 1 |-> Len(after[k])]
    BY <1>2, <2>3 DEF Depth
  <2>5. \A k \in 1 .. n : Len(after[k]) = IF k < n THEN d[k] ELSE d[k] - 1
    <3>1. ASSUME NEW k \in 1 .. n PROVE Len(after[k]) = IF k < n THEN d[k] ELSE d[k] - 1
      <4>1. CASE k < n
        BY <1>4, <2>3, <4>1
      <4>2. CASE ~(k < n)
        <5>1. k = n /\ n # 0
          BY <1>2, <4>2
        <5> QED
          BY <1>4, <2>2, <2>3, <4>2, <5>1
      <4> QED
        BY <4>1, <4>2
    <3> QED
      BY <3>1
  <2>6. PICK e : e = [k \in 1 .. n |-> IF k < n THEN d[k] ELSE d[k] - 1]
    OBVIOUS
  <2>7. e \in Seq(Int) /\ Len(e) = n /\ DOMAIN e = 1 .. n
        /\ \A k \in 1 .. n : e[k] = IF k < n THEN d[k] ELSE d[k] - 1
    <3>1. \A k \in 1 .. n : d[k] \in Int
      BY <1>4
    <3>2. e = [k \in 1 .. n |-> e[k]] /\ \A k \in 1 .. n : e[k] = IF k < n THEN d[k] ELSE d[k] - 1
      BY <2>6
    <3>3. \A k \in 1 .. n : e[k] \in Int
      BY <3>1, <3>2
    <3> QED
      BY <1>2, <3>2, <3>3, ListSeq
  <2>8. Reader!AfterItem(d, it) = Append(e, 0)
    BY <1>4, <2>1, <2>6
  <2>9. Append(e, 0) = [k \in 1 .. n + 1 |-> Len(after[k])]
    <3>1. PICK x : x = Append(e, 0)
      OBVIOUS
    <3>2. /\ x \in Seq(Int) /\ Len(x) = n + 1 /\ DOMAIN x = 1 .. n + 1 /\ x[n + 1] = 0
          /\ \A k \in 1 .. n : x[k] = e[k]
      BY <1>2, <2>7, <3>1
    <3>3. x = [k \in 1 .. n + 1 |-> x[k]]
      BY <3>2
    <3>4. ASSUME NEW k \in 1 .. n + 1 PROVE x[k] = Len(after[k])
      <4>1. CASE k = n + 1
        BY <2>3, <3>2, <4>1
      <4>2. CASE k # n + 1
        <5>1. k \in 1 .. n
          BY <1>2, <4>2
        <5> QED
          BY <2>5, <2>7, <3>2, <5>1
      <4> QED
        BY <4>1, <4>2
    <3> QED
      BY <3>1, <3>3, <3>4
  <2> QED
    BY <1>1, <1>3, <2>4, <2>8, <2>9
<1>6. CASE it.tag = "leave"
  <2>1. PICK m : m = n - 1
    OBVIOUS
  <2>2. m \in Nat /\ n = m + 1
    BY <1>2, <1>6, <2>1
  <2>3. /\ after = SubSeq(now, 1, m) /\ Reader!AfterItem(d, it) = SubSeq(d, 1, m)
    <3>1. Reader!AfterItem(d, it) = SubSeq(d, 1, Len(d) - 1)
      BY <1>6 DEF Reader!AfterItem, Reader!ScfKinds
    <3>2. items[i].tag = "leave"
      BY <1>6
    <3>3. RP!AfterTypes(now, items, i) = SubSeq(now, 1, Len(now) - 1)
      BY <3>2, AfterLeave
    <3> QED
      BY <1>1, <1>4, <2>1, <3>1, <3>3
  <2>4. Depth(after) = [k \in 1 .. m |-> Len(after[k])] /\ \A k \in 1 .. m : after[k] = now[k]
    BY <1>1, <1>2, <2>2, <2>3 DEF Depth
  <2>5. SubSeq(d, 1, m) = [k \in 1 .. m |-> d[k]]
    BY <1>4, <2>2
  <2>6. \A k \in 1 .. m : d[k] = Len(after[k])
    <3>1. \A k \in 1 .. m : k \in 1 .. n
      BY <2>2
    <3> QED
      BY <1>4, <2>4, <3>1
  <2> QED
    BY <1>1, <1>3, <2>3, <2>4, <2>5, <2>6
<1>7. CASE it.tag \in ScfKinds
  <2>1. PICK ts : ts = RP!RegionTypes(items, i)
    OBVIOUS
  <2>2. /\ after = [now EXCEPT ![n] = ts]
        /\ Reader!AfterItem(d, it) = [d EXCEPT ![n] = Len(ts)]
    <3>1. it.tag # "enter" /\ it.tag # "leave"
      BY <1>7 DEF ScfKinds
    <3> QED
      BY <1>1, <1>4, <1>7, <2>1, <3>1, SameNesting DEF RP!AfterTypes, Reader!AfterItem
  <2>3. Depth(after) = [k \in 1 .. n |-> Len(after[k])]
    BY <1>2, <2>2 DEF Depth
  <2>4. \A k \in 1 .. n : Len(after[k]) = [d EXCEPT ![n] = Len(ts)][k]
    BY <1>2, <1>4, <2>2
  <2>5. [d EXCEPT ![n] = Len(ts)] = [k \in 1 .. n |-> [d EXCEPT ![n] = Len(ts)][k]]
    BY <1>4
  <2> QED
    BY <1>1, <1>3, <2>2, <2>3, <2>4, <2>5
<1>8. CASE it.tag \notin ScfKinds \cup {"enter", "leave"}
  BY <1>1, <1>3, <1>8, SameNesting DEF RP!AfterTypes, Reader!AfterItem
<1> QED
  BY <1>1, <1>3, <1>5, <1>6, <1>7, <1>8

\* The body of a function that is complete is a tree.
LEMMA BodyNested ==
  ASSUME NEW items \in Seq(Item), NEW news \in Seq(MessageItem), DOMAIN news = DOMAIN items,
         items # <<>>, Present(items),
         NEW open, RP!Regions(open, items), open[Len(items)] = <<>>,
         \A i \in DOMAIN items :
             /\ news[i].tag = items[i].tag /\ news[i].regions = items[i].regions
             /\ items[i].tag = "leave" => news[i].meta = <<>>
  PROVE  Reader!WellNested(news)
<1>1. PICK L : L = Len(items)
  OBVIOUS
<1>2. /\ L \in Nat \ {0} /\ DOMAIN items = 1 .. L /\ Len(news) = L /\ DOMAIN news = 1 .. L
      /\ news # <<>>
  <2>1. L \in Nat \ {0} /\ DOMAIN items = 1 .. L /\ Len(news) \in Nat /\ DOMAIN news = 1 .. Len(news)
    BY <1>1
  <2>2. Len(news) = L
    BY <2>1, SameLength
  <2> QED
    BY <2>1, <2>2
<1>3. /\ open \in [0 .. L -> Seq(Seq(Seq(Types)))]
      /\ open[0] = <<>> /\ open[L] = <<>>
      /\ \A i \in 1 .. L :
            /\ open[i] = RP!AfterTypes(open[i - 1], items, i)
            /\ i = 1 \/ open[i - 1] # <<>>
            /\ items[i].tag = "enter" <=> i = 1 \/ open[i - 1][Len(open[i - 1])] # <<>>
  BY <1>1, <1>2 DEF RP!Regions
<1>4. ASSUME NEW i \in 1 .. L
      PROVE  /\ Depth(open[i]) = Reader!AfterItem(Depth(open[i - 1]), news[i])
             /\ i = 1 \/ Depth(open[i - 1]) # <<>>
             /\ news[i].tag = "enter" <=>
                   i = 1 \/ Depth(open[i - 1])[Len(Depth(open[i - 1]))] > 0
  <2>0. PICK S, now, it :
           S = Seq(Types) /\ now = open[i - 1] /\ it = news[i]
    OBVIOUS
  <2>1. i - 1 \in 0 .. L /\ i \in 0 .. L
    BY <1>2
  <2>2. now \in Seq(Seq(S)) /\ RP!AfterTypes(now, items, i) \in Seq(Seq(S))
    BY <1>3, <2>0, <2>1
  <2>3. i = 1 => now = <<>>
    BY <1>3, <2>0
  <2>4. /\ it.tag = items[i].tag /\ it.regions = items[i].regions /\ it.regions \in Seq(BOOLEAN)
        /\ \A r \in DOMAIN it.regions : it.regions[r]
    <3>1. items[i] \in Item
      BY <1>2
    <3> QED
      BY <1>2, <2>0, <3>1 DEF Item, Present
  <2>5. /\ it.tag = "enter" /\ now # <<>> => now[Len(now)] # <<>>
        /\ it.tag # "enter" => now # <<>>
    BY <1>3, <2>0, <2>3, <2>4
  <2>6. it.tag \in ScfKinds => Len(RP!RegionTypes(items, i)) = Reader!RegionCount(it)
    BY <2>4, TypesCounted
  <2>7. Depth(RP!AfterTypes(now, items, i)) = Reader!AfterItem(Depth(now), it)
    <3>1. /\ it.tag = items[i].tag /\ now \in Seq(Seq(Seq(Types)))
          /\ RP!AfterTypes(now, items, i) \in Seq(Seq(Seq(Types)))
      BY <2>0, <2>2, <2>4
    <3> QED
      BY <2>5, <2>6, <3>1, DepthAfter, ZenonT(30)
  <2>8. PICK n : n = Len(now)
    OBVIOUS
  <2>9. PICK d : d = Depth(now)
    OBVIOUS
  <2>10. /\ n \in Nat /\ Len(d) = n /\ (n = 0 <=> now = <<>>) /\ (n = 0 <=> d = <<>>)
         /\ n # 0 => now[n] \in Seq(S) /\ d[n] = Len(now[n])
    <3>1. n \in Nat /\ DOMAIN now = 1 .. n /\ (n = 0 <=> now = <<>>) /\ \A k \in 1 .. n : now[k] \in Seq(S)
      BY <2>2, <2>8
    <3>2. d = [k \in 1 .. n |-> Len(now[k])] /\ \A k \in 1 .. n : Len(now[k]) \in Nat
      BY <2>0, <2>9, <3>1 DEF Depth
    <3>3. d \in Seq(Nat) /\ Len(d) = n
      BY <3>1, <3>2
    <3>4. n = 0 <=> d = <<>>
      BY <3>3
    <3>5. n # 0 => n \in 1 .. n
      BY <3>1
    <3> QED
      BY <3>1, <3>2, <3>3, <3>4, <3>5
  <2>11. n # 0 => (now[n] # <<>> <=> d[n] > 0)
    <3>1. PICK x : x = now[n]
      OBVIOUS
    <3>2. n # 0 => (x # <<>> <=> Len(x) > 0)
      BY <2>0, <2>10, <3>1
    <3> QED
      BY <2>10, <3>1, <3>2
  <2>12. /\ Depth(open[i]) = Reader!AfterItem(d, it)
         /\ i = 1 \/ d # <<>>
         /\ it.tag = "enter" <=> i = 1 \/ d[Len(d)] > 0
    <3>1. i # 1 => n # 0
      BY <1>3, <2>0, <2>10
    <3>2. it.tag = "enter" <=> i = 1 \/ now[n] # <<>>
      BY <1>3, <2>0, <2>4, <2>8
    <3>3. it.tag = "enter" <=> i = 1 \/ d[n] > 0
      BY <2>11, <3>1, <3>2
    <3>4. open[i] = RP!AfterTypes(now, items, i)
      BY <1>3, <2>0
    <3> QED
      BY <2>7, <2>9, <2>10, <3>1, <3>3, <3>4
  <2> QED
    BY <2>0, <2>9, <2>12
<1> DEFINE Grows(g) == g = [n \in 0 .. Len(news) |->
                       IF n = 0 THEN <<>> ELSE Reader!AfterItem(g[n - 1], news[n])]
           chosen == CHOOSE g : Grows(g)
           h == [n \in 0 .. L |-> Depth(open[n])]
<1>5. Grows(h)
  <2>1. Depth(<<>>) = <<>>
    BY DEF Depth
  <2>2. \A n \in 0 .. L : h[n] = IF n = 0 THEN <<>> ELSE Reader!AfterItem(h[n - 1], news[n])
    <3>1. ASSUME NEW n \in 0 .. L
          PROVE  h[n] = IF n = 0 THEN <<>> ELSE Reader!AfterItem(h[n - 1], news[n])
      <4>1. CASE n = 0
        BY <1>3, <2>1, <4>1
      <4>2. CASE n # 0
        <5>1. n \in 1 .. L /\ n - 1 \in 0 .. L
          BY <1>2, <4>2
        <5>2. h[n] = Depth(open[n]) /\ h[n - 1] = Depth(open[n - 1])
          BY <5>1
        <5> HIDE DEF h
        <5> QED
          BY <1>4, <4>2, <5>1, <5>2
      <4> QED
        BY <4>1, <4>2
    <3> QED
      BY <3>1
  <2>3. h = [n \in 0 .. L |-> h[n]]
    OBVIOUS
  <2> HIDE DEF h
  <2>4. h = [n \in 0 .. L |-> IF n = 0 THEN <<>> ELSE Reader!AfterItem(h[n - 1], news[n])]
    BY <2>2, <2>3
  <2> QED
    BY <1>2, <2>4
<1>6. \A n \in 0 .. L : h[n] = Depth(open[n])
  OBVIOUS
<1> HIDE DEF h
<1>7. Grows(chosen)
  <2> HIDE DEF Grows
  <2> QED
    BY <1>5
<1>8. chosen = [n \in 0 .. L |-> IF n = 0 THEN <<>> ELSE Reader!AfterItem(chosen[n - 1], news[n])]
  BY <1>2, <1>7
<1>9. h = [n \in 0 .. L |-> IF n = 0 THEN <<>> ELSE Reader!AfterItem(h[n - 1], news[n])]
  BY <1>2, <1>5
<1> HIDE DEF chosen
<1>10. \A n \in 0 .. L : chosen[n] = Depth(open[n])
  <2> DEFINE T == {n \in 0 .. L : chosen[n] # h[n]}
  <2>1. CASE T # {}
    <3>1. T \in SUBSET Nat
      BY <1>2
    <3>2. PICK m \in T : \A n \in T : m <= n
      BY <2>1, <3>1, LeastNat
    <3>3. m # 0
      BY <1>2, <1>8, <1>9
    <3>4. m \in 0 .. L /\ m - 1 \in 0 .. L /\ m - 1 \notin T
      BY <1>2, <3>2, <3>3
    <3>5. chosen[m - 1] = h[m - 1]
      BY <3>4
    <3>6. chosen[m] = Reader!AfterItem(chosen[m - 1], news[m])
          /\ h[m] = Reader!AfterItem(h[m - 1], news[m])
      BY <1>8, <1>9, <3>3, <3>4
    <3> QED
      BY <3>2, <3>5, <3>6
  <2>2. CASE T = {}
    BY <1>6, <2>2
  <2> QED
    BY <2>1, <2>2
<1>11. /\ chosen[Len(news)] = <<>>
       /\ \A n \in DOMAIN news :
             /\ n = 1 \/ chosen[n - 1] # <<>>
             /\ news[n].tag = "enter" <=> n = 1 \/ chosen[n - 1][Len(chosen[n - 1])] > 0
             /\ news[n].tag = "leave" => news[n].meta = <<>>
  <2>1. L \in 0 .. L /\ Depth(<<>>) = <<>>
    BY <1>2 DEF Depth
  <2>2. chosen[L] = <<>>
    BY <1>3, <1>10, <2>1
  <2>3. ASSUME NEW n \in 1 .. L
        PROVE  /\ n = 1 \/ chosen[n - 1] # <<>>
               /\ news[n].tag = "enter" <=> n = 1 \/ chosen[n - 1][Len(chosen[n - 1])] > 0
    <3>1. n - 1 \in 0 .. L
      BY <1>2
    <3>2. chosen[n - 1] = Depth(open[n - 1])
      BY <1>10, <3>1
    <3> QED
      BY <1>4, <3>2
  <2> QED
    BY <1>2, <2>2, <2>3
<1> QED
  BY <1>2, <1>11 DEF Reader!WellNested, chosen

\* The writer's invariants, and the end of a call of serialize that reports success with
\* strings that can be counted with 16 bits.
Written == FullInv /\ Reporting /\ Readable /\ Spelling /\ Copied /\ Framed
Success == status = "success" /\ Len(message.strings) <= U16

\* Metadata that is sound is read as it was written.
LEMMA MetaDecoded ==
  ASSUME NEW ids, NEW meta \in Metadata, ~Flawed(meta), Spells(message.strings, ids, meta)
  PROVE  RP!Decode(ids) = meta
<1>1. meta \in Seq(Entry) /\ \A i \in DOMAIN meta : meta[i].sound
  BY DEF Metadata, Flawed
<1>2. DOMAIN ids = DOMAIN meta /\ \A i \in DOMAIN meta : message.strings[ids[i] + 1] = meta[i].name
  BY DEF Spells, Leads
<1>3. RP!Decode(ids) = [i \in DOMAIN meta |-> [name |-> meta[i].name, sound |-> TRUE]]
  BY <1>2 DEF RP!Decode
<1>4. ASSUME NEW i \in DOMAIN meta PROVE [name |-> meta[i].name, sound |-> TRUE] = meta[i]
  <2>1. meta[i] \in Entry /\ meta[i].sound
    BY <1>1
  <2> QED
    BY <2>1 DEF Entry
<1>5. meta = [i \in DOMAIN meta |-> meta[i]]
  BY <1>1
<1> QED
  BY <1>3, <1>4, <1>5

\* What the invariants say of a function of a complete message.
LEMMA FunctionWritten ==
  ASSUME Written, Success, NEW f \in DOMAIN program
  PROVE  /\ program[f] \in ProgramFunction /\ program[f].items \in Seq(Item)
         /\ f \in DOMAIN message.functions /\ message.functions[f] \in MessageFunction
         /\ message.functions[f].items \in Seq(MessageItem)
         /\ message.functions[f].values \in Seq([type : Types, meta : Seq(Nat)])
         /\ DOMAIN message.functions[f].items = DOMAIN program[f].items
         /\ Len(message.functions[f].items) = Len(program[f].items)
         /\ message.strings = strings /\ Spelled(f) /\ FunctionCopied(f) /\ Finished(f)
         /\ ItemsReadable(f) /\ ValuesComplete(f)
         /\ ~MetaFlaw(f) /\ ~ResultFlaw(f)
<1>1. /\ program[f] \in ProgramFunction
      /\ f \in DOMAIN message.functions /\ message.functions[f] \in MessageFunction
  BY FunctionsTyped DEF Written
<1>2. /\ program[f].items \in Seq(Item) /\ message.functions[f].items \in Seq(MessageItem)
      /\ message.functions[f].values \in Seq([type : Types, meta : Seq(Nat)])
  BY <1>1 DEF ProgramFunction, MessageFunction
<1>3. message.strings = strings /\ Spelled(f)
  BY DEF Written, Success, Spelling
<1>4. FunctionCopied(f) /\ Finished(f)
  BY DEF Written, Success, Copied, Framed
<1>5. DOMAIN message.functions[f].items = DOMAIN program[f].items
  BY <1>4 DEF FunctionCopied
<1>6. Len(message.functions[f].items) = Len(program[f].items)
  <2>1. PICK a, b : a = message.functions[f].items /\ b = program[f].items
    OBVIOUS
  <2>2. /\ Len(a) \in Nat /\ DOMAIN a = 1 .. Len(a) /\ Len(b) \in Nat /\ DOMAIN b = 1 .. Len(b)
        /\ DOMAIN a = DOMAIN b
    BY <1>2, <1>5, <2>1
  <2> QED
    BY <2>1, <2>2, SameLength
<1>7. ItemsReadable(f) /\ ValuesComplete(f)
  <2>1. program # <<>>
    OBVIOUS
  <2> QED
    BY <1>1, <2>1, CurrentReadable DEF Written, Success, Readable
<1>8. ~MetaFlaw(f) /\ ~ResultFlaw(f)
  <2>1. ~SomeMetadataFlawed
    BY DEF Written, Success, Reporting, FailureReported
  <2> QED
    BY <2>1 DEF SomeMetadataFlawed, MetaFlaw, ResultFlaw
<1> QED
  BY <1>1, <1>2, <1>3, <1>4, <1>5, <1>6, <1>7, <1>8

\* The writer's messages are trees.
LEMMA MessageGood == Written /\ Success => message \in GoodFiles
<1> SUFFICES ASSUME Written, Success PROVE message \in GoodFiles
  OBVIOUS
<1>1. message \in Message /\ DOMAIN message.functions = DOMAIN program
  <2>1. /\ message \in Message /\ message.functions \in Seq(MessageFunction)
        /\ Len(message.functions) = Len(program) /\ program \in Seq(ProgramFunction)
    BY DEF Written, FullInv, Encoding, Inv, Walk, Message
  <2> QED
    BY <2>1
<1>2. ASSUME NEW f \in DOMAIN program PROVE Reader!WellNested(message.functions[f].items)
  <2>0. PICK items, news : items = program[f].items /\ news = message.functions[f].items
    OBVIOUS
  <2>1. /\ items \in Seq(Item) /\ news \in Seq(MessageItem) /\ DOMAIN news = DOMAIN items
        /\ Finished(f) /\ FunctionCopied(f) /\ Spelled(f)
    BY <2>0, FunctionWritten
  <2>2. PICK open : RP!Regions(open, items) /\ open[Len(items)] = <<>>
    BY <2>0, <2>1 DEF Finished, Complete
  <2>3. items # <<>> /\ Present(items)
    BY <2>0, <2>1 DEF Finished, Complete, Ends
  <2>4. ASSUME NEW i \in DOMAIN items
        PROVE  /\ news[i].tag = items[i].tag /\ news[i].regions = items[i].regions
               /\ items[i].tag = "leave" => news[i].meta = <<>>
    <3>1. /\ news[i].tag = items[i].tag /\ news[i].regions = items[i].regions
          /\ items[i].tag = "leave" => items[i].meta = <<>>
      BY <2>0, <2>1, <2>4 DEF FunctionCopied, ItemCopied, Obeys
    <3>2. DOMAIN news[i].meta = DOMAIN items[i].meta
      BY <2>0, <2>1, <2>4 DEF Spelled, ItemSpelled, Spells
    <3>3. news[i].meta \in Seq(Nat)
      <4>1. news[i] \in MessageItem
        BY <2>1, <2>4
      <4> QED
        BY <4>1 DEF MessageItem
    <3>4. DOMAIN <<>> = {}
      OBVIOUS
    <3> QED
      BY <3>1, <3>2, <3>3, <3>4
  <2> QED
    BY <2>0, <2>1, <2>2, <2>3, <2>4, BodyNested
<1> QED
  BY <1>1, <1>2 DEF GoodFiles

\* The indices of results are in the value table.
LEMMA IndexInTable ==
  ASSUME Written, Success, NEW f \in DOMAIN program, NEW i \in DOMAIN program[f].items,
         NEW k \in DOMAIN program[f].items[i].res
  PROVE  LET x == message.functions[f].items[i].outs[k]
             table == message.functions[f].values
         IN  /\ x < Len(table)
             /\ table[x + 1].type = program[f].items[i].res[k].type
             /\ RP!Decode(table[x + 1].meta) = program[f].items[i].res[k].meta
<1> DEFINE items == message.functions[f].items
           table == message.functions[f].values
           x == items[i].outs[k]
           old == program[f].items[i]
<1>1. /\ items \in Seq(MessageItem) /\ Len(table) \in Nat /\ DOMAIN items = DOMAIN program[f].items
      /\ ItemCopied(f, i) /\ ItemSpelled(f, i) /\ ValuesComplete(f) /\ message.strings = strings
      /\ ~ResultFlaw(f) /\ old \in Item
  <2>1. /\ items \in Seq(MessageItem) /\ DOMAIN items = DOMAIN program[f].items
        /\ program[f].items \in Seq(Item)
        /\ table \in Seq([type : Types, meta : Seq(Nat)])
        /\ FunctionCopied(f) /\ Spelled(f) /\ ValuesComplete(f) /\ message.strings = strings
        /\ ~ResultFlaw(f)
    BY FunctionWritten
  <2> QED
    BY <2>1 DEF FunctionCopied, Spelled
<1>2. k \in DOMAIN items[i].outs /\ (x < Len(table) => table[x + 1].type = old.res[k].type)
  BY <1>1 DEF ItemCopied
<1>3. x < Len(table)
  <2>1. i \in 1 .. Len(items)
    BY <1>1
  <2>2. x \in Range(items[i].outs)
    BY <1>2 DEF Range
  <2>3. x \in DefinedBy(f, Len(items))
    BY <2>1, <2>2, Zenon DEF DefinedBy
  <2>4. x \in 0 .. Len(table) - 1
    BY <1>1, <2>3 DEF ValuesComplete
  <2> HIDE DEF x, table
  <2> QED
    BY <1>1, <2>4
<1>4. Spells(message.strings, table[x + 1].meta, old.res[k].meta)
  BY <1>1, <1>3 DEF ItemSpelled
<1>5. old.res[k].meta \in Metadata /\ ~Flawed(old.res[k].meta)
  <2>1. old.res[k] \in Def
    BY <1>1 DEF Item
  <2> QED
    BY <1>1, <2>1 DEF Def, ResultFlaw
<1> QED
  BY <1>2, <1>3, <1>4, <1>5, MetaDecoded

\* An index is defined once.
LEMMA OnceDefined ==
  ASSUME Written, Success, NEW f \in DOMAIN program
  PROVE  RP!DefinedOnce(f)
<1> DEFINE items == message.functions[f].items
<1>1. ItemsReadable(f) /\ items \in Seq(MessageItem)
  BY FunctionWritten
<1>2. \A i \in DOMAIN items :
         /\ Range(items[i].outs) \cap DefinedBy(f, i - 1) = {}
         /\ \A k, l \in DOMAIN items[i].outs : items[i].outs[k] = items[i].outs[l] => k = l
  BY <1>1 DEF ItemsReadable
<1>3. ASSUME NEW i \in DOMAIN items, NEW j \in DOMAIN items, i < j,
             NEW k \in DOMAIN items[i].outs, NEW l \in DOMAIN items[j].outs
      PROVE  items[i].outs[k] # items[j].outs[l]
  <2>1. i \in 1 .. j - 1
    BY <1>1, <1>3
  <2>2. items[i].outs[k] \in Range(items[i].outs) /\ items[j].outs[l] \in Range(items[j].outs)
    BY DEF Range
  <2>3. items[i].outs[k] \in DefinedBy(f, j - 1)
    BY <2>1, <2>2, Zenon DEF DefinedBy
  <2>4. Range(items[j].outs) \cap DefinedBy(f, j - 1) = {}
    BY <1>2
  <2> HIDE DEF items
  <2> QED
    BY <2>2, <2>3, <2>4
<1>4. \A i, j \in DOMAIN items : i < j \/ j < i \/ i = j
  BY <1>1
<1>5. RP!Items(f) = items
  BY DEF RP!Items
<1> HIDE DEF items
<1>6. ASSUME NEW i \in DOMAIN items, NEW j \in DOMAIN items,
             NEW k \in DOMAIN items[i].outs, NEW l \in DOMAIN items[j].outs,
             items[i].outs[k] = items[j].outs[l]
      PROVE  i = j /\ k = l
  <2>1. i = j
    BY <1>3, <1>4, <1>6
  <2> QED
    BY <1>2, <1>6, <2>1
<1> QED
  BY <1>5, <1>6 DEF RP!DefinedOnce

\* The index of a call is that of the function it names.
LEMMA CallLeads ==
  ASSUME Written, Success, NEW n \in DOMAIN funcs
  PROVE  /\ funcs[n] + 1 \in DOMAIN program /\ funcs[n] + 1 \in DOMAIN module.funcs
         /\ module.funcs[funcs[n] + 1].name = n
<1>1. /\ result = "success" /\ Len(strings) <= U16
      /\ Len(program) = Len(module.funcs)
      /\ \E f \in DOMAIN module.funcs : module.funcs[f].name = n
      /\ funcs[n] = FunctionIndex(n) % U16
  BY DEF Written, Success, Spelling
<1>2. Len(program) <= U16 /\ Len(program) \in Nat /\ DOMAIN module.funcs = 1 .. Len(program)
      /\ DOMAIN program = 1 .. Len(program)
  <2>1. Len(program) <= Len(strings)
    BY <1>1, FewFunctions DEF Written
  <2>2. /\ program \in Seq(ProgramFunction) /\ strings \in Seq(Names)
        /\ module.funcs \in Seq(FuncShape)
    BY DEF Written, FullInv, Inv, Walk, StringTable, ModuleHeader
  <2>3. Len(program) \in Nat /\ Len(strings) \in Nat /\ DOMAIN program = 1 .. Len(program)
        /\ DOMAIN module.funcs = 1 .. Len(module.funcs)
    BY <2>2
  <2> QED
    BY <1>1, <2>1, <2>3, ConstantsAssumption
<1> DEFINE f == CHOOSE g \in DOMAIN module.funcs : module.funcs[g].name = n
<1>3. f \in DOMAIN module.funcs /\ module.funcs[f].name = n
  BY <1>1
<1>4. funcs[n] = (f - 1) % U16
  BY <1>1 DEF FunctionIndex
<1> HIDE DEF f
<1>5. f - 1 \in 0 .. U16 - 1 /\ (f - 1) + 1 = f
  BY <1>2, <1>3, ConstantsAssumption
<1>6. funcs[n] = f - 1
  BY <1>4, <1>5, ConstantsAssumption
<1> QED
  BY <1>2, <1>3, <1>5, <1>6

\* A function is known by its name.
LEMMA SameFunction ==
  ASSUME Written, NEW g \in DOMAIN module.funcs, NEW h \in DOMAIN module.funcs,
         module.funcs[g].name = module.funcs[h].name
  PROVE  g = h
<1> DEFINE names == [f \in DOMAIN module.funcs |-> module.funcs[f].name]
<1>1. IsInjective(names)
  BY SymbolsAssumption DEF Written, Spelling
<1>2. g \in DOMAIN names /\ h \in DOMAIN names /\ names[g] = names[h]
  OBVIOUS
<1> HIDE DEF names
<1> QED
  BY <1>1, <1>2 DEF IsInjective

\* The callee of a call has its name and its results.
LEMMA CallEncoded ==
  ASSUME Written, Success, NEW f \in DOMAIN program, NEW i \in DOMAIN program[f].items,
         program[f].items[i].tag = "call"
  PROVE  LET g == message.functions[f].items[i].ref + 1
         IN  /\ g \in DOMAIN program
             /\ program[g].name = program[f].items[i].ref
             /\ module.funcs[g].region.yields = TypesOf(program[f].items[i].res)
<1> DEFINE old == program[f].items[i]
           new == message.functions[f].items[i]
<1>1. ItemCopied(f, i) /\ ItemSpelled(f, i)
  BY FunctionWritten DEF FunctionCopied, Spelled
<1>2. old.ref \in DOMAIN funcs /\ new.ref = funcs[old.ref]
  BY <1>1 DEF ItemSpelled
<1>3. PICK h \in DOMAIN module.funcs :
         module.funcs[h].name = old.ref /\ module.funcs[h].region.yields = TypesOf(old.res)
  BY <1>1 DEF ItemCopied, Obeys
<1>4. PICK n, g : n = old.ref /\ g = new.ref + 1
  OBVIOUS
<1>5. g \in DOMAIN program /\ g \in DOMAIN module.funcs /\ module.funcs[g].name = n
  BY <1>2, <1>4, CallLeads
<1>6. g = h
  BY <1>3, <1>4, <1>5, SameFunction
<1>7. program[g].name = module.funcs[g].name
  BY <1>5 DEF Written, Spelling
<1> QED
  BY <1>3, <1>4, <1>5, <1>6, <1>7

\* The module the writer walked is a module, and its functions are those visited.
LEMMA WalkedParts ==
  ASSUME Written, Success
  PROVE  /\ Walked \in RP!Module
         /\ Walked.strings = strings /\ Walked.meta = module.meta
         /\ Walked.funcs = [f \in DOMAIN program |-> Signed(f)]
         /\ Len(Walked.funcs) = Len(program) /\ Len(program) = Len(message.functions)
         /\ DOMAIN program = DOMAIN Walked.funcs
<1>1. /\ program \in Seq(ProgramFunction) /\ strings \in Seq(Names) /\ module \in ModuleHeader
      /\ Len(message.functions) = Len(program) /\ Len(program) <= Len(module.funcs)
      /\ Len(program) \in Nat /\ DOMAIN program = 1 .. Len(program)
      /\ module.meta \in Metadata /\ module.funcs \in Seq(FuncShape)
  BY DEF Written, FullInv, Inv, Walk, StringTable, Encoding, Spelling, ModuleHeader
<1>2. ASSUME NEW f \in DOMAIN program PROVE Signed(f) \in RP!Function
  <2>1. program[f] \in ProgramFunction /\ program[f].items \in Seq(Item) /\ Finished(f)
    BY FunctionWritten
  <2>2. program[f].items # <<>>
    BY <2>1 DEF Finished, Complete, Ends
  <2>3. TypesOf(program[f].items[1].res) \in Seq(Types)
    <3>1. program[f].items[1] \in Item
      BY <2>1, <2>2
    <3>2. PICK res : res = program[f].items[1].res
      OBVIOUS
    <3>3. res \in Seq(Def)
      BY <3>1, <3>2 DEF Item
    <3>4. ASSUME NEW k \in DOMAIN res PROVE res[k].type \in Types
      <4>1. res[k] \in Def
        BY <3>3
      <4> QED
        BY <4>1 DEF Def
    <3> QED
      BY <3>2, <3>3, <3>4 DEF TypesOf
  <2>4. module.funcs[f].region.yields \in Seq(Types)
    <3>1. module.funcs[f] \in FuncShape
      BY <1>1
    <3> QED
      BY <3>1 DEF FuncShape, RegionShape
  <2>5. program[f].name \in Names /\ program[f].meta \in Metadata
    BY <2>1 DEF ProgramFunction
  <2> QED
    BY <2>1, <2>3, <2>4, <2>5, SameWords DEF Signed, RP!Function
<1>3. PICK fs : fs = [f \in DOMAIN program |-> Signed(f)]
  OBVIOUS
<1>4. fs \in Seq(RP!Function) /\ Len(fs) = Len(program) /\ DOMAIN fs = DOMAIN program
  <2>1. fs = [f \in 1 .. Len(program) |-> fs[f]]
        /\ \A f \in 1 .. Len(program) : fs[f] \in RP!Function
    BY <1>1, <1>2, <1>3
  <2> QED
    BY <1>1, <2>1, ListSeq
<1>5. Walked = [strings |-> strings, meta |-> module.meta, funcs |-> fs]
  BY <1>3 DEF Walked
<1> QED
  BY <1>1, <1>3, <1>4, <1>5, SameWords DEF RP!Module

\* A function of it, as the walk recorded it.
LEMMA WalkedFunction ==
  ASSUME Written, Success, NEW f \in DOMAIN program
  PROVE  /\ Walked.funcs[f].name = program[f].name
         /\ Walked.funcs[f].ins = TypesOf(program[f].items[1].res)
         /\ Walked.funcs[f].outs = module.funcs[f].region.yields
         /\ Walked.funcs[f].meta = program[f].meta
         /\ Walked.funcs[f].items = program[f].items
<1>1. Walked.funcs[f] = Signed(f)
  BY WalkedParts
<1> QED
  BY <1>1 DEF Signed

\* An item of the message is the item of the module at its place.
LEMMA ItemInMessage ==
  ASSUME Written, Success, NEW f \in DOMAIN program, NEW i \in DOMAIN program[f].items
  PROVE  RP!EncodesItem(Walked, f, i)
<1> DEFINE items == program[f].items
           old == items[i]
           new == message.functions[f].items[i]
           table == message.functions[f].values
           types == RP!OperandTypes(items, i)
<1>1. /\ items \in Seq(Item) /\ message.functions[f].items \in Seq(MessageItem)
      /\ DOMAIN message.functions[f].items = DOMAIN items
      /\ ItemCopied(f, i) /\ ItemSpelled(f, i) /\ message.strings = strings /\ ~MetaFlaw(f)
      /\ Present(items)
  <2>1. /\ items \in Seq(Item) /\ message.functions[f].items \in Seq(MessageItem)
        /\ DOMAIN message.functions[f].items = DOMAIN items
        /\ FunctionCopied(f) /\ Spelled(f) /\ message.strings = strings /\ ~MetaFlaw(f)
        /\ Finished(f)
    BY FunctionWritten
  <2> QED
    BY <2>1 DEF FunctionCopied, Spelled, Finished, Complete
<1>2. old \in Item /\ new \in MessageItem
  BY <1>1
<1>3. /\ old.ins \in Seq(Value) /\ old.res \in Seq(Def) /\ old.regions \in Seq(BOOLEAN)
      /\ new.ins \in Seq(Nat) /\ new.outs \in Seq(Nat) /\ old.meta \in Metadata
  BY <1>2 DEF Item, MessageItem
<1>4. /\ new.tag = old.tag /\ new.regions = old.regions
      /\ DOMAIN new.ins = DOMAIN old.ins /\ DOMAIN new.outs = DOMAIN old.res
      /\ \A k \in DOMAIN old.ins : RP!Leads(f, old.ins[k], new.ins[k])
      /\ Obeys(old, types)
  BY <1>1 DEF ItemCopied
<1>5. RP!Decode(new.meta) = old.meta
  <2>1. Spells(message.strings, new.meta, old.meta)
    BY <1>1 DEF ItemSpelled
  <2>2. ~Flawed(old.meta)
    BY <1>1 DEF MetaFlaw
  <2> HIDE DEF old, new
  <2> QED
    BY <1>3, <2>1, <2>2, MetaDecoded
<1>6. Len(new.ins) = Len(old.ins) /\ Len(new.outs) = Len(old.res)
  <2>1. PICK a, b, c, d : a = new.ins /\ b = old.ins /\ c = new.outs /\ d = old.res
    OBVIOUS
  <2>2. a \in Seq(Nat) /\ b \in Seq(Value) /\ c \in Seq(Nat) /\ d \in Seq(Def)
    BY <1>3, <2>1
  <2>3. DOMAIN a = DOMAIN b /\ DOMAIN c = DOMAIN d
    BY <1>4, <2>1
  <2> HIDE DEF old, new
  <2>4. Len(a) = Len(b) /\ Len(c) = Len(d)
    BY <2>2, <2>3
  <2> QED
    BY <2>1, <2>4
<1>7. \A k \in DOMAIN old.res :
         /\ table[new.outs[k] + 1].type = old.res[k].type
         /\ RP!Decode(table[new.outs[k] + 1].meta) = old.res[k].meta
  BY IndexInTable
<1>8. old.tag = "custom" => message.strings[new.ref + 1] = old.ref
  BY <1>1 DEF ItemSpelled, Leads
<1>9. old.tag = "call" => /\ Walked.funcs[new.ref + 1].name = old.ref
                         /\ TypesOf(old.res) = Walked.funcs[new.ref + 1].outs
  BY CallEncoded, WalkedFunction
<1>10. old.tag = "switch" => RP!RegionCount(new) = Len(old.regions)
  <2>1. old.tag = "switch" => Reader!RegionCount(new) = Len(new.regions)
    <3>1. \A r \in DOMAIN old.regions : old.regions[r]
      BY <1>1 DEF Present
    <3> HIDE DEF old, new
    <3> QED
      BY <1>3, <1>4, <3>1, AllPresent
  <2>2. RP!RegionCount(new) = Reader!RegionCount(new)
    BY SameNesting
  <2> HIDE DEF old, new
  <2> QED
    BY <1>4, <2>1, <2>2
<1>11. /\ old.tag \notin {"custom", "call"} => old.ref = NoName
       /\ old.tag \in FlatKinds \cup {"custom"} =>
             /\ Len(old.ins) = Len(Signature[old.tag].ins)
             /\ TypesOf(old.res) = Signature[old.tag].res
       /\ old.tag = "for" => TypesOf(old.res) = SubSeq(types, 4, Len(types))
       /\ old.tag = "enter" => old.ins = <<>>
       /\ old.tag = "leave" => old.res = <<>>
  <2> HIDE DEF old, types
  <2> QED
    BY <1>4 DEF Obeys
<1>12. Walked.funcs[f].items = items
  BY WalkedFunction
<1>13. RP!Items(f) = message.functions[f].items
  BY DEF RP!Items
<1>14. RP!OperandTypes(Walked.funcs[f].items, i) = types
  BY <1>12
<1>15. /\ Walked.funcs[f].items[i] = old /\ RP!Items(f)[i] = new
  BY <1>12, <1>13
<1> HIDE DEF old, new, types, table, items
<1> QED
  BY <1>4, <1>5, <1>6, <1>7, <1>8, <1>9, <1>10, <1>11, <1>14, <1>15, SameWords
     DEF RP!EncodesItem, table

\* The results of a function are the types of the operands its body ends with.
LEMMA OutsEncoded ==
  ASSUME Written, Success, NEW f \in DOMAIN program
  PROVE  LET news == message.functions[f].items
             last == news[Len(news)]
         IN  module.funcs[f].region.yields
               = [k \in DOMAIN last.ins |-> message.functions[f].values[last.ins[k] + 1].type]
<1> DEFINE items == program[f].items
           news == message.functions[f].items
           table == message.functions[f].values
<1>1. PICK L : L = Len(items)
  OBVIOUS
<1>2. /\ items \in Seq(Item) /\ Len(news) = L /\ DOMAIN news = DOMAIN items
      /\ FunctionCopied(f) /\ Finished(f)
  BY <1>1, FunctionWritten
<1>3. /\ items # <<>> /\ RP!OperandTypes(items, L) = module.funcs[f].region.yields
  BY <1>1, <1>2 DEF Finished, Complete, Ends
<1>4. L \in DOMAIN items
  BY <1>1, <1>2, <1>3
<1>5. ItemCopied(f, L)
  BY <1>2, <1>4 DEF FunctionCopied
<1>6. /\ DOMAIN news[L].ins = DOMAIN items[L].ins
      /\ \A k \in DOMAIN items[L].ins :
            items[L].ins[k][2] \in 1 .. L - 1 /\ RP!Leads(f, items[L].ins[k], news[L].ins[k])
  BY <1>5 DEF ItemCopied
<1>7. ASSUME NEW k \in DOMAIN items[L].ins
      PROVE  TypesOf(items[items[L].ins[k][2]].res)[items[L].ins[k][3]]
               = table[news[L].ins[k] + 1].type
  <2>1. PICK v, x : v = items[L].ins[k] /\ x = news[L].ins[k]
    OBVIOUS
  <2>2. /\ v[2] \in DOMAIN news /\ v[3] \in DOMAIN news[v[2]].outs /\ news[v[2]].outs[v[3]] = x
    BY <1>6, <2>1 DEF RP!Leads, RP!Items
  <2>3. PICK j, l : j = v[2] /\ l = v[3]
    OBVIOUS
  <2>4. j \in DOMAIN items /\ l \in DOMAIN items[j].res
    <3>1. j \in DOMAIN items
      BY <1>2, <2>2, <2>3
    <3>2. ItemCopied(f, j)
      BY <1>2, <3>1 DEF FunctionCopied
    <3> QED
      BY <2>2, <2>3, <3>1, <3>2 DEF ItemCopied
  <2>5. table[x + 1].type = items[j].res[l].type
    BY <2>2, <2>3, <2>4, IndexInTable
  <2>6. TypesOf(items[j].res)[l] = items[j].res[l].type
    BY <2>4 DEF TypesOf
  <2> QED
    BY <2>1, <2>3, <2>5, <2>6
<1>8. RP!OperandTypes(items, L)
        = [k \in DOMAIN items[L].ins |-> TypesOf(items[items[L].ins[k][2]].res)[items[L].ins[k][3]]]
  BY SameWords DEF RP!OperandTypes
<1>9. [k \in DOMAIN items[L].ins |-> TypesOf(items[items[L].ins[k][2]].res)[items[L].ins[k][3]]]
        = [k \in DOMAIN news[L].ins |-> table[news[L].ins[k] + 1].type]
  BY <1>6, <1>7
<1> QED
  BY <1>2, <1>3, <1>8, <1>9

\* A function of the message is the function of the module at its place.
LEMMA FunctionInMessage ==
  ASSUME Written, Success, NEW f \in DOMAIN program
  PROVE  RP!EncodesFunction(Walked, f)
<1> DEFINE new == message.functions[f]
<1>1. /\ new.items \in Seq(MessageItem) /\ Len(new.items) = Len(program[f].items)
      /\ message.strings = strings /\ Spelled(f) /\ ~MetaFlaw(f)
      /\ program[f] \in ProgramFunction
  BY FunctionWritten
<1>2. message.strings[new.name + 1] = program[f].name
  BY <1>1 DEF Spelled, Leads
<1>3. RP!Decode(new.meta) = program[f].meta
  <2>1. program[f].meta \in Metadata /\ ~Flawed(program[f].meta)
        /\ Spells(message.strings, new.meta, program[f].meta)
    BY <1>1 DEF ProgramFunction, MetaFlaw, Spelled
  <2> QED
    BY <2>1, MetaDecoded
<1>4. RP!Items(f) = new.items
  BY DEF RP!Items
<1>5. \A i \in DOMAIN program[f].items : RP!EncodesItem(Walked, f, i)
  BY ItemInMessage
<1>6. RP!DefinedOnce(f)
  BY OnceDefined
<1>7. module.funcs[f].region.yields
        = [k \in DOMAIN new.items[Len(new.items)].ins |->
              new.values[new.items[Len(new.items)].ins[k] + 1].type]
  BY OutsEncoded
<1>8. /\ Walked.funcs[f].name = program[f].name
      /\ Walked.funcs[f].ins = TypesOf(program[f].items[1].res)
      /\ Walked.funcs[f].outs = module.funcs[f].region.yields
      /\ Walked.funcs[f].meta = program[f].meta
      /\ Walked.funcs[f].items = program[f].items
  BY WalkedFunction
<1> QED
  BY <1>1, <1>2, <1>3, <1>4, <1>5, <1>6, <1>7, <1>8, SameWords DEF RP!EncodesFunction

\* The message encodes the module the writer walked.
LEMMA MessageEncodes == Written /\ Success => \E open : RP!Encodes(Walked, open)
<1> SUFFICES ASSUME Written, Success PROVE \E open : RP!Encodes(Walked, open)
  OBVIOUS
<1> DEFINE open == [f \in DOMAIN program |-> CHOOSE o : RP!Regions(o, program[f].items)]
<1>1. ASSUME NEW f \in DOMAIN program PROVE RP!Regions(open[f], Walked.funcs[f].items)
  <2>1. \E o : RP!Regions(o, program[f].items)
    BY FunctionWritten DEF Finished, Complete
  <2>2. open[f] = CHOOSE o : RP!Regions(o, program[f].items)
    OBVIOUS
  <2>3. RP!Regions(open[f], program[f].items)
    BY <2>1, <2>2
  <2>4. Walked.funcs[f].items = program[f].items
    BY WalkedFunction
  <2> QED
    BY <2>3, <2>4
<1> HIDE DEF open
<1>2. message.strings = Walked.strings /\ RP!Decode(message.meta) = Walked.meta
  <2>1. message.strings = strings /\ Spells(message.strings, message.meta, module.meta)
    BY DEF Written, Success, Spelling
  <2>2. module.meta \in Metadata /\ ~Flawed(module.meta)
    BY DEF Written, Success, Reporting, FailureReported, SomeMetadataFlawed, FullInv, Inv, Walk,
           ModuleHeader
  <2>3. RP!Decode(message.meta) = module.meta
    BY <2>1, <2>2, MetaDecoded
  <2> QED
    BY <2>1, <2>3, WalkedParts
<1>3. \A f \in DOMAIN Walked.funcs : RP!EncodesFunction(Walked, f)
  BY FunctionInMessage, WalkedParts
<1>4. RP!Encodes(Walked, open)
  BY <1>1, <1>2, <1>3, WalkedParts DEF RP!Encodes
<1> QED
  BY <1>4

----------------------------------------------------------------------------
(* The composition.                                                        *)

\* The two instances of the reader differ in the set of messages only, so they take the
\* same steps.
LEMMA SameReader ==
  /\ Reader!ReaderInit => RP!ReaderInit
  /\ Reader!ReaderNext => RP!ReaderNext
<1> USE DEF Reader!It, RP!It, Reader!Func, RP!Func, Reader!Here, RP!Here, Reader!Table,
           RP!Table, Reader!Top, RP!Top, Reader!TypeAt, RP!TypeAt, Reader!Verdict,
           RP!Verdict, Reader!Range, RP!Range, Reader!Readable, RP!Readable,
           Reader!ValuesOf, RP!ValuesOf, Reader!Settable, RP!Settable, Reader!IsInjective,
           RP!IsInjective, Reader!Bind, RP!Bind, Reader!FirstAt, RP!FirstAt, Reader!Take,
           RP!Take, Reader!TableMeta, RP!TableMeta, Reader!Attached, RP!Attached,
           Reader!Decode, RP!Decode, Reader!Resolvable, RP!Resolvable, Reader!ReadMetadata,
           RP!ReadMetadata, Reader!AddItem, RP!AddItem, Reader!NewItem, RP!NewItem,
           Reader!Defs, RP!Defs, Reader!TypesOf, RP!TypesOf
<1>1. Reader!ReaderInit => RP!ReaderInit
  BY DEF Reader!ReaderInit, RP!ReaderInit
<1>2. Reader!BeginModule => RP!BeginModule
  BY Zenon DEF Reader!BeginModule, RP!BeginModule
<1>3. Reader!ReadSignature => RP!ReadSignature
  BY Zenon DEF Reader!FuncIdTaken, RP!FuncIdTaken, Reader!MoreSignatures,
               RP!MoreSignatures, Reader!NextSignature, RP!NextSignature,
               Reader!ReadSignature, RP!ReadSignature, Reader!SignatureChecks,
               RP!SignatureChecks
<1>4. Reader!StopAtSignature => RP!StopAtSignature
  BY Zenon DEF Reader!FuncIdTaken, RP!FuncIdTaken, Reader!MoreSignatures,
               RP!MoreSignatures, Reader!NextSignature, RP!NextSignature,
               Reader!SignatureChecks, RP!SignatureChecks, Reader!StopAtSignature,
               RP!StopAtSignature
<1>5. Reader!BeginBody => RP!BeginBody
  BY Zenon DEF Reader!BeginBody, RP!BeginBody, Reader!BetweenBodies, RP!BetweenBodies,
               Reader!ClearBound, RP!ClearBound, Reader!MoreBodies, RP!MoreBodies
<1>6. Reader!EnterFunction => RP!EnterFunction
  BY Zenon DEF Reader!AtFunctionEntry, RP!AtFunctionEntry, Reader!EnterChecks,
               RP!EnterChecks, Reader!EnterFunction, RP!EnterFunction, Reader!OpenBlock,
               RP!OpenBlock
<1>7. Reader!EnterRegion => RP!EnterRegion
  BY Zenon DEF Reader!AtRegionEntry, RP!AtRegionEntry, Reader!EnterChecks, RP!EnterChecks,
               Reader!EnterRegion, RP!EnterRegion, Reader!OpenBlock, RP!OpenBlock
<1>8. Reader!LeaveRegion => RP!LeaveRegion
  BY Zenon DEF Reader!AtItem, RP!AtItem, Reader!LeaveChecks, RP!LeaveChecks,
               Reader!LeaveRegion, RP!LeaveRegion
<1>9. Reader!ReadFlatOp => RP!ReadFlatOp
  BY Zenon DEF Reader!AddOp, RP!AddOp, Reader!AtItem, RP!AtItem, Reader!FlatChecks,
               RP!FlatChecks, Reader!OperandsVerify, RP!OperandsVerify, Reader!ReadFlatOp,
               RP!ReadFlatOp
<1>10. Reader!ReadCustom => RP!ReadCustom
  BY Zenon DEF Reader!AddOp, RP!AddOp, Reader!AtItem, RP!AtItem, Reader!CustomChecks,
               RP!CustomChecks, Reader!FlatChecks, RP!FlatChecks, Reader!OperandsVerify,
               RP!OperandsVerify, Reader!ReadCustom, RP!ReadCustom
<1>11. Reader!ReadCall => RP!ReadCall
  BY Zenon DEF Reader!AddOp, RP!AddOp, Reader!AtItem, RP!AtItem, Reader!CallChecks,
               RP!CallChecks, Reader!CallResults, RP!CallResults, Reader!OperandsVerify,
               RP!OperandsVerify, Reader!ReadCall, RP!ReadCall
<1>12. Reader!ReadSwitch => RP!ReadSwitch
  BY Zenon DEF Reader!AtItem, RP!AtItem, Reader!Cardinality, RP!Cardinality,
               Reader!InTable, RP!InTable, Reader!InTypes, RP!InTypes, Reader!OpenScf,
               RP!OpenScf, Reader!ReadSwitch, RP!ReadSwitch, Reader!RegionCount,
               RP!RegionCount, Reader!SwitchChecks, RP!SwitchChecks, Reader!TableTypes,
               RP!TableTypes
<1>13. Reader!ReadFor => RP!ReadFor
  BY Zenon DEF Reader!AtItem, RP!AtItem, Reader!ForChecks, RP!ForChecks, Reader!InTypes,
               RP!InTypes, Reader!OpenScf, RP!OpenScf, Reader!ReadFor, RP!ReadFor
<1>14. Reader!ReadWhile => RP!ReadWhile
  BY Zenon DEF Reader!AtItem, RP!AtItem, Reader!InTable, RP!InTable, Reader!InTypes,
               RP!InTypes, Reader!OpenScf, RP!OpenScf, Reader!ReadWhile, RP!ReadWhile,
               Reader!TableTypes, RP!TableTypes, Reader!WhileChecks, RP!WhileChecks
<1>15. Reader!FinishScf => RP!FinishScf
  BY Zenon DEF Reader!AtOwnerEnd, RP!AtOwnerEnd, Reader!FinishChecks, RP!FinishChecks,
               Reader!FinishScf, RP!FinishScf, Reader!LastOperation, RP!LastOperation
<1>16. Reader!StopInBody => RP!StopInBody
  BY Zenon DEF Reader!AtFunctionEntry, RP!AtFunctionEntry, Reader!AtItem, RP!AtItem,
               Reader!AtOwnerEnd, RP!AtOwnerEnd, Reader!AtRegionEntry, RP!AtRegionEntry,
               Reader!CallChecks, RP!CallChecks, Reader!CallResults, RP!CallResults,
               Reader!CurrentChecks, RP!CurrentChecks, Reader!CustomChecks,
               RP!CustomChecks, Reader!EnterChecks, RP!EnterChecks, Reader!FinishChecks,
               RP!FinishChecks, Reader!FlatChecks, RP!FlatChecks, Reader!ForChecks,
               RP!ForChecks, Reader!InTable, RP!InTable, Reader!ItemChecks, RP!ItemChecks,
               Reader!LeaveChecks, RP!LeaveChecks, Reader!StopInBody, RP!StopInBody,
               Reader!SwitchChecks, RP!SwitchChecks, Reader!WhileChecks, RP!WhileChecks
<1>17. Reader!FinishModule => RP!FinishModule
  BY Zenon DEF Reader!BetweenBodies, RP!BetweenBodies, Reader!FinishModule,
               RP!FinishModule
<1> QED
  BY <1>1, <1>2, <1>3, <1>4, <1>5, <1>6, <1>7, <1>8, <1>9, <1>10, <1>11, <1>12,
     <1>13, <1>14, <1>15, <1>16, <1>17, Zenon DEF Reader!ReaderNext, RP!ReaderNext

\* An entry of the value table adds the names of the metadata of the value it is for.
LEMMA ValueAdds ==
  ASSUME FullInv, SerializeValue
  PROVE  module' = module /\ \E meta \in Metadata : SerializeMetadata(meta)
<1> DEFINE table == message.functions[Cur].values
           id == Len(table)
           x == CHOOSE v \in DOMAIN values : values[v] = id
<1>1. /\ module' = module /\ Len(frames) = 1 /\ ~TableFull /\ SerializeMetadata(DefOf(x).meta)
  BY Zenon DEF SerializeValue, InTable
<1>2. program # <<>> /\ program \in Seq(ProgramFunction) /\ Cur \in DOMAIN program
  <2>1. frames # <<>>
    BY <1>1, SMTT(20)
  <2> QED
    BY <2>1 DEF FullInv, Inv, Walk, Cur
<1>3. Encoding /\ Numbered /\ Scoped
  BY DEF FullInv, Inv
<1>4. id \in Nat
  <2>1. message.functions[Cur] \in MessageFunction
    BY <1>2, <1>3 DEF Encoding, Message, Cur
  <2> QED
    BY <2>1 DEF MessageFunction
<1>5. x \in DOMAIN values
  <2>1. Cardinality(DOMAIN values) \in Nat
    BY <1>3, NumberedTyped DEF Numbered
  <2>2. id <= Cardinality(DOMAIN values) /\ id # Cardinality(DOMAIN values)
    BY <1>1, <1>2, <1>3 DEF Encoding, TableFull
  <2>3. id \in 0 .. Cardinality(DOMAIN values) - 1
    BY <1>4, <2>1, <2>2
  <2>4. \E v \in DOMAIN values : values[v] = id
    BY <1>3, <2>3 DEF Numbered, Dense
  <2> QED
    BY <2>4
<1> HIDE DEF x
<1>6. DefOf(x).meta \in Metadata
  <2>1. Defined(x)
    BY <1>3, <1>5 DEF Scoped
  <2>2. program[x[1]] \in ProgramFunction
    BY <1>2, <2>1 DEF Defined
  <2>3. program[x[1]].items \in Seq(Item)
    BY <2>2 DEF ProgramFunction
  <2>4. program[x[1]].items[x[2]] \in Item
    BY <2>1, <2>3 DEF Defined
  <2>5. program[x[1]].items[x[2]].res \in Seq(Def)
    BY <2>4 DEF Item
  <2>6. DefOf(x) \in Def
    BY <2>1, <2>5 DEF Defined, DefOf
  <2> QED
    BY <2>6 DEF Def
<1> QED
  BY <1>1, <1>6

\* Every step of the walk but its first leaves the string table as it is, or adds the names of a
\* metadata list to it.
LEMMA StringsGrow ==
  ASSUME FullInv, [Next]_vars, status # "start"
  PROVE  Extends(strings', strings) /\ module' = module
<1> DEFINE Adds == \E meta \in Metadata : SerializeMetadata(meta)
<1>1. strings \in Seq(Names) /\ StringTable /\ module \in ModuleHeader
  BY DEF FullInv, StringTable, Inv, Walk
<1>2. CASE \/ FunctionNameMissing \/ EnterAbsentRegion \/ CustomNameMissing \/ UNCHANGED vars
  <2>1. UNCHANGED <<module, strings>>
    BY <1>2 DEF FunctionNameMissing, EnterAbsentRegion, CustomNameMissing, vars, ctx
  <2> QED
    BY <1>1, <2>1 DEF Extends
<1>3. ASSUME Adds, module' = module PROVE Extends(strings', strings) /\ module' = module
  BY <1>1, <1>3, TableGrows
<1>4. CASE BeginFunction
  <2>1. SerializeMetadata(module.funcs[Cur + 1].meta) /\ module' = module
        /\ Cur < Len(module.funcs)
    BY <1>4 DEF BeginFunction
  <2>2. program \in Seq(ProgramFunction) /\ module.funcs \in Seq(FuncShape)
    BY <1>1 DEF FullInv, Inv, Walk, ModuleHeader
  <2>3. module.funcs[Cur + 1] \in FuncShape
    BY <2>1, <2>2 DEF Cur
  <2>4. module.funcs[Cur + 1].meta \in Metadata
    BY <2>3 DEF FuncShape
  <2> QED
    BY <1>3, <2>1, <2>4
<1>5. CASE EnterRegion
  <2>1. SerializeMetadata(Head(Top.todo).meta) /\ module' = module
        /\ frames # <<>> /\ Top.todo # <<>>
    BY <1>5 DEF EnterRegion, WriteItem
  <2>2. Top \in Frame
    BY <2>1 DEF FullInv, Inv, Walk, Top
  <2>3. Head(Top.todo) \in RegionShape
    BY <2>1, <2>2 DEF Frame
  <2>4. Head(Top.todo).meta \in Metadata
    BY <2>3 DEF RegionShape
  <2> QED
    BY <1>3, <2>1, <2>4
<1>6. CASE LeaveRegion
  <2>1. SerializeMetadata(<<>>) /\ module' = module
    BY <1>6 DEF LeaveRegion, WriteItem
  <2>2. <<>> \in Metadata
    BY DEF Metadata
  <2> QED
    BY <1>3, <2>1, <2>2
<1>7. CASE SerializeFlatOp \/ SerializeCustom \/ SerializeCall \/ SerializeScf
  <2>1. \E s \in OpShapes : SerializeMetadata(s.meta) /\ module' = module
    BY <1>7, Zenon DEF SerializeFlatOp, SerializeCustom, SerializeCall, SerializeScf, SerializeOp,
                       WriteItem
  <2>2. \A s \in OpShapes : s.meta \in Metadata
    BY ConstantsAssumption DEF OpShape
  <2> QED
    BY <1>3, <2>1, <2>2
<1>8. CASE SerializeValue
  BY <1>3, <1>8, ValueAdds
<1>9. CASE FinishModule
  <2>1. SerializeMetadata(module.meta) /\ module' = module
    BY <1>9 DEF FinishModule
  <2>2. module.meta \in Metadata
    BY <1>1 DEF ModuleHeader
  <2> QED
    BY <1>3, <2>1, <2>2
<1>10. ~SerializeModule
  BY DEF SerializeModule
<1> QED
  BY <1>2, <1>4, <1>5, <1>6, <1>7, <1>8, <1>9, <1>10 DEF Next

\* From the first step on the string table begins with the list jeff.strings of the module.
Begins == status # "start" => Extends(strings, module.strings)

\* No step of the walk takes a string of that list away.
LEMMA NextBegins == FullInv /\ Begins /\ [Next]_vars => Begins'
<1> SUFFICES ASSUME FullInv, Begins, [Next]_vars PROVE Begins'
  OBVIOUS
<1>1. CASE status # "start"
  <2>1. Extends(strings', strings) /\ Extends(strings, module.strings) /\ module' = module
    BY <1>1, StringsGrow DEF Begins
  <2>2. Extends(strings', module.strings)
    BY <2>1 DEF Extends
  <2> QED
    BY <2>1, <2>2 DEF Begins
<1>2. CASE status = "start" /\ status' # "start"
  <2>1. SerializeModule
    BY <1>2 DEF Next, vars, BeginFunction, FunctionNameMissing, BetweenFunctions, InTable, EnterRegion,
                EnterAbsentRegion, LeaveRegion, SerializeFlatOp, SerializeCustom, CustomNameMissing,
                SerializeCall, SerializeScf, AtOperation, InBlock, SerializeValue, FinishModule
  <2>2. strings' = module.strings /\ module' = module
    BY <2>1 DEF SerializeModule, InitialStrings
  <2>3. Len(module.strings) \in Nat
    BY DEF FullInv, Inv, Walk, ModuleHeader
  <2> QED
    BY <2>2, <2>3 DEF Begins, Extends
<1> QED
  BY <1>1, <1>2 DEF Begins

\* The reader is rebuilding the module that was walked.
Rebuilt == \E open : RP!Rebuilds(Walked, open)

\* A complete message is what the reader's half starts from.
LEMMA ReadingStarts ==
  Written /\ Success /\ Reader!ReaderInit => RP!ReaderInv /\ Rebuilt
<1> SUFFICES ASSUME Written, Success, Reader!ReaderInit PROVE RP!ReaderInv /\ Rebuilt
  OBVIOUS
<1>1. RP!ReaderInit
  BY SameReader
<1>2. RP!Init
  BY <1>1, MessageGood DEF RP!Init
<1>3. RP!ReaderInv
  BY <1>2, ReaderAssumptions, RP!ReaderStart
     DEF RP!FormatAssumption, RP!SignatureAssumption, RP!FilesAssumption
<1>4. PICK open : RP!Encodes(Walked, open)
  BY MessageEncodes
<1>5. RP!Rebuilds(Walked, open)
  BY <1>1, <1>4, ReaderAssumptions, RP!RebuildStart
     DEF RP!FormatAssumption, RP!SignatureAssumption, RP!FilesAssumption
<1> QED
  BY <1>3, <1>5 DEF Rebuilt

\* A step of the reader, or none, goes on with it.
LEMMA ReadingGoesOn ==
  ASSUME RP!ReaderInv, Rebuilt, Reader!ReaderNext \/ UNCHANGED readerVars, UNCHANGED vars
  PROVE  RP!ReaderInv' /\ Rebuilt'
<1>1. [RP!ReaderNext]_(RP!readVars)
  BY SameReader DEF RP!readVars, RP!readerVars, readerVars, vars
<1>2. RP!ReaderInv'
  BY <1>1, ReaderAssumptions, RP!ReaderStep
     DEF RP!FormatAssumption, RP!SignatureAssumption, RP!FilesAssumption
<1>3. PICK p : p = Walked
  OBVIOUS
<1>4. Walked' = p
  BY <1>3 DEF vars, ctx, Walked, Signed
<1>5. PICK open : RP!Rebuilds(p, open)
  BY <1>3 DEF Rebuilt
<1>6. RP!Rebuilds(p, open)'
  BY <1>1, <1>5, ReaderAssumptions, RP!RebuildStep
     DEF RP!FormatAssumption, RP!SignatureAssumption, RP!FilesAssumption
<1>7. RP!Rebuilds(Walked, open)'
  BY <1>4, <1>6
<1> QED
  BY <1>2, <1>7 DEF Rebuilt

\* What is returned is the module that was walked.
LEMMA ReadingEnds ==
  RP!ReaderInv /\ Rebuilt /\ reading = "module" => owned = Walked
<1> SUFFICES ASSUME RP!ReaderInv, Rebuilt, reading = "module" PROVE owned = Walked
  OBVIOUS
<1>1. PICK open : RP!Rebuilds(Walked, open)
  BY DEF Rebuilt
<1> QED
  BY <1>1, ReaderAssumptions, RP!ModuleRebuilt
     DEF RP!FormatAssumption, RP!SignatureAssumption, RP!FilesAssumption

\* The walk goes on only before serialize reports.
LEMMA WalkRuns == Next => status \in {"start", "running"}
BY DEF Next, SerializeModule, BeginFunction, FunctionNameMissing, BetweenFunctions, InTable, EnterRegion,
       EnterAbsentRegion, LeaveRegion, SerializeFlatOp, SerializeCustom, CustomNameMissing,
       SerializeCall, SerializeScf, AtOperation, InBlock, SerializeValue, FinishModule

\* Reading goes on only before deserialize returns.
LEMMA ReadingRuns == Reader!ReaderNext => reading \in {"start", "signatures", "bodies"}
BY DEF Reader!ReaderNext, Reader!BeginModule, Reader!ReadSignature, Reader!StopAtSignature,
       Reader!MoreSignatures, Reader!BeginBody, Reader!BetweenBodies, Reader!EnterFunction,
       Reader!AtFunctionEntry, Reader!EnterRegion, Reader!AtRegionEntry, Reader!LeaveRegion,
       Reader!ReadFlatOp, Reader!ReadCustom, Reader!ReadCall, Reader!ReadSwitch, Reader!ReadFor,
       Reader!ReadWhile, Reader!AtItem, Reader!FinishScf, Reader!AtOwnerEnd, Reader!StopInBody,
       Reader!FinishModule

\* The invariant of the composition: nothing is read before the message is complete; what is read
\* then is the module that was walked.
Carried ==
    /\ Written /\ Begins
    /\ status # "success" => Reader!ReaderInit
    /\ Success => RP!ReaderInv /\ Rebuilt

\* It holds at first.
LEMMA CarriedInit == RoundTripInit => Carried
<1> SUFFICES ASSUME Init, Reader!ReaderInit PROVE Carried
  BY DEF RoundTripInit
<1>1. program = <<>> /\ status = "start" /\ DOMAIN program = {}
  BY DEF Init
<1>2. FullInv /\ Spelling
  BY InitFull, InitSpells
<1>3. Reporting /\ Readable
  BY DEF Init, Reporting, ResultsNumbered, Justified, TabledSound, FailureReported, Readable,
         Mirrored, Visible
<1>4. Copied /\ Framed /\ Begins /\ ~Success
  BY <1>1 DEF Copied, Framed, Begins, Success
<1> QED
  BY <1>1, <1>2, <1>3, <1>4 DEF Carried, Written

\* Every step keeps it.
LEMMA CarriedNext == Carried /\ [Write \/ Read]_<<vars, readerVars>> => Carried'
<1> SUFFICES ASSUME Carried, [Write \/ Read]_<<vars, readerVars>> PROVE Carried'
  OBVIOUS
<1>1. [Next]_vars
  BY DEF Write, Read
<1>2. Written' /\ Begins'
  BY <1>1, NextFull, NextReports, NextReadable, NextSpells, NextCopied, NextFramed, NextBegins
     DEF Carried, Written
<1>3. CASE Write
  <2>1. status # "success" /\ UNCHANGED readerVars
    BY <1>3, WalkRuns DEF Write
  <2>2. Reader!ReaderInit'
    BY <2>1 DEF Carried, Reader!ReaderInit, readerVars
  <2>3. (Written /\ Success /\ Reader!ReaderInit)' => (RP!ReaderInv /\ Rebuilt)'
    BY ReadingStarts, PTL
  <2> QED
    BY <1>2, <2>2, <2>3 DEF Carried
<1>4. CASE Read
  <2>1. status = "success" /\ Reader!ReaderNext /\ UNCHANGED vars
    BY <1>4 DEF Read
  <2>2. status' = "success" /\ (Success' => Success)
    BY <2>1 DEF vars, Success
  <2>3. Success => RP!ReaderInv' /\ Rebuilt'
    BY <2>1, ReadingGoesOn DEF Carried
  <2> QED
    BY <1>2, <2>2, <2>3 DEF Carried
<1>5. CASE UNCHANGED <<vars, readerVars>>
  <2>1. UNCHANGED vars /\ UNCHANGED readerVars
    BY <1>5
  <2>2. status' = status /\ Success' = Success
    BY <2>1 DEF vars, Success
  <2>3. Reader!ReaderInit' = Reader!ReaderInit
    BY <2>1 DEF readerVars, Reader!ReaderInit
  <2>4. Success => (RP!ReaderInv /\ Rebuilt)'
    BY <2>1, ReadingGoesOn DEF Carried
  <2> QED
    BY <1>2, <2>2, <2>3, <2>4 DEF Carried
<1> QED
  BY <1>3, <1>4, <1>5

\* The strings of a complete message can be counted with 16 bits, as its indices are.
FewStrings == status = "success" => Len(message.strings) <= U16

\* A module is handed over.
Handed == Walked # Nothing

\* It is once the message is complete: no module is taken for none.
LEMMA SomethingHanded == Written /\ Success => Handed
<1>1. Walked \in RP!Module => Walked # Nothing
  <2>1. RP!Function = Reader!Function
    BY DEF RP!Function, Reader!Function, RP!Item, Reader!Item, RP!Metadata, Reader!Metadata,
           RP!Entry, Reader!Entry, RP!Def, Reader!Def, RP!Value, Reader!Value, RP!Tags, Reader!Tags,
           RP!ScfKinds, Reader!ScfKinds, RP!Bounds, Reader!Bounds
  <2>2. RP!Module = [strings : Seq(Names), meta : Metadata, funcs : Seq(Reader!Function)]
    BY <2>1, SameWords DEF RP!Module
  <2> QED
    BY <2>2, TablesAssumption
<1> QED
  BY <1>1, WalkedParts DEF Handed

\* As long as they can, every step of writing and reading is a step of the exchange, or none: a
\* module is sent when its message is complete, and it arrives as it was sent.
LEMMA ExchangeStep ==
  Carried /\ FewStrings /\ Carried' /\ FewStrings' /\ [Write \/ Read]_<<vars, readerVars>>
    => [TheExchange!Send \/ TheExchange!Refuse \/ TheExchange!Deliver]_(TheExchange!exchangeVars)
<1> SUFFICES ASSUME Carried, FewStrings, Carried', FewStrings',
                    [Write \/ Read]_<<vars, readerVars>>
             PROVE  [TheExchange!Send \/ TheExchange!Refuse \/ TheExchange!Deliver]_
                      (TheExchange!exchangeVars)
  OBVIOUS
<1>1. /\ status = "success" => Success
      /\ status' = "success" => Success'
  BY DEF FewStrings, Success
<1>2. reading = "module" => status = "success"
  BY DEF Carried, Reader!ReaderInit
<1>3. CASE Write
  <2>1. /\ status \in {"start", "running"} /\ UNCHANGED <<reading, owned>> /\ reading # "module"
    BY <1>2, <1>3, WalkRuns DEF Write, readerVars
  <2>2. status' \in {"start", "running", "success", "failure", "fatal", "undefined"}
    BY DEF Carried, Written, FullInv, Encoding
  <2>3. Outcome = "pending"
    BY <2>1 DEF Outcome
  <2>4. CASE status' = "success"
    <3>1. Outcome' = "sent"
      BY <2>1, <2>4 DEF Outcome
    <3>2. Walked' # Nothing
      <4>1. (Written /\ Success)' => Handed'
        BY SomethingHanded, PTL
      <4> QED
        BY <1>1, <2>4, <4>1 DEF Carried, Handed
    <3> QED
      BY <2>1, <2>3, <2>4, <3>1, <3>2 DEF TheExchange!Send
  <2>5. CASE status' \in {"failure", "fatal", "undefined"}
    <3>1. Outcome' = "refused"
      BY <2>1, <2>5 DEF Outcome
    <3> QED
      BY <2>1, <2>3, <2>5, <3>1 DEF TheExchange!Refuse
  <2>6. CASE status' \in {"start", "running"}
    <3>1. Outcome' = "pending"
      BY <2>1, <2>6 DEF Outcome
    <3> QED
      BY <2>1, <2>3, <2>6, <3>1 DEF TheExchange!exchangeVars
  <2> QED
    BY <2>2, <2>4, <2>5, <2>6
<1>4. CASE Read
  <2>1. /\ status = "success" /\ Reader!ReaderNext /\ UNCHANGED vars
        /\ reading # "module" /\ status' = "success" /\ Walked' = Walked
    BY <1>4, ReadingRuns DEF Read, vars, ctx, Walked, Signed
  <2>2. Outcome = "sent"
    BY <2>1 DEF Outcome
  <2>3. CASE reading' = "module"
    <3>1. Outcome' = "delivered"
      BY <2>1, <2>3 DEF Outcome
    <3>2. owned' = Walked'
      <4>1. (RP!ReaderInv /\ Rebuilt /\ reading = "module")' => (owned = Walked)'
        BY ReadingEnds, PTL
      <4> QED
        BY <1>1, <2>1, <2>3, <4>1 DEF Carried
    <3> QED
      BY <2>1, <2>2, <2>3, <3>1, <3>2 DEF TheExchange!Deliver
  <2>4. CASE reading' # "module"
    <3>1. Outcome' = "sent"
      BY <2>1, <2>4 DEF Outcome
    <3> QED
      BY <2>1, <2>2, <2>4, <3>1 DEF TheExchange!exchangeVars
  <2> QED
    BY <2>3, <2>4
<1>5. CASE UNCHANGED <<vars, readerVars>>
  <2>1. UNCHANGED <<status, reading, owned>> /\ Walked' = Walked
    BY <1>5 DEF vars, ctx, readerVars, Walked, Signed
  <2>2. Outcome' = Outcome
    BY <2>1 DEF Outcome
  <2> QED
    BY <2>1, <2>2 DEF TheExchange!exchangeVars
<1> QED
  BY <1>3, <1>4, <1>5

\* Writing and reading a module back implements the exchange (the safety part of the property
\* ImplementsExchange of a run): the module that deserialize returns is the module that was handed
\* to serialize, functions, signatures, operations, operands, nesting, types and metadata at every
\* owner, for every module and every body that the verifier accepts.
THEOREM ModuleUnchanged == RoundTripSpec /\ []FewStrings => TheExchange!ExchangeSafety
<1>1. RoundTripInit => TheExchange!ExchangeInit
  BY DEF RoundTripInit, Init, Reader!ReaderInit, Outcome, TheExchange!ExchangeInit
<1> QED
  BY <1>1, CarriedInit, CarriedNext, ExchangeStep, PTL DEF RoundTripSpec, TheExchange!ExchangeSafety

\* An index that leads to a name finds it in the table.
LEMMA LedInTable ==
  ASSUME NEW table \in Seq(Names), NEW i \in Nat, NEW n, Leads(table, i, n)
  PROVE  n \in Range(table)
<1>1. i + 1 \in DOMAIN table /\ table[i + 1] = n
  BY DEF Leads
<1> QED
  BY <1>1 DEF Range

\* The names of a list of entries are in the table when the indices written for them lead there.
LEMMA SpelledInTable ==
  ASSUME NEW table \in Seq(Names), NEW ids \in Seq(Nat), NEW meta, Spells(table, ids, meta)
  PROVE  MetaNames(meta) \subseteq Range(table)
<1> SUFFICES ASSUME NEW k \in DOMAIN meta PROVE meta[k].name \in Range(table)
  BY DEF MetaNames, EntryNames, Range
<1>1. k \in DOMAIN ids /\ Leads(table, ids[k], meta[k].name)
  BY DEF Spells
<1>2. ids[k] \in Nat
  BY <1>1
<1> QED
  BY <1>1, <1>2, LedInTable

\* The names of an item are in the table: that of its gate, that of the function it calls, whose
\* own name is there, and those of its metadata and of the metadata of its results, whose indices
\* are written with the table of values.
LEMMA ItemInTable ==
  ASSUME Written, Success, NEW f \in DOMAIN program, NEW i \in DOMAIN program[f].items
  PROVE  ItemNames(program[f].items[i]) \subseteq Range(strings)
<1> DEFINE old == program[f].items[i]
           new == message.functions[f].items[i]
           table == message.functions[f].values
<1>1. /\ ItemCopied(f, i) /\ ItemSpelled(f, i)
      /\ table \in Seq([type : Types, meta : Seq(Nat)])
  BY FunctionWritten DEF FunctionCopied, Spelled
<1>2. strings \in Seq(Names)
  BY DEF Written, FullInv, StringTable
<1>3. new \in MessageItem
  <2>1. /\ message.functions[f].items \in Seq(MessageItem)
        /\ DOMAIN message.functions[f].items = DOMAIN program[f].items
    BY FunctionWritten
  <2> QED
    BY <2>1
<1>4. MetaNames(old.meta) \subseteq Range(strings)
  <2>1. new.meta \in Seq(Nat) /\ Spells(strings, new.meta, old.meta)
    BY <1>1, <1>3 DEF MessageItem, ItemSpelled
  <2> HIDE DEF old, new
  <2> QED
    BY <1>2, <2>1, SpelledInTable
<1>5. old.ref # NoName => old.ref \in Range(strings)
  <2>1. CASE old.tag = "custom"
    <3>1. new.ref \in Nat /\ Leads(strings, new.ref, old.ref)
      BY <1>1, <1>3, <2>1 DEF MessageItem, ItemSpelled
    <3> HIDE DEF old, new
    <3> QED
      BY <1>2, <3>1, LedInTable
  <2>2. CASE old.tag = "call"
    <3>1. PICK g \in DOMAIN program : program[g].name = old.ref
      BY <2>2, CallEncoded
    <3>2. Spelled(g) /\ message.functions[g] \in MessageFunction
      BY FunctionWritten
    <3>3. message.functions[g].name \in Nat
      BY <3>2 DEF MessageFunction
    <3> HIDE DEF old
    <3> QED
      BY <1>2, <3>1, <3>2, <3>3, LedInTable DEF Spelled
  <2>3. CASE old.tag \notin {"custom", "call"}
    <3>1. old.ref = NoName
      BY <1>1, <2>3 DEF ItemCopied, Obeys
    <3> QED
      BY <3>1
  <2> QED
    BY <2>1, <2>2, <2>3
<1>6. ASSUME NEW k \in DOMAIN old.res PROVE MetaNames(old.res[k].meta) \subseteq Range(strings)
  <2>1. PICK x : x = new.outs[k]
    OBVIOUS
  <2>2. x < Len(table) /\ x \in Nat
    <3>1. k \in DOMAIN new.outs
      BY <1>1 DEF ItemSpelled
    <3>2. new.outs \in Seq(Nat)
      BY <1>3 DEF MessageItem
    <3>3. x < Len(table)
      BY <2>1, IndexInTable
    <3>4. x \in Nat
      <4> HIDE DEF new
      <4> QED
        BY <2>1, <3>1, <3>2
    <3> QED
      BY <3>3, <3>4
  <2>3. Spells(strings, table[x + 1].meta, old.res[k].meta)
    BY <1>1, <2>1, <2>2 DEF ItemSpelled
  <2>4. table[x + 1].meta \in Seq(Nat)
    <3>0. PICK T : T = [type : Types, meta : Seq(Nat)]
      OBVIOUS
    <3>1. table \in Seq(T) /\ x < Len(table) /\ x \in Nat
      BY <1>1, <2>2, <3>0
    <3> HIDE DEF table
    <3>2. table[x + 1] \in T
      BY <3>1
    <3>3. table[x + 1] \in [type : Types, meta : Seq(Nat)]
      BY <3>0, <3>2
    <3> QED
      BY <3>3
  <2> HIDE DEF table, old
  <2> QED
    BY <1>2, <2>3, <2>4, SpelledInTable
<1> HIDE DEF old
<1>7. ItemNames(old) \subseteq Range(strings)
  BY <1>4, <1>5, <1>6 DEF ItemNames
<1> QED
  BY <1>7 DEF old

\* A module that was read back has the strings of the module that was written at their places, and
\* every name in it is one of its strings.
LEMMA TableStable == Carried /\ FewStrings => StringsStable
<1> SUFFICES ASSUME Carried, FewStrings, reading = "module"
             PROVE  /\ SubSeq(owned.strings, 1, Len(module.strings)) = module.strings
                    /\ MetaNames(owned.meta) \subseteq Range(owned.strings)
                    /\ \A f \in DOMAIN owned.funcs :
                          FunctionNames(owned.funcs[f]) \subseteq Range(owned.strings)
  BY DEF StringsStable
<1>1. Written /\ Success /\ Begins /\ status = "success" /\ owned = Walked
  <2>1. status = "success"
    BY DEF Carried, Reader!ReaderInit
  <2>2. Success
    BY <2>1 DEF FewStrings, Success
  <2>3. owned = Walked
    BY <2>2, ReadingEnds DEF Carried
  <2> QED
    BY <2>1, <2>2, <2>3 DEF Carried
<1>2. /\ owned.strings = strings /\ DOMAIN owned.funcs = DOMAIN program
      /\ strings \in Seq(Names) /\ module.strings \in Seq(Names)
  <2>1. strings \in Seq(Names) /\ module.strings \in Seq(Names)
    BY <1>1 DEF Written, FullInv, StringTable, Inv, Walk, ModuleHeader
  <2> QED
    BY <1>1, <2>1, WalkedParts
<1>3. SubSeq(strings, 1, Len(module.strings)) = module.strings
  <2>1. PICK s, t, n : s = strings /\ t = module.strings /\ n = Len(module.strings)
    OBVIOUS
  <2>2. Extends(s, t)
    BY <1>1, <2>1 DEF Begins
  <2>3. /\ s \in Seq(Names) /\ t \in Seq(Names) /\ n = Len(t) /\ n \in Nat /\ n <= Len(s)
        /\ \A i \in 1 .. n : s[i] = t[i]
    BY <1>2, <2>1, <2>2 DEF Extends
  <2>4. SubSeq(s, 1, n) = t
    BY <2>3
  <2> QED
    BY <2>1, <2>4
<1>4. MetaNames(owned.meta) \subseteq Range(strings)
  <2>1. /\ message.meta \in Seq(Nat) /\ owned.meta = module.meta
        /\ Spells(strings, message.meta, module.meta)
    <3>1. message \in Message
      BY <1>1 DEF Written, FullInv, Encoding
    <3>2. owned.meta = module.meta
      BY <1>1, WalkedParts
    <3>3. Spells(strings, message.meta, module.meta)
      BY <1>1 DEF Written, Success, Spelling
    <3> QED
      BY <3>1, <3>2, <3>3 DEF Message
  <2> QED
    BY <1>2, <2>1, SpelledInTable
<1>5. ASSUME NEW f \in DOMAIN program PROVE FunctionNames(owned.funcs[f]) \subseteq Range(strings)
  <2>1. /\ owned.funcs[f].name = program[f].name /\ owned.funcs[f].items = program[f].items
        /\ owned.funcs[f].meta = program[f].meta
        /\ Spelled(f) /\ message.functions[f] \in MessageFunction
    BY <1>1, WalkedFunction, FunctionWritten
  <2>2. /\ message.functions[f].name \in Nat /\ message.functions[f].meta \in Seq(Nat)
        /\ Leads(strings, message.functions[f].name, program[f].name)
        /\ Spells(strings, message.functions[f].meta, program[f].meta)
    BY <2>1 DEF MessageFunction, Spelled
  <2>3. program[f].name \in Range(strings)
    BY <1>2, <2>2, LedInTable
  <2>4. MetaNames(program[f].meta) \subseteq Range(strings)
    BY <1>2, <2>2, SpelledInTable
  <2>5. \A i \in DOMAIN program[f].items : ItemNames(program[f].items[i]) \subseteq Range(strings)
    BY <1>1, ItemInTable
  <2> QED
    BY <2>1, <2>3, <2>4, <2>5 DEF FunctionNames
<1> QED
  BY <1>2, <1>3, <1>4, <1>5

\* The string table is stable: reading back and writing again would add nothing to it.
THEOREM StringTableStable == RoundTripSpec /\ []FewStrings => []StringsStable
BY CarriedInit, CarriedNext, TableStable, PTL DEF RoundTripSpec
=============================================================================
