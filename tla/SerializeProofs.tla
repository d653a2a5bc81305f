-------------------------- MODULE SerializeProofs --------------------------
(***************************************************************************)
(* The writer numbers the values of a function densely and keeps every     *)
(* table and the message well formed, for every module, every set of       *)
(* operation shapes and every bound.                                       *)
(***************************************************************************)
EXTENDS Serialize, NumberingProofs

\* What is visited and what is still to be visited are of their kinds; while
\* something is being written, there is a function it belongs to.
ProgramFunction == [name : Names, meta : Metadata, items : Seq(Item)]
Frame == [scope : SUBSET Value, todo : Seq(RegionShape), yields : Seq(Types)]
Walk ==
    /\ module \in ModuleHeader
    /\ program \in Seq(ProgramFunction)
    /\ frames \in Seq(Frame)
    /\ frames # <<>> => program # <<>>

\* The indices in use are dense, and they are finitely many, which is what
\* makes the next one well defined.
Numbered == IsFiniteSet(DOMAIN values) /\ Dense(values)

Inv == Walk /\ Numbered

----------------------------------------------------------------------------
(* Writing one item.                                                       *)

\* The results of an item are values.
LEMMA OutsAreValues ==
  ASSUME program \in Seq(ProgramFunction), program # <<>>, NEW res \in Seq(Def)
  PROVE  Outs(res) \in Seq(Value) /\ Len(Outs(res)) = Len(res)
<1>1. Cur \in Nat \ {0} /\ program[Cur] \in ProgramFunction
  BY DEF Cur
<1>2. Here \in Nat \ {0}
  BY <1>1 DEF Here, ProgramFunction
<1>3. \A k \in DOMAIN res : <<Cur, Here, k>> \in Value
  BY <1>1, <1>2 DEF Value
<1> QED
  BY <1>3 DEF Outs

\* Operands are taken from what is visible, which are values.
LEMMA OperandsAreValues ==
  ASSUME frames \in Seq(Frame), frames # <<>>, NEW ts \in Seq(Types),
         NEW ins \in Operands(ts)
  PROVE  ins \in Seq(Value)
<1>1. Top \in Frame
  BY DEF Top
<1>2. ins \in [1 .. Len(ts) -> Value]
  BY <1>1 DEF Operands, Frame
<1> QED
  BY <1>2

\* Writing an item extends the program and keeps the table dense.
LEMMA ItemWritten ==
  ASSUME program \in Seq(ProgramFunction), program # <<>>, Numbered,
         NEW tag \in Tags, NEW ins \in Seq(Value), NEW res \in Seq(Def),
         NEW meta \in Metadata, NEW ref \in Names \cup {NoName}, NEW ACTION refId,
         NEW regions \in Seq(BOOLEAN),
         WriteItem(tag, ins, res, meta, ref, refId, regions)
  PROVE  program' \in Seq(ProgramFunction) /\ program' # <<>> /\ Numbered'
<1> DEFINE item == [tag |-> tag, ins |-> ins, res |-> res, meta |-> meta,
                    ref |-> ref, regions |-> regions]
<1>1. item \in Item
  BY DEF Item
<1>2. program' = [program EXCEPT ![Cur].items = Append(@, item)]
  BY DEF WriteItem
<1> HIDE DEF item
<1>3. Cur \in DOMAIN program /\ program[Cur] \in ProgramFunction
  BY DEF Cur
<1>4. [program[Cur] EXCEPT !.items = Append(@, item)] \in ProgramFunction
  <2>1. Append(program[Cur].items, item) \in Seq(Item)
    BY <1>1, <1>3 DEF ProgramFunction
  <2> QED
    BY <1>3, <2>1 DEF ProgramFunction
<1>5. program' \in Seq(ProgramFunction) /\ program' # <<>>
  BY <1>2, <1>3, <1>4
<1>6. Numbered'
  <2> DEFINE s == ins \o Outs(res)
  <2>1. s \in Seq(Value)
    BY OutsAreValues
  <2>2. DOMAIN s = 1 .. Len(s) /\ Len(s) \in Nat
    BY <2>1
  <2>3. values' = Enter(values, s, Cardinality(DOMAIN values))
    BY DEF WriteItem, GetValueIds
  <2> HIDE DEF s
  <2> QED
    BY <2>2, <2>3, EnterDense DEF Numbered
<1> QED
  BY <1>5, <1>6

\* Which regions of an operation have a block is a list of truth values.
LEMMA PresentRegions ==
  ASSUME NEW regions \in Seq(RegionShape)
  PROVE  [r \in DOMAIN regions |-> regions[r].block] \in Seq(BOOLEAN)
<1>1. ASSUME NEW r \in DOMAIN regions PROVE regions[r].block \in BOOLEAN
  <2>1. regions[r] \in RegionShape
    OBVIOUS
  <2> QED
    BY <2>1, Zenon DEF RegionShape
<1> QED
  BY <1>1

\* An operation, whatever its shape and operands, keeps the invariant.
LEMMA OperationWritten ==
  ASSUME Inv, frames # <<>>, NEW s \in OpShapes, NEW ins \in Operands(s.ins),
         NEW ACTION refId, SerializeOp(s, ins, refId)
  PROVE  Inv'
<1>1. s \in OpShape
  BY ConstantsAssumption
<1>2. /\ s.tag \in Tags /\ s.ins \in Seq(Types) /\ s.res \in Seq(Def)
      /\ s.meta \in Metadata /\ s.ref \in Names \cup {NoName}
      /\ s.regions \in Seq(RegionShape)
  BY <1>1 DEF OpShape
<1>3. ins \in Seq(Value)
  BY <1>2, OperandsAreValues DEF Inv, Walk
<1>4. [r \in DOMAIN s.regions |-> s.regions[r].block] \in Seq(BOOLEAN)
  BY <1>2, PresentRegions
<1>5. program' \in Seq(ProgramFunction) /\ program' # <<>> /\ Numbered'
  BY <1>2, <1>3, <1>4, ItemWritten DEF Inv, Walk, SerializeOp
<1>6. frames' \in Seq(Frame)
  <2>1. Range(Outs(s.res)) \subseteq Value
    BY <1>2, OutsAreValues DEF Inv, Walk, Range
  <2>2. Top \in Frame /\ Len(frames) \in DOMAIN frames
    BY DEF Inv, Walk, Top
  <2>3. [scope |-> Top.scope \cup Range(Outs(s.res)), todo |-> s.regions,
         yields |-> Top.yields] \in Frame
    BY <1>2, <2>1, <2>2 DEF Frame
  <2> QED
    BY <2>2, <2>3 DEF SerializeOp, Top, Inv, Walk
<1> QED
  BY <1>5, <1>6 DEF Inv, Walk, SerializeOp

----------------------------------------------------------------------------
(* The invariant.                                                          *)

\* A table that was cleared is dense.
LEMMA EmptyNumbered == ASSUME NEW f, f = [v \in {} |-> 0] PROVE IsFiniteSet(DOMAIN f) /\ Dense(f)
<1>1. DOMAIN f = {} /\ Cardinality(DOMAIN f) = 0 /\ IsFiniteSet(DOMAIN f)
  BY FS_EmptySet
<1> QED
  BY <1>1 DEF Dense

\* The walk starts with nothing visited and no index given.
LEMMA InitInv == Init => Inv
  BY EmptyNumbered, ConstantsAssumption DEF Init, Inv, Walk, Numbered

\* A function starts with a cleared table.
LEMMA FunctionBegun == Inv /\ BeginFunction => Inv'
<1> SUFFICES ASSUME Inv, BeginFunction PROVE Inv'
  OBVIOUS
<1> DEFINE func == module.funcs[Cur + 1]
<1>1. func \in FuncShape
  BY DEF Inv, Walk, BeginFunction, ModuleHeader, Cur
<1>2. func.name \in Names /\ func.meta \in Metadata /\ func.region \in RegionShape
  BY <1>1 DEF FuncShape
<1>3. program' \in Seq(ProgramFunction) /\ program' # <<>>
  <2>1. [name |-> func.name, meta |-> func.meta, items |-> <<>>] \in ProgramFunction
    BY <1>2 DEF ProgramFunction
  <2>2. program' = Append(program, [name |-> func.name, meta |-> func.meta, items |-> <<>>])
    BY DEF BeginFunction
  <2>3. program \in Seq(ProgramFunction)
    BY DEF Inv, Walk
  <2> QED
    BY <2>1, <2>2, <2>3
<1>4. frames' \in Seq(Frame)
  <2>1. [scope |-> {}, todo |-> <<func.region>>, yields |-> <<>>] \in Frame
    BY <1>2 DEF Frame
  <2> QED
    BY <2>1 DEF BeginFunction
<1>5. Numbered'
  BY EmptyNumbered DEF BeginFunction, ClearValues, Numbered
<1> QED
  BY <1>3, <1>4, <1>5 DEF Inv, Walk, BeginFunction

\* Block arguments are numbered like results.
LEMMA RegionEntered == Inv /\ EnterRegion => Inv'
<1> SUFFICES ASSUME Inv, EnterRegion PROVE Inv'
  OBVIOUS
<1> DEFINE region == Head(Top.todo)
<1>1. Top \in Frame /\ Len(frames) \in DOMAIN frames /\ Top.todo # <<>>
  BY DEF Inv, Walk, Top, EnterRegion
<1>2. region \in RegionShape /\ Tail(Top.todo) \in Seq(RegionShape)
  BY <1>1 DEF Frame
<1>3. /\ region.args \in Seq(Def) /\ region.meta \in Metadata
      /\ region.yields \in Seq(Types)
  BY <1>2 DEF RegionShape
<1>4. program \in Seq(ProgramFunction) /\ program # <<>> /\ Numbered
  BY DEF Inv, Walk, EnterRegion
<1>5. program' \in Seq(ProgramFunction) /\ program' # <<>> /\ Numbered'
  <2>1. /\ "enter" \in Tags /\ NoName \in Names \cup {NoName}
        /\ <<>> \in Seq(Value) /\ <<>> \in Seq(BOOLEAN)
    BY DEF Tags, Bounds
  <2>2. WriteItem("enter", <<>>, region.args, region.meta, NoName, 0, <<>>)
    BY DEF EnterRegion
  <2> HIDE DEF region
  <2> QED
    BY <1>3, <1>4, <2>1, <2>2, ItemWritten
<1>6. frames' \in Seq(Frame)
  <2>1. Range(Outs(region.args)) \subseteq Value
    BY <1>3, <1>4, OutsAreValues DEF Range
  <2>2. [scope |-> Range(Outs(region.args)), todo |-> <<>>, yields |-> region.yields] \in Frame
    BY <1>3, <2>1 DEF Frame
  <2>3. [Top EXCEPT !.todo = Tail(Top.todo)] \in Frame
    BY <1>1, <1>2 DEF Frame
  <2>4. [frames EXCEPT ![Len(frames)].todo = Tail(@)] \in Seq(Frame)
    BY <1>1, <2>3 DEF Inv, Walk, Top
  <2> QED
    BY <2>2, <2>4 DEF EnterRegion
<1> QED
  BY <1>5, <1>6 DEF Inv, Walk, EnterRegion

\* The operands of the terminator are numbered like operands.
LEMMA RegionLeft == Inv /\ LeaveRegion => Inv'
<1> SUFFICES ASSUME Inv, LeaveRegion PROVE Inv'
  OBVIOUS
<1>1. frames \in Seq(Frame) /\ frames # <<>> /\ Top \in Frame
  BY DEF Inv, Walk, Top, LeaveRegion, InBlock
<1>2. PICK ins \in Operands(Top.yields) :
        WriteItem("leave", ins, <<>>, <<>>, NoName, 0, <<>>)
  BY DEF LeaveRegion
<1>3. Top.yields \in Seq(Types)
  BY <1>1 DEF Frame
<1>4. ins \in Seq(Value)
  BY <1>1, <1>3, OperandsAreValues
<1>5. program' \in Seq(ProgramFunction) /\ program' # <<>> /\ Numbered'
  <2>1. /\ "leave" \in Tags /\ NoName \in Names \cup {NoName}
        /\ <<>> \in Seq(Def) /\ <<>> \in Metadata /\ <<>> \in Seq(BOOLEAN)
    BY DEF Tags, Bounds, Metadata
  <2> QED
    BY <1>1, <1>2, <1>4, <2>1, ItemWritten DEF Inv, Walk
<1>6. frames' \in Seq(Frame)
  BY <1>1 DEF LeaveRegion
<1> QED
  BY <1>5, <1>6 DEF Inv, Walk, LeaveRegion

\* No step of the walk breaks the invariant.
LEMMA NextInv == Inv /\ [Next]_vars => Inv'
<1> SUFFICES ASSUME Inv, [Next]_vars PROVE Inv'
  OBVIOUS
<1>1. CASE SerializeModule
  BY <1>1 DEF SerializeModule, Inv, Walk, Numbered
<1>2. CASE BeginFunction
  BY <1>2, FunctionBegun
<1>3. CASE FunctionNameMissing \/ EnterAbsentRegion \/ CustomNameMissing
  BY <1>3 DEF FunctionNameMissing, EnterAbsentRegion, CustomNameMissing, ctx, Inv, Walk, Numbered
<1>4. CASE EnterRegion
  BY <1>4, RegionEntered
<1>5. CASE LeaveRegion
  BY <1>5, RegionLeft
<1>6. CASE SerializeFlatOp
  BY <1>6, OperationWritten DEF SerializeFlatOp, AtOperation, InBlock
<1>7. CASE SerializeCustom
  BY <1>7, OperationWritten DEF SerializeCustom, AtOperation, InBlock
<1>8. CASE SerializeCall
  BY <1>8, OperationWritten DEF SerializeCall, AtOperation, InBlock
<1>9. CASE SerializeScf
  BY <1>9, OperationWritten DEF SerializeScf, AtOperation, InBlock
<1>10. CASE SerializeValue
  BY <1>10 DEF SerializeValue, Inv, Walk, Numbered
<1>11. CASE FinishModule
  BY <1>11 DEF FinishModule, Inv, Walk, Numbered
<1>12. CASE UNCHANGED vars
  BY <1>12 DEF vars, ctx, Inv, Walk, Numbered
<1> QED
  BY <1>1, <1>2, <1>3, <1>4, <1>5, <1>6, <1>7, <1>8, <1>9, <1>10, <1>11, <1>12 DEF Next

\* Whatever module is written, the indices of the current function's values
\* are 0 .. n-1, each used once (SerializationContext::getValueId and the
\* array serializeFunction makes of ctx.values).
THEOREM IndicesDense == Spec => []ValueIdsDense
<1>1. Inv => ValueIdsDense
  BY DEF Inv, Numbered, ValueIdsDense
<1> QED
  BY <1>1, InitInv, NextInv, PTL DEF Spec

----------------------------------------------------------------------------
(* The tables and the message.                                             *)

\* A value the program defines.
Defined(v) ==
    /\ v \in Value
    /\ v[1] \in DOMAIN program
    /\ v[2] \in DOMAIN program[v[1]].items
    /\ v[3] \in DOMAIN program[v[1]].items[v[2]].res

\* What has an index, or is visible, is defined: the value table finds a type
\* for every index.
Scoped ==
    /\ \A v \in DOMAIN values : Defined(v)
    /\ \A i \in DOMAIN frames : \A v \in frames[i].scope : Defined(v)

StringTable ==
    /\ DOMAIN stringIds \subseteq Names /\ Range(stringIds) \subseteq 0 .. U16 - 1
    /\ strings \in Seq(Names)
    /\ result \in {"success", "failure"}
FuncTable ==
    /\ DOMAIN funcs \subseteq Names /\ Range(funcs) \subseteq 0 .. U16 - 1
    /\ status # "start" =>
          \A f \in DOMAIN module.funcs : module.funcs[f].name \in DOMAIN funcs

\* The message has a function for every function visited, and no more values
\* in the table of the last one than have an index.
Encoding ==
    /\ message \in Message
    /\ Len(message.functions) = Len(program)
    /\ program # <<>> =>
          Len(message.functions[Cur].values) <= Cardinality(DOMAIN values)
    /\ status \in {"start", "running", "success", "failure", "fatal", "undefined"}

FullInv == Inv /\ Scoped /\ StringTable /\ FuncTable /\ Encoding

\* An index cut to its width is within it.
LEMMA ModTyped == ASSUME NEW x \in Int PROVE x % U16 \in 0 .. U16 - 1
  BY ConstantsAssumption, SMT

\* What serializeMetadata makes known is a list of names.
LEMMA RegisteredNames ==
  ASSUME NEW meta \in Metadata
  PROVE  Registered(meta) \in Seq(Names)
<1>1. CASE meta = Malformed \/ result = "failure"
  BY <1>1 DEF Registered
<1>2. CASE meta # Malformed /\ result # "failure"
  <2>1. meta \in Seq(Entry)
    BY <1>2 DEF Metadata
  <2>2. ASSUME NEW i \in DOMAIN meta PROVE meta[i].name \in Names
    <3>1. meta[i] \in Entry
      BY <2>1
    <3> QED
      BY <3>1 DEF Entry
  <2>3. EntryNames(meta) \in Seq(Names)
    BY <2>1, <2>2 DEF EntryNames
  <2> QED
    BY <1>2, <2>3 DEF Registered
<1> QED
  BY <1>1, <1>2

\* serializeMetadata keeps the string table well formed, and writes indices of it.
LEMMA MetadataWritten ==
  ASSUME StringTable, NEW meta \in Metadata, SerializeMetadata(meta)
  PROVE  StringTable' /\ WrittenMeta(meta) \in Seq(Nat)
<1> DEFINE ns == Registered(meta)
           D == DOMAIN stringIds
<1>1. ns \in Seq(Names) /\ DOMAIN ns = 1 .. Len(ns) /\ Len(ns) \in Nat
  BY RegisteredNames
<1>2. DOMAIN stringIds' = D \cup Range(ns)
  BY DEF SerializeMetadata
<1>3. Range(ns) \subseteq Names
  BY <1>1 DEF Range
<1>4. ASSUME NEW n \in D \cup Range(ns)
      PROVE  stringIds'[n] \in 0 .. U16 - 1
  <2>1. CASE n \in D
    <3>1. stringIds'[n] = stringIds[n]
      BY <2>1 DEF SerializeMetadata
    <3> QED
      BY <2>1, <3>1 DEF StringTable, Range
  <2>2. CASE n \notin D
    <3>1. n \in Fresh(D, ns)
      BY <1>4, <2>2 DEF Fresh
    <3>2. Rank(D, ns, n) \in Nat
      BY <1>1, <3>1, RankBelow
    <3>3. Len(strings) + Rank(D, ns, n) \in Int
      BY <3>2 DEF StringTable
    <3>4. stringIds'[n] = (Len(strings) + Rank(D, ns, n)) % U16
      BY <1>4, <2>2 DEF SerializeMetadata, StringId
    <3> QED
      BY <3>3, <3>4, ModTyped
  <2> QED
    BY <2>1, <2>2
<1>5. strings' \in Seq(Names)
  <2>1. FirstUses(D, ns) \in Seq(Fresh(D, ns))
    BY <1>1, FirstUsesList
  <2>2. FirstUses(D, ns) \in Seq(Names)
    BY <1>3, <2>1 DEF Fresh
  <2>3. strings' = strings \o FirstUses(D, ns)
    BY DEF SerializeMetadata
  <2> QED
    BY <2>2, <2>3 DEF StringTable
<1>6. WrittenMeta(meta) \in Seq(Nat)
  <2>1. \A i \in DOMAIN ns : stringIds'[ns[i]] \in Nat
    BY <1>4, ConstantsAssumption DEF Range
  <2> QED
    BY <1>1, <2>1 DEF WrittenMeta
<1>7. result' \in {"success", "failure"}
  BY DEF SerializeMetadata, ResultAfter
<1>8. DOMAIN stringIds' \subseteq Names /\ Range(stringIds') \subseteq 0 .. U16 - 1
  BY <1>2, <1>3, <1>4 DEF StringTable, Range
<1> QED
  BY <1>5, <1>6, <1>7, <1>8 DEF StringTable

\* What a table in use maps to.
LEMMA NumberedTyped ==
  ASSUME NEW ids, IsFiniteSet(DOMAIN ids), Dense(ids)
  PROVE  Cardinality(DOMAIN ids) \in Nat /\ \A v \in DOMAIN ids : ids[v] \in Nat
<1>1. Cardinality(DOMAIN ids) \in Nat
  BY FS_CardinalityType
<1>2. \A v \in DOMAIN ids : ids[v] \in 0 .. Cardinality(DOMAIN ids) - 1
  BY DEF Dense
<1> QED
  BY <1>1, <1>2

\* An item adds definitions and takes none away.
LEMMA ItemScoped ==
  ASSUME program \in Seq(ProgramFunction), program # <<>>,
         \A v \in DOMAIN values : Defined(v),
         NEW tag, NEW ins \in Seq(Value), \A i \in DOMAIN ins : Defined(ins[i]),
         NEW res \in Seq(Def), NEW meta, NEW ref, NEW ACTION refId, NEW regions,
         WriteItem(tag, ins, res, meta, ref, refId, regions)
  PROVE  /\ \A v : Defined(v) => Defined(v)'
         /\ \A v \in Range(Outs(res)) : Defined(v)'
         /\ \A v \in DOMAIN values' : Defined(v)'
<1> DEFINE item == [tag |-> tag, ins |-> ins, res |-> res, meta |-> meta,
                    ref |-> ref, regions |-> regions]
           items == program[Cur].items
<1>1. program' = [program EXCEPT ![Cur].items = Append(@, item)]
  BY DEF WriteItem
<1>2. item.res = res
  OBVIOUS
<1> HIDE DEF item
<1>3. Cur \in DOMAIN program /\ program[Cur] \in ProgramFunction /\ Cur \in Nat \ {0}
  BY DEF Cur
<1>4. items \in Seq(Item)
  BY <1>3 DEF ProgramFunction
<1>5. /\ DOMAIN program' = DOMAIN program
      /\ program'[Cur].items = Append(items, item)
      /\ \A f \in DOMAIN program : f # Cur => program'[f] = program[f]
  BY <1>1, <1>3, <1>4 DEF ProgramFunction
<1>6. /\ DOMAIN Append(items, item) = DOMAIN items \cup {Here} /\ Here \in Nat \ {0}
      /\ \A i \in DOMAIN items : Append(items, item)[i] = items[i]
      /\ Append(items, item)[Here] = item
  BY <1>4 DEF Here
<1> HIDE DEF items
<1>7. ASSUME NEW v, Defined(v) PROVE Defined(v)'
  <2>1. CASE v[1] = Cur
    BY <1>5, <1>6, <1>7, <2>1 DEF Defined, items
  <2>2. CASE v[1] # Cur
    BY <1>5, <1>7, <2>2 DEF Defined
  <2> QED
    BY <2>1, <2>2
<1>8. ASSUME NEW v \in Range(Outs(res)) PROVE Defined(v)'
  <2>1. PICK k \in DOMAIN res : v = <<Cur, Here, k>>
    BY DEF Range, Outs
  <2>2. v \in Value
    BY <1>3, <1>6, <2>1 DEF Value
  <2>3. v[1] = Cur /\ v[2] = Here /\ v[3] = k
    BY <2>1
  <2> QED
    BY <1>2, <1>3, <1>5, <1>6, <2>2, <2>3 DEF Defined
<1>9. DOMAIN values' = DOMAIN values \cup Range(ins \o Outs(res))
  BY DEF WriteItem, GetValueIds, Enter
<1>10. Range(ins \o Outs(res)) \subseteq Range(ins) \cup Range(Outs(res))
  <2>1. ins \in Seq(Value) /\ Outs(res) \in Seq(Value)
    BY OutsAreValues
  <2> QED
    BY <2>1 DEF Range
<1> QED
  BY <1>7, <1>8, <1>9, <1>10 DEF Range

\* Writing an item keeps the message well formed.
LEMMA ItemEncoded ==
  ASSUME program \in Seq(ProgramFunction), program # <<>>, Numbered, StringTable, Encoding,
         NEW tag \in Tags, NEW ins \in Seq(Value), NEW res \in Seq(Def),
         NEW meta \in Metadata, NEW ref \in Names \cup {NoName},
         NEW ACTION refId, refId \in Nat, NEW regions \in Seq(BOOLEAN),
         WriteItem(tag, ins, res, meta, ref, refId, regions), UNCHANGED status
  PROVE  StringTable' /\ Encoding'
<1> DEFINE mf == message.functions
           item == [tag     |-> tag,
                    ins     |-> [i \in DOMAIN ins |-> values'[ins[i]]],
                    outs    |-> [k \in DOMAIN res |-> values'[<<Cur, Here, k>>]],
                    meta    |-> WrittenMeta(meta),
                    ref     |-> refId,
                    regions |-> regions]
<1>1. StringTable' /\ WrittenMeta(meta) \in Seq(Nat)
  BY MetadataWritten DEF WriteItem
<1>2. program' \in Seq(ProgramFunction) /\ program' # <<>> /\ Numbered'
  BY ItemWritten
<1>3. DOMAIN values' = DOMAIN values \cup Range(ins \o Outs(res))
  BY DEF WriteItem, GetValueIds, Enter
<1>4. item \in MessageItem
  <2>1. ins \in Seq(Value) /\ Outs(res) \in Seq(Value) /\ Len(Outs(res)) = Len(res)
    BY OutsAreValues
  <2>2. \A v \in Range(ins \o Outs(res)) : values'[v] \in Nat
    <3>1. \A v \in DOMAIN values' : values'[v] \in Nat
      BY <1>2, NumberedTyped DEF Numbered
    <3> QED
      BY <1>3, <3>1
  <2>3. /\ \A i \in DOMAIN ins : ins[i] \in Range(ins \o Outs(res))
        /\ \A k \in DOMAIN Outs(res) : Outs(res)[k] \in Range(ins \o Outs(res))
    <3>1. ASSUME NEW i \in DOMAIN ins PROVE ins[i] \in Range(ins \o Outs(res))
      <4>1. i \in DOMAIN (ins \o Outs(res)) /\ (ins \o Outs(res))[i] = ins[i]
        BY <2>1
      <4> QED
        BY <4>1 DEF Range
    <3>2. ASSUME NEW k \in DOMAIN Outs(res) PROVE Outs(res)[k] \in Range(ins \o Outs(res))
      <4>1. /\ Len(ins) + k \in DOMAIN (ins \o Outs(res))
            /\ (ins \o Outs(res))[Len(ins) + k] = Outs(res)[k]
        BY <2>1
      <4> QED
        BY <4>1 DEF Range
    <3> QED
      BY <3>1, <3>2
  <2>4. [i \in DOMAIN ins |-> values'[ins[i]]] \in Seq(Nat)
    <3>1. \A i \in DOMAIN ins : values'[ins[i]] \in Nat
      BY <2>2, <2>3
    <3>2. DOMAIN ins = 1 .. Len(ins) /\ Len(ins) \in Nat
      OBVIOUS
    <3> QED
      BY <3>1, <3>2
  <2>5. [k \in DOMAIN res |-> values'[<<Cur, Here, k>>]] \in Seq(Nat)
    <3>1. ASSUME NEW k \in DOMAIN res PROVE values'[<<Cur, Here, k>>] \in Nat
      <4>1. k \in DOMAIN Outs(res) /\ Outs(res)[k] = <<Cur, Here, k>>
        BY DEF Outs
      <4> QED
        BY <2>2, <2>3, <4>1
    <3>2. DOMAIN res = 1 .. Len(res) /\ Len(res) \in Nat
      OBVIOUS
    <3> QED
      BY <3>1, <3>2
  <2> QED
    BY <1>1, <2>4, <2>5 DEF MessageItem
<1>5. message' = [message EXCEPT !.functions[Cur].items = Append(@, item)]
  BY DEF WriteItem
<1> HIDE DEF item
<1>6. mf \in Seq(MessageFunction) /\ Cur \in DOMAIN mf /\ mf[Cur] \in MessageFunction
      /\ Cur \in Nat /\ Len(mf) = Len(program)
  BY DEF Encoding, Message, Cur
<1>7. [mf[Cur] EXCEPT !.items = Append(@, item)] \in MessageFunction
  <2>1. Append(mf[Cur].items, item) \in Seq(MessageItem)
    BY <1>4, <1>6 DEF MessageFunction
  <2> QED
    BY <1>6, <2>1 DEF MessageFunction
<1>8. [mf EXCEPT ![Cur].items = Append(@, item)] \in Seq(MessageFunction)
  BY <1>6, <1>7
<1>9. message' \in Message /\ message'.functions = [mf EXCEPT ![Cur].items = Append(@, item)]
  BY <1>5, <1>8 DEF Encoding, Message
<1>10. Len(message'.functions) = Len(program') /\ Cur' = Cur
  BY <1>6, <1>9 DEF WriteItem, Cur
<1>11. message'.functions[Cur].values = mf[Cur].values
  BY <1>6, <1>9 DEF MessageFunction
<1>12. Cardinality(DOMAIN values) <= Cardinality(DOMAIN values')
  BY <1>2, <1>3, FS_Subset DEF Numbered
<1>13. Len(mf[Cur].values) <= Cardinality(DOMAIN values')
  <2>1. Len(mf[Cur].values) \in Nat
    BY <1>6 DEF MessageFunction
  <2>2. Len(mf[Cur].values) <= Cardinality(DOMAIN values)
    BY DEF Encoding
  <2>3. Cardinality(DOMAIN values) \in Nat /\ Cardinality(DOMAIN values') \in Nat
    BY <1>2, NumberedTyped DEF Numbered
  <2> QED
    BY <1>12, <2>1, <2>2, <2>3
<1>14. Encoding'
  BY <1>9, <1>10, <1>11, <1>13 DEF Encoding
<1> QED
  BY <1>1, <1>14

----------------------------------------------------------------------------
(* The type invariant.                                                     *)

\* Operands are taken from what is visible, which is defined.
LEMMA OperandsDefined ==
  ASSUME Scoped, frames \in Seq(Frame), frames # <<>>, NEW ts, NEW ins \in Operands(ts)
  PROVE  \A i \in DOMAIN ins : Defined(ins[i])
<1>1. Len(frames) \in DOMAIN frames
  OBVIOUS
<1>2. ins \in [DOMAIN ts -> Top.scope]
  BY DEF Operands
<1> QED
  BY <1>1, <1>2 DEF Scoped, Top

\* An operation, whatever its shape and operands, keeps the full invariant.
LEMMA OperationTyped ==
  ASSUME FullInv, frames # <<>>, NEW s \in OpShapes, NEW ins \in Operands(s.ins),
         NEW ACTION refId, refId \in Nat, SerializeOp(s, ins, refId)
  PROVE  FullInv'
<1>1. Inv'
  BY OperationWritten DEF FullInv
<1>2. /\ s.tag \in Tags /\ s.ins \in Seq(Types) /\ s.res \in Seq(Def)
      /\ s.meta \in Metadata /\ s.ref \in Names \cup {NoName}
      /\ s.regions \in Seq(RegionShape)
  BY ConstantsAssumption DEF OpShape
<1>3. program \in Seq(ProgramFunction) /\ program # <<>> /\ Numbered /\ frames \in Seq(Frame)
  BY DEF FullInv, Inv, Walk
<1>4. ins \in Seq(Value) /\ \A i \in DOMAIN ins : Defined(ins[i])
  BY <1>2, <1>3, OperandsAreValues, OperandsDefined DEF FullInv
<1> DEFINE present == [r \in DOMAIN s.regions |-> s.regions[r].block]
<1>5. present \in Seq(BOOLEAN)
  BY <1>2, PresentRegions
<1>6. WriteItem(s.tag, ins, s.res, s.meta, s.ref, refId, present)
  BY DEF SerializeOp
<1> HIDE DEF present
<1>7. StringTable' /\ Encoding'
  BY <1>2, <1>3, <1>4, <1>5, <1>6, ItemEncoded DEF FullInv, SerializeOp
<1>8. /\ \A v : Defined(v) => Defined(v)'
      /\ \A v \in Range(Outs(s.res)) : Defined(v)'
      /\ \A v \in DOMAIN values' : Defined(v)'
  BY <1>2, <1>3, <1>4, <1>6, ItemScoped DEF FullInv, Scoped
<1>9. Scoped'
  <2>1. /\ DOMAIN frames' = DOMAIN frames /\ Len(frames) \in DOMAIN frames
        /\ frames'[Len(frames)].scope = frames[Len(frames)].scope \cup Range(Outs(s.res))
        /\ \A i \in DOMAIN frames : i # Len(frames) => frames'[i] = frames[i]
    BY <1>3 DEF SerializeOp
  <2>2. \A i \in DOMAIN frames : \A v \in frames[i].scope : Defined(v)'
    BY <1>8 DEF FullInv, Scoped
  <2>3. ASSUME NEW i \in DOMAIN frames', NEW v \in frames'[i].scope PROVE Defined(v)'
    BY <1>8, <2>1, <2>2, <2>3
  <2> QED
    BY <1>8, <2>3 DEF Scoped
<1>10. FuncTable'
  BY DEF FullInv, FuncTable, SerializeOp
<1> QED
  BY <1>1, <1>7, <1>9, <1>10 DEF FullInv

\* A block shows its arguments, which its first item defines.
LEMMA RegionEnteredTyped == FullInv /\ EnterRegion => FullInv'
<1> SUFFICES ASSUME FullInv, EnterRegion PROVE FullInv'
  OBVIOUS
<1> DEFINE region == Head(Top.todo)
<1>1. Inv'
  BY RegionEntered DEF FullInv
<1>2. Top \in Frame /\ Len(frames) \in DOMAIN frames /\ Top.todo # <<>>
  BY DEF FullInv, Inv, Walk, Top, EnterRegion
<1>3. region \in RegionShape
  BY <1>2 DEF Frame
<1>4. region.args \in Seq(Def) /\ region.meta \in Metadata
  BY <1>3 DEF RegionShape
<1>5. program \in Seq(ProgramFunction) /\ program # <<>> /\ Numbered /\ frames \in Seq(Frame)
  BY DEF FullInv, Inv, Walk, EnterRegion
<1>6. WriteItem("enter", <<>>, region.args, region.meta, NoName, 0, <<>>)
  BY DEF EnterRegion
<1>7. frames' = Append([frames EXCEPT ![Len(frames)].todo = Tail(@)],
                       [scope |-> Range(Outs(region.args)), todo |-> <<>>,
                        yields |-> region.yields])
  BY DEF EnterRegion
<1> HIDE DEF region
<1>8. /\ "enter" \in Tags /\ NoName \in Names \cup {NoName} /\ 0 \in Nat
      /\ <<>> \in Seq(Value) /\ <<>> \in Seq(BOOLEAN) /\ DOMAIN <<>> = {}
  BY DEF Tags, Bounds
<1>9. StringTable' /\ Encoding'
  BY <1>4, <1>5, <1>6, <1>8, ItemEncoded DEF FullInv, EnterRegion
<1>10. /\ \A v : Defined(v) => Defined(v)'
       /\ \A v \in Range(Outs(region.args)) : Defined(v)'
       /\ \A v \in DOMAIN values' : Defined(v)'
  <2>1. \A i \in DOMAIN <<>> : Defined(<<>>[i])
    BY <1>8
  <2> QED
    BY <1>4, <1>5, <1>6, <1>8, <2>1, ItemScoped DEF FullInv, Scoped
<1>11. Scoped'
  <2> DEFINE below == [frames EXCEPT ![Len(frames)].todo = Tail(@)]
             top == [scope |-> Range(Outs(region.args)), todo |-> <<>>, yields |-> region.yields]
  <2>1. /\ Len(below) = Len(frames) /\ DOMAIN below = DOMAIN frames
        /\ \A i \in DOMAIN frames : below[i].scope = frames[i].scope
    BY <1>2, <1>5 DEF Top, Frame
  <2>2. below \in Seq(Frame)
    <3>1. Tail(Top.todo) \in Seq(RegionShape)
      BY <1>2 DEF Frame
    <3>2. [Top EXCEPT !.todo = Tail(Top.todo)] \in Frame
      BY <1>2, <3>1 DEF Frame
    <3> QED
      BY <1>2, <1>5, <3>2 DEF Top
  <2>3. top.scope = Range(Outs(region.args))
    OBVIOUS
  <2> HIDE DEF below, top
  <2>4. frames' = Append(below, top)
    BY <1>7 DEF below, top
  <2>5. /\ DOMAIN frames' = DOMAIN below \cup {Len(below) + 1}
        /\ \A i \in DOMAIN below : frames'[i] = below[i]
        /\ frames'[Len(below) + 1] = top
    BY <2>2, <2>4
  <2>6. \A i \in DOMAIN frames : \A v \in frames[i].scope : Defined(v)'
    BY <1>10 DEF FullInv, Scoped
  <2>7. ASSUME NEW i \in DOMAIN frames', NEW v \in frames'[i].scope PROVE Defined(v)'
    BY <1>10, <2>1, <2>3, <2>5, <2>6, <2>7
  <2> QED
    BY <1>10, <2>7 DEF Scoped
<1>12. FuncTable'
  BY DEF FullInv, FuncTable, EnterRegion
<1> QED
  BY <1>1, <1>9, <1>11, <1>12 DEF FullInv

\* Leaving a block takes away what it showed.
LEMMA RegionLeftTyped == FullInv /\ LeaveRegion => FullInv'
<1> SUFFICES ASSUME FullInv, LeaveRegion PROVE FullInv'
  OBVIOUS
<1>1. Inv'
  BY RegionLeft DEF FullInv
<1>2. frames \in Seq(Frame) /\ frames # <<>> /\ Top \in Frame
  BY DEF FullInv, Inv, Walk, Top, LeaveRegion, InBlock
<1>3. program \in Seq(ProgramFunction) /\ program # <<>> /\ Numbered
  BY <1>2 DEF FullInv, Inv, Walk
<1>4. PICK ins \in Operands(Top.yields) :
        WriteItem("leave", ins, <<>>, <<>>, NoName, 0, <<>>)
  BY DEF LeaveRegion
<1>5. Top.yields \in Seq(Types)
  BY <1>2 DEF Frame
<1>6. ins \in Seq(Value) /\ \A i \in DOMAIN ins : Defined(ins[i])
  BY <1>2, <1>5, OperandsAreValues, OperandsDefined DEF FullInv
<1>7. /\ "leave" \in Tags /\ NoName \in Names \cup {NoName} /\ 0 \in Nat
      /\ <<>> \in Seq(Def) /\ <<>> \in Metadata /\ <<>> \in Seq(BOOLEAN)
  BY DEF Tags, Bounds, Metadata
<1>8. StringTable' /\ Encoding'
  BY <1>3, <1>4, <1>6, <1>7, ItemEncoded DEF FullInv, LeaveRegion
<1>9. /\ \A v : Defined(v) => Defined(v)'
      /\ \A v \in DOMAIN values' : Defined(v)'
  BY <1>3, <1>4, <1>6, <1>7, ItemScoped DEF FullInv, Scoped
<1>10. Scoped'
  <2>1. /\ DOMAIN frames' \subseteq DOMAIN frames
        /\ \A i \in DOMAIN frames' : frames'[i] = frames[i]
    BY <1>2 DEF LeaveRegion
  <2>2. \A i \in DOMAIN frames : \A v \in frames[i].scope : Defined(v)'
    BY <1>9 DEF FullInv, Scoped
  <2> QED
    BY <1>9, <2>1, <2>2 DEF Scoped
<1>11. FuncTable'
  BY DEF FullInv, FuncTable, LeaveRegion
<1> QED
  BY <1>1, <1>8, <1>10, <1>11 DEF FullInv

\* An element of a list has a last place in it.
LEMMA LastIndex ==
  ASSUME NEW S, NEW s \in Seq(S), NEW x \in Range(s)
  PROVE  \E i \in DOMAIN s : s[i] = x /\ \A j \in DOMAIN s : s[j] = x => j <= i
<1> DEFINE T == {k \in Nat : Len(s) - k \in DOMAIN s /\ s[Len(s) - k] = x}
<1>1. PICK i0 \in DOMAIN s : s[i0] = x
  BY DEF Range
<1>2. Len(s) - i0 \in T
  <2>1. Len(s) - i0 \in Nat /\ Len(s) - (Len(s) - i0) = i0
    OBVIOUS
  <2> QED
    BY <1>1, <2>1
<1>3. PICK k \in T : \A y \in T : k <= y
  BY <1>2, LeastNat
<1>4. ASSUME NEW j \in DOMAIN s, s[j] = x PROVE j <= Len(s) - k
  <2>1. Len(s) - j \in Nat /\ Len(s) - (Len(s) - j) = j
    OBVIOUS
  <2>2. Len(s) - j \in T
    BY <1>4, <2>1
  <2>3. k <= Len(s) - j /\ k \in Nat /\ j \in Nat /\ Len(s) \in Nat
    BY <1>3, <2>2
  <2> QED
    BY <2>3
<1> QED
  BY <1>3, <1>4

\* The context built from the module is well formed; every function has an index.
LEMMA ModuleBegunTyped == FullInv /\ SerializeModule => FullInv'
<1> SUFFICES ASSUME FullInv, SerializeModule PROVE FullInv'
  OBVIOUS
<1> DEFINE last(n) == CHOOSE i \in DOMAIN module.strings :
                /\ module.strings[i] = n
                /\ \A j \in DOMAIN module.strings : module.strings[j] = n => j <= i
           first(n) == CHOOSE f \in DOMAIN module.funcs : module.funcs[f].name = n
           names == {module.funcs[f].name : f \in DOMAIN module.funcs}
<1>1. Inv'
  BY DEF FullInv, SerializeModule, Inv, Walk, Numbered
<1>2. module.strings \in Seq(Names) /\ module.funcs \in Seq(FuncShape)
  BY DEF FullInv, Inv, Walk, ModuleHeader
<1>3. StringTable'
  <2>1. ASSUME NEW n \in Range(module.strings) PROVE StringId(last(n) - 1) \in 0 .. U16 - 1
    <3>1. last(n) \in DOMAIN module.strings
      BY <1>2, LastIndex
    <3>2. last(n) - 1 \in Int
      BY <1>2, <3>1
    <3> QED
      BY <3>2, ModTyped DEF StringId
  <2>2. stringIds' = [n \in Range(module.strings) |-> StringId(last(n) - 1)]
    BY DEF SerializeModule
  <2>3. Range(module.strings) \subseteq Names
    BY <1>2 DEF Range
  <2> HIDE DEF last
  <2>4. DOMAIN stringIds' \subseteq Names /\ Range(stringIds') \subseteq 0 .. U16 - 1
    BY <2>1, <2>2, <2>3 DEF Range
  <2>5. strings' \in Seq(Names) /\ result' = result
    BY <1>2 DEF SerializeModule, InitialStrings
  <2> QED
    BY <2>4, <2>5 DEF StringTable, FullInv
<1>4. FuncTable'
  <2>1. ASSUME NEW n \in names PROVE (first(n) - 1) % U16 \in 0 .. U16 - 1
    <3>1. first(n) \in DOMAIN module.funcs
      OBVIOUS
    <3>2. first(n) - 1 \in Int
      BY <1>2, <3>1
    <3> QED
      BY <3>2, ModTyped
  <2>2. funcs' = [n \in names |-> (first(n) - 1) % U16]
    BY DEF SerializeModule
  <2>3. names \subseteq Names
    <3>1. ASSUME NEW f \in DOMAIN module.funcs PROVE module.funcs[f].name \in Names
      <4>1. module.funcs[f] \in FuncShape
        BY <1>2
      <4> QED
        BY <4>1 DEF FuncShape
    <3> QED
      BY <3>1
  <2> HIDE DEF first
  <2>4. Range(funcs') \subseteq 0 .. U16 - 1
    BY <2>1, <2>2 DEF Range
  <2>5. module' = module
    BY DEF SerializeModule
  <2> QED
    BY <2>2, <2>3, <2>4, <2>5 DEF FuncTable
<1>5. Encoding'
  <2>1. message' = [message EXCEPT !.hasFunctions = TRUE] /\ message \in Message
    BY DEF SerializeModule, FullInv, Encoding
  <2>2. message' \in Message /\ message'.functions = message.functions
    BY <2>1 DEF Message
  <2> QED
    BY <2>2 DEF SerializeModule, FullInv, Encoding, Cur
<1>6. Scoped'
  BY DEF SerializeModule, FullInv, Scoped, Defined
<1> QED
  BY <1>1, <1>3, <1>4, <1>5, <1>6 DEF FullInv

\* The message gets a function when the program does, with an empty table.
LEMMA FunctionBegunTyped == FullInv /\ BeginFunction => FullInv'
<1> SUFFICES ASSUME FullInv, BeginFunction PROVE FullInv'
  OBVIOUS
<1> DEFINE func == module.funcs[Cur + 1]
           new == [name |-> stringIds[func.name], meta |-> WrittenMeta(func.meta),
                   hasBody |-> TRUE, hasOperations |-> TRUE, items |-> <<>>, values |-> <<>>]
<1>1. Inv'
  BY FunctionBegun DEF FullInv
<1>2. program \in Seq(ProgramFunction) /\ Cur \in Nat
  BY DEF FullInv, Inv, Walk, Cur
<1>3. func \in FuncShape
  BY <1>2 DEF FullInv, Inv, Walk, BeginFunction, ModuleHeader
<1>4. func.meta \in Metadata
  BY <1>3 DEF FuncShape
<1>5. SerializeMetadata(func.meta)
  BY DEF BeginFunction
<1>6. StringTable' /\ WrittenMeta(func.meta) \in Seq(Nat)
  BY <1>4, <1>5, MetadataWritten DEF FullInv
<1>7. stringIds[func.name] \in Nat
  <2>1. func.name \in DOMAIN stringIds
    BY DEF BeginFunction
  <2> QED
    BY <2>1, ConstantsAssumption DEF FullInv, StringTable, Range
<1>8. new \in MessageFunction
  BY <1>6, <1>7 DEF MessageFunction
<1>9. new.values = <<>>
  OBVIOUS
<1>10. message' = [message EXCEPT !.functions = Append(@, new)]
  BY DEF BeginFunction
<1>11. program' = Append(program, [name |-> func.name, meta |-> func.meta, items |-> <<>>])
  BY DEF BeginFunction
<1> HIDE DEF new, func
<1>12. Encoding'
  <2>1. message.functions \in Seq(MessageFunction) /\ Len(message.functions) = Cur
    BY DEF FullInv, Encoding, Message, Cur
  <2>2. Append(message.functions, new) \in Seq(MessageFunction)
    BY <1>8, <2>1
  <2>3. message' \in Message /\ message'.functions = Append(message.functions, new)
    BY <1>10, <2>2 DEF FullInv, Encoding, Message
  <2>4. /\ Len(message'.functions) = Cur + 1 /\ Len(program') = Cur + 1 /\ Cur' = Cur + 1
        /\ message'.functions[Cur + 1] = new
    BY <1>2, <1>11, <2>1, <2>3 DEF Cur
  <2>5. DOMAIN values' = {} /\ Cardinality(DOMAIN values') = 0
    BY FS_EmptySet DEF BeginFunction, ClearValues
  <2>6. status' = status
    BY DEF BeginFunction
  <2> QED
    BY <1>9, <2>3, <2>4, <2>5, <2>6 DEF FullInv, Encoding
<1>13. Scoped'
  <2>1. DOMAIN values' = {}
    BY DEF BeginFunction, ClearValues
  <2>2. frames' = <<[scope |-> {}, todo |-> <<func.region>>, yields |-> <<>>]>>
    BY DEF BeginFunction, func
  <2> QED
    BY <2>1, <2>2 DEF Scoped
<1>14. FuncTable'
  BY DEF FullInv, FuncTable, BeginFunction, BetweenFunctions, InTable
<1> QED
  BY <1>1, <1>6, <1>12, <1>13, <1>14 DEF FullInv

\* For the next index of the table there is a value, and it is defined.
LEMMA ValueTyped == FullInv /\ SerializeValue => FullInv'
<1> SUFFICES ASSUME FullInv, SerializeValue PROVE FullInv'
  OBVIOUS
<1> DEFINE mf == message.functions
           id == Len(mf[Cur].values)
           v == CHOOSE x \in DOMAIN values : values[x] = id
           def == DefOf(v)
           entry == [type |-> def.type, meta |-> WrittenMeta(def.meta)]
<1>1. Inv'
  BY DEF SerializeValue, FullInv, Inv, Walk, Numbered
<1>2. /\ program \in Seq(ProgramFunction) /\ program # <<>> /\ frames # <<>>
      /\ Cur \in DOMAIN program /\ Cur \in Nat /\ Len(mf) = Len(program)
      /\ mf \in Seq(MessageFunction) /\ Cur \in DOMAIN mf /\ mf[Cur] \in MessageFunction
  <2>1. frames # <<>>
    <3>1. Len(frames) = 1
      BY DEF SerializeValue, InTable
    <3> QED
      BY <3>1
  <2>2. program \in Seq(ProgramFunction) /\ program # <<>>
    BY <2>1 DEF FullInv, Inv, Walk
  <2>3. mf \in Seq(MessageFunction) /\ Len(mf) = Len(program)
    BY DEF FullInv, Encoding, Message
  <2> QED
    BY <2>1, <2>2, <2>3 DEF Cur
<1>3. id \in Nat /\ Cardinality(DOMAIN values) \in Nat /\ id < Cardinality(DOMAIN values)
  <2>1. id \in Nat
    BY <1>2 DEF MessageFunction
  <2>2. Cardinality(DOMAIN values) \in Nat
    BY NumberedTyped DEF FullInv, Inv, Numbered
  <2>3. id <= Cardinality(DOMAIN values) /\ id # Cardinality(DOMAIN values)
    BY <1>2 DEF FullInv, Encoding, SerializeValue, TableFull
  <2> QED
    BY <2>1, <2>2, <2>3
<1>4. v \in DOMAIN values
  <2>1. id \in 0 .. Cardinality(DOMAIN values) - 1
    BY <1>3
  <2>2. \E x \in DOMAIN values : values[x] = id
    BY <2>1 DEF FullInv, Inv, Numbered, Dense
  <2> QED
    BY <2>2
<1> HIDE DEF v
<1>5. def \in Def
  <2>1. Defined(v)
    BY <1>4 DEF FullInv, Scoped
  <2>2. program[v[1]] \in ProgramFunction
    BY <1>2, <2>1 DEF Defined
  <2>3. program[v[1]].items \in Seq(Item)
    BY <2>2 DEF ProgramFunction
  <2>4. program[v[1]].items[v[2]] \in Item
    BY <2>1, <2>3 DEF Defined
  <2>5. program[v[1]].items[v[2]].res \in Seq(Def)
    BY <2>4 DEF Item
  <2> QED
    BY <2>1, <2>5 DEF Defined, DefOf
<1>6. def.type \in Types /\ def.meta \in Metadata
  BY <1>5 DEF Def
<1>7. /\ SerializeMetadata(def.meta)
      /\ message' = [message EXCEPT !.functions[Cur].values = Append(@, entry)]
  BY DEF SerializeValue, v
<1> HIDE DEF def
<1>8. StringTable' /\ WrittenMeta(def.meta) \in Seq(Nat)
  BY <1>6, <1>7, MetadataWritten DEF FullInv
<1>9. entry \in [type : Types, meta : Seq(Nat)]
  BY <1>6, <1>8
<1> HIDE DEF entry
<1>10. Encoding'
  <2>1. Append(mf[Cur].values, entry) \in Seq([type : Types, meta : Seq(Nat)])
    BY <1>2, <1>9 DEF MessageFunction
  <2>2. [mf[Cur] EXCEPT !.values = Append(@, entry)] \in MessageFunction
    BY <1>2, <2>1 DEF MessageFunction
  <2>3. [mf EXCEPT ![Cur].values = Append(@, entry)] \in Seq(MessageFunction)
    BY <1>2, <2>2
  <2>4. message' \in Message /\ message'.functions = [mf EXCEPT ![Cur].values = Append(@, entry)]
    BY <1>7, <2>3 DEF FullInv, Encoding, Message
  <2>5. message'.functions[Cur].values = Append(mf[Cur].values, entry)
    BY <1>2, <2>4 DEF MessageFunction
  <2>6. Len(message'.functions[Cur].values) = id + 1
    BY <1>2, <2>5 DEF MessageFunction
  <2>7. Len(message'.functions) = Len(program)
    BY <1>2, <2>4
  <2>8. program' = program /\ values' = values /\ status' = status /\ Cur' = Cur
    BY DEF SerializeValue, Cur
  <2>9. id + 1 <= Cardinality(DOMAIN values)
    BY <1>3
  <2> HIDE DEF id
  <2> QED
    BY <2>4, <2>6, <2>7, <2>8, <2>9 DEF FullInv, Encoding
<1>11. Scoped'
  BY DEF SerializeValue, FullInv, Scoped, Defined
<1>12. FuncTable'
  BY DEF SerializeValue, FullInv, FuncTable
<1> QED
  BY <1>1, <1>8, <1>10, <1>11, <1>12 DEF FullInv

\* The string table of the message is that of the context.
LEMMA ModuleFinishedTyped == FullInv /\ FinishModule => FullInv'
<1> SUFFICES ASSUME FullInv, FinishModule PROVE FullInv'
  OBVIOUS
<1>1. Inv'
  BY DEF FinishModule, FullInv, Inv, Walk, Numbered
<1>2. module.meta \in Metadata
  BY DEF FullInv, Inv, Walk, ModuleHeader
<1>3. StringTable' /\ WrittenMeta(module.meta) \in Seq(Nat)
  BY <1>2, MetadataWritten DEF FinishModule, FullInv
<1>4. strings' \in Seq(Names) /\ result' \in {"success", "failure"}
  BY <1>3 DEF StringTable
<1>5. message' = [message EXCEPT !.strings = strings', !.meta = WrittenMeta(module.meta)]
  BY DEF FinishModule, WrittenStrings
<1>6. message' \in Message /\ message'.functions = message.functions
  BY <1>3, <1>4, <1>5 DEF FullInv, Encoding, Message
<1>7. Encoding'
  <2>1. status' = result' /\ program' = program /\ values' = values /\ Cur' = Cur
    BY DEF FinishModule, Cur
  <2> QED
    BY <1>4, <1>6, <2>1 DEF FullInv, Encoding
<1>8. Scoped'
  BY DEF FinishModule, FullInv, Scoped, Defined
<1>9. FuncTable'
  BY DEF FinishModule, BetweenFunctions, InTable, FullInv, FuncTable
<1> QED
  BY <1>1, <1>3, <1>7, <1>8, <1>9 DEF FullInv

\* The full invariant holds before the call.
LEMMA InitFull == Init => FullInv
<1> SUFFICES ASSUME Init PROVE FullInv
  OBVIOUS
<1>1. Inv
  BY InitInv
<1>2. Scoped
  BY DEF Init, Scoped
<1>3. StringTable
  BY DEF Init, StringTable, Range
<1>4. FuncTable
  BY DEF Init, FuncTable, Range
<1>5. message \in Message
  BY DEF Init, Message
<1>6. Encoding
  BY <1>5 DEF Init, Encoding
<1> QED
  BY <1>1, <1>2, <1>3, <1>4, <1>6 DEF FullInv

\* A metadata list registers its own names, so they have an index afterwards.
LEMMA CustomTyped == FullInv /\ SerializeCustom => FullInv'
<1> SUFFICES ASSUME FullInv, SerializeCustom PROVE FullInv'
  OBVIOUS
<1>0. PICK s \in OpShapes : \E ins \in Operands(s.ins) :
        /\ s.ref \in DOMAIN stringIds \cup Range(Registered(s.meta))
        /\ SerializeOp(s, ins, stringIds'[s.ref])
  BY DEF SerializeCustom
<1>1. PICK ins \in Operands(s.ins) :
        /\ s.ref \in DOMAIN stringIds \cup Range(Registered(s.meta))
        /\ SerializeOp(s, ins, stringIds'[s.ref])
  BY <1>0
<1>2. s.meta \in Metadata
  BY ConstantsAssumption DEF OpShape
<1>3. SerializeMetadata(s.meta)
  BY <1>1 DEF SerializeOp, WriteItem
<1>4. StringTable' /\ s.ref \in DOMAIN stringIds'
  BY <1>1, <1>2, <1>3, MetadataWritten DEF SerializeMetadata, FullInv
<1>5. stringIds'[s.ref] \in Nat
  BY <1>4, ConstantsAssumption DEF StringTable, Range
<1>6. frames # <<>>
  <2>1. Len(frames) > 1
    BY DEF SerializeCustom, AtOperation, InBlock
  <2> QED
    BY <2>1
<1> QED
  BY <1>1, <1>5, <1>6, OperationTyped

\* The callee is a function of the module, so it has an index.
LEMMA CallTyped == FullInv /\ SerializeCall => FullInv'
<1> SUFFICES ASSUME FullInv, SerializeCall PROVE FullInv'
  OBVIOUS
<1>0. PICK s \in OpShapes : \E ins \in Operands(s.ins) : \E f \in DOMAIN module.funcs :
        s.ref = module.funcs[f].name /\ SerializeOp(s, ins, funcs[s.ref])
  BY DEF SerializeCall
<1>1. PICK ins \in Operands(s.ins) : \E f \in DOMAIN module.funcs :
        s.ref = module.funcs[f].name /\ SerializeOp(s, ins, funcs[s.ref])
  BY <1>0
<1>2. status = "running" /\ Len(frames) > 1
  BY DEF SerializeCall, AtOperation, InBlock
<1>3. s.ref \in DOMAIN funcs
  BY <1>1, <1>2 DEF FullInv, FuncTable
<1>4. funcs[s.ref] \in Nat
  BY <1>3, ConstantsAssumption DEF FullInv, FuncTable, Range
<1>5. frames # <<>>
  BY <1>2
<1> QED
  BY <1>1, <1>4, <1>5, OperationTyped

\* No step of the walk breaks the full invariant.
LEMMA NextFull == FullInv /\ [Next]_vars => FullInv'
<1> SUFFICES ASSUME FullInv, [Next]_vars PROVE FullInv'
  OBVIOUS
<1>1. CASE SerializeModule
  BY <1>1, ModuleBegunTyped
<1>2. CASE BeginFunction
  BY <1>2, FunctionBegunTyped
<1>3. CASE FunctionNameMissing \/ EnterAbsentRegion \/ CustomNameMissing
  <2>1. UNCHANGED <<module, program, frames, values, funcs, stringIds, strings, result, message>>
    BY <1>3 DEF FunctionNameMissing, EnterAbsentRegion, CustomNameMissing, ctx
  <2>2. status # "start" /\ status' \in {"fatal", "undefined"}
    BY <1>3 DEF FunctionNameMissing, EnterAbsentRegion, CustomNameMissing,
                BetweenFunctions, InTable, AtOperation, InBlock
  <2> QED
    BY <2>1, <2>2 DEF FullInv, Inv, Walk, Numbered, Scoped, Defined, StringTable,
                      FuncTable, Encoding, Cur
<1>4. CASE EnterRegion
  BY <1>4, RegionEnteredTyped
<1>5. CASE LeaveRegion
  BY <1>5, RegionLeftTyped
<1>6. CASE SerializeFlatOp \/ SerializeScf
  <2>1. Len(frames) > 1
    BY <1>6 DEF SerializeFlatOp, SerializeScf, AtOperation, InBlock
  <2>2. frames # <<>> /\ 0 \in Nat
    BY <2>1
  <2>3. PICK s \in OpShapes : \E ins \in Operands(s.ins) : SerializeOp(s, ins, 0)
    BY <1>6 DEF SerializeFlatOp, SerializeScf
  <2> QED
    BY <2>2, <2>3, OperationTyped
<1>7. CASE SerializeCustom
  BY <1>7, CustomTyped
<1>8. CASE SerializeCall
  BY <1>8, CallTyped
<1>9. CASE SerializeValue
  BY <1>9, ValueTyped
<1>10. CASE FinishModule
  BY <1>10, ModuleFinishedTyped
<1>11. CASE UNCHANGED vars
  BY <1>11 DEF vars, ctx, FullInv, Inv, Walk, Numbered, Scoped, Defined, StringTable,
               FuncTable, Encoding, Cur
<1> QED
  BY <1>1, <1>2, <1>3, <1>4, <1>5, <1>6, <1>7, <1>8, <1>9, <1>10, <1>11 DEF Next

\* Every variable holds a value of its kind: every index written is a number,
\* every index of a string or function is within its width, every entry of the
\* value table has the type of a value of the program.
THEOREM TypeCorrect == Spec => []TypeOK
<1>1. FullInv => TypeOK
  <2> SUFFICES ASSUME FullInv PROVE TypeOK
    OBVIOUS
  <2>1. DOMAIN values \subseteq Value
    BY DEF FullInv, Scoped, Defined
  <2>2. Range(values) \subseteq Nat
    BY NumberedTyped DEF FullInv, Inv, Numbered, Range
  <2> QED
    BY <2>1, <2>2 DEF FullInv, Inv, Walk, StringTable, FuncTable, Encoding, TypeOK,
                      ProgramFunction, Frame
<1> QED
  BY <1>1, InitFull, NextFull, PTL DEF Spec

(***************************************************************************)
(* What a call of serialize that runs to its end reports and leaves.  It   *)
(* reports failure exactly when some metadata of the module is flawed: of  *)
(* the module, a function, an item, or a result of an item, which is       *)
(* written with the value table only after the whole body of its function. *)
(* And its message can be read: in every function an index is defined      *)
(* once, before it is used, and the value table has exactly the indices    *)
(* that are defined.                                                       *)
(***************************************************************************)

----------------------------------------------------------------------------
(* Failures are reported.                                                  *)

\* Flaws the walk meets with the function and its items, and those it meets later.
MetaFlaw(f) ==
    \/ Flawed(program[f].meta)
    \/ \E i \in DOMAIN program[f].items : Flawed(program[f].items[i].meta)
ResultFlaw(f) ==
    \E i \in DOMAIN program[f].items : \E k \in DOMAIN program[f].items[i].res :
        Flawed(program[f].items[i].res[k].meta)

\* Every result of the current function has an index, so the value table will hold it.
ResultsNumbered ==
    program # <<>> =>
        \A i \in DOMAIN program[Cur].items : \A k \in DOMAIN program[Cur].items[i].res :
            <<Cur, i, k>> \in DOMAIN values

\* The values already in the table have sound metadata.
TabledSound ==
    program # <<>> =>
        \A v \in DOMAIN values :
            values[v] < Len(message.functions[Cur].values) => ~Flawed(DefOf(v).meta)

Justified ==
    /\ result = "failure" => \E f \in DOMAIN program : MetaFlaw(f) \/ ResultFlaw(f)
    /\ result = "success" =>
          /\ \A f \in DOMAIN program : ~MetaFlaw(f) /\ (f # Cur => ~ResultFlaw(f))
          /\ TabledSound

Reporting ==
    /\ frames = <<>> => program = <<>>
    /\ ResultsNumbered
    /\ status \notin {"success", "failure"} => Justified
    /\ FailureReported

\* A failure is kept, and comes from a flaw.
LEMMA ResultKept ==
  ASSUME StringTable, NEW meta, SerializeMetadata(meta)
  PROVE  /\ result' \in {"success", "failure"}
         /\ result' = "failure" <=> result = "failure" \/ Flawed(meta)
  BY DEF StringTable, SerializeMetadata, ResultAfter, Flawed

\* Writing an item changes nothing that was visited before.
LEMMA ItemAppended ==
  ASSUME program \in Seq(ProgramFunction), program # <<>>,
         NEW tag, NEW ins, NEW res, NEW meta, NEW ref, NEW ACTION refId, NEW regions,
         WriteItem(tag, ins, res, meta, ref, refId, regions)
  PROVE  /\ DOMAIN program' = DOMAIN program /\ Cur' = Cur /\ Cur \in DOMAIN program
         /\ \A f \in DOMAIN program : f # Cur => program'[f] = program[f]
         /\ program'[Cur].meta = program[Cur].meta
         /\ DOMAIN program'[Cur].items = DOMAIN program[Cur].items \cup {Here}
         /\ \A i \in DOMAIN program[Cur].items :
               i # Here /\ program'[Cur].items[i] = program[Cur].items[i]
         /\ program'[Cur].items[Here].res = res
         /\ program'[Cur].items[Here].meta = meta
<1> DEFINE item == [tag |-> tag, ins |-> ins, res |-> res, meta |-> meta,
                    ref |-> ref, regions |-> regions]
           items == program[Cur].items
<1>1. program' = [program EXCEPT ![Cur].items = Append(@, item)]
  BY DEF WriteItem
<1>2. item.res = res /\ item.meta = meta
  OBVIOUS
<1> HIDE DEF item
<1>3. Cur \in DOMAIN program /\ program[Cur] \in ProgramFunction
  BY DEF Cur
<1>4. items \in Seq(Item)
  BY <1>3 DEF ProgramFunction
<1>5. /\ DOMAIN program' = DOMAIN program /\ Len(program') = Len(program)
      /\ program'[Cur].items = Append(items, item)
      /\ program'[Cur].meta = program[Cur].meta
      /\ \A f \in DOMAIN program : f # Cur => program'[f] = program[f]
  BY <1>1, <1>3, <1>4 DEF ProgramFunction
<1>6. /\ DOMAIN Append(items, item) = DOMAIN items \cup {Here}
      /\ \A i \in DOMAIN items : i # Here /\ Append(items, item)[i] = items[i]
      /\ Append(items, item)[Here] = item
  BY <1>4 DEF Here
<1>7. Cur' = Cur
  BY <1>5 DEF Cur
<1> HIDE DEF items
<1> QED
  BY <1>2, <1>3, <1>5, <1>6, <1>7 DEF items

\* The value table waits while items are written.
LEMMA TableKept ==
  ASSUME program \in Seq(ProgramFunction), program # <<>>, Encoding,
         NEW tag, NEW ins, NEW res, NEW meta, NEW ref, NEW ACTION refId, NEW regions,
         WriteItem(tag, ins, res, meta, ref, refId, regions)
  PROVE  message'.functions[Cur].values = message.functions[Cur].values
<1>1. /\ message.functions \in Seq(MessageFunction) /\ Cur \in DOMAIN message.functions
      /\ message.functions[Cur] \in MessageFunction
  BY DEF Encoding, Message, Cur
<1>2. PICK item : message' = [message EXCEPT !.functions[Cur].items = Append(@, item)]
  BY DEF WriteItem
<1> QED
  BY <1>1, <1>2 DEF Encoding, Message, MessageFunction

\* What had an index keeps it, what is new gets one beyond them, and all definitions get one.
LEMMA ItemNumbered ==
  ASSUME program \in Seq(ProgramFunction), program # <<>>, Numbered,
         NEW tag, NEW ins \in Seq(Value), NEW res \in Seq(Def), NEW meta, NEW ref,
         NEW ACTION refId, NEW regions,
         WriteItem(tag, ins, res, meta, ref, refId, regions)
  PROVE  /\ \A v \in DOMAIN values : v \in DOMAIN values' /\ values'[v] = values[v]
         /\ \A v \in DOMAIN values' \ DOMAIN values :
               values'[v] \in Nat /\ values'[v] >= Cardinality(DOMAIN values)
         /\ \A k \in DOMAIN res : <<Cur, Here, k>> \in DOMAIN values'
<1> DEFINE s == ins \o Outs(res)
<1>1. ins \in Seq(Value) /\ Outs(res) \in Seq(Value) /\ s \in Seq(Value)
  BY OutsAreValues
<1>2. DOMAIN s = 1 .. Len(s) /\ Len(s) \in Nat
  BY <1>1
<1>3. ASSUME NEW k \in DOMAIN res PROVE <<Cur, Here, k>> \in Range(s)
  <2>1. k \in DOMAIN Outs(res) /\ Outs(res)[k] = <<Cur, Here, k>>
    BY DEF Outs
  <2>2. Len(ins) + k \in DOMAIN s /\ s[Len(ins) + k] = Outs(res)[k]
    BY <1>1, <2>1
  <2> QED
    BY <2>1, <2>2 DEF Range
<1>4. values' = Enter(values, s, Cardinality(DOMAIN values))
  BY DEF WriteItem, GetValueIds
<1> HIDE DEF s
<1>5. DOMAIN values' = DOMAIN values \cup Range(s)
  BY <1>4 DEF Enter
<1>6. \A v \in DOMAIN values : values'[v] = values[v]
  BY <1>4, <1>5 DEF Enter
<1>7. ASSUME NEW v \in DOMAIN values' \ DOMAIN values
      PROVE  values'[v] \in Nat /\ values'[v] >= Cardinality(DOMAIN values)
  <2>1. v \in Fresh(DOMAIN values, s)
    BY <1>5, <1>7 DEF Fresh
  <2>2. Rank(DOMAIN values, s, v) \in Nat
    BY <1>2, <2>1, RankBelow
  <2>3. values'[v] = Cardinality(DOMAIN values) + Rank(DOMAIN values, s, v)
    BY <1>4, <1>5, <1>7 DEF Enter
  <2>4. Cardinality(DOMAIN values) \in Nat
    BY NumberedTyped DEF Numbered
  <2> QED
    BY <2>2, <2>3, <2>4
<1> QED
  BY <1>3, <1>5, <1>6, <1>7

\* The definition of a value stays what it was.
LEMMA DefinitionKept ==
  ASSUME program \in Seq(ProgramFunction), program # <<>>,
         NEW tag, NEW ins, NEW res, NEW meta, NEW ref, NEW ACTION refId, NEW regions,
         WriteItem(tag, ins, res, meta, ref, refId, regions),
         NEW v, Defined(v)
  PROVE  DefOf(v)' = DefOf(v)
<1>1. CASE v[1] = Cur
  BY <1>1, ItemAppended DEF Defined, DefOf
<1>2. CASE v[1] # Cur
  BY <1>2, ItemAppended DEF Defined, DefOf
<1> QED
  BY <1>1, <1>2

\* Writing an item: its own metadata decides now, that of its results later.
LEMMA ItemReports ==
  ASSUME FullInv, Reporting, program # <<>>, frames' # <<>>, status = "running",
         NEW tag, NEW ins \in Seq(Value), NEW res \in Seq(Def), NEW meta, NEW ref,
         NEW ACTION refId, NEW regions,
         WriteItem(tag, ins, res, meta, ref, refId, regions), UNCHANGED <<module, status>>
  PROVE  Reporting'
<1>1. program \in Seq(ProgramFunction) /\ Numbered /\ StringTable /\ Encoding /\ Scoped
  BY DEF FullInv, Inv, Walk
<1>2. /\ DOMAIN program' = DOMAIN program /\ Cur' = Cur /\ Cur \in DOMAIN program
      /\ \A f \in DOMAIN program : f # Cur => program'[f] = program[f]
      /\ program'[Cur].meta = program[Cur].meta
      /\ DOMAIN program'[Cur].items = DOMAIN program[Cur].items \cup {Here}
      /\ \A i \in DOMAIN program[Cur].items :
            i # Here /\ program'[Cur].items[i] = program[Cur].items[i]
      /\ program'[Cur].items[Here].res = res
      /\ program'[Cur].items[Here].meta = meta
  BY <1>1, ItemAppended
<1>3. /\ result' \in {"success", "failure"}
      /\ result' = "failure" <=> result = "failure" \/ Flawed(meta)
  BY <1>1, ResultKept DEF WriteItem
<1>4. Justified /\ ResultsNumbered
  BY DEF Reporting
<1>5. ResultsNumbered'
  <2> SUFFICES ASSUME NEW i \in DOMAIN program'[Cur].items,
                      NEW k \in DOMAIN program'[Cur].items[i].res
               PROVE  <<Cur, i, k>> \in DOMAIN values'
    BY <1>2 DEF ResultsNumbered
  <2>1. CASE i = Here
    BY <1>1, <1>2, <2>1, ItemNumbered
  <2>2. CASE i # Here
    <3>1. i \in DOMAIN program[Cur].items /\ k \in DOMAIN program[Cur].items[i].res
      BY <1>2, <2>2
    <3>2. <<Cur, i, k>> \in DOMAIN values
      BY <1>4, <3>1 DEF ResultsNumbered
    <3> QED
      BY <1>1, <3>2, ItemNumbered
  <2> QED
    BY <2>1, <2>2
<1>6. ASSUME NEW f \in DOMAIN program
      PROVE  /\ MetaFlaw(f) => MetaFlaw(f)'
             /\ ResultFlaw(f) => ResultFlaw(f)'
             /\ f # Cur => (MetaFlaw(f)' => MetaFlaw(f)) /\ (ResultFlaw(f)' => ResultFlaw(f))
  <2>1. CASE f # Cur
    BY <1>2, <2>1 DEF MetaFlaw, ResultFlaw
  <2>2. CASE f = Cur
    BY <1>2, <2>2 DEF MetaFlaw, ResultFlaw
  <2> QED
    BY <2>1, <2>2
<1>7. MetaFlaw(Cur)' <=> MetaFlaw(Cur) \/ Flawed(meta)
  BY <1>2 DEF MetaFlaw
<1>8. TabledSound' \/ ~TabledSound
  <2> SUFFICES ASSUME TabledSound, NEW v \in DOMAIN values',
                      values'[v] < Len(message'.functions[Cur].values)
               PROVE  ~Flawed(DefOf(v)'.meta)
    BY <1>2 DEF TabledSound
  <2>1. message'.functions[Cur].values = message.functions[Cur].values
    BY <1>1, TableKept
  <2>2. v \in DOMAIN values
    <3>1. /\ Len(message.functions[Cur].values) \in Nat
          /\ Len(message.functions[Cur].values) <= Cardinality(DOMAIN values)
      BY <1>1 DEF Encoding, Message, MessageFunction, Cur
    <3>2. Cardinality(DOMAIN values) \in Nat
      BY <1>1, NumberedTyped DEF Numbered
    <3>3. v \notin DOMAIN values =>
            values'[v] \in Nat /\ values'[v] >= Cardinality(DOMAIN values)
      BY <1>1, ItemNumbered
    <3> QED
      BY <2>1, <3>1, <3>2, <3>3
  <2>3. values'[v] = values[v]
    BY <1>1, <2>2, ItemNumbered
  <2>4. DefOf(v)' = DefOf(v)
    BY <1>1, <2>2, DefinitionKept DEF Scoped
  <2> QED
    BY <2>1, <2>2, <2>3, <2>4 DEF TabledSound
<1>9. Justified'
  <2>1. ASSUME result' = "failure"
        PROVE  \E f \in DOMAIN program' : MetaFlaw(f)' \/ ResultFlaw(f)'
    BY <1>2, <1>3, <1>4, <1>6, <1>7, <2>1 DEF Justified
  <2>2. ASSUME result' = "success"
        PROVE  /\ \A f \in DOMAIN program' : ~MetaFlaw(f)' /\ (f # Cur' => ~ResultFlaw(f)')
               /\ TabledSound'
    <3>1. result = "success" /\ ~Flawed(meta)
      BY <1>1, <1>3, <2>2 DEF StringTable
    <3> QED
      BY <1>2, <1>4, <1>6, <1>7, <1>8, <3>1 DEF Justified
  <2> QED
    BY <2>1, <2>2 DEF Justified
<1> QED
  BY <1>5, <1>9 DEF Reporting, FailureReported

\* An operation, whatever its shape and operands.
LEMMA OperationReports ==
  ASSUME FullInv, Reporting, frames # <<>>, status = "running",
         NEW s \in OpShapes, NEW ins \in Operands(s.ins), NEW ACTION refId,
         SerializeOp(s, ins, refId)
  PROVE  Reporting'
<1>1. s.ins \in Seq(Types) /\ s.res \in Seq(Def)
  BY ConstantsAssumption DEF OpShape
<1>2. frames \in Seq(Frame) /\ program # <<>>
  BY DEF FullInv, Inv, Walk
<1>3. ins \in Seq(Value)
  BY <1>1, <1>2, OperandsAreValues
<1>4. frames' # <<>>
  BY <1>2 DEF SerializeOp
<1> DEFINE present == [r \in DOMAIN s.regions |-> s.regions[r].block]
<1>5. WriteItem(s.tag, ins, s.res, s.meta, s.ref, refId, present) /\ UNCHANGED <<module, status>>
  BY DEF SerializeOp
<1> HIDE DEF present
<1> QED
  BY <1>1, <1>2, <1>3, <1>4, <1>5, ItemReports

\* Block arguments.
LEMMA EnterReports == FullInv /\ Reporting /\ EnterRegion => Reporting'
<1> SUFFICES ASSUME FullInv, Reporting, EnterRegion PROVE Reporting'
  OBVIOUS
<1> DEFINE region == Head(Top.todo)
<1>1. frames \in Seq(Frame) /\ frames # <<>> /\ program # <<>> /\ Top \in Frame /\ Top.todo # <<>>
  BY DEF FullInv, Inv, Walk, EnterRegion, Top
<1>2. region \in RegionShape
  BY <1>1 DEF Frame
<1>3. region.args \in Seq(Def) /\ <<>> \in Seq(Value)
  BY <1>2 DEF RegionShape
<1>4. WriteItem("enter", <<>>, region.args, region.meta, NoName, 0, <<>>)
  BY DEF EnterRegion
<1>5. Len(frames') = Len(frames) + 1 /\ Len(frames) \in Nat
  BY <1>1 DEF EnterRegion
<1>6. frames' # <<>> /\ status = "running" /\ UNCHANGED <<module, status>>
  BY <1>5 DEF EnterRegion
<1> HIDE DEF region
<1> QED
  BY <1>1, <1>3, <1>4, <1>6, ItemReports

\* A terminator.
LEMMA LeaveReports == FullInv /\ Reporting /\ LeaveRegion => Reporting'
<1> SUFFICES ASSUME FullInv, Reporting, LeaveRegion PROVE Reporting'
  OBVIOUS
<1>1. frames \in Seq(Frame) /\ frames # <<>> /\ program # <<>> /\ Top \in Frame
      /\ Len(frames) > 1 /\ status = "running"
  BY DEF FullInv, Inv, Walk, LeaveRegion, InBlock, Top
<1>2. PICK ins \in Operands(Top.yields) :
        WriteItem("leave", ins, <<>>, <<>>, NoName, 0, <<>>)
  BY DEF LeaveRegion
<1>3. Top.yields \in Seq(Types)
  BY <1>1 DEF Frame
<1>4. ins \in Seq(Value) /\ <<>> \in Seq(Def)
  BY <1>1, <1>3, OperandsAreValues
<1>5. frames' # <<>> /\ UNCHANGED <<module, status>>
  <2>1. frames' = SubSeq(frames, 1, Len(frames) - 1)
    BY DEF LeaveRegion
  <2>2. Len(frames') = Len(frames) - 1 /\ Len(frames) \in Nat
    BY <1>1, <2>1
  <2>3. frames' # <<>>
    BY <1>1, <2>2
  <2> QED
    BY <2>3 DEF LeaveRegion
<1> QED
  BY <1>1, <1>2, <1>4, <1>5, ItemReports

\* When its value table is full, nothing of the current function is left to find.
LEMMA TableComplete ==
  ASSUME FullInv, Reporting, BetweenFunctions, result = "success"
  PROVE  \A f \in DOMAIN program : ~MetaFlaw(f) /\ ~ResultFlaw(f)
<1>1. Justified /\ ResultsNumbered
  BY DEF Reporting, BetweenFunctions, InTable
<1>2. \A f \in DOMAIN program : ~MetaFlaw(f) /\ (f # Cur => ~ResultFlaw(f))
  BY <1>1 DEF Justified
<1>3. ASSUME program # <<>> PROVE ~ResultFlaw(Cur)
  <2> SUFFICES ASSUME NEW i \in DOMAIN program[Cur].items,
                      NEW k \in DOMAIN program[Cur].items[i].res
               PROVE  ~Flawed(program[Cur].items[i].res[k].meta)
    BY DEF ResultFlaw
  <2>1. frames # <<>>
    BY <1>3 DEF Reporting
  <2>2. Len(message.functions[Cur].values) = Cardinality(DOMAIN values)
    BY <2>1 DEF BetweenFunctions, TableFull
  <2>3. <<Cur, i, k>> \in DOMAIN values
    BY <1>1, <1>3 DEF ResultsNumbered
  <2>4. values[<<Cur, i, k>>] \in 0 .. Cardinality(DOMAIN values) - 1
    BY <2>3 DEF FullInv, Inv, Numbered, Dense
  <2>5. Cardinality(DOMAIN values) \in Nat
    BY NumberedTyped DEF FullInv, Inv, Numbered
  <2>6. values[<<Cur, i, k>>] < Len(message.functions[Cur].values)
    BY <2>2, <2>4, <2>5
  <2>7. ~Flawed(DefOf(<<Cur, i, k>>).meta)
    BY <1>1, <1>3, <2>3, <2>6 DEF Justified, TabledSound
  <2> QED
    BY <2>7 DEF DefOf
<1>4. ASSUME NEW f \in DOMAIN program PROVE f # Cur \/ program # <<>>
  BY <1>4
<1> QED
  BY <1>2, <1>3, <1>4

\* The next function: the results of the last one have all been met.
LEMMA BeginReports == FullInv /\ Reporting /\ BeginFunction => Reporting'
<1> SUFFICES ASSUME FullInv, Reporting, BeginFunction PROVE Reporting'
  OBVIOUS
<1> DEFINE func == module.funcs[Cur + 1]
           new == [name |-> func.name, meta |-> func.meta, items |-> <<>>]
<1>1. program \in Seq(ProgramFunction) /\ StringTable
  BY DEF FullInv, Inv, Walk
<1>2. program' = Append(program, new) /\ SerializeMetadata(func.meta)
  BY DEF BeginFunction
<1>3. new.meta = func.meta /\ new.items = <<>>
  OBVIOUS
<1> HIDE DEF new, func
<1>4. /\ Len(program') = Len(program) + 1 /\ Len(program) \in Nat
      /\ DOMAIN program' = DOMAIN program \cup {Len(program')}
      /\ \A f \in DOMAIN program : f # Len(program') /\ program'[f] = program[f]
      /\ program'[Len(program')] = new
  BY <1>1, <1>2
<1>5. Cur' = Len(program') /\ DOMAIN program'[Cur'].items = {}
  BY <1>3, <1>4 DEF Cur
<1>6. DOMAIN values' = {}
  BY DEF BeginFunction, ClearValues
<1>7. /\ result' \in {"success", "failure"}
      /\ result' = "failure" <=> result = "failure" \/ Flawed(func.meta)
  BY <1>1, <1>2, ResultKept
<1>8. status = "running" /\ status' = "running" /\ BetweenFunctions
  BY DEF BeginFunction, BetweenFunctions, InTable
<1>9. ASSUME NEW f \in DOMAIN program
      PROVE  (MetaFlaw(f)' <=> MetaFlaw(f)) /\ (ResultFlaw(f)' <=> ResultFlaw(f))
  BY <1>4 DEF MetaFlaw, ResultFlaw
<1>10. (MetaFlaw(Cur)' <=> Flawed(func.meta)) /\ ~ResultFlaw(Cur)'
  BY <1>3, <1>4, <1>5 DEF MetaFlaw, ResultFlaw
<1>11. Justified
  BY <1>8 DEF Reporting
<1>12. Justified'
  <2>1. ASSUME result' = "failure"
        PROVE  \E f \in DOMAIN program' : MetaFlaw(f)' \/ ResultFlaw(f)'
    <3>1. CASE Flawed(func.meta)
      BY <1>3, <1>4, <1>5, <3>1 DEF MetaFlaw
    <3>2. CASE result = "failure"
      BY <1>4, <1>9, <1>11, <3>2 DEF Justified
    <3> QED
      BY <1>7, <2>1, <3>1, <3>2
  <2>2. ASSUME result' = "success"
        PROVE  /\ \A f \in DOMAIN program' : ~MetaFlaw(f)' /\ (f # Cur' => ~ResultFlaw(f)')
               /\ TabledSound'
    <3>1. result = "success" /\ ~Flawed(func.meta)
      BY <1>1, <1>7, <2>2 DEF StringTable
    <3>2. \A f \in DOMAIN program : ~MetaFlaw(f) /\ ~ResultFlaw(f)
      BY <1>8, <3>1, TableComplete
    <3>3. TabledSound'
      BY <1>6 DEF TabledSound
    <3>4. ASSUME NEW f \in DOMAIN program'
          PROVE  ~MetaFlaw(f)' /\ (f # Cur' => ~ResultFlaw(f)')
      <4>1. CASE f \in DOMAIN program
        BY <1>9, <3>2, <4>1
      <4>2. CASE f = Cur'
        <5>1. program'[f] = new /\ DOMAIN new.items = {}
          BY <1>3, <1>4, <1>5, <4>2
        <5> QED
          BY <1>3, <3>1, <4>2, <5>1 DEF MetaFlaw
      <4> QED
        BY <1>4, <1>5, <4>1, <4>2
    <3> QED
      BY <3>3, <3>4
  <2> QED
    BY <2>1, <2>2 DEF Justified
<1>13. ResultsNumbered'
  BY <1>5 DEF ResultsNumbered
<1>14. frames' # <<>>
  BY DEF BeginFunction
<1> QED
  BY <1>8, <1>12, <1>13, <1>14 DEF Reporting, FailureReported

\* One more value of the table.
LEMMA ValueReports == FullInv /\ Reporting /\ SerializeValue => Reporting'
<1> SUFFICES ASSUME FullInv, Reporting, SerializeValue PROVE Reporting'
  OBVIOUS
<1> DEFINE id == Len(message.functions[Cur].values)
           x == CHOOSE v \in DOMAIN values : values[v] = id
<1>1. /\ program \in Seq(ProgramFunction) /\ Numbered /\ StringTable /\ Encoding
      /\ frames # <<>> /\ program # <<>> /\ Cur \in DOMAIN program
  <2>1. Len(frames) = 1
    BY DEF SerializeValue, InTable
  <2>2. frames # <<>>
    BY <2>1
  <2>3. program \in Seq(ProgramFunction) /\ program # <<>>
    BY <2>2 DEF FullInv, Inv, Walk
  <2> QED
    BY <2>2, <2>3 DEF FullInv, Inv, Cur
<1>2. /\ message.functions \in Seq(MessageFunction) /\ Cur \in DOMAIN message.functions
      /\ message.functions[Cur] \in MessageFunction
  BY <1>1 DEF Encoding, Message, Cur
<1>3. id \in Nat /\ Cardinality(DOMAIN values) \in Nat /\ id < Cardinality(DOMAIN values)
  <2>1. id \in Nat /\ Cardinality(DOMAIN values) \in Nat
    BY <1>1, <1>2, NumberedTyped DEF MessageFunction, Numbered
  <2>2. id <= Cardinality(DOMAIN values) /\ id # Cardinality(DOMAIN values)
    BY <1>1 DEF Encoding, SerializeValue, TableFull
  <2> QED
    BY <2>1, <2>2
<1>4. x \in DOMAIN values /\ values[x] = id
  <2>1. \E v \in DOMAIN values : values[v] = id
    BY <1>1, <1>3 DEF Numbered, Dense
  <2> QED
    BY <2>1
<1>5. Defined(x)
  BY <1>4 DEF FullInv, Scoped
<1>6. PICK entry : /\ SerializeMetadata(DefOf(x).meta)
                   /\ message' = [message EXCEPT !.functions[Cur].values = Append(@, entry)]
  BY DEF SerializeValue
<1> HIDE DEF id, x
<1>7. Len(message'.functions[Cur].values) = id + 1
  BY <1>1, <1>2, <1>6 DEF Encoding, Message, MessageFunction, id
<1>8. UNCHANGED <<module, program, frames, values, status>> /\ Cur' = Cur /\ status = "running"
  BY DEF SerializeValue, InTable, Cur
<1>9. /\ result' \in {"success", "failure"}
      /\ result' = "failure" <=> result = "failure" \/ Flawed(DefOf(x).meta)
  BY <1>1, <1>6, ResultKept
<1>10. Justified
  BY <1>8 DEF Reporting
<1>11. ASSUME NEW f PROVE (MetaFlaw(f)' <=> MetaFlaw(f)) /\ (ResultFlaw(f)' <=> ResultFlaw(f))
  BY <1>8 DEF MetaFlaw, ResultFlaw
<1>12. Justified'
  <2>1. ASSUME result' = "failure"
        PROVE  \E f \in DOMAIN program' : MetaFlaw(f)' \/ ResultFlaw(f)'
    <3>1. CASE Flawed(DefOf(x).meta)
      <4>1. ResultFlaw(x[1]) /\ x[1] \in DOMAIN program
        BY <1>5, <3>1 DEF Defined, DefOf, ResultFlaw
      <4> QED
        BY <1>8, <1>11, <4>1
    <3>2. CASE result = "failure"
      BY <1>8, <1>10, <1>11, <3>2 DEF Justified
    <3> QED
      BY <1>9, <2>1, <3>1, <3>2
  <2>2. ASSUME result' = "success"
        PROVE  /\ \A f \in DOMAIN program' : ~MetaFlaw(f)' /\ (f # Cur' => ~ResultFlaw(f)')
               /\ TabledSound'
    <3>1. result = "success" /\ ~Flawed(DefOf(x).meta)
      BY <1>1, <1>9, <2>2 DEF StringTable
    <3>2. TabledSound'
      <4> SUFFICES ASSUME NEW v \in DOMAIN values, values[v] < id + 1
                   PROVE  ~Flawed(DefOf(v).meta)
        BY <1>7, <1>8 DEF TabledSound, DefOf
      <4>1. CASE values[v] = id
        BY <1>1, <1>4, <3>1, <4>1 DEF Numbered, Dense
      <4>2. CASE values[v] # id
        <5>1. values[v] \in Nat
          BY <1>1, NumberedTyped DEF Numbered
        <5>2. values[v] < Len(message.functions[Cur].values)
          BY <1>3, <4>2, <5>1 DEF id
        <5> QED
          BY <1>1, <1>10, <3>1, <5>2 DEF Justified, TabledSound
      <4> QED
        BY <4>1, <4>2
    <3> QED
      BY <1>8, <1>10, <1>11, <3>1, <3>2 DEF Justified
  <2> QED
    BY <2>1, <2>2 DEF Justified
<1>13. ResultsNumbered'
  BY <1>8 DEF ResultsNumbered, Reporting
<1> QED
  BY <1>1, <1>8, <1>12, <1>13 DEF Reporting, FailureReported

\* The metadata of the module comes last; then every flaw has been met.
LEMMA FinishReports == FullInv /\ Reporting /\ FinishModule => Reporting'
<1> SUFFICES ASSUME FullInv, Reporting, FinishModule PROVE Reporting'
  OBVIOUS
<1>1. StringTable /\ SerializeMetadata(module.meta) /\ BetweenFunctions
  BY DEF FullInv, FinishModule
<1>2. /\ result' \in {"success", "failure"}
      /\ result' = "failure" <=> result = "failure" \/ Flawed(module.meta)
  BY <1>1, ResultKept
<1>3. UNCHANGED <<module, program, frames, values>> /\ Cur' = Cur /\ status' = result'
  BY DEF FinishModule, Cur
<1>4. Justified
  BY DEF Reporting, FinishModule, BetweenFunctions, InTable
<1>5. SomeMetadataFlawed <=>
        Flawed(module.meta) \/ \E f \in DOMAIN program : MetaFlaw(f) \/ ResultFlaw(f)
  BY DEF SomeMetadataFlawed, MetaFlaw, ResultFlaw
<1>6. result' = "failure" => SomeMetadataFlawed
  BY <1>2, <1>4, <1>5 DEF Justified
<1>7. result' = "success" => ~SomeMetadataFlawed
  <2> SUFFICES ASSUME result' = "success" PROVE ~SomeMetadataFlawed
    OBVIOUS
  <2>1. result = "success" /\ ~Flawed(module.meta)
    BY <1>1, <1>2 DEF StringTable
  <2>2. \A f \in DOMAIN program : ~MetaFlaw(f) /\ ~ResultFlaw(f)
    BY <1>1, <2>1, TableComplete
  <2> QED
    BY <1>5, <2>1, <2>2
<1>8. SomeMetadataFlawed' <=> SomeMetadataFlawed
  BY <1>3 DEF SomeMetadataFlawed
<1>9. FailureReported'
  BY <1>2, <1>3, <1>6, <1>7, <1>8 DEF FailureReported
<1>10. ResultsNumbered'
  BY <1>3 DEF ResultsNumbered, Reporting
<1> QED
  BY <1>2, <1>3, <1>9, <1>10 DEF Reporting

\* No step of the walk loses a flaw or makes one up.
LEMMA NextReports == FullInv /\ Reporting /\ [Next]_vars => Reporting'
<1> SUFFICES ASSUME FullInv, Reporting, [Next]_vars PROVE Reporting'
  OBVIOUS
<1>1. CASE SerializeModule
  <2>1. UNCHANGED <<module, program, frames, values, result>> /\ Cur' = Cur
        /\ status = "start" /\ status' = "running" /\ message'.functions = message.functions
    BY <1>1 DEF SerializeModule, Cur, FullInv, Encoding, Message
  <2> QED
    BY <2>1 DEF Reporting, ResultsNumbered, Justified, MetaFlaw, ResultFlaw, TabledSound, DefOf,
                FailureReported
<1>2. CASE BeginFunction
  BY <1>2, BeginReports
<1>3. CASE FunctionNameMissing \/ EnterAbsentRegion \/ CustomNameMissing
  <2>1. UNCHANGED <<module, program, frames, values, result, message>> /\ Cur' = Cur
        /\ status = "running" /\ status' \in {"fatal", "undefined"}
    BY <1>3 DEF FunctionNameMissing, EnterAbsentRegion, CustomNameMissing, ctx, Cur,
                BetweenFunctions, InTable, AtOperation, InBlock
  <2> QED
    BY <2>1 DEF Reporting, ResultsNumbered, Justified, MetaFlaw, ResultFlaw, TabledSound, DefOf,
                FailureReported
<1>4. CASE EnterRegion
  BY <1>4, EnterReports
<1>5. CASE LeaveRegion
  BY <1>5, LeaveReports
<1>6. CASE SerializeFlatOp \/ SerializeCustom \/ SerializeCall \/ SerializeScf
  <2>1. Len(frames) > 1 /\ status = "running"
    BY <1>6 DEF SerializeFlatOp, SerializeCustom, SerializeCall, SerializeScf, AtOperation, InBlock
  <2>2. frames # <<>>
    BY <2>1
  <2>3. CASE SerializeFlatOp \/ SerializeScf
    BY <2>1, <2>2, <2>3, OperationReports DEF SerializeFlatOp, SerializeScf
  <2>4. CASE SerializeCustom
    BY <2>1, <2>2, <2>4, OperationReports DEF SerializeCustom
  <2>5. CASE SerializeCall
    BY <2>1, <2>2, <2>5, OperationReports DEF SerializeCall
  <2> QED
    BY <1>6, <2>3, <2>4, <2>5
<1>7. CASE SerializeValue
  BY <1>7, ValueReports
<1>8. CASE FinishModule
  BY <1>8, FinishReports
<1>9. CASE UNCHANGED vars
  BY <1>9 DEF vars, ctx, Cur, Reporting, ResultsNumbered, Justified, MetaFlaw, ResultFlaw,
              TabledSound, DefOf, FailureReported, SomeMetadataFlawed
<1> QED
  BY <1>1, <1>2, <1>3, <1>4, <1>5, <1>6, <1>7, <1>8, <1>9 DEF Next

\* A call of serialize that runs to its end returns failure if, and only if, some metadata of the
\* module is flawed, wherever it is and whatever is written after it.
THEOREM FailuresReported == Spec => []FailureReported
<1>1. Init => FullInv /\ Reporting
  <2>1. Init => Reporting
    BY DEF Init, Reporting, ResultsNumbered, Justified, TabledSound, FailureReported
  <2> QED
    BY <2>1, InitFull
<1>2. (FullInv /\ Reporting) /\ [Next]_vars => (FullInv /\ Reporting)'
  BY NextFull, NextReports
<1>3. FullInv /\ Reporting => FailureReported
  BY DEF Reporting
<1> QED
  BY <1>1, <1>2, <1>3, PTL DEF Spec

----------------------------------------------------------------------------
(* Messages are readable.                                                  *)

\* The first part of MessageReadable, for one function, and the second.
ItemsReadable(f) ==
    LET items == message.functions[f].items
    IN \A i \in DOMAIN items :
          /\ Range(items[i].ins) \subseteq DefinedBy(f, i - 1)
          /\ Range(items[i].outs) \cap DefinedBy(f, i - 1) = {}
          /\ \A j, k \in DOMAIN items[i].outs :
                items[i].outs[j] = items[i].outs[k] => j = k
ValuesComplete(f) ==
    DefinedBy(f, Len(message.functions[f].items)) = 0 .. Len(message.functions[f].values) - 1

\* The items of the current function are those of the program, with the indices its values have
\* now; its values are the only ones with an index, and all that is visible is among them.
Mirrored ==
    program # <<>> =>
        LET items == message.functions[Cur].items
        IN /\ DOMAIN items = DOMAIN program[Cur].items
           /\ \A i \in DOMAIN items :
                 /\ DOMAIN items[i].outs = DOMAIN program[Cur].items[i].res
                 /\ \A k \in DOMAIN items[i].outs :
                       /\ <<Cur, i, k>> \in DOMAIN values
                       /\ items[i].outs[k] = values[<<Cur, i, k>>]
                 /\ Range(items[i].ins) \subseteq DefinedBy(Cur, i - 1)
           /\ \A v \in DOMAIN values : v[1] = Cur
Visible == \A i \in DOMAIN frames : frames[i].scope \subseteq DOMAIN values

Readable ==
    /\ frames = <<>> => program = <<>>
    /\ Mirrored
    /\ Visible
    /\ \A f \in DOMAIN message.functions : f # Cur => ItemsReadable(f) /\ ValuesComplete(f)
    /\ status \in {"success", "failure"} /\ program # <<>> => ValuesComplete(Cur)

\* What is written into the message with an item.
LEMMA MessageAppended ==
  ASSUME program \in Seq(ProgramFunction), program # <<>>, Encoding,
         NEW tag, NEW ins, NEW res, NEW meta, NEW ref, NEW ACTION refId, NEW regions,
         WriteItem(tag, ins, res, meta, ref, refId, regions)
  PROVE  /\ Len(message.functions[Cur].items) \in Nat
         /\ DOMAIN message.functions[Cur].items = 1 .. Len(message.functions[Cur].items)
         /\ DOMAIN message'.functions = DOMAIN message.functions
         /\ \A f \in DOMAIN message.functions :
               f # Cur => message'.functions[f] = message.functions[f]
         /\ \E item :
               /\ message'.functions[Cur].items = Append(message.functions[Cur].items, item)
               /\ DOMAIN item.ins = DOMAIN ins
               /\ \A i \in DOMAIN ins : item.ins[i] = values'[ins[i]]
               /\ DOMAIN item.outs = DOMAIN res
               /\ \A k \in DOMAIN res : item.outs[k] = values'[<<Cur, Here, k>>]
<1> DEFINE old == message.functions
           item == [tag     |-> tag,
                    ins     |-> [i \in DOMAIN ins |-> values'[ins[i]]],
                    outs    |-> [k \in DOMAIN res |-> values'[<<Cur, Here, k>>]],
                    meta    |-> WrittenMeta(meta),
                    ref     |-> refId,
                    regions |-> regions]
           items == old[Cur].items
<1>1. old \in Seq(MessageFunction) /\ Cur \in DOMAIN old /\ old[Cur] \in MessageFunction
  BY DEF Encoding, Message, Cur
<1>2. message' = [message EXCEPT !.functions[Cur].items = Append(@, item)]
  BY DEF WriteItem
<1>3. /\ DOMAIN item.ins = DOMAIN ins
      /\ \A i \in DOMAIN ins : item.ins[i] = values'[ins[i]]
      /\ DOMAIN item.outs = DOMAIN res
      /\ \A k \in DOMAIN res : item.outs[k] = values'[<<Cur, Here, k>>]
  OBVIOUS
<1> HIDE DEF item
<1>4. items \in Seq(MessageItem)
  BY <1>1 DEF MessageFunction
<1>5. message'.functions = [old EXCEPT ![Cur].items = Append(@, item)]
  BY <1>2 DEF Encoding, Message
<1>6. /\ DOMAIN message'.functions = DOMAIN old
      /\ \A f \in DOMAIN old : f # Cur => message'.functions[f] = old[f]
      /\ message'.functions[Cur].items = Append(items, item)
  BY <1>1, <1>5 DEF MessageFunction
<1>7. Len(items) \in Nat /\ DOMAIN items = 1 .. Len(items)
  BY <1>4
<1> QED
  BY <1>3, <1>6, <1>7

\* Lists with the same places have the same length.
LEMMA SameLength == ASSUME NEW a \in Nat, NEW b \in Nat, 1 .. a = 1 .. b PROVE a = b
<1>1. a > b => a \in 1 .. a /\ a \notin 1 .. b
  OBVIOUS
<1>2. b > a => b \in 1 .. b /\ b \notin 1 .. a
  OBVIOUS
<1> QED
  BY <1>1, <1>2

\* Only operands and definitions get an index.
LEMMA ItemNumbersOnly ==
  ASSUME program \in Seq(ProgramFunction), program # <<>>,
         NEW tag, NEW ins \in Seq(Value), NEW res \in Seq(Def), NEW meta, NEW ref,
         NEW ACTION refId, NEW regions,
         WriteItem(tag, ins, res, meta, ref, refId, regions)
  PROVE  DOMAIN values' \subseteq DOMAIN values \cup Range(ins) \cup Range(Outs(res))
<1>1. DOMAIN values' = DOMAIN values \cup Range(ins \o Outs(res))
  BY DEF WriteItem, GetValueIds, Enter
<1>2. ins \in Seq(Value) /\ Outs(res) \in Seq(Value)
  BY OutsAreValues
<1>3. Range(ins \o Outs(res)) \subseteq Range(ins) \cup Range(Outs(res))
  BY <1>2 DEF Range
<1> QED
  BY <1>1, <1>3

\* A function that is not touched stays readable.
LEMMA UntouchedReadable ==
  ASSUME NEW f, message'.functions[f] = message.functions[f]
  PROVE  /\ ItemsReadable(f) => ItemsReadable(f)'
         /\ ValuesComplete(f) => ValuesComplete(f)'
         /\ \A n : DefinedBy(f, n)' = DefinedBy(f, n)
<1>1. \A n : DefinedBy(f, n)' = DefinedBy(f, n)
  BY Zenon DEF DefinedBy
<1>2. ItemsReadable(f) => ItemsReadable(f)'
  <2> SUFFICES ASSUME ItemsReadable(f) PROVE ItemsReadable(f)'
    OBVIOUS
  <2> DEFINE items == message.functions[f].items
  <2>1. items' = items
    OBVIOUS
  <2>2. \A i : DefinedBy(f, i - 1)' = DefinedBy(f, i - 1)
    BY <1>1, Zenon
  <2> QED
    BY <2>1, <2>2 DEF ItemsReadable
<1>3. ValuesComplete(f) => ValuesComplete(f)'
  BY <1>1, Zenon DEF ValuesComplete
<1> QED
  BY <1>1, <1>2, <1>3

\* The items of the current function are readable because indices differ where values do.
LEMMA CurrentReadable ==
  ASSUME FullInv, Mirrored, program # <<>>
  PROVE  ItemsReadable(Cur)
<1> DEFINE items == message.functions[Cur].items
<1>1. /\ \A v, w \in DOMAIN values : values[v] = values[w] => v = w
      /\ \A i \in DOMAIN items : \A k \in DOMAIN items[i].outs :
            /\ <<Cur, i, k>> \in DOMAIN values
            /\ items[i].outs[k] = values[<<Cur, i, k>>]
      /\ \A i \in DOMAIN items : Range(items[i].ins) \subseteq DefinedBy(Cur, i - 1)
  BY DEF FullInv, Inv, Numbered, Dense, Mirrored
<1>2. items \in Seq(MessageItem)
  <2>1. message.functions \in Seq(MessageFunction) /\ Cur \in DOMAIN message.functions
    BY DEF FullInv, Inv, Walk, Encoding, Message, Cur
  <2>2. message.functions[Cur] \in MessageFunction
    BY <2>1
  <2> QED
    BY <2>2 DEF MessageFunction
<1>3. ASSUME NEW i \in DOMAIN items, NEW x \in Range(items[i].outs), x \in DefinedBy(Cur, i - 1)
      PROVE  FALSE
  <2>1. PICK k \in DOMAIN items[i].outs : x = items[i].outs[k]
    BY DEF Range
  <2>2. PICK j \in 1 .. i - 1 : x \in Range(items[j].outs)
    BY <1>3 DEF DefinedBy
  <2>3. PICK l \in DOMAIN items[j].outs : x = items[j].outs[l]
    BY <2>2 DEF Range
  <2>4. i \in Nat /\ j \in DOMAIN items /\ j # i
    BY <1>2
  <2> DEFINE v == <<Cur, i, k>>
             w == <<Cur, j, l>>
  <2>5. v \in DOMAIN values /\ w \in DOMAIN values /\ values[v] = values[w]
    BY <1>1, <2>1, <2>3, <2>4
  <2>6. v = w
    BY <1>1, <2>5, Zenon
  <2> QED
    BY <2>4, <2>6
<1>4. ASSUME NEW i \in DOMAIN items, NEW j \in DOMAIN items[i].outs, NEW k \in DOMAIN items[i].outs,
             items[i].outs[j] = items[i].outs[k]
      PROVE  j = k
  <2> DEFINE v == <<Cur, i, j>>
             w == <<Cur, i, k>>
  <2>1. v \in DOMAIN values /\ w \in DOMAIN values /\ values[v] = values[w]
    BY <1>1, <1>4
  <2>2. v = w
    BY <1>1, <2>1, Zenon
  <2> QED
    BY <2>2
<1> HIDE DEF items
<1>5. \A i \in DOMAIN items : /\ Range(items[i].ins) \subseteq DefinedBy(Cur, i - 1)
                              /\ Range(items[i].outs) \cap DefinedBy(Cur, i - 1) = {}
  BY <1>1, <1>3
<1> QED
  BY <1>4, <1>5 DEF ItemsReadable, items

\* When the value table is full, it has the indices the items define, as the indices are dense.
LEMMA CurrentComplete ==
  ASSUME FullInv, Mirrored, program # <<>>, TableFull
  PROVE  ValuesComplete(Cur)
<1> DEFINE items == message.functions[Cur].items
           c == Cardinality(DOMAIN values)
<1>1. /\ DOMAIN items = DOMAIN program[Cur].items
      /\ \A i \in DOMAIN items :
            /\ DOMAIN items[i].outs = DOMAIN program[Cur].items[i].res
            /\ \A k \in DOMAIN items[i].outs :
                  /\ <<Cur, i, k>> \in DOMAIN values
                  /\ items[i].outs[k] = values[<<Cur, i, k>>]
      /\ \A v \in DOMAIN values : v[1] = Cur
  BY DEF Mirrored
<1>2. /\ \A v \in DOMAIN values : values[v] \in 0 .. c - 1
      /\ \A k \in 0 .. c - 1 : \E v \in DOMAIN values : values[v] = k
  BY DEF FullInv, Inv, Numbered, Dense
<1>3. items \in Seq(MessageItem)
  <2>1. message.functions \in Seq(MessageFunction) /\ Cur \in DOMAIN message.functions
    BY DEF FullInv, Inv, Walk, Encoding, Message, Cur
  <2>2. message.functions[Cur] \in MessageFunction
    BY <2>1
  <2> QED
    BY <2>2 DEF MessageFunction
<1>4. DOMAIN items = 1 .. Len(items)
  BY <1>3
<1>5. ASSUME NEW x \in DefinedBy(Cur, Len(items)) PROVE x \in 0 .. c - 1
  <2>1. PICK j \in 1 .. Len(items) : x \in Range(items[j].outs)
    BY DEF DefinedBy
  <2>2. PICK l \in DOMAIN items[j].outs : x = items[j].outs[l]
    BY <2>1 DEF Range
  <2> QED
    BY <1>1, <1>2, <1>4, <2>2
<1>6. ASSUME NEW x \in 0 .. c - 1 PROVE x \in DefinedBy(Cur, Len(items))
  <2>1. PICK v \in DOMAIN values : values[v] = x
    BY <1>2
  <2>2. Defined(v) /\ v[1] = Cur
    BY <1>1 DEF FullInv, Scoped
  <2>3. v[2] \in DOMAIN items /\ v[3] \in DOMAIN items[v[2]].outs /\ v = <<Cur, v[2], v[3]>>
    BY <1>1, <2>2 DEF Defined, Value
  <2>4. x = items[v[2]].outs[v[3]]
    BY <1>1, <2>1, <2>3
  <2>5. x \in Range(items[v[2]].outs) /\ v[2] \in 1 .. Len(items)
    BY <1>4, <2>3, <2>4 DEF Range
  <2> QED
    BY <2>5 DEF DefinedBy
<1>7. DefinedBy(Cur, Len(items)) = 0 .. c - 1
  BY <1>5, <1>6
<1> QED
  BY <1>7 DEF TableFull, ValuesComplete

\* Writing an item whose operands have an index: they were defined before.
LEMMA ItemReadable ==
  ASSUME FullInv, Readable, program # <<>>, status = "running",
         NEW tag, NEW ins \in Seq(Value), Range(ins) \subseteq DOMAIN values,
         NEW res \in Seq(Def), NEW meta, NEW ref, NEW ACTION refId, NEW regions,
         WriteItem(tag, ins, res, meta, ref, refId, regions)
  PROVE  /\ Mirrored'
         /\ \A f \in DOMAIN message'.functions : f # Cur' => (ItemsReadable(f) /\ ValuesComplete(f))'
<1> DEFINE old == message.functions[Cur].items
           new == message'.functions[Cur].items
           n == Len(old) + 1
<1>1. program \in Seq(ProgramFunction) /\ Numbered /\ Encoding
  BY DEF FullInv, Inv, Walk
<1>0. PICK item :
        /\ new = Append(old, item)
        /\ DOMAIN item.ins = DOMAIN ins
        /\ \A i \in DOMAIN ins : item.ins[i] = values'[ins[i]]
        /\ DOMAIN item.outs = DOMAIN res
        /\ \A k \in DOMAIN res : item.outs[k] = values'[<<Cur, Here, k>>]
  BY <1>1, MessageAppended
<1>2. /\ n \in Nat \ {0} /\ DOMAIN old = 1 .. n - 1
      /\ DOMAIN message'.functions = DOMAIN message.functions
      /\ \A f \in DOMAIN message.functions :
            f # Cur => message'.functions[f] = message.functions[f]
      /\ DOMAIN new = 1 .. n
      /\ \A i \in 1 .. n - 1 : new[i] = old[i]
      /\ DOMAIN new[n].ins = DOMAIN ins
      /\ \A i \in DOMAIN ins : new[n].ins[i] = values'[ins[i]]
      /\ DOMAIN new[n].outs = DOMAIN res
      /\ \A k \in DOMAIN res : new[n].outs[k] = values'[<<Cur, Here, k>>]
  <2>1. /\ Len(old) \in Nat /\ DOMAIN old = 1 .. Len(old)
        /\ DOMAIN message'.functions = DOMAIN message.functions
        /\ \A f \in DOMAIN message.functions :
              f # Cur => message'.functions[f] = message.functions[f]
    BY <1>1, MessageAppended
  <2> HIDE DEF old, new
  <2>2. n \in Nat \ {0} /\ DOMAIN old = 1 .. n - 1
    BY <2>1
  <2>3. DOMAIN new = 1 .. n /\ (\A i \in 1 .. n - 1 : new[i] = old[i]) /\ new[n] = item
    BY <1>0, <2>1, <2>2
  <2> QED
    BY <1>0, <2>1, <2>2, <2>3
<1>3. /\ Cur' = Cur
      /\ DOMAIN program'[Cur].items = DOMAIN program[Cur].items \cup {Here}
      /\ \A i \in DOMAIN program[Cur].items :
            i # Here /\ program'[Cur].items[i] = program[Cur].items[i]
      /\ program'[Cur].items[Here].res = res
      /\ program' # <<>>
  <2>1. DOMAIN program' = DOMAIN program /\ Cur \in DOMAIN program
    BY <1>1, ItemAppended
  <2> QED
    BY <1>1, <2>1, ItemAppended
<1>4. /\ DOMAIN old = DOMAIN program[Cur].items
      /\ \A i \in DOMAIN old :
            /\ DOMAIN old[i].outs = DOMAIN program[Cur].items[i].res
            /\ \A k \in DOMAIN old[i].outs :
                  <<Cur, i, k>> \in DOMAIN values /\ old[i].outs[k] = values[<<Cur, i, k>>]
            /\ Range(old[i].ins) \subseteq DefinedBy(Cur, i - 1)
      /\ \A v \in DOMAIN values : v[1] = Cur
  BY DEF Readable, Mirrored
<1>5. Here = n
  <2>0. Cur \in DOMAIN program /\ program[Cur] \in ProgramFunction
    BY <1>1 DEF Cur
  <2>1. program[Cur].items \in Seq(Item)
    BY <2>0 DEF ProgramFunction
  <2> HIDE DEF n
  <2>2. /\ Len(program[Cur].items) \in Nat /\ n - 1 \in Nat
        /\ 1 .. Len(program[Cur].items) = 1 .. n - 1
    BY <1>2, <1>4, <2>1
  <2>3. Len(program[Cur].items) = n - 1
    BY <2>2, SameLength
  <2> QED
    BY <1>2, <2>2, <2>3 DEF Here
<1>6. /\ \A v \in DOMAIN values : v \in DOMAIN values' /\ values'[v] = values[v]
      /\ \A k \in DOMAIN res : <<Cur, Here, k>> \in DOMAIN values'
  BY <1>1, ItemNumbered
<1> HIDE DEF old, new, n
<1>7. ASSUME NEW m \in 0 .. n - 1 PROVE DefinedBy(Cur, m)' = DefinedBy(Cur, m)
  <2>1. \A j \in 1 .. m : new[j] = old[j]
    BY <1>2, <1>7
  <2>2. DefinedBy(Cur, m) = UNION {Range(old[j].outs) : j \in 1 .. m}
    BY DEF DefinedBy, old
  <2>3. DefinedBy(Cur, m)' = UNION {Range(new[j].outs) : j \in 1 .. m}
    BY <1>3 DEF DefinedBy, new
  <2> QED
    BY <2>1, <2>2, <2>3
<1>8. ASSUME NEW x \in Range(new[n].ins) PROVE x \in DefinedBy(Cur, n - 1)
  <2>1. PICK i \in DOMAIN ins : x = values'[ins[i]]
    BY <1>2 DEF Range
  <2>2. ins[i] \in DOMAIN values
    BY DEF Range
  <2> DEFINE v == ins[i]
  <2>3. v \in DOMAIN values /\ x = values[v] /\ Defined(v) /\ v[1] = Cur
    BY <1>4, <1>6, <2>1, <2>2 DEF FullInv, Scoped
  <2> HIDE DEF v
  <2>4. v[2] \in DOMAIN old /\ v[3] \in DOMAIN old[v[2]].outs /\ v = <<Cur, v[2], v[3]>>
    BY <1>4, <2>3 DEF Defined, Value
  <2>5. x \in Range(old[v[2]].outs) /\ v[2] \in 1 .. n - 1
    BY <1>2, <1>4, <2>3, <2>4 DEF Range
  <2> QED
    BY <2>5 DEF DefinedBy, old
<1>9. ASSUME NEW i \in 1 .. n
      PROVE  /\ DOMAIN new[i].outs = DOMAIN program'[Cur].items[i].res
             /\ \A k \in DOMAIN new[i].outs :
                   <<Cur, i, k>> \in DOMAIN values' /\ new[i].outs[k] = values'[<<Cur, i, k>>]
             /\ Range(new[i].ins) \subseteq DefinedBy(Cur, i - 1)'
  <2>1. CASE i = n
    <3>0. i - 1 \in 0 .. n - 1
      BY <1>2, <2>1
    <3>1. DefinedBy(Cur, i - 1)' = DefinedBy(Cur, i - 1)
      BY <1>7, <3>0
    <3>2. DOMAIN new[i].outs = DOMAIN program'[Cur].items[i].res
      BY <1>2, <1>3, <1>5, <2>1
    <3>3. \A k \in DOMAIN new[i].outs :
             <<Cur, i, k>> \in DOMAIN values' /\ new[i].outs[k] = values'[<<Cur, i, k>>]
      BY <1>2, <1>5, <1>6, <2>1
    <3> QED
      BY <1>8, <2>1, <3>1, <3>2, <3>3
  <2>2. CASE i # n
    <3>1. i \in 1 .. n - 1 /\ i \in DOMAIN old /\ new[i] = old[i] /\ i - 1 \in 0 .. n - 1
      BY <1>2, <2>2
    <3>2. program'[Cur].items[i] = program[Cur].items[i]
      BY <1>3, <1>4, <3>1
    <3>3. DefinedBy(Cur, i - 1)' = DefinedBy(Cur, i - 1)
      BY <1>7, <3>1
    <3> QED
      BY <1>4, <1>6, <3>1, <3>2, <3>3
  <2> QED
    BY <2>1, <2>2
<1>10. ASSUME NEW v \in DOMAIN values' PROVE v[1] = Cur
  <2>1. v \in DOMAIN values \/ v \in Range(Outs(res))
    BY <1>1, ItemNumbersOnly
  <2>2. CASE v \in Range(Outs(res))
    <3>1. PICK k \in DOMAIN res : v = <<Cur, Here, k>>
      BY <2>2 DEF Range, Outs
    <3> QED
      BY <3>1
  <2> QED
    BY <1>4, <2>1, <2>2
<1>11. Mirrored'
  <2>1. DOMAIN new = DOMAIN program'[Cur].items
    BY <1>2, <1>3, <1>4, <1>5
  <2> QED
    BY <1>2, <1>3, <1>9, <1>10, <2>1 DEF Mirrored, new
<1>12. ASSUME NEW f \in DOMAIN message'.functions, f # Cur'
       PROVE  (ItemsReadable(f) /\ ValuesComplete(f))'
  <2>1. ItemsReadable(f) /\ ValuesComplete(f)
    BY <1>2, <1>3, <1>12 DEF Readable
  <2>2. message'.functions[f] = message.functions[f]
    BY <1>2, <1>3, <1>12
  <2> QED
    BY <2>1, <2>2, UntouchedReadable
<1> QED
  BY <1>11, <1>12

\* Operands are visible, so they have an index.
LEMMA OperandsNumbered ==
  ASSUME Visible, frames \in Seq(Frame), frames # <<>>, NEW ts, NEW ins \in Operands(ts)
  PROVE  Range(ins) \subseteq DOMAIN values
<1>1. Len(frames) \in DOMAIN frames
  OBVIOUS
<1>2. ins \in [DOMAIN ts -> Top.scope]
  BY DEF Operands
<1> QED
  BY <1>1, <1>2 DEF Visible, Top, Range

\* The results of an item have an index once it is written.
LEMMA OutsNumbered ==
  ASSUME program \in Seq(ProgramFunction), program # <<>>, Numbered,
         NEW tag, NEW ins \in Seq(Value), NEW res \in Seq(Def), NEW meta, NEW ref,
         NEW ACTION refId, NEW regions,
         WriteItem(tag, ins, res, meta, ref, refId, regions)
  PROVE  DOMAIN values \subseteq DOMAIN values' /\ Range(Outs(res)) \subseteq DOMAIN values'
<1>1. ASSUME NEW v \in Range(Outs(res)) PROVE v \in DOMAIN values'
  <2>1. PICK k \in DOMAIN res : v = <<Cur, Here, k>>
    BY DEF Range, Outs
  <2> QED
    BY <2>1, ItemNumbered
<1> QED
  BY <1>1, ItemNumbered

\* An operation, whatever its shape and operands.
LEMMA OperationReadable ==
  ASSUME FullInv, Readable, frames # <<>>, status = "running",
         NEW s \in OpShapes, NEW ins \in Operands(s.ins), NEW ACTION refId,
         SerializeOp(s, ins, refId)
  PROVE  Readable'
<1>1. s.ins \in Seq(Types) /\ s.res \in Seq(Def)
  BY ConstantsAssumption DEF OpShape
<1>2. /\ frames \in Seq(Frame) /\ program \in Seq(ProgramFunction) /\ program # <<>> /\ Numbered
      /\ Visible
  BY DEF FullInv, Inv, Walk, Readable
<1>3. ins \in Seq(Value) /\ Range(ins) \subseteq DOMAIN values
  BY <1>1, <1>2, OperandsAreValues, OperandsNumbered
<1> DEFINE present == [r \in DOMAIN s.regions |-> s.regions[r].block]
<1>4. WriteItem(s.tag, ins, s.res, s.meta, s.ref, refId, present) /\ UNCHANGED <<module, status>>
  BY DEF SerializeOp
<1> HIDE DEF present
<1>5. /\ Mirrored'
      /\ \A f \in DOMAIN message'.functions : f # Cur' => (ItemsReadable(f) /\ ValuesComplete(f))'
  BY <1>1, <1>2, <1>3, <1>4, ItemReadable
<1>6. DOMAIN values \subseteq DOMAIN values' /\ Range(Outs(s.res)) \subseteq DOMAIN values'
  BY <1>1, <1>2, <1>3, <1>4, OutsNumbered
<1>7. /\ DOMAIN frames' = DOMAIN frames /\ Len(frames) \in DOMAIN frames /\ frames' # <<>>
      /\ frames'[Len(frames)].scope = frames[Len(frames)].scope \cup Range(Outs(s.res))
      /\ \A i \in DOMAIN frames : i # Len(frames) => frames'[i] = frames[i]
  BY <1>2 DEF SerializeOp
<1>8. Visible'
  <2> SUFFICES ASSUME NEW i \in DOMAIN frames PROVE frames'[i].scope \subseteq DOMAIN values'
    BY <1>7 DEF Visible
  <2>1. frames[i].scope \subseteq DOMAIN values
    BY <1>2 DEF Visible
  <2> QED
    BY <1>6, <1>7, <2>1
<1> QED
  BY <1>4, <1>5, <1>7, <1>8 DEF Readable

\* Block arguments.
LEMMA EnterReadable == FullInv /\ Readable /\ EnterRegion => Readable'
<1> SUFFICES ASSUME FullInv, Readable, EnterRegion PROVE Readable'
  OBVIOUS
<1> DEFINE region == Head(Top.todo)
           below == [frames EXCEPT ![Len(frames)].todo = Tail(@)]
           top == [scope |-> Range(Outs(region.args)), todo |-> <<>>, yields |-> region.yields]
<1>1. /\ frames \in Seq(Frame) /\ frames # <<>> /\ Top \in Frame /\ Top.todo # <<>>
      /\ program \in Seq(ProgramFunction) /\ program # <<>> /\ Numbered /\ Visible
      /\ Len(frames) \in DOMAIN frames
  BY DEF FullInv, Inv, Walk, EnterRegion, Readable, Top
<1>2. region \in RegionShape
  BY <1>1 DEF Frame
<1>3. region.args \in Seq(Def) /\ <<>> \in Seq(Value) /\ Range(<<>>) \subseteq DOMAIN values
  BY <1>2 DEF RegionShape, Range
<1>4. /\ WriteItem("enter", <<>>, region.args, region.meta, NoName, 0, <<>>)
      /\ status = "running" /\ UNCHANGED status
  BY DEF EnterRegion
<1>5. frames' = Append(below, top)
  BY DEF EnterRegion
<1>6. top.scope = Range(Outs(region.args))
  OBVIOUS
<1>7. /\ Len(below) = Len(frames) /\ DOMAIN below = DOMAIN frames
      /\ \A i \in DOMAIN frames : below[i].scope = frames[i].scope
  BY <1>1 DEF Top, Frame
<1>8. below \in Seq(Frame)
  <2>1. Tail(Top.todo) \in Seq(RegionShape)
    BY <1>1 DEF Frame
  <2>2. [Top EXCEPT !.todo = Tail(Top.todo)] \in Frame
    BY <1>1, <2>1 DEF Frame
  <2> QED
    BY <1>1, <2>2 DEF Top
<1> HIDE DEF region, below, top
<1>9. /\ DOMAIN frames' = DOMAIN below \cup {Len(below) + 1} /\ frames' # <<>>
      /\ \A i \in DOMAIN below : frames'[i] = below[i]
      /\ frames'[Len(below) + 1] = top
  BY <1>5, <1>8
<1>10. /\ Mirrored'
       /\ \A f \in DOMAIN message'.functions : f # Cur' => (ItemsReadable(f) /\ ValuesComplete(f))'
  BY <1>1, <1>3, <1>4, ItemReadable
<1>11. DOMAIN values \subseteq DOMAIN values' /\ Range(Outs(region.args)) \subseteq DOMAIN values'
  BY <1>1, <1>3, <1>4, OutsNumbered
<1>12. Visible'
  <2> SUFFICES ASSUME NEW i \in DOMAIN frames' PROVE frames'[i].scope \subseteq DOMAIN values'
    BY DEF Visible
  <2>1. CASE i \in DOMAIN frames
    <3>1. frames[i].scope \subseteq DOMAIN values
      BY <1>1, <2>1 DEF Visible
    <3> QED
      BY <1>7, <1>9, <1>11, <2>1, <3>1
  <2>2. CASE i = Len(below) + 1
    BY <1>6, <1>9, <1>11, <2>2
  <2> QED
    BY <1>7, <1>9, <2>1, <2>2
<1> QED
  BY <1>4, <1>9, <1>10, <1>12 DEF Readable

\* A terminator.
LEMMA LeaveReadable == FullInv /\ Readable /\ LeaveRegion => Readable'
<1> SUFFICES ASSUME FullInv, Readable, LeaveRegion PROVE Readable'
  OBVIOUS
<1>1. /\ frames \in Seq(Frame) /\ frames # <<>> /\ Top \in Frame /\ Len(frames) > 1
      /\ program \in Seq(ProgramFunction) /\ program # <<>> /\ Numbered /\ Visible
      /\ status = "running"
  BY DEF FullInv, Inv, Walk, LeaveRegion, InBlock, Top, Readable
<1>2. PICK ins \in Operands(Top.yields) :
        WriteItem("leave", ins, <<>>, <<>>, NoName, 0, <<>>)
  BY DEF LeaveRegion
<1>3. Top.yields \in Seq(Types)
  BY <1>1 DEF Frame
<1>4. ins \in Seq(Value) /\ <<>> \in Seq(Def) /\ Range(ins) \subseteq DOMAIN values
  BY <1>1, <1>3, OperandsAreValues, OperandsNumbered
<1>5. frames' = SubSeq(frames, 1, Len(frames) - 1) /\ UNCHANGED status
  BY DEF LeaveRegion
<1>6. /\ Len(frames') = Len(frames) - 1 /\ Len(frames) \in Nat
      /\ \A i \in DOMAIN frames' : i \in DOMAIN frames /\ frames'[i] = frames[i]
  BY <1>1, <1>5
<1>7. frames' # <<>>
  BY <1>1, <1>6
<1>8. /\ Mirrored'
      /\ \A f \in DOMAIN message'.functions : f # Cur' => (ItemsReadable(f) /\ ValuesComplete(f))'
  BY <1>1, <1>2, <1>4, ItemReadable
<1>9. DOMAIN values \subseteq DOMAIN values'
  BY <1>1, <1>2, <1>4, OutsNumbered
<1>10. Visible'
  BY <1>1, <1>6, <1>9 DEF Visible
<1> QED
  BY <1>1, <1>5, <1>7, <1>8, <1>10 DEF Readable

\* The next function: the last one is complete, and stays as it is.
LEMMA BeginReadable == FullInv /\ Readable /\ BeginFunction => Readable'
<1> SUFFICES ASSUME FullInv, Readable, BeginFunction PROVE Readable'
  OBVIOUS
<1> DEFINE new == [name   |-> stringIds[module.funcs[Cur + 1].name],
                   meta   |-> WrittenMeta(module.funcs[Cur + 1].meta),
                   hasBody |-> TRUE, hasOperations |-> TRUE,
                   items  |-> <<>>, values |-> <<>>]
<1>1. message' = [message EXCEPT !.functions = Append(@, new)] /\ new.items = <<>>
  BY DEF BeginFunction
<1> HIDE DEF new
<1>2. PICK func : program' = Append(program, func) /\ func.items = <<>>
  BY DEF BeginFunction
<1>3. /\ program \in Seq(ProgramFunction) /\ message.functions \in Seq(MessageFunction)
      /\ Len(message.functions) = Len(program) /\ Encoding
  BY DEF FullInv, Inv, Walk, Encoding, Message
<1>4. message'.functions = Append(message.functions, new)
  BY <1>1, <1>3 DEF Encoding, Message
<1>5. /\ DOMAIN message'.functions = DOMAIN message.functions \cup {Len(message.functions) + 1}
      /\ \A f \in DOMAIN message.functions : message'.functions[f] = message.functions[f]
      /\ message'.functions[Len(message.functions) + 1] = new
  BY <1>3, <1>4
<1>6. /\ Cur' = Len(message.functions) + 1 /\ program' # <<>>
      /\ program'[Cur'] = func /\ message'.functions[Cur'] = new
      /\ DOMAIN program = DOMAIN message.functions
  BY <1>2, <1>3, <1>5 DEF Cur
<1>7. DOMAIN values' = {} /\ frames' # <<>> /\ Len(frames') = 1 /\ frames'[1].scope = {}
  BY DEF BeginFunction, ClearValues
<1>8. status' = "running"
  BY DEF BeginFunction, BetweenFunctions, InTable
<1>9. Mirrored'
  <2>1. message'.functions[Cur'].items = <<>> /\ program'[Cur'].items = <<>>
    BY <1>1, <1>2, <1>6
  <2>2. DOMAIN <<>> = {}
    OBVIOUS
  <2> QED
    BY <1>7, <2>1, <2>2 DEF Mirrored
<1>10. Visible'
  <2>1. DOMAIN frames' = {1}
    BY DEF BeginFunction
  <2> QED
    BY <1>7, <2>1 DEF Visible
<1>11. ASSUME NEW f \in DOMAIN message'.functions, f # Cur'
       PROVE  (ItemsReadable(f) /\ ValuesComplete(f))'
  <2>1. f \in DOMAIN message.functions /\ message'.functions[f] = message.functions[f]
    BY <1>5, <1>6, <1>11
  <2>2. ItemsReadable(f) /\ ValuesComplete(f)
    <3>1. CASE f # Cur
      BY <2>1, <3>1 DEF Readable
    <3>2. CASE f = Cur
      <4>1. program # <<>>
        BY <1>3, <1>6, <2>1
      <4>2. frames # <<>> /\ TableFull
        BY <4>1 DEF Readable, BeginFunction, BetweenFunctions
      <4>3. Mirrored
        BY DEF Readable
      <4> QED
        BY <3>2, <4>1, <4>2, <4>3, CurrentReadable, CurrentComplete
    <3> QED
      BY <3>1, <3>2
  <2> QED
    BY <2>1, <2>2, UntouchedReadable
<1> QED
  BY <1>7, <1>8, <1>9, <1>10, <1>11 DEF Readable

\* The items of the message stay, whatever else is written.
LEMMA ItemsStay ==
  ASSUME Readable, UNCHANGED <<program, values>>,
         program # <<>> => message'.functions[Cur].items = message.functions[Cur].items
  PROVE  Mirrored'
<1>1. Cur' = Cur /\ Mirrored
  BY DEF Cur, Readable
<1>2. ASSUME program # <<>>, NEW n PROVE DefinedBy(Cur, n)' = DefinedBy(Cur, n)
  <2>1. message'.functions[Cur].items = message.functions[Cur].items
    BY <1>2
  <2> QED
    BY <1>1, <2>1, Zenon DEF DefinedBy
<1> QED
  BY <1>1, <1>2 DEF Mirrored

\* One more value of the table, of the current function only.
LEMMA ValueReadable == FullInv /\ Readable /\ SerializeValue => Readable'
<1> SUFFICES ASSUME FullInv, Readable, SerializeValue PROVE Readable'
  OBVIOUS
<1>1. PICK entry : message' = [message EXCEPT !.functions[Cur].values = Append(@, entry)]
  BY DEF SerializeValue
<1>2. /\ UNCHANGED <<program, frames, values, status>> /\ status = "running" /\ Cur' = Cur
      /\ Len(frames) = 1
  BY DEF SerializeValue, InTable, Cur
<1>3. frames # <<>> /\ program # <<>> /\ program \in Seq(ProgramFunction)
  <2>1. frames # <<>>
    BY <1>2
  <2> QED
    BY <2>1 DEF FullInv, Inv, Walk
<1>4. /\ message.functions \in Seq(MessageFunction) /\ Cur \in DOMAIN message.functions
      /\ message.functions[Cur] \in MessageFunction
  BY <1>3 DEF FullInv, Encoding, Message, Cur
<1>5. /\ message'.functions[Cur].items = message.functions[Cur].items
      /\ DOMAIN message'.functions = DOMAIN message.functions
      /\ \A f \in DOMAIN message.functions :
            f # Cur => message'.functions[f] = message.functions[f]
  BY <1>1, <1>4 DEF FullInv, Encoding, Message, MessageFunction
<1>6. Mirrored'
  BY <1>2, <1>5, ItemsStay
<1>7. Visible'
  BY <1>2 DEF Readable, Visible
<1>8. ASSUME NEW f \in DOMAIN message'.functions, f # Cur'
      PROVE  (ItemsReadable(f) /\ ValuesComplete(f))'
  <2>1. ItemsReadable(f) /\ ValuesComplete(f) /\ message'.functions[f] = message.functions[f]
    BY <1>2, <1>5, <1>8 DEF Readable
  <2> QED
    BY <2>1, UntouchedReadable
<1> QED
  BY <1>2, <1>3, <1>6, <1>7, <1>8 DEF Readable

\* A step that leaves program, values, blocks and the functions of the message as they are.
LEMMA OtherReadable ==
  ASSUME Readable, UNCHANGED <<program, frames, values>>, message'.functions = message.functions,
         status' \in {"success", "failure"} /\ program # <<>> => ValuesComplete(Cur)
  PROVE  Readable'
<1>1. Cur' = Cur
  BY DEF Cur
<1>2. Mirrored' /\ Visible'
  BY ItemsStay DEF Readable, Visible
<1>3. ASSUME NEW f PROVE /\ ItemsReadable(f) => ItemsReadable(f)'
                         /\ ValuesComplete(f) => ValuesComplete(f)'
  BY UntouchedReadable
<1>4. ASSUME NEW f \in DOMAIN message'.functions, f # Cur'
      PROVE  (ItemsReadable(f) /\ ValuesComplete(f))'
  BY <1>1, <1>3, <1>4 DEF Readable
<1>5. status' \in {"success", "failure"} /\ program' # <<>> => ValuesComplete(Cur)'
  BY <1>1, UntouchedReadable DEF ValuesComplete, DefinedBy
<1> QED
  BY <1>1, <1>2, <1>4, <1>5 DEF Readable

\* No step of the walk makes the message unreadable.
LEMMA NextReadable == FullInv /\ Readable /\ [Next]_vars => Readable'
<1> SUFFICES ASSUME FullInv, Readable, [Next]_vars PROVE Readable'
  OBVIOUS
<1>1. CASE SerializeModule
  <2>1. UNCHANGED <<program, frames, values>> /\ status' = "running"
        /\ message'.functions = message.functions
    BY <1>1 DEF SerializeModule, FullInv, Encoding, Message
  <2> QED
    BY <2>1, OtherReadable
<1>2. CASE BeginFunction
  BY <1>2, BeginReadable
<1>3. CASE FunctionNameMissing \/ EnterAbsentRegion \/ CustomNameMissing
  <2>1. UNCHANGED <<program, frames, values, message>> /\ status' \in {"fatal", "undefined"}
    BY <1>3 DEF FunctionNameMissing, EnterAbsentRegion, CustomNameMissing, ctx
  <2> QED
    BY <2>1, OtherReadable
<1>4. CASE EnterRegion
  BY <1>4, EnterReadable
<1>5. CASE LeaveRegion
  BY <1>5, LeaveReadable
<1>6. CASE SerializeFlatOp \/ SerializeCustom \/ SerializeCall \/ SerializeScf
  <2>1. Len(frames) > 1 /\ status = "running"
    BY <1>6 DEF SerializeFlatOp, SerializeCustom, SerializeCall, SerializeScf, AtOperation, InBlock
  <2>2. frames # <<>>
    BY <2>1
  <2>3. CASE SerializeFlatOp \/ SerializeScf
    BY <2>1, <2>2, <2>3, OperationReadable DEF SerializeFlatOp, SerializeScf
  <2>4. CASE SerializeCustom
    BY <2>1, <2>2, <2>4, OperationReadable DEF SerializeCustom
  <2>5. CASE SerializeCall
    BY <2>1, <2>2, <2>5, OperationReadable DEF SerializeCall
  <2> QED
    BY <1>6, <2>3, <2>4, <2>5
<1>7. CASE SerializeValue
  BY <1>7, ValueReadable
<1>8. CASE FinishModule
  <2>1. UNCHANGED <<program, frames, values>> /\ message'.functions = message.functions
    BY <1>8 DEF FinishModule, FullInv, Encoding, Message
  <2>2. ASSUME program # <<>> PROVE ValuesComplete(Cur)
    <3>1. frames # <<>> /\ TableFull /\ Mirrored
      BY <1>8, <2>2 DEF Readable, FinishModule, BetweenFunctions
    <3> QED
      BY <2>2, <3>1, CurrentComplete
  <2> QED
    BY <2>1, <2>2, OtherReadable
<1>9. CASE UNCHANGED vars
  <2>1. UNCHANGED <<program, frames, values, message, status>>
    BY <1>9 DEF vars, ctx
  <2> QED
    BY <2>1, OtherReadable DEF Readable
<1> QED
  BY <1>1, <1>2, <1>3, <1>4, <1>5, <1>6, <1>7, <1>8, <1>9 DEF Next

\* Whatever module is written, every function of the message can be read from its start on: an
\* index is defined once and before it is used, and the value table of a complete function has one
\* entry for each index.
THEOREM MessagesReadable == Spec => []MessageReadable
<1>1. Init => FullInv /\ Readable
  <2>1. Init => Readable
    BY DEF Init, Readable, Mirrored, Visible
  <2> QED
    BY <2>1, InitFull
<1>2. (FullInv /\ Readable) /\ [Next]_vars => (FullInv /\ Readable)'
  BY NextFull, NextReadable
<1>3. FullInv /\ Readable => MessageReadable
  <2> SUFFICES ASSUME FullInv, Readable, NEW f \in DOMAIN message.functions
               PROVE  /\ ItemsReadable(f)
                      /\ f < Cur \/ status \in {"success", "failure"} => ValuesComplete(f)
    BY DEF MessageReadable, ItemsReadable, ValuesComplete
  <2>1. program \in Seq(ProgramFunction) /\ f \in DOMAIN program /\ f \in Nat /\ Cur \in Nat
    BY DEF FullInv, Inv, Walk, Encoding, Message, Cur
  <2>2. CASE f # Cur
    BY <2>2 DEF Readable
  <2>3. CASE f = Cur
    <3>1. program # <<>> /\ Mirrored
      BY <2>1 DEF Readable
    <3> QED
      BY <2>1, <2>3, <3>1, CurrentReadable DEF Readable
  <2> QED
    BY <2>2, <2>3
<1> QED
  BY <1>1, <1>2, <1>3, PTL DEF Spec

(***************************************************************************)
(* In a message that was reported complete every string index leads to the *)
(* string meant, and every call index to the function called: names get    *)
(* their places while the string table grows, before and after they are    *)
(* used, and functions get theirs before any body is written.              *)
(***************************************************************************)

\* An index leads to a name in a table of strings, a list of indices to the
\* names of a list of entries.
Leads(table, i, n) == i < Len(table) /\ table[i + 1] = n
Spells(table, ids, meta) ==
    /\ DOMAIN ids = DOMAIN meta
    /\ \A i \in DOMAIN meta : Leads(table, ids[i], meta[i].name)

\* What is known leads to its string.
KnownStrings == \A n \in DOMAIN stringIds : Leads(strings, stringIds[n], n)

\* The indices written for a function and for its items.  The metadata of a
\* result is written with the value table.
ItemSpelled(f, i) ==
    LET old == program[f].items[i]
        new == message.functions[f].items[i]
        table == message.functions[f].values
    IN /\ Spells(strings, new.meta, old.meta)
       /\ old.tag = "custom" => Leads(strings, new.ref, old.ref)
       /\ old.tag = "call" => old.ref \in DOMAIN funcs /\ new.ref = funcs[old.ref]
       /\ DOMAIN new.outs = DOMAIN old.res
       /\ \A k \in DOMAIN old.res :
             new.outs[k] < Len(table) => Spells(strings, table[new.outs[k] + 1].meta, old.res[k].meta)
Spelled(f) ==
    /\ Leads(strings, message.functions[f].name, program[f].name)
    /\ Spells(strings, message.functions[f].meta, program[f].meta)
    /\ DOMAIN message.functions[f].items = DOMAIN program[f].items
    /\ \A i \in DOMAIN program[f].items : ItemSpelled(f, i)

FunctionIndex(n) == (CHOOSE f \in DOMAIN module.funcs : module.funcs[f].name = n) - 1

\* As long as the indices of 16 bits suffice and nothing has failed, all that
\* is written is spelled; functions are written in order; a message that is
\* complete has the strings, and all functions.
Spelling ==
    /\ module \in Modules
    /\ status = "start" => program = <<>>
    /\ Len(strings) <= U16 =>
          /\ status # "start" => KnownStrings
          /\ result = "success" => \A f \in DOMAIN program : Spelled(f)
    /\ Len(program) <= Len(module.funcs)
    /\ \A f \in DOMAIN program : program[f].name = module.funcs[f].name
    /\ \A n \in DOMAIN funcs :
          /\ \E f \in DOMAIN module.funcs : module.funcs[f].name = n
          /\ funcs[n] = FunctionIndex(n) % U16
    /\ status = "success" =>
          /\ result = "success" /\ message.strings = strings
          /\ Len(program) = Len(module.funcs)
          /\ Len(strings) <= U16 => Spells(strings, message.meta, module.meta)

----------------------------------------------------------------------------
(* The string table.                                                       *)

\* A table that only gets longer: what led to a string still does.
Extends(new, old) ==
    /\ Len(old) \in Nat /\ Len(new) \in Nat /\ Len(old) <= Len(new)
    /\ \A i \in 1 .. Len(old) : new[i] = old[i]

\* Indices lead to the same strings in a longer table.
LEMMA LeadsKept ==
  ASSUME NEW new, NEW old, Extends(new, old), NEW i \in Nat, NEW n, Leads(old, i, n)
  PROVE  Leads(new, i, n)
<1>1. i + 1 \in 1 .. Len(old)
  BY DEF Extends, Leads
<1> QED
  BY <1>1 DEF Extends, Leads

\* Lists of indices do.
LEMMA SpellsKept ==
  ASSUME NEW new, NEW old, Extends(new, old), NEW ids \in Seq(Nat), NEW meta,
         Spells(old, ids, meta)
  PROVE  Spells(new, ids, meta)
<1>1. ASSUME NEW i \in DOMAIN meta PROVE Leads(new, ids[i], meta[i].name)
  <2>1. ids[i] \in Nat
    BY <1>1 DEF Spells
  <2>2. Leads(old, ids[i], meta[i].name)
    BY <1>1 DEF Spells
  <2> QED
    BY <2>1, <2>2, LeadsKept
<1> QED
  BY <1>1 DEF Spells

\* serializeMetadata only adds strings, one for each new name, and the index of the name
\* leads to it while the indices of 16 bits suffice.
LEMMA TableGrows ==
  ASSUME StringTable, NEW meta \in Metadata, SerializeMetadata(meta)
  PROVE  /\ Extends(strings', strings)
         /\ KnownStrings /\ Len(strings') <= U16 => KnownStrings'
<1> DEFINE known == DOMAIN stringIds
           s == Registered(meta)
           first == FirstUses(known, s)
           c == Cardinality(Fresh(known, s))
<1>1. s \in Seq(Names)
  BY RegisteredNames
<1>2. Len(s) \in Nat /\ DOMAIN s = 1 .. Len(s)
  BY <1>1
<1>3. /\ stringIds' = [n \in known \cup Range(s) |->
                         IF n \in known THEN stringIds[n]
                                        ELSE StringId(Len(strings) + Rank(known, s, n))]
      /\ strings' = strings \o first
  BY Zenon DEF SerializeMetadata
<1> HIDE DEF s
<1>4. first \in Seq(Fresh(known, s)) /\ c \in Nat
  BY <1>2, FirstUsesList, FreshFinite, FS_CardinalityType
<1>5. Fresh(known, s) \subseteq Names
  BY <1>1 DEF Fresh, Range
<1>6. DOMAIN first = 1 .. c
  BY DEF FirstUses
<1> HIDE DEF known
<1>7. first \in Seq(Names) /\ strings \in Seq(Names) /\ Len(first) = c
  <2>1. first \in Seq(Names) /\ strings \in Seq(Names)
    BY <1>4, <1>5 DEF StringTable
  <2> QED
    BY <1>4, <1>6, <2>1
<1>8. ASSUME NEW n \in Fresh(known, s)
      PROVE  /\ Rank(known, s, n) \in 0 .. c - 1
             /\ first[Rank(known, s, n) + 1] = n
  <2>1. Rank(known, s, n) \in 0 .. c - 1
    BY <1>2, RankBelow
  <2>2. Rank(known, s, n) + 1 \in 1 .. c /\ (Rank(known, s, n) + 1) - 1 = Rank(known, s, n)
    BY <1>4, <2>1
  <2>3. first[Rank(known, s, n) + 1]
          = CHOOSE x \in Fresh(known, s) : Rank(known, s, x) = Rank(known, s, n)
    BY <2>2 DEF FirstUses
  <2>4. \A x, y \in Fresh(known, s) : Rank(known, s, x) = Rank(known, s, y) => x = y
    BY <1>2, RankBijective
  <2> QED
    BY <2>1, <2>3, <2>4
<1> HIDE DEF first, c
<1>9. /\ Len(strings') = Len(strings) + c /\ Len(strings) \in Nat
      /\ \A i \in 1 .. Len(strings) : strings'[i] = strings[i]
      /\ \A i \in 1 .. c : strings'[Len(strings) + i] = first[i]
  BY <1>3, <1>7
<1>10. Extends(strings', strings)
  BY <1>4, <1>9 DEF Extends
<1>11. ASSUME KnownStrings, Len(strings') <= U16 PROVE KnownStrings'
  <2> SUFFICES ASSUME NEW n \in known \cup Range(s)
               PROVE  Leads(strings', stringIds'[n], n)
    BY <1>3 DEF KnownStrings
  <2>1. CASE n \in known
    <3>1. stringIds'[n] = stringIds[n]
      BY <1>3, <2>1
    <3>2. stringIds[n] \in Nat /\ Leads(strings, stringIds[n], n)
      BY <1>11, <2>1, ConstantsAssumption DEF StringTable, KnownStrings, Range, known
    <3> QED
      BY <1>10, <3>1, <3>2, LeadsKept
  <2>2. CASE n \notin known
    <3> DEFINE r == Rank(known, s, n)
    <3>1. n \in Fresh(known, s)
      BY <2>2 DEF Fresh
    <3>2. r \in 0 .. c - 1 /\ first[r + 1] = n
      BY <1>8, <3>1
    <3>3. stringIds'[n] = (Len(strings) + r) % U16
      BY <1>3, <2>2 DEF StringId
    <3> HIDE DEF r
    <3>4. Len(strings) + r \in 0 .. U16 - 1
      BY <1>4, <1>9, <1>11, <3>2, ConstantsAssumption
    <3>5. stringIds'[n] = Len(strings) + r
      BY <3>3, <3>4, ConstantsAssumption
    <3>6. r + 1 \in 1 .. c /\ Len(strings) + (r + 1) = stringIds'[n] + 1
      BY <1>4, <1>9, <3>2, <3>5
    <3>7. stringIds'[n] < Len(strings') /\ strings'[stringIds'[n] + 1] = n
      BY <1>4, <1>9, <3>2, <3>5, <3>6
    <3> QED
      BY <3>7 DEF Leads
  <2> QED
    BY <2>1, <2>2
<1> QED
  BY <1>10, <1>11

\* Once it is known that nothing failed, all names of a list were registered and have their
\* index.
LEMMA MetaSpelled ==
  ASSUME StringTable, NEW meta \in Metadata, SerializeMetadata(meta),
         result' = "success", KnownStrings'
  PROVE  result = "success" /\ Spells(strings', WrittenMeta(meta), meta)
<1>1. result = "success" /\ meta # Malformed
  BY DEF StringTable, SerializeMetadata, ResultAfter
<1>2. Registered(meta) = EntryNames(meta)
  BY <1>1 DEF Registered
<1>3. meta \in Seq(Entry)
  BY <1>1 DEF Metadata
<1>4. DOMAIN EntryNames(meta) = DOMAIN meta
      /\ \A i \in DOMAIN meta : EntryNames(meta)[i] = meta[i].name
  BY DEF EntryNames
<1>5. DOMAIN stringIds' = DOMAIN stringIds \cup Range(Registered(meta))
  BY DEF SerializeMetadata
<1>6. ASSUME NEW i \in DOMAIN meta
      PROVE  WrittenMeta(meta)[i] = stringIds'[meta[i].name] /\ meta[i].name \in DOMAIN stringIds'
  BY <1>2, <1>4, <1>5, <1>6 DEF WrittenMeta, Range
<1>7. DOMAIN WrittenMeta(meta) = DOMAIN meta
  BY <1>2, <1>4 DEF WrittenMeta
<1> QED
  BY <1>1, <1>6, <1>7 DEF Spells, KnownStrings

----------------------------------------------------------------------------
(* Items.                                                                  *)

\* What stays of a function while an item is written, and what is added.
LEMMA ItemRecorded ==
  ASSUME program \in Seq(ProgramFunction), program # <<>>, Encoding,
         NEW tag, NEW ins, NEW res, NEW meta, NEW ref, NEW ACTION refId, NEW regions,
         WriteItem(tag, ins, res, meta, ref, refId, regions)
  PROVE  /\ program'[Cur].name = program[Cur].name
         /\ program'[Cur].items[Here].tag = tag
         /\ program'[Cur].items[Here].ref = ref
         /\ Cur \in DOMAIN message.functions
         /\ DOMAIN message'.functions = DOMAIN message.functions
         /\ message'.functions[Cur].name = message.functions[Cur].name
         /\ message'.functions[Cur].meta = message.functions[Cur].meta
         /\ message'.functions[Cur].values = message.functions[Cur].values
         /\ \E item :
               /\ message'.functions[Cur].items = Append(message.functions[Cur].items, item)
               /\ item.meta = WrittenMeta(meta)
               /\ item.ref = refId
               /\ DOMAIN item.outs = DOMAIN res
               /\ \A k \in DOMAIN res : item.outs[k] = values'[<<Cur, Here, k>>]
<1> DEFINE old == [tag |-> tag, ins |-> ins, res |-> res, meta |-> meta,
                   ref |-> ref, regions |-> regions]
           new == [tag     |-> tag,
                   ins     |-> [i \in DOMAIN ins |-> values'[ins[i]]],
                   outs    |-> [k \in DOMAIN res |-> values'[<<Cur, Here, k>>]],
                   meta    |-> WrittenMeta(meta),
                   ref     |-> refId,
                   regions |-> regions]
<1>1. program' = [program EXCEPT ![Cur].items = Append(@, old)]
  BY Zenon DEF WriteItem
<1>2. message' = [message EXCEPT !.functions[Cur].items = Append(@, new)]
  BY Zenon DEF WriteItem
<1>3. old.tag = tag /\ old.ref = ref
  OBVIOUS
<1>4. /\ new.meta = WrittenMeta(meta) /\ new.ref = refId
      /\ DOMAIN new.outs = DOMAIN res
      /\ \A k \in DOMAIN res : new.outs[k] = values'[<<Cur, Here, k>>]
  OBVIOUS
<1> HIDE DEF old, new
<1>5. Cur \in DOMAIN program /\ program[Cur] \in ProgramFunction
  BY DEF Cur
<1>6. program[Cur].items \in Seq(Item)
  BY <1>5 DEF ProgramFunction
<1>7. /\ program'[Cur].items = Append(program[Cur].items, old)
      /\ program'[Cur].name = program[Cur].name
  BY <1>1, <1>5 DEF ProgramFunction
<1>8. program'[Cur].items[Here] = old
  <2> DEFINE items == program[Cur].items
  <2>1. Append(items, old)[Here] = old
    BY <1>6 DEF Here
  <2> QED
    BY <1>7, <2>1
<1>9. /\ message.functions \in Seq(MessageFunction) /\ Cur \in DOMAIN message.functions
      /\ message.functions[Cur] \in MessageFunction
  BY DEF Encoding, Message, Cur
<1>10. /\ DOMAIN message'.functions = DOMAIN message.functions
       /\ message'.functions[Cur].name = message.functions[Cur].name
       /\ message'.functions[Cur].meta = message.functions[Cur].meta
       /\ message'.functions[Cur].values = message.functions[Cur].values
       /\ message'.functions[Cur].items = Append(message.functions[Cur].items, new)
  BY <1>2, <1>9 DEF Encoding, Message, MessageFunction
<1> QED
  BY <1>3, <1>4, <1>7, <1>8, <1>9, <1>10

\* The elements of a list.
LEMMA Elements == ASSUME NEW S, NEW s \in Seq(S) PROVE \A j \in DOMAIN s : s[j] \in S
OBVIOUS

\* What is written for an item stays right while strings are added.
LEMMA ItemKept ==
  ASSUME NEW f, NEW i, Extends(strings', strings), funcs' = funcs,
         program'[f].items[i] = program[f].items[i],
         message'.functions[f].items[i] = message.functions[f].items[i],
         message'.functions[f].values = message.functions[f].values,
         message.functions[f] \in MessageFunction,
         i \in DOMAIN message.functions[f].items,
         ItemSpelled(f, i)
  PROVE  ItemSpelled(f, i)'
<1> DEFINE old == program[f].items[i]
           new == message.functions[f].items[i]
           table == message.functions[f].values
<1>1. /\ new \in MessageItem
      /\ table \in Seq([type : Types, meta : Seq(Nat)])
  BY DEF MessageFunction
<1>2. /\ Spells(strings, new.meta, old.meta)
      /\ old.tag = "custom" => Leads(strings, new.ref, old.ref)
      /\ old.tag = "call" => old.ref \in DOMAIN funcs /\ new.ref = funcs[old.ref]
      /\ DOMAIN new.outs = DOMAIN old.res
      /\ \A k \in DOMAIN old.res :
            new.outs[k] < Len(table) => Spells(strings, table[new.outs[k] + 1].meta, old.res[k].meta)
  BY DEF ItemSpelled
<1> HIDE DEF old, new, table
<1>3. Spells(strings', new.meta, old.meta)
  BY <1>1, <1>2, SpellsKept DEF MessageItem
<1>4. old.tag = "custom" => Leads(strings', new.ref, old.ref)
  BY <1>1, <1>2, LeadsKept DEF MessageItem
<1>5. ASSUME NEW k \in DOMAIN old.res, new.outs[k] < Len(table)
      PROVE  Spells(strings', table[new.outs[k] + 1].meta, old.res[k].meta)
  <2>1. new.outs[k] \in Nat
    BY <1>1, <1>2 DEF MessageItem
  <2>2. new.outs[k] + 1 \in DOMAIN table
    BY <1>1, <1>5, <2>1
  <2>3. table[new.outs[k] + 1].meta \in Seq(Nat)
    <3>1. \A j \in DOMAIN table : table[j] \in [type : Types, meta : Seq(Nat)]
      BY <1>1, Elements
    <3> QED
      BY <2>2, <3>1
  <2>4. Spells(strings, table[new.outs[k] + 1].meta, old.res[k].meta)
    BY <1>2, <1>5
  <2> QED
    BY <2>3, <2>4, SpellsKept
<1>6. /\ Spells(strings', new.meta, old.meta)
      /\ old.tag = "custom" => Leads(strings', new.ref, old.ref)
      /\ old.tag = "call" => old.ref \in DOMAIN funcs' /\ new.ref = funcs'[old.ref]
      /\ DOMAIN new.outs = DOMAIN old.res
      /\ \A k \in DOMAIN old.res :
            new.outs[k] < Len(table) => Spells(strings', table[new.outs[k] + 1].meta, old.res[k].meta)
  BY <1>2, <1>3, <1>4, <1>5
<1>7. /\ program'[f].items[i] = old /\ message'.functions[f].items[i] = new
      /\ message'.functions[f].values = table
  BY DEF old, new, table
<1> QED
  BY <1>6, <1>7, Zenon DEF ItemSpelled

\* A function that is not touched stays right.
LEMMA FunctionKept ==
  ASSUME NEW f, Extends(strings', strings), funcs' = funcs,
         program'[f] = program[f], message'.functions[f] = message.functions[f],
         message.functions[f] \in MessageFunction, Spelled(f)
  PROVE  Spelled(f)'
<1>1. /\ Leads(strings, message.functions[f].name, program[f].name)
      /\ Spells(strings, message.functions[f].meta, program[f].meta)
      /\ DOMAIN message.functions[f].items = DOMAIN program[f].items
      /\ \A i \in DOMAIN program[f].items : ItemSpelled(f, i)
  BY DEF Spelled
<1>2. message.functions[f].name \in Nat /\ message.functions[f].meta \in Seq(Nat)
  BY DEF MessageFunction
<1>3. /\ Leads(strings', message.functions[f].name, program[f].name)
      /\ Spells(strings', message.functions[f].meta, program[f].meta)
  BY <1>1, <1>2, LeadsKept, SpellsKept
<1>4. \A i \in DOMAIN program[f].items : ItemSpelled(f, i)'
  BY <1>1, ItemKept
<1> QED
  BY <1>1, <1>3, <1>4 DEF Spelled

\* Results get an index beyond those in the value table, which waits while items are written.
LEMMA OutsBeyondTable ==
  ASSUME FullInv, program # <<>>,
         NEW tag, NEW ins \in Seq(Value), NEW res \in Seq(Def), NEW meta, NEW ref,
         NEW ACTION refId, NEW regions,
         WriteItem(tag, ins, res, meta, ref, refId, regions),
         NEW k \in DOMAIN res
  PROVE  ~(values'[<<Cur, Here, k>>] < Len(message.functions[Cur].values))
<1> DEFINE v == <<Cur, Here, k>>
<1>1. program \in Seq(ProgramFunction) /\ Numbered /\ Scoped /\ Encoding
  BY DEF FullInv, Inv, Walk
<1>2. \A i \in DOMAIN program[Cur].items : i # Here
  BY <1>1, ItemAppended
<1>3. v \notin DOMAIN values
  <2>1. ~Defined(v)
    BY <1>2 DEF Defined
  <2> QED
    BY <1>1, <2>1 DEF Scoped
<1>4. v \in DOMAIN values'
  BY <1>1, ItemNumbered
<1> HIDE DEF v
<1>5. values'[v] \in Nat /\ values'[v] >= Cardinality(DOMAIN values)
  BY <1>1, <1>3, <1>4, ItemNumbered
<1>6. /\ Len(message.functions[Cur].values) \in Nat
      /\ Len(message.functions[Cur].values) <= Cardinality(DOMAIN values)
  BY <1>1 DEF Encoding, Message, MessageFunction, Cur
<1>7. Cardinality(DOMAIN values) \in Nat
  BY <1>1, NumberedTyped DEF Numbered
<1>8. ~(values'[v] < Len(message.functions[Cur].values))
  BY <1>5, <1>6, <1>7
<1> QED
  BY <1>8 DEF v

\* The functions of the message are as many as those visited.
LEMMA FunctionsTyped ==
  ASSUME FullInv, NEW f \in DOMAIN program
  PROVE  message.functions[f] \in MessageFunction /\ f \in DOMAIN message.functions
         /\ program[f] \in ProgramFunction
  BY DEF FullInv, Inv, Walk, Encoding, Message

\* Writing an item, when its reference leads where it should.
LEMMA ItemSpells ==
  ASSUME FullInv, Readable, Spelling, program # <<>>, status = "running",
         NEW tag, NEW ins \in Seq(Value), NEW res \in Seq(Def), NEW meta \in Metadata, NEW ref,
         NEW ACTION refId, NEW regions,
         WriteItem(tag, ins, res, meta, ref, refId, regions), UNCHANGED <<module, funcs, status>>,
         tag = "custom" /\ KnownStrings' => Leads(strings', refId, ref),
         tag = "call" => ref \in DOMAIN funcs /\ refId = funcs[ref]
  PROVE  Spelling'
<1>1. program \in Seq(ProgramFunction) /\ StringTable /\ Encoding /\ Mirrored
  BY DEF FullInv, Inv, Walk, Readable
<1>2. SerializeMetadata(meta)
  BY DEF WriteItem
<1>3. /\ Extends(strings', strings)
      /\ KnownStrings /\ Len(strings') <= U16 => KnownStrings'
  BY <1>1, <1>2, TableGrows
<1>4. Len(strings') <= U16 => Len(strings) <= U16
  BY <1>3, ConstantsAssumption DEF Extends
<1>5. Len(strings') <= U16 => KnownStrings'
  BY <1>3, <1>4 DEF Spelling
<1>6. /\ DOMAIN program' = DOMAIN program /\ Cur' = Cur /\ Cur \in DOMAIN program
      /\ \A f \in DOMAIN program : f # Cur => program'[f] = program[f]
      /\ program'[Cur].meta = program[Cur].meta
      /\ DOMAIN program'[Cur].items = DOMAIN program[Cur].items \cup {Here}
      /\ \A i \in DOMAIN program[Cur].items :
            i # Here /\ program'[Cur].items[i] = program[Cur].items[i]
      /\ program'[Cur].items[Here].res = res
      /\ program'[Cur].items[Here].meta = meta
  BY <1>1, ItemAppended
<1>7. /\ program'[Cur].name = program[Cur].name
      /\ program'[Cur].items[Here].tag = tag
      /\ program'[Cur].items[Here].ref = ref
      /\ message'.functions[Cur].name = message.functions[Cur].name
      /\ message'.functions[Cur].meta = message.functions[Cur].meta
      /\ message'.functions[Cur].values = message.functions[Cur].values
  BY <1>1, ItemRecorded
<1>8. PICK item :
        /\ message'.functions[Cur].items = Append(message.functions[Cur].items, item)
        /\ item.meta = WrittenMeta(meta)
        /\ item.ref = refId
        /\ DOMAIN item.outs = DOMAIN res
        /\ \A k \in DOMAIN res : item.outs[k] = values'[<<Cur, Here, k>>]
  BY <1>1, ItemRecorded
<1>9. \A f \in DOMAIN message.functions : f # Cur => message'.functions[f] = message.functions[f]
  BY <1>1, MessageAppended
<1>10. /\ message.functions[Cur] \in MessageFunction
       /\ DOMAIN message.functions[Cur].items = DOMAIN program[Cur].items
  BY <1>1, <1>6, FunctionsTyped DEF Mirrored
<1>11. /\ DOMAIN message'.functions[Cur].items = DOMAIN message.functions[Cur].items \cup {Here}
       /\ \A i \in DOMAIN message.functions[Cur].items :
             message'.functions[Cur].items[i] = message.functions[Cur].items[i]
       /\ message'.functions[Cur].items[Here] = item
  <2> DEFINE items == message.functions[Cur].items
  <2>1. items \in Seq(MessageItem) /\ program[Cur].items \in Seq(Item)
    BY <1>6, <1>10, FunctionsTyped DEF MessageFunction, ProgramFunction
  <2>2. Len(items) = Len(program[Cur].items)
    BY <1>10, <2>1, SameLength
  <2>3. Here = Len(items) + 1
    BY <2>2 DEF Here
  <2> HIDE DEF items
  <2>4. /\ DOMAIN Append(items, item) = DOMAIN items \cup {Here}
        /\ \A i \in DOMAIN items : Append(items, item)[i] = items[i]
        /\ Append(items, item)[Here] = item
    BY <2>1, <2>3
  <2> QED
    BY <1>8, <2>4 DEF items
<1>12. \A k \in DOMAIN res : ~(item.outs[k] < Len(message.functions[Cur].values))
  BY <1>8, OutsBeyondTable
<1>13. ASSUME Len(strings') <= U16, result' = "success", NEW f \in DOMAIN program
       PROVE  Spelled(f)'
  <2>1. KnownStrings'
    BY <1>5, <1>13
  <2>2. result = "success" /\ Spells(strings', WrittenMeta(meta), meta)
    BY <1>1, <1>2, <1>13, <2>1, MetaSpelled
  <2>3. Spelled(f) /\ f \in DOMAIN message.functions /\ message.functions[f] \in MessageFunction
    BY <1>4, <1>13, <2>2, FunctionsTyped DEF Spelling
  <2>4. CASE f # Cur
    BY <1>3, <1>6, <1>9, <1>13, <2>3, <2>4, FunctionKept
  <2>5. CASE f = Cur
    <3>1. /\ Leads(strings, message.functions[Cur].name, program[Cur].name)
          /\ Spells(strings, message.functions[Cur].meta, program[Cur].meta)
          /\ \A i \in DOMAIN program[Cur].items : ItemSpelled(Cur, i)
      BY <2>3, <2>5 DEF Spelled
    <3>2. message.functions[Cur].name \in Nat /\ message.functions[Cur].meta \in Seq(Nat)
      BY <1>10 DEF MessageFunction
    <3>3. /\ Leads(strings', message'.functions[Cur].name, program'[Cur].name)
          /\ Spells(strings', message'.functions[Cur].meta, program'[Cur].meta)
      BY <1>3, <1>6, <1>7, <3>1, <3>2, LeadsKept, SpellsKept
    <3> DEFINE cur == Cur
    <3>4. cur' = cur
      BY <1>6
    <3>5. PICK c : c = Cur
      OBVIOUS
    <3>6. ASSUME NEW i \in DOMAIN program[c].items PROVE ItemSpelled(c, i)'
      <4>1. ItemSpelled(c, i)
        BY <3>1, <3>5, <3>6
      <4>2. program'[c].items[i] = program[c].items[i]
        BY <1>6, <3>5, <3>6
      <4>3. /\ message'.functions[c].items[i] = message.functions[c].items[i]
            /\ message'.functions[c].values = message.functions[c].values
            /\ message.functions[c] \in MessageFunction
            /\ i \in DOMAIN message.functions[c].items
        BY <1>7, <1>10, <1>11, <3>5, <3>6
      <4> QED
        BY <1>3, <4>1, <4>2, <4>3, ItemKept
    <3>7. ASSUME NEW i, i = Here PROVE ItemSpelled(c, i)'
      <4>1. /\ program'[c].items[i].tag = tag /\ program'[c].items[i].ref = ref
            /\ program'[c].items[i].res = res /\ program'[c].items[i].meta = meta
        BY <1>6, <1>7, <3>5, <3>7
      <4>2. message'.functions[c].items[i] = item
        BY <1>11, <3>5, <3>7
      <4>3. \A k \in DOMAIN res : ~(item.outs[k] < Len(message'.functions[c].values))
        BY <1>7, <1>12, <3>5
      <4>4. Spells(strings', item.meta, meta)
        BY <1>8, <2>2
      <4>5. /\ tag = "custom" => Leads(strings', item.ref, ref)
            /\ tag = "call" => ref \in DOMAIN funcs' /\ item.ref = funcs'[ref]
        BY <1>8, <2>1
      <4> QED
        BY <1>8, <4>1, <4>2, <4>3, <4>4, <4>5 DEF ItemSpelled
    <3>8. DOMAIN message'.functions[c].items = DOMAIN program'[c].items
      BY <1>6, <1>10, <1>11, <3>5
    <3>9. \A i \in DOMAIN program'[c].items : ItemSpelled(c, i)'
      BY <1>6, <3>5, <3>6, <3>7
    <3>10. Spelled(c)'
      BY <3>3, <3>5, <3>8, <3>9 DEF Spelled
    <3> QED
      BY <2>5, <3>5, <3>10
  <2> QED
    BY <2>4, <2>5
<1>14. Len(program') = Len(program)
  BY <1>6 DEF Cur
<1>15. \A f \in DOMAIN program' : program'[f].name = module'.funcs[f].name
  BY <1>6, <1>7 DEF Spelling
<1>16. \A n : FunctionIndex(n)' = FunctionIndex(n)
  BY DEF FunctionIndex
<1> QED
  BY <1>5, <1>6, <1>13, <1>14, <1>15, <1>16 DEF Spelling

----------------------------------------------------------------------------
(* Steps.                                                                  *)

\* An operation, when its reference leads where it should.
LEMMA OperationSpells ==
  ASSUME FullInv, Readable, Spelling, frames # <<>>, status = "running",
         NEW s \in OpShapes, NEW ins \in Operands(s.ins), NEW ACTION refId,
         SerializeOp(s, ins, refId),
         s.tag = "custom" /\ KnownStrings' => Leads(strings', refId, s.ref),
         s.tag = "call" => s.ref \in DOMAIN funcs /\ refId = funcs[s.ref]
  PROVE  Spelling'
<1>1. s.ins \in Seq(Types) /\ s.res \in Seq(Def) /\ s.meta \in Metadata
  BY ConstantsAssumption DEF OpShape
<1>2. frames \in Seq(Frame) /\ program # <<>>
  BY DEF FullInv, Inv, Walk
<1>3. ins \in Seq(Value)
  BY <1>1, <1>2, OperandsAreValues
<1> DEFINE present == [r \in DOMAIN s.regions |-> s.regions[r].block]
<1>4. /\ WriteItem(s.tag, ins, s.res, s.meta, s.ref, refId, present)
      /\ UNCHANGED <<module, funcs, status>>
  BY DEF SerializeOp
<1> HIDE DEF present
<1> QED
  BY <1>1, <1>2, <1>3, <1>4, ItemSpells

\* The name of a custom gate is known, at the latest from the operation's own metadata.
LEMMA CustomSpells == FullInv /\ Readable /\ Spelling /\ SerializeCustom => Spelling'
<1> SUFFICES ASSUME FullInv, Readable, Spelling, SerializeCustom PROVE Spelling'
  OBVIOUS
<1>1. PICK s \in OpShapes : \E ins \in Operands(s.ins) :
         /\ s.tag = "custom"
         /\ s.ref \in DOMAIN stringIds \cup Range(Registered(s.meta))
         /\ SerializeOp(s, ins, stringIds'[s.ref])
  BY Zenon DEF SerializeCustom
<1>2. PICK ins \in Operands(s.ins) :
         /\ s.tag = "custom"
         /\ s.ref \in DOMAIN stringIds \cup Range(Registered(s.meta))
         /\ SerializeOp(s, ins, stringIds'[s.ref])
  BY <1>1
<1>3. frames # <<>> /\ status = "running"
  BY DEF SerializeCustom, AtOperation, InBlock
<1>4. SerializeMetadata(s.meta)
  BY <1>2, Zenon DEF SerializeOp, WriteItem
<1>5. s.ref \in DOMAIN stringIds'
  BY <1>2, <1>4 DEF SerializeMetadata
<1>6. KnownStrings' => Leads(strings', stringIds'[s.ref], s.ref)
  BY <1>5 DEF KnownStrings
<1> QED
  BY <1>2, <1>3, <1>6, OperationSpells

\* A callee is a function of the module, and those have an index before any body is written.
LEMMA CallSpells == FullInv /\ Readable /\ Spelling /\ SerializeCall => Spelling'
<1> SUFFICES ASSUME FullInv, Readable, Spelling, SerializeCall PROVE Spelling'
  OBVIOUS
<1>1. PICK s \in OpShapes : \E ins \in Operands(s.ins) : \E f \in DOMAIN module.funcs :
         /\ s.tag = "call" /\ s.ref = module.funcs[f].name
         /\ SerializeOp(s, ins, funcs[s.ref])
  BY Zenon DEF SerializeCall
<1>2. PICK ins \in Operands(s.ins) : \E f \in DOMAIN module.funcs :
         /\ s.tag = "call" /\ s.ref = module.funcs[f].name
         /\ SerializeOp(s, ins, funcs[s.ref])
  BY <1>1
<1>3. frames # <<>> /\ status = "running"
  BY DEF SerializeCall, AtOperation, InBlock
<1>4. s.ref \in DOMAIN funcs
  BY <1>2, <1>3 DEF FullInv, FuncTable
<1> QED
  BY <1>2, <1>3, <1>4, OperationSpells

\* Operations without references.
LEMMA PlainSpells ==
  FullInv /\ Readable /\ Spelling /\ (SerializeFlatOp \/ SerializeScf) => Spelling'
<1> SUFFICES ASSUME FullInv, Readable, Spelling, SerializeFlatOp \/ SerializeScf PROVE Spelling'
  OBVIOUS
<1>1. PICK s \in OpShapes : \E ins \in Operands(s.ins) :
         s.tag \in FlatKinds \cup ScfKinds /\ SerializeOp(s, ins, 0)
  BY Zenon DEF SerializeFlatOp, SerializeScf
<1>2. s.tag # "custom" /\ s.tag # "call"
  BY <1>1, FormatAssumption DEF ScfKinds
<1>3. frames # <<>> /\ status = "running"
  BY DEF SerializeFlatOp, SerializeScf, AtOperation, InBlock
<1> QED
  BY <1>1, <1>2, <1>3, OperationSpells

\* Block arguments.
LEMMA EnterSpells == FullInv /\ Readable /\ Spelling /\ EnterRegion => Spelling'
<1> SUFFICES ASSUME FullInv, Readable, Spelling, EnterRegion PROVE Spelling'
  OBVIOUS
<1> DEFINE region == Head(Top.todo)
<1>1. frames \in Seq(Frame) /\ frames # <<>> /\ program # <<>> /\ Top \in Frame /\ Top.todo # <<>>
  BY DEF FullInv, Inv, Walk, EnterRegion, Top
<1>2. region \in RegionShape
  BY <1>1 DEF Frame
<1>3. region.args \in Seq(Def) /\ region.meta \in Metadata /\ <<>> \in Seq(Value)
  BY <1>2 DEF RegionShape
<1>4. /\ WriteItem("enter", <<>>, region.args, region.meta, NoName, 0, <<>>)
      /\ status = "running" /\ UNCHANGED <<module, funcs, status>>
  BY Zenon DEF EnterRegion
<1> HIDE DEF region
<1> QED
  BY <1>1, <1>3, <1>4, ItemSpells

\* A terminator.
LEMMA LeaveSpells == FullInv /\ Readable /\ Spelling /\ LeaveRegion => Spelling'
<1> SUFFICES ASSUME FullInv, Readable, Spelling, LeaveRegion PROVE Spelling'
  OBVIOUS
<1>1. frames \in Seq(Frame) /\ frames # <<>> /\ program # <<>> /\ Top \in Frame
      /\ Len(frames) > 1 /\ status = "running"
  BY DEF FullInv, Inv, Walk, LeaveRegion, InBlock, Top
<1>2. PICK ins \in Operands(Top.yields) :
        WriteItem("leave", ins, <<>>, <<>>, NoName, 0, <<>>)
  BY DEF LeaveRegion
<1>3. Top.yields \in Seq(Types)
  BY <1>1 DEF Frame
<1>4. ins \in Seq(Value) /\ <<>> \in Seq(Def) /\ <<>> \in Metadata
  BY <1>1, <1>3, OperandsAreValues DEF Metadata
<1>5. UNCHANGED <<module, funcs, status>>
  BY DEF LeaveRegion
<1> QED
  BY <1>1, <1>2, <1>4, <1>5, ItemSpells

\* The context: a string of jeff.strings has its last place as index; a function has the place of
\* its name.  Nothing is written yet.
LEMMA ModuleSpells == FullInv /\ Spelling /\ SerializeModule => Spelling'
<1> SUFFICES ASSUME FullInv, Spelling, SerializeModule PROVE Spelling'
  OBVIOUS
<1> DEFINE last(n) == CHOOSE i \in DOMAIN module.strings :
                /\ module.strings[i] = n
                /\ \A j \in DOMAIN module.strings : module.strings[j] = n => j <= i
           names == {module.funcs[f].name : f \in DOMAIN module.funcs}
<1>1. /\ strings' = module.strings
      /\ stringIds' = [n \in Range(module.strings) |-> StringId(last(n) - 1)]
      /\ funcs' = [n \in names |->
            ((CHOOSE f \in DOMAIN module.funcs : module.funcs[f].name = n) - 1) % U16]
      /\ program = <<>> /\ status' = "running"
      /\ UNCHANGED <<module, program, result>>
  BY DEF SerializeModule, InitialStrings, Spelling
<1>2. module.strings \in Seq(Names)
  BY DEF FullInv, Inv, Walk, ModuleHeader
<1>3. ASSUME Len(strings') <= U16 PROVE KnownStrings'
  <2> SUFFICES ASSUME NEW n \in Range(module.strings)
               PROVE  Leads(module.strings, stringIds'[n], n)
    BY <1>1 DEF KnownStrings
  <2>1. last(n) \in DOMAIN module.strings /\ module.strings[last(n)] = n
    BY <1>2, LastIndex
  <2>2. stringIds'[n] = (last(n) - 1) % U16
    BY <1>1 DEF StringId
  <2> HIDE DEF last
  <2>3. last(n) - 1 \in 0 .. U16 - 1
    BY <1>1, <1>2, <1>3, <2>1, ConstantsAssumption
  <2>4. stringIds'[n] = last(n) - 1
    BY <2>2, <2>3, ConstantsAssumption
  <2>5. last(n) - 1 < Len(module.strings) /\ (last(n) - 1) + 1 = last(n)
    BY <1>2, <2>1
  <2> QED
    BY <2>1, <2>4, <2>5 DEF Leads
<1>4. ASSUME NEW n \in DOMAIN funcs'
      PROVE  /\ \E f \in DOMAIN module'.funcs : module'.funcs[f].name = n
             /\ funcs'[n] = FunctionIndex(n)' % U16
  BY <1>1, <1>4 DEF FunctionIndex
<1>5. DOMAIN program' = {} /\ Len(program') = Len(program)
  BY <1>1
<1> QED
  BY <1>1, <1>3, <1>4, <1>5 DEF Spelling

\* The next function: its name is known, its metadata is written at once, the rest is empty.
LEMMA BeginSpells == FullInv /\ Spelling /\ BeginFunction => Spelling'
<1> SUFFICES ASSUME FullInv, Spelling, BeginFunction PROVE Spelling'
  OBVIOUS
<1> DEFINE func == module.funcs[Cur + 1]
           new == [name   |-> stringIds[func.name],
                   meta   |-> WrittenMeta(func.meta),
                   hasBody |-> TRUE, hasOperations |-> TRUE,
                   items  |-> <<>>, values |-> <<>>]
           old == [name |-> func.name, meta |-> func.meta, items |-> <<>>]
<1>1. /\ program \in Seq(ProgramFunction) /\ StringTable /\ Encoding /\ module \in ModuleHeader
      /\ message.functions \in Seq(MessageFunction) /\ Len(message.functions) = Len(program)
  BY DEF FullInv, Inv, Walk, Encoding, Message
<1>2. /\ Cur < Len(module.funcs) /\ func.name \in DOMAIN stringIds
      /\ SerializeMetadata(func.meta)
      /\ program' = Append(program, old)
      /\ message' = [message EXCEPT !.functions = Append(@, new)]
      /\ UNCHANGED <<module, funcs, status>> /\ status = "running"
  BY Zenon DEF BeginFunction, BetweenFunctions, InTable
<1>3. func.meta \in Metadata
  <2>1. module.funcs \in Seq(FuncShape)
    BY <1>1 DEF ModuleHeader
  <2>2. Cur + 1 \in DOMAIN module.funcs
    BY <1>1, <1>2, <2>1 DEF Cur
  <2>3. func \in FuncShape
    BY <2>1, <2>2
  <2> QED
    BY <2>3 DEF FuncShape
<1>4. /\ new.name = stringIds[func.name] /\ new.meta = WrittenMeta(func.meta) /\ new.items = <<>>
      /\ old.name = func.name /\ old.meta = func.meta /\ old.items = <<>>
  OBVIOUS
<1> HIDE DEF new, old
<1>5. message'.functions = Append(message.functions, new)
  BY <1>1, <1>2 DEF Encoding, Message
<1>6. /\ Len(program) \in Nat /\ Len(program') = Len(program) + 1
      /\ DOMAIN program' = DOMAIN program \cup {Cur + 1}
      /\ \A f \in DOMAIN program : f # Cur + 1 /\ program'[f] = program[f]
      /\ program'[Cur + 1] = old
  BY <1>1, <1>2 DEF Cur
<1>7. /\ \A f \in DOMAIN program : message'.functions[f] = message.functions[f]
      /\ message'.functions[Cur + 1] = new
  BY <1>1, <1>5 DEF Cur
<1> HIDE DEF func
<1>8. /\ Extends(strings', strings)
      /\ KnownStrings /\ Len(strings') <= U16 => KnownStrings'
  BY <1>1, <1>2, <1>3, TableGrows
<1>9. Len(strings') <= U16 => Len(strings) <= U16 /\ KnownStrings /\ KnownStrings'
  <2>1. Len(strings') <= U16 => Len(strings) <= U16
    BY <1>8, ConstantsAssumption DEF Extends
  <2>2. status # "start"
    BY <1>2
  <2> QED
    BY <1>8, <2>1, <2>2 DEF Spelling
<1>10. ASSUME Len(strings') <= U16, result' = "success", NEW f \in DOMAIN program'
       PROVE  Spelled(f)'
  <2>1. result = "success" /\ Spells(strings', WrittenMeta(func.meta), func.meta)
    BY <1>1, <1>2, <1>3, <1>9, <1>10, MetaSpelled
  <2>2. CASE f \in DOMAIN program
    <3>1. Spelled(f) /\ message.functions[f] \in MessageFunction
      BY <1>9, <1>10, <2>1, <2>2, FunctionsTyped DEF Spelling
    <3> QED
      BY <1>2, <1>6, <1>7, <1>8, <2>2, <3>1, FunctionKept
  <2>3. CASE f = Cur + 1
    <3>1. program'[f] = old /\ message'.functions[f] = new
      BY <1>6, <1>7, <2>3
    <3>2. stringIds[func.name] \in Nat
      BY <1>1, <1>2, ConstantsAssumption DEF StringTable, Range
    <3>3. Leads(strings, stringIds[func.name], func.name)
      BY <1>2, <1>9, <1>10 DEF KnownStrings
    <3>4. Leads(strings', stringIds[func.name], func.name)
      BY <1>8, <3>2, <3>3, LeadsKept
    <3>5. DOMAIN <<>> = {}
      OBVIOUS
    <3> QED
      BY <1>4, <2>1, <3>1, <3>4, <3>5 DEF Spelled
  <2> QED
    BY <1>6, <1>10, <2>2, <2>3
<1>11. Len(program') <= Len(module'.funcs)
  <2>1. Len(module.funcs) \in Nat
    BY <1>1 DEF ModuleHeader
  <2> QED
    BY <1>2, <1>6, <2>1 DEF Cur
<1>12. \A f \in DOMAIN program' : program'[f].name = module'.funcs[f].name
  BY <1>2, <1>4, <1>6 DEF Spelling, func
<1>13. \A n : FunctionIndex(n)' = FunctionIndex(n)
  BY <1>2 DEF FunctionIndex
<1> QED
  BY <1>2, <1>9, <1>10, <1>11, <1>12, <1>13 DEF Spelling

\* One more value of the table: it is the one its index was given to, and so every item that
\* defines the index gets the metadata of its own result.
LEMMA ValueSpells == FullInv /\ Readable /\ Spelling /\ SerializeValue => Spelling'
<1> SUFFICES ASSUME FullInv, Readable, Spelling, SerializeValue PROVE Spelling'
  OBVIOUS
<1> DEFINE table == message.functions[Cur].values
           id == Len(table)
           x == CHOOSE v \in DOMAIN values : values[v] = id
           def == DefOf(x)
           entry == [type |-> def.type, meta |-> WrittenMeta(def.meta)]
<1>1. /\ UNCHANGED <<module, program, values, funcs, status>> /\ status = "running"
      /\ Len(frames) = 1 /\ ~TableFull
      /\ SerializeMetadata(def.meta)
      /\ message' = [message EXCEPT !.functions[Cur].values = Append(@, entry)]
  BY Zenon DEF SerializeValue, InTable
<1>2. frames # <<>> /\ program # <<>> /\ program \in Seq(ProgramFunction) /\ Cur \in DOMAIN program
  <2>1. frames # <<>>
    BY <1>1
  <2> QED
    BY <2>1 DEF FullInv, Inv, Walk, Cur
<1>3. /\ StringTable /\ Encoding /\ Numbered /\ Scoped /\ Mirrored
  BY DEF FullInv, Inv, Readable
<1>4. /\ message.functions \in Seq(MessageFunction) /\ Cur \in DOMAIN message.functions
      /\ message.functions[Cur] \in MessageFunction
      /\ table \in Seq([type : Types, meta : Seq(Nat)]) /\ id \in Nat
  <2>1. /\ message.functions \in Seq(MessageFunction) /\ Cur \in DOMAIN message.functions
        /\ message.functions[Cur] \in MessageFunction
    BY <1>2, <1>3 DEF Encoding, Message, Cur
  <2>2. table \in Seq([type : Types, meta : Seq(Nat)])
    BY <2>1 DEF MessageFunction
  <2> QED
    BY <2>1, <2>2
<1>5. x \in DOMAIN values /\ values[x] = id
  <2>1. Cardinality(DOMAIN values) \in Nat
    BY <1>3, NumberedTyped DEF Numbered
  <2>2. id <= Cardinality(DOMAIN values) /\ id # Cardinality(DOMAIN values)
    BY <1>1, <1>2, <1>3 DEF Encoding, TableFull
  <2>3. id \in 0 .. Cardinality(DOMAIN values) - 1
    BY <1>4, <2>1, <2>2
  <2>4. \E v \in DOMAIN values : values[v] = id
    BY <1>3, <2>3 DEF Numbered, Dense
  <2> QED
    BY <2>4
<1> HIDE DEF x
<1>6. def.meta \in Metadata
  <2>1. Defined(x)
    BY <1>3, <1>5 DEF Scoped
  <2>2. program[x[1]] \in ProgramFunction
    BY <1>2, <2>1 DEF Defined
  <2>3. program[x[1]].items \in Seq(Item)
    BY <2>2 DEF ProgramFunction
  <2>4. program[x[1]].items[x[2]] \in Item
    BY <2>1, <2>3 DEF Defined
  <2>5. program[x[1]].items[x[2]].res \in Seq(Def)
    BY <2>4 DEF Item
  <2>6. def \in Def
    BY <2>1, <2>5 DEF Defined, DefOf
  <2> QED
    BY <2>6 DEF Def
<1>7. entry.meta = WrittenMeta(def.meta)
  OBVIOUS
<1> HIDE DEF entry, def
<1>8. /\ message'.functions[Cur].items = message.functions[Cur].items
      /\ message'.functions[Cur].name = message.functions[Cur].name
      /\ message'.functions[Cur].meta = message.functions[Cur].meta
      /\ message'.functions[Cur].values = Append(table, entry)
      /\ \A f \in DOMAIN message.functions :
            f # Cur => message'.functions[f] = message.functions[f]
  BY <1>1, <1>3, <1>4 DEF Encoding, Message, MessageFunction
<1>9. /\ Extends(strings', strings)
      /\ KnownStrings /\ Len(strings') <= U16 => KnownStrings'
  BY <1>1, <1>3, <1>6, TableGrows
<1>10. Len(strings') <= U16 => Len(strings) <= U16 /\ KnownStrings'
  <2>1. Len(strings') <= U16 => Len(strings) <= U16
    BY <1>9, ConstantsAssumption DEF Extends
  <2>2. status # "start"
    BY <1>1
  <2> QED
    BY <1>9, <2>1, <2>2 DEF Spelling
<1>11. PICK c : c = Cur
  OBVIOUS
<1> HIDE DEF table, id
<1>12. /\ Len(Append(table, entry)) = id + 1
       /\ Append(table, entry)[id + 1] = entry
       /\ \A j \in 1 .. id : Append(table, entry)[j] = table[j] /\ table[j].meta \in Seq(Nat)
  <2>1. \A j \in DOMAIN table : table[j] \in [type : Types, meta : Seq(Nat)]
    BY <1>4, Elements
  <2>2. DOMAIN table = 1 .. id
    BY <1>4 DEF id
  <2>3. \A j \in 1 .. id : table[j].meta \in Seq(Nat)
    BY <2>1, <2>2
  <2>4. /\ Len(Append(table, entry)) = id + 1
        /\ Append(table, entry)[id + 1] = entry
        /\ \A j \in 1 .. id : Append(table, entry)[j] = table[j]
    BY <1>4 DEF id
  <2> QED
    BY <2>3, <2>4
<1>13. ASSUME Len(strings') <= U16, result' = "success", NEW f \in DOMAIN program
       PROVE  Spelled(f)'
  <2>1. result = "success" /\ Spells(strings', entry.meta, def.meta)
    BY <1>1, <1>3, <1>6, <1>7, <1>10, <1>13, MetaSpelled
  <2>2. Spelled(f) /\ message.functions[f] \in MessageFunction /\ f \in DOMAIN message.functions
    BY <1>10, <1>13, <2>1, FunctionsTyped DEF Spelling
  <2>3. CASE f # Cur
    BY <1>1, <1>8, <1>9, <2>2, <2>3, FunctionKept
  <2>4. CASE f = Cur
    <3>1. /\ Leads(strings, message.functions[f].name, program[f].name)
          /\ Spells(strings, message.functions[f].meta, program[f].meta)
          /\ DOMAIN message.functions[f].items = DOMAIN program[f].items
          /\ \A i \in DOMAIN program[f].items : ItemSpelled(f, i)
      BY <2>2 DEF Spelled
    <3>2. /\ message.functions[f].name \in Nat /\ message.functions[f].meta \in Seq(Nat)
          /\ message.functions[f].items \in Seq(MessageItem)
      BY <2>2 DEF MessageFunction
    <3>3. /\ Leads(strings', message'.functions[f].name, program'[f].name)
          /\ Spells(strings', message'.functions[f].meta, program'[f].meta)
          /\ DOMAIN message'.functions[f].items = DOMAIN program'[f].items
      BY <1>1, <1>8, <1>9, <2>4, <3>1, <3>2, LeadsKept, SpellsKept
    <3>4. ASSUME NEW i \in DOMAIN program[f].items PROVE ItemSpelled(f, i)'
      <4> DEFINE old == program[f].items[i]
                 new == message.functions[f].items[i]
      <4>1. /\ Spells(strings, new.meta, old.meta)
            /\ old.tag = "custom" => Leads(strings, new.ref, old.ref)
            /\ old.tag = "call" => old.ref \in DOMAIN funcs /\ new.ref = funcs[old.ref]
            /\ DOMAIN new.outs = DOMAIN old.res
            /\ \A k \in DOMAIN old.res :
                  new.outs[k] < id => Spells(strings, table[new.outs[k] + 1].meta, old.res[k].meta)
        BY <2>4, <3>1, <3>4 DEF ItemSpelled, id, table
      <4>2. new \in MessageItem
        BY <3>1, <3>2, <3>4
      <4>3. \A k \in DOMAIN old.res :
               <<Cur, i, k>> \in DOMAIN values /\ new.outs[k] = values[<<Cur, i, k>>]
        BY <1>2, <1>3, <2>4, <3>1, <3>4, <4>1 DEF Mirrored
      <4>4. \A k \in DOMAIN old.res : DefOf(<<Cur, i, k>>) = old.res[k]
        BY <2>4 DEF DefOf
      <4>5. program'[f].items[i] = old /\ message'.functions[f].items[i] = new
            /\ message'.functions[f].values = Append(table, entry)
        BY <1>1, <1>8, <2>4
      <4> HIDE DEF old, new
      <4>6. Spells(strings', new.meta, old.meta)
        BY <1>9, <4>1, <4>2, SpellsKept DEF MessageItem
      <4>7. old.tag = "custom" => Leads(strings', new.ref, old.ref)
        BY <1>9, <4>1, <4>2, LeadsKept DEF MessageItem
      <4>8. ASSUME NEW k \in DOMAIN old.res, new.outs[k] < id + 1
            PROVE  Spells(strings', Append(table, entry)[new.outs[k] + 1].meta, old.res[k].meta)
        <5>1. new.outs[k] \in Nat
          BY <4>1, <4>2 DEF MessageItem
        <5>2. CASE new.outs[k] = id
          <6>1. x = <<Cur, i, k>>
            BY <1>3, <1>5, <4>3, <5>2 DEF Numbered, Dense
          <6>2. def = old.res[k]
            BY <4>4, <6>1 DEF def
          <6> QED
            BY <1>12, <2>1, <5>2, <6>2
        <5>3. CASE new.outs[k] # id
          <6>1. new.outs[k] < id /\ new.outs[k] + 1 \in 1 .. id
            BY <1>4, <4>8, <5>1, <5>3
          <6>2. /\ Append(table, entry)[new.outs[k] + 1] = table[new.outs[k] + 1]
                /\ table[new.outs[k] + 1].meta \in Seq(Nat)
            BY <1>12, <6>1
          <6>3. Spells(strings, table[new.outs[k] + 1].meta, old.res[k].meta)
            BY <4>1, <6>1
          <6> QED
            BY <1>9, <6>2, <6>3, SpellsKept
        <5> QED
          BY <5>2, <5>3
      <4> QED
        BY <1>1, <1>12, <4>1, <4>5, <4>6, <4>7, <4>8, Zenon DEF ItemSpelled
    <3> QED
      BY <1>1, <3>3, <3>4 DEF Spelled
  <2> QED
    BY <2>3, <2>4
<1>14. \A n : FunctionIndex(n)' = FunctionIndex(n)
  BY <1>1 DEF FunctionIndex
<1> QED
  BY <1>1, <1>10, <1>13, <1>14 DEF Spelling

\* A step that leaves what was visited, its functions in the message and the context's functions
\* as they are.
LEMMA FunctionsStay ==
  ASSUME FullInv, Spelling, status # "start", Extends(strings', strings),
         UNCHANGED <<program, funcs>>, message'.functions = message.functions,
         Len(strings') <= U16, result' = "success", result = "success"
  PROVE  \A f \in DOMAIN program : Spelled(f)'
<1> SUFFICES ASSUME NEW f \in DOMAIN program PROVE Spelled(f)'
  OBVIOUS
<1>1. Len(strings) <= U16
  BY ConstantsAssumption DEF Extends
<1>2. Spelled(f) /\ message.functions[f] \in MessageFunction
  BY <1>1, FunctionsTyped DEF Spelling
<1> QED
  BY <1>2, FunctionKept

\* The metadata of the module is written last, and the strings with it.
LEMMA FinishSpells == FullInv /\ Spelling /\ FinishModule => Spelling'
<1> SUFFICES ASSUME FullInv, Spelling, FinishModule PROVE Spelling'
  OBVIOUS
<1>1. StringTable /\ module.meta \in Metadata /\ message \in Message
  BY DEF FullInv, Inv, Walk, ModuleHeader, Encoding
<1>2. /\ SerializeMetadata(module.meta)
      /\ message' = [message EXCEPT !.strings = strings', !.meta = WrittenMeta(module.meta)]
      /\ status' = result' /\ status = "running" /\ Cur = Len(module.funcs)
      /\ UNCHANGED <<module, program, frames, values, funcs>>
  BY Zenon DEF FinishModule, BetweenFunctions, InTable, WrittenStrings
<1>3. /\ message'.functions = message.functions /\ message'.strings = strings'
      /\ message'.meta = WrittenMeta(module.meta)
  BY <1>1, <1>2 DEF Message
<1>4. /\ Extends(strings', strings)
      /\ KnownStrings /\ Len(strings') <= U16 => KnownStrings'
  BY <1>1, <1>2, TableGrows
<1>5. Len(strings') <= U16 => KnownStrings'
  <2>1. Len(strings') <= U16 => Len(strings) <= U16
    BY <1>4, ConstantsAssumption DEF Extends
  <2>2. status # "start"
    BY <1>2
  <2> QED
    BY <1>4, <2>1, <2>2 DEF Spelling
<1>6. ASSUME Len(strings') <= U16, result' = "success"
      PROVE  result = "success" /\ Spells(strings', WrittenMeta(module.meta), module.meta)
  BY <1>1, <1>2, <1>5, <1>6, MetaSpelled
<1>7. ASSUME Len(strings') <= U16, result' = "success"
      PROVE  \A f \in DOMAIN program' : Spelled(f)'
  <2>1. status # "start"
    BY <1>2
  <2> QED
    BY <1>2, <1>3, <1>4, <1>6, <1>7, <2>1, FunctionsStay
<1>8. \A n : FunctionIndex(n)' = FunctionIndex(n)
  BY <1>2 DEF FunctionIndex
<1>9. result' \in {"success", "failure"}
  BY <1>1, <1>2, ResultKept
<1>10. status' = "success" =>
          /\ result' = "success" /\ message'.strings = strings'
          /\ Len(program') = Len(module'.funcs)
          /\ Len(strings') <= U16 => Spells(strings', message'.meta, module'.meta)
  BY <1>2, <1>3, <1>6 DEF Cur
<1> QED
  BY <1>2, <1>5, <1>7, <1>8, <1>9, <1>10 DEF Spelling

\* A step that writes nothing.
LEMMA RestSpells ==
  ASSUME FullInv, Spelling, UNCHANGED <<module, program, ctx, message>>,
         status' = status \/ (status = "running" /\ status' \in {"fatal", "undefined"})
  PROVE  Spelling'
<1>1. UNCHANGED <<funcs, stringIds, strings, result>>
  BY DEF ctx
<1>2. \A n : FunctionIndex(n)' = FunctionIndex(n)
  BY DEF FunctionIndex
<1>3. \A f : Spelled(f)' = Spelled(f)
  BY <1>1 DEF Spelled, ItemSpelled
<1>4. KnownStrings' = KnownStrings
  BY <1>1 DEF KnownStrings
<1>5. /\ module \in Modules
      /\ status = "start" => program = <<>>
      /\ Len(strings) <= U16 =>
            /\ status # "start" => KnownStrings
            /\ result = "success" => \A f \in DOMAIN program : Spelled(f)
      /\ Len(program) <= Len(module.funcs)
      /\ \A f \in DOMAIN program : program[f].name = module.funcs[f].name
      /\ \A n \in DOMAIN funcs :
            /\ \E f \in DOMAIN module.funcs : module.funcs[f].name = n
            /\ funcs[n] = FunctionIndex(n) % U16
      /\ status = "success" =>
            /\ result = "success" /\ message.strings = strings
            /\ Len(program) = Len(module.funcs)
            /\ Len(strings) <= U16 => Spells(strings, message.meta, module.meta)
  BY Zenon DEF Spelling
<1> QED
  BY <1>1, <1>2, <1>3, <1>4, <1>5 DEF Spelling

\* No step of the walk writes an index that leads elsewhere.
LEMMA NextSpells == FullInv /\ Readable /\ Spelling /\ [Next]_vars => Spelling'
<1> SUFFICES ASSUME FullInv, Readable, Spelling, [Next]_vars PROVE Spelling'
  OBVIOUS
<1>1. CASE SerializeModule
  BY <1>1, ModuleSpells
<1>2. CASE BeginFunction
  BY <1>2, BeginSpells
<1>3. CASE EnterRegion
  BY <1>3, EnterSpells
<1>4. CASE LeaveRegion
  BY <1>4, LeaveSpells
<1>5. CASE SerializeFlatOp \/ SerializeScf
  BY <1>5, PlainSpells
<1>6. CASE SerializeCustom
  BY <1>6, CustomSpells
<1>7. CASE SerializeCall
  BY <1>7, CallSpells
<1>8. CASE SerializeValue
  BY <1>8, ValueSpells
<1>9. CASE FinishModule
  BY <1>9, FinishSpells
<1>10. CASE FunctionNameMissing \/ EnterAbsentRegion \/ CustomNameMissing
  <2>1. /\ UNCHANGED <<module, program, ctx, message>>
        /\ status = "running" /\ status' \in {"fatal", "undefined"}
    BY <1>10 DEF FunctionNameMissing, EnterAbsentRegion, CustomNameMissing,
                 BetweenFunctions, InTable, AtOperation, InBlock
  <2> QED
    BY <2>1, RestSpells
<1>11. CASE UNCHANGED vars
  BY <1>11, RestSpells DEF vars
<1> QED
  BY <1>1, <1>2, <1>3, <1>4, <1>5, <1>6, <1>7, <1>8, <1>9, <1>10, <1>11 DEF Next

----------------------------------------------------------------------------
(* The complete message.                                                   *)

\* Indices that lead to the names of a list decode to it.
LEMMA SpellsDecoded ==
  ASSUME message.strings = strings, NEW ids, NEW meta, Spells(strings, ids, meta)
  PROVE  Decoded(ids) = EntryNames(meta)
<1>1. DOMAIN ids = DOMAIN meta /\ \A i \in DOMAIN meta : Leads(strings, ids[i], meta[i].name)
  BY DEF Spells
<1>2. ASSUME NEW i \in DOMAIN meta PROVE StringAt(ids[i]) = meta[i].name
  BY <1>1, <1>2 DEF Leads, StringAt
<1> QED
  BY <1>1, <1>2 DEF Decoded, EntryNames

\* The names of functions are different strings of the table, so there are not more functions
\* than strings: a function index has not wrapped where no string index has.
LEMMA FewFunctions ==
  ASSUME FullInv, Spelling, Len(strings) <= U16, result = "success"
  PROVE  Len(program) <= Len(strings)
<1> DEFINE S == 1 .. Len(program)
           T == 0 .. Len(strings) - 1
           g == [f \in S |-> message.functions[f].name]
<1>1. /\ program \in Seq(ProgramFunction) /\ strings \in Seq(Names) /\ module \in Modules
      /\ module \in ModuleHeader
  BY DEF FullInv, Inv, Walk, StringTable, Spelling
<1>2. Len(program) \in Nat /\ Len(strings) \in Nat /\ DOMAIN program = S
  BY <1>1
<1>3. ASSUME NEW f \in S
      PROVE  g[f] \in Nat /\ Leads(strings, g[f], module.funcs[f].name) /\ f \in DOMAIN module.funcs
  <2>1. f \in DOMAIN program
    BY <1>2
  <2>2. Spelled(f) /\ program[f].name = module.funcs[f].name /\ Len(program) <= Len(module.funcs)
    BY <2>1 DEF Spelling
  <2>3. message.functions[f].name \in Nat
    BY <2>1, FunctionsTyped DEF MessageFunction
  <2>4. module.funcs \in Seq(FuncShape)
    BY <1>1 DEF ModuleHeader
  <2>5. f \in DOMAIN module.funcs
    BY <1>2, <2>2, <2>4
  <2> QED
    BY <2>2, <2>3, <2>5 DEF Spelled
<1>4. \A f \in S : g[f] \in T
  BY <1>2, <1>3 DEF Leads
<1>5. ASSUME NEW e \in S, NEW f \in S, g[e] = g[f] PROVE e = f
  <2>1. module.funcs[e].name = module.funcs[f].name
    BY <1>3, <1>5 DEF Leads
  <2> DEFINE names == [h \in DOMAIN module.funcs |-> module.funcs[h].name]
  <2>2. IsInjective(names)
    BY <1>1, SymbolsAssumption
  <2>3. e \in DOMAIN names /\ f \in DOMAIN names /\ names[e] = names[f]
    BY <1>3, <2>1
  <2> HIDE DEF names
  <2> QED
    BY <2>2, <2>3 DEF IsInjective
<1>6. g \in Injection(S, T)
  <2>1. g \in [S -> T]
    BY <1>4
  <2> HIDE DEF g
  <2> QED
    BY <1>5, <2>1, Zenon DEF Injection, IsInjective
<1>7. /\ IsFiniteSet(T) /\ Cardinality(T) = Len(strings)
      /\ Cardinality(S) = Len(program)
  <2>1. /\ IsFiniteSet(T)
        /\ Cardinality(T) = IF 0 > Len(strings) - 1 THEN 0 ELSE (Len(strings) - 1) - 0 + 1
    <3> DEFINE b == Len(strings) - 1
    <3>1. b \in Int
      BY <1>2
    <3> HIDE DEF b
    <3>2. /\ IsFiniteSet(0 .. b)
          /\ Cardinality(0 .. b) = IF 0 > b THEN 0 ELSE b - 0 + 1
      BY <3>1, FS_Interval
    <3> QED
      BY <3>2 DEF b
  <2>2. Cardinality(S) = IF 1 > Len(program) THEN 0 ELSE Len(program) - 1 + 1
    BY <1>2, FS_Interval
  <2> HIDE DEF S, T
  <2> QED
    BY <1>2, <2>1, <2>2
<1> HIDE DEF S, T, g
<1>8. Cardinality(S) <= Cardinality(T)
  BY <1>6, <1>7, FS_Injection
<1> QED
  BY <1>7, <1>8

\* Of a complete message, all indices lead where they should.
LEMMA SpellingResolves == FullInv /\ Readable /\ Spelling => IndicesResolve
<1> SUFFICES ASSUME FullInv, Readable, Spelling,
                    status = "success", Len(message.strings) <= U16
             PROVE  /\ Decoded(message.meta) = EntryNames(module.meta)
                    /\ \A f \in DOMAIN program :
                          LET func == message.functions[f]
                          IN /\ StringAt(func.name) = program[f].name
                             /\ Decoded(func.meta) = EntryNames(program[f].meta)
                             /\ \A i \in DOMAIN func.items :
                                   LET old == program[f].items[i]
                                       new == func.items[i]
                                   IN /\ Decoded(new.meta) = EntryNames(old.meta)
                                      /\ old.tag = "custom" => StringAt(new.ref) = old.ref
                                      /\ old.tag = "call" => program[new.ref + 1].name = old.ref
                                      /\ \A k \in DOMAIN old.res :
                                            Decoded(func.values[new.outs[k] + 1].meta)
                                                = EntryNames(old.res[k].meta)
  BY Zenon DEF IndicesResolve
<1>1. /\ result = "success" /\ message.strings = strings /\ Len(strings) <= U16
      /\ Len(program) = Len(module.funcs)
      /\ Spells(strings, message.meta, module.meta)
      /\ \A f \in DOMAIN program : Spelled(f) /\ program[f].name = module.funcs[f].name
      /\ \A n \in DOMAIN funcs :
            /\ \E f \in DOMAIN module.funcs : module.funcs[f].name = n
            /\ funcs[n] = FunctionIndex(n) % U16
  BY DEF Spelling
<1>2. \A i, n : Leads(strings, i, n) => StringAt(i) = n
  BY <1>1 DEF Leads, StringAt
<1>3. Len(program) <= U16 /\ Len(program) \in Nat /\ DOMAIN module.funcs = 1 .. Len(program)
      /\ DOMAIN program = 1 .. Len(program)
  <2>1. Len(program) <= Len(strings)
    BY <1>1, FewFunctions
  <2>2. /\ program \in Seq(ProgramFunction) /\ strings \in Seq(Names)
        /\ module.funcs \in Seq(FuncShape)
    BY DEF FullInv, Inv, Walk, StringTable, ModuleHeader
  <2>3. Len(program) \in Nat /\ Len(strings) \in Nat /\ DOMAIN program = 1 .. Len(program)
        /\ DOMAIN module.funcs = 1 .. Len(module.funcs)
    BY <2>2
  <2> QED
    BY <1>1, <2>1, <2>3, ConstantsAssumption
<1>4. ASSUME NEW n \in DOMAIN funcs PROVE program[funcs[n] + 1].name = n
  <2> DEFINE f == CHOOSE g \in DOMAIN module.funcs : module.funcs[g].name = n
  <2>1. f \in DOMAIN module.funcs /\ module.funcs[f].name = n
    BY <1>1
  <2>2. funcs[n] = (f - 1) % U16
    BY <1>1 DEF FunctionIndex
  <2> HIDE DEF f
  <2>3. f - 1 \in 0 .. U16 - 1 /\ (f - 1) + 1 = f
    BY <1>3, <2>1, ConstantsAssumption
  <2>4. funcs[n] = f - 1
    BY <2>2, <2>3, ConstantsAssumption
  <2> QED
    BY <1>1, <1>3, <2>1, <2>3, <2>4
<1>5. ASSUME NEW f \in DOMAIN program PROVE ValuesComplete(f) /\ ItemsReadable(f)
  <2>1. program # <<>> /\ f \in DOMAIN message.functions
    BY <1>3, <1>5, FunctionsTyped
  <2> QED
    BY <2>1, CurrentReadable DEF Readable
<1>6. ASSUME NEW f \in DOMAIN program, NEW i \in DOMAIN message.functions[f].items
      PROVE  LET old == program[f].items[i]
                 new == message.functions[f].items[i]
             IN /\ Decoded(new.meta) = EntryNames(old.meta)
                /\ old.tag = "custom" => StringAt(new.ref) = old.ref
                /\ old.tag = "call" => program[new.ref + 1].name = old.ref
                /\ \A k \in DOMAIN old.res :
                      Decoded(message.functions[f].values[new.outs[k] + 1].meta)
                          = EntryNames(old.res[k].meta)
  <2> DEFINE old == program[f].items[i]
             new == message.functions[f].items[i]
             table == message.functions[f].values
             items == message.functions[f].items
  <2>1. ItemSpelled(f, i)
    BY <1>1, <1>6 DEF Spelled
  <2>2. /\ Spells(strings, new.meta, old.meta)
        /\ old.tag = "custom" => Leads(strings, new.ref, old.ref)
        /\ old.tag = "call" => old.ref \in DOMAIN funcs /\ new.ref = funcs[old.ref]
        /\ DOMAIN new.outs = DOMAIN old.res
        /\ \A k \in DOMAIN old.res :
              new.outs[k] < Len(table) => Spells(strings, table[new.outs[k] + 1].meta, old.res[k].meta)
    BY <2>1 DEF ItemSpelled
  <2>3. ASSUME NEW k \in DOMAIN old.res PROVE new.outs[k] < Len(table)
    <3>1. items \in Seq(MessageItem) /\ Len(table) \in Nat
      BY <1>6, FunctionsTyped DEF MessageFunction
    <3>2. i \in 1 .. Len(items)
      BY <1>6, <3>1
    <3>3. new.outs[k] \in Range(items[i].outs)
      BY <2>2, <2>3 DEF Range
    <3>4. new.outs[k] \in DefinedBy(f, Len(items))
      BY <3>2, <3>3, Zenon DEF DefinedBy
    <3>5. new.outs[k] \in 0 .. Len(table) - 1
      BY <1>5, <3>4 DEF ValuesComplete
    <3> QED
      BY <3>1, <3>5
  <2> HIDE DEF old, new, table, items
  <2>4. Decoded(new.meta) = EntryNames(old.meta)
    BY <1>1, <2>2, SpellsDecoded
  <2>5. \A k \in DOMAIN old.res : Decoded(table[new.outs[k] + 1].meta) = EntryNames(old.res[k].meta)
    BY <1>1, <2>2, <2>3, SpellsDecoded
  <2>6. /\ Decoded(new.meta) = EntryNames(old.meta)
        /\ old.tag = "custom" => StringAt(new.ref) = old.ref
        /\ old.tag = "call" => program[new.ref + 1].name = old.ref
        /\ \A k \in DOMAIN old.res :
              Decoded(table[new.outs[k] + 1].meta) = EntryNames(old.res[k].meta)
    BY <1>2, <1>4, <2>2, <2>4, <2>5
  <2> QED
    BY <2>6, Zenon DEF old, new, table
<1>7. ASSUME NEW f \in DOMAIN program
      PROVE  /\ StringAt(message.functions[f].name) = program[f].name
             /\ Decoded(message.functions[f].meta) = EntryNames(program[f].meta)
  BY <1>1, <1>2, <1>7, SpellsDecoded DEF Spelled
<1>8. Decoded(message.meta) = EntryNames(module.meta)
  BY <1>1, SpellsDecoded
<1> QED
  BY <1>6, <1>7, <1>8

\* Before the call nothing is written.
LEMMA InitSpells == Init => Spelling
<1> SUFFICES ASSUME Init PROVE Spelling
  OBVIOUS
<1>1. /\ module \in Modules /\ program = <<>> /\ status = "start"
      /\ DOMAIN funcs = {} /\ module \in ModuleHeader
  BY ConstantsAssumption DEF Init
<1>2. Len(program) = 0 /\ DOMAIN program = {} /\ Len(module.funcs) \in Nat
  BY <1>1 DEF ModuleHeader
<1> QED
  BY <1>1, <1>2 DEF Spelling

\* Whatever module is written, in a message reported complete every string index leads to the
\* string the module holds at that place and every call index to the function called, as long as
\* the strings can be counted with 16 bits.
THEOREM NamesResolved == Spec => []IndicesResolve
<1>1. Init => FullInv /\ Readable /\ Spelling
  <2>1. Init => Readable
    BY DEF Init, Readable, Mirrored, Visible
  <2> QED
    BY <2>1, InitFull, InitSpells
<1>2. FullInv /\ Readable /\ Spelling /\ [Next]_vars => (FullInv /\ Readable /\ Spelling)'
  BY NextFull, NextReadable, NextSpells
<1>3. FullInv /\ Readable /\ Spelling => IndicesResolve
  BY SpellingResolves
<1> QED
  BY <1>1, <1>2, <1>3, PTL DEF Spec

=============================================================================
