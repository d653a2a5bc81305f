----------------------------- MODULE Serialize -----------------------------
(***************************************************************************)
(* The writer: lib/Translation/Serialize.cpp walks an MLIR module that     *)
(* holds a jeff program and encodes it as a Cap'n Proto message.           *)
(*                                                                         *)
(* The body of the module is produced while it is visited: the operation   *)
(* the walk meets next is any shape of OpShapes over operands that are     *)
(* visible at that point, as the verifier requires.  `program` records     *)
(* what was visited.                                                       *)
(***************************************************************************)
EXTENDS JeffFormat

CONSTANTS
    Modules,    (* module headers a run starts from                         *)
    OpShapes,   (* operations the walk may meet                             *)
    MaxOps,     (* bound: operations of the module                          *)
    U16         (* bound: 2^16 in the code, the range of a string or        *)
                (* function index                                           *)

RegionShape ==
    [block : BOOLEAN, args : Seq(Def), meta : Metadata, yields : Seq(Types)]
FuncShape == [name : Names, meta : Metadata, region : RegionShape]
OpShape ==
    [tag : Tags \ Bounds, ins : Seq(Types), res : Seq(Def), meta : Metadata,
     ref : Names \cup {NoName}, regions : Seq(RegionShape)]
ModuleHeader == [strings : Seq(Names), funcs : Seq(FuncShape), meta : Metadata]

ASSUME ConstantsAssumption ==
    /\ Modules \subseteq ModuleHeader
    /\ OpShapes \subseteq OpShape
    /\ MaxOps \in Nat
    /\ U16 \in Nat \ {0}

\* A ModuleOp is a symbol table: functions have different names.
ASSUME SymbolsAssumption ==
    \A m \in Modules : IsInjective([f \in DOMAIN m.funcs |-> m.funcs[f].name])

VARIABLES
    module,     (* the ModuleOp: jeff.strings, its functions, its metadata  *)
    program,    (* the part of the module the walk has visited              *)
    frames,     (* stack: an operation whose regions are being written, and *)
                (* the values visible in the block that holds it            *)
    values,     (* ctx.values: SSA value -> index, of the current function  *)
    funcs,      (* ctx.funcs: symbol -> function index                      *)
    stringIds,  (* ctx.stringIds: string -> index                           *)
    strings,    (* ctx.strings                                              *)
    result,     (* ctx.result                                               *)
    message,    (* the message built so far                                 *)
    status      (* how the call of serialize ends                           *)

ctx == <<values, funcs, stringIds, strings, result>>
vars == <<module, program, frames, ctx, message, status>>

----------------------------------------------------------------------------
(* The context.                                                            *)

\* A position in the string table as the message stores it: a uint16_t.
StringIdUnbounded(n) == n
StringId(n) == n % U16

\* The string table starts as the list jeff.strings, repetitions included.
StringsOnce == FirstUses({}, module.strings)
InitialStrings == module.strings

\* ctx.values.clear() at the start of a function.
KeepValues == UNCHANGED values
ClearValues == values' = [v \in {} |-> 0]

\* The names a call of serializeMetadata makes known: none when the result is
\* already a failure (early return) or when the storage is malformed.
Registered(meta) ==
    IF result = "failure" \/ meta = Malformed THEN <<>> ELSE EntryNames(meta)

\* What ctx.result is after a call: a failure is kept.
LatestResult(meta) ==
    IF meta = Malformed \/ \E i \in DOMAIN meta : ~meta[i].sound
    THEN "failure" ELSE "success"
ResultAfter(meta) ==
    IF \/ result = "failure"
       \/ meta = Malformed
       \/ \E i \in DOMAIN meta : ~meta[i].sound
    THEN "failure" ELSE "success"

\* SerializationContext::serializeMetadata.  An unsound payload is noticed
\* only after the names of the list were registered.
SerializeMetadata(meta) ==
    /\ stringIds' = [n \in DOMAIN stringIds \cup Range(Registered(meta)) |->
                        IF n \in DOMAIN stringIds
                        THEN stringIds[n]
                        ELSE StringId(Len(strings)
                                + Rank(DOMAIN stringIds, Registered(meta), n))]
    /\ strings' = strings \o FirstUses(DOMAIN stringIds, Registered(meta))
    /\ result' = ResultAfter(meta)

\* The name indices written; a message whose encoding failed is discarded.
WrittenMeta(meta) ==
    [i \in DOMAIN Registered(meta) |-> stringIds'[Registered(meta)[i]]]

----------------------------------------------------------------------------
(* Items.                                                                  *)

Cur == Len(program)
Top == frames[Len(frames)]
Here == Len(program[Cur].items) + 1
DefOf(v) == program[v[1]].items[v[2]].res[v[3]]

\* The values the next item defines when its definitions are res.
Outs(res) == [k \in DOMAIN res |-> <<Cur, Here, k>>]

\* SerializationContext::getValueId for each element of the list vs, in order.
GetValueIdsAfterInsertion(vs) == values' = Enter(values, vs, Cardinality(DOMAIN values) + 1)
GetValueIds(vs) == values' = Enter(values, vs, Cardinality(DOMAIN values))

\* One item of the walk: metadata, then inputs, then outputs.
WriteItem(tag, ins, res, meta, ref, refId, regions) ==
    /\ SerializeMetadata(meta)
    /\ GetValueIds(ins \o Outs(res))
    /\ program' = [program EXCEPT ![Cur].items = Append(@,
            [tag |-> tag, ins |-> ins, res |-> res, meta |-> meta,
             ref |-> ref, regions |-> regions])]
    /\ message' = [message EXCEPT !.functions[Cur].items = Append(@,
            [tag     |-> tag,
             ins     |-> [i \in DOMAIN ins |-> values'[ins[i]]],
             outs    |-> [k \in DOMAIN res |-> values'[<<Cur, Here, k>>]],
             meta    |-> WrittenMeta(meta),
             ref     |-> refId,
             regions |-> regions])]

\* The operand lists the verifier allows here for operand types ts.
Operands(ts) ==
    {s \in [DOMAIN ts -> Top.scope] : \A i \in DOMAIN ts : DefOf(s[i]).type = ts[i]}

InBlock == status = "running" /\ Len(frames) > 1 /\ Top.todo = <<>>
OpItems ==
    UNION {{<<f, i>> : i \in {j \in DOMAIN program[f].items :
                                program[f].items[j].tag \notin Bounds}} : f \in DOMAIN program}
AtOperation == InBlock /\ Cardinality(OpItems) < MaxOps

\* The operation s with operands ins; its regions are written next.
SerializeOp(s, ins, refId) ==
    /\ WriteItem(s.tag, ins, s.res, s.meta, s.ref, refId,
                 [r \in DOMAIN s.regions |-> s.regions[r].block])
    /\ frames' = [frames EXCEPT
                    ![Len(frames)] = [scope  |-> @.scope \cup Range(Outs(s.res)),
                                      todo   |-> s.regions,
                                      yields |-> @.yields]]
    /\ UNCHANGED <<module, funcs, status>>

----------------------------------------------------------------------------
(* Actions.                                                                *)

Init ==
    /\ module \in Modules
    /\ program = <<>>
    /\ frames = <<>>
    /\ values = [v \in {} |-> 0]
    /\ funcs = [n \in {} |-> 0]
    /\ stringIds = [n \in {} |-> 0]
    /\ strings = <<>>
    /\ result = "success"
    /\ message = [hasFunctions |-> FALSE, functions |-> <<>>, strings |-> <<>>, meta |-> <<>>]
    /\ status = "start"

\* serializeModule up to its loop over the functions: the context is built
\* from jeff.strings (a string listed twice keeps its last index) and every
\* function gets its index before any body is written.
SerializeModule ==
    /\ status = "start"
    /\ status' = "running"
    /\ strings' = InitialStrings
    /\ stringIds' = [n \in Range(module.strings) |->
            StringId((CHOOSE i \in DOMAIN module.strings :
                /\ module.strings[i] = n
                /\ \A j \in DOMAIN module.strings : module.strings[j] = n => j <= i) - 1)]
    /\ funcs' = [n \in {module.funcs[f].name : f \in DOMAIN module.funcs} |->
            ((CHOOSE f \in DOMAIN module.funcs : module.funcs[f].name = n) - 1) % U16]
    /\ message' = [message EXCEPT !.hasFunctions = TRUE]
    /\ UNCHANGED <<module, program, frames, values, result>>

\* The body of the current function is written; its values table is being
\* written, one entry per index.
InTable == status = "running" /\ Len(frames) = 1 /\ Top.todo = <<>>
TableFull == Len(message.functions[Cur].values) = Cardinality(DOMAIN values)
BetweenFunctions ==
    status = "running" /\ (frames = <<>> \/ (InTable /\ TableFull))

\* serializeModule / serializeFunction: the name is looked up, the indices of
\* the previous function are forgotten, the body is the region written next.
BeginFunction ==
    /\ BetweenFunctions
    /\ Cur < Len(module.funcs)
    /\ LET func == module.funcs[Cur + 1]
       IN /\ func.name \in DOMAIN stringIds
          /\ ClearValues
          /\ SerializeMetadata(func.meta)
          /\ program' = Append(program,
                [name |-> func.name, meta |-> func.meta, items |-> <<>>])
          /\ message' = [message EXCEPT !.functions = Append(@,
                [name   |-> stringIds[func.name],
                 meta   |-> WrittenMeta(func.meta),
                 hasBody |-> TRUE, hasOperations |-> TRUE,
                 items  |-> <<>>, values |-> <<>>])]
          /\ frames' = <<[scope |-> {}, todo |-> <<func.region>>, yields |-> <<>>]>>
    /\ UNCHANGED <<module, funcs, status>>

\* getStringId does not find the function's name: report_fatal_error.
FunctionNameMissing ==
    /\ BetweenFunctions
    /\ Cur < Len(module.funcs)
    /\ module.funcs[Cur + 1].name \notin DOMAIN stringIds
    /\ status' = "fatal"
    /\ UNCHANGED <<module, program, frames, ctx, message>>

\* First half of serializeRegion and of the body of serializeFunction:
\* metadata and sources.
EnterRegion ==
    /\ status = "running"
    /\ frames # <<>> /\ Top.todo # <<>>
    /\ LET region == Head(Top.todo)
       IN /\ region.block
          /\ WriteItem("enter", <<>>, region.args, region.meta, NoName, 0, <<>>)
          /\ frames' = Append(
                [frames EXCEPT ![Len(frames)].todo = Tail(@)],
                [scope  |-> Range(Outs(region.args)),
                 todo   |-> <<>>,
                 yields |-> region.yields])
    /\ UNCHANGED <<module, funcs, status>>

\* region.front() of a region without a block (a switch without a default, a
\* function that is only declared): undefined behaviour, nothing is promised
\* from here on.
EnterAbsentRegion ==
    /\ status = "running"
    /\ frames # <<>> /\ Top.todo # <<>>
    /\ ~Head(Top.todo).block
    /\ status' = "undefined"
    /\ UNCHANGED <<module, program, frames, ctx, message>>

\* Operations without regions and without references: the handlers of the
\* qubit, qureg, int, float and array dialect parts.
SerializeFlatOp ==
    /\ AtOperation
    /\ \E s \in OpShapes : \E ins \in Operands(s.ins) :
          s.tag \in FlatKinds /\ SerializeOp(s, ins, 0)

\* serializeCustom: the gate's name is looked up after the metadata of the
\* operation registered its names.
SerializeCustom ==
    /\ AtOperation
    /\ \E s \in OpShapes : \E ins \in Operands(s.ins) :
          /\ s.tag = "custom"
          /\ s.ref \in DOMAIN stringIds \cup Range(Registered(s.meta))
          /\ SerializeOp(s, ins, stringIds'[s.ref])

\* getStringId does not find the gate's name: report_fatal_error.
CustomNameMissing ==
    /\ AtOperation
    /\ \E s \in OpShapes : \E ins \in Operands(s.ins) :
          /\ s.tag = "custom"
          /\ s.ref \notin DOMAIN stringIds \cup Range(Registered(s.meta))
    /\ status' = "fatal"
    /\ UNCHANGED <<module, program, frames, ctx, message>>

\* serializeCall.  The verifier has matched the call with its callee, which
\* may be a function whose body is written later.
SerializeCall ==
    /\ AtOperation
    /\ \E s \in OpShapes : \E ins \in Operands(s.ins) :
       \E f \in DOMAIN module.funcs :
          /\ s.tag = "call" /\ s.ref = module.funcs[f].name
          /\ s.ins = TypesOf(module.funcs[f].region.args)
          /\ TypesOf(s.res) = module.funcs[f].region.yields
          /\ SerializeOp(s, ins, funcs[s.ref])

\* serializeSwitch, serializeFor, serializeWhile up to their first region:
\* the results are numbered before the regions are visited.
SerializeScf ==
    /\ AtOperation
    /\ \E s \in OpShapes : \E ins \in Operands(s.ins) :
          s.tag \in ScfKinds /\ SerializeOp(s, ins, 0)

\* Second half of serializeRegion and of the body of serializeFunction: the
\* operands of the terminator are the targets.
LeaveRegion ==
    /\ InBlock
    /\ \E ins \in Operands(Top.yields) :
          WriteItem("leave", ins, <<>>, <<>>, NoName, 0, <<>>)
    /\ frames' = SubSeq(frames, 1, Len(frames) - 1)
    /\ UNCHANGED <<module, funcs, status>>

\* A loop over the table that does not advance.
SerializeValueAgain ==
    /\ InTable /\ ~TableFull
    /\ UNCHANGED vars

\* serializeFunction, one turn of the loop over the values table: the value
\* that has this index, its type and its metadata.
SerializeValue ==
    /\ InTable /\ ~TableFull
    /\ LET id == Len(message.functions[Cur].values)
           def == DefOf(CHOOSE v \in DOMAIN values : values[v] = id)
       IN /\ SerializeMetadata(def.meta)
          /\ message' = [message EXCEPT !.functions[Cur].values =
                Append(@, [type |-> def.type, meta |-> WrittenMeta(def.meta)])]
    /\ UNCHANGED <<module, program, frames, values, funcs, status>>

\* The strings the message gets: those known once the metadata of the module
\* is written.
StringsBeforeMetadata == strings
WrittenStrings == strings'

\* serializeModule after its loop: the module's metadata, then the string
\* table, written last because metadata registers names.
FinishModule ==
    /\ BetweenFunctions
    /\ Cur = Len(module.funcs)
    /\ SerializeMetadata(module.meta)
    /\ message' = [message EXCEPT !.strings = WrittenStrings, !.meta = WrittenMeta(module.meta)]
    /\ status' = result'
    /\ UNCHANGED <<module, program, frames, values, funcs>>

Next ==
    \/ SerializeModule
    \/ BeginFunction \/ FunctionNameMissing
    \/ EnterRegion \/ EnterAbsentRegion \/ LeaveRegion
    \/ SerializeFlatOp \/ SerializeCustom \/ CustomNameMissing
    \/ SerializeCall \/ SerializeScf
    \/ SerializeValue \/ FinishModule

\* The walk is one call that runs to its end.
Spec == Init /\ [][Next]_vars /\ WF_vars(Next)

----------------------------------------------------------------------------
(* Properties.                                                             *)

\* Every variable holds a value of its kind.
TypeOK ==
    /\ module \in ModuleHeader
    /\ program \in Seq([name : Names, meta : Metadata, items : Seq(Item)])
    /\ frames \in Seq([scope : SUBSET Value, todo : Seq(RegionShape), yields : Seq(Types)])
    /\ DOMAIN values \subseteq Value /\ Range(values) \subseteq Nat
    /\ DOMAIN funcs \subseteq Names /\ Range(funcs) \subseteq 0 .. U16 - 1
    /\ DOMAIN stringIds \subseteq Names /\ Range(stringIds) \subseteq 0 .. U16 - 1
    /\ strings \in Seq(Names)
    /\ result \in {"success", "failure"}
    /\ message \in Message
    /\ status \in {"start", "running", "success", "failure", "fatal", "undefined"}

\* The indices of the current function's values are 0 .. n-1, each used once:
\* the loop that turns ctx.values into an array of n slots (values[pair.second]
\* = pair.first) leaves no slot empty and overwrites none.
ValueIdsDense == Dense(values)

\* What the reader needs of a function in the message, from any producer:
\* an index is defined by one source or output only, it is defined before an
\* input or target uses it, and when the function is complete its table has
\* exactly one entry for every index.
DefinedBy(f, n) == UNION {Range(message.functions[f].items[j].outs) : j \in 1 .. n}
MessageReadable ==
    \A f \in DOMAIN message.functions :
        LET items == message.functions[f].items
        IN /\ \A i \in DOMAIN items :
                 /\ Range(items[i].ins) \subseteq DefinedBy(f, i - 1)
                 /\ Range(items[i].outs) \cap DefinedBy(f, i - 1) = {}
                 /\ \A j, k \in DOMAIN items[i].outs :
                       items[i].outs[j] = items[i].outs[k] => j = k
           /\ (f < Cur \/ status \in {"success", "failure"}) =>
                 DefinedBy(f, Len(items)) = 0 .. Len(message.functions[f].values) - 1

\* In a message that was reported complete, every string index leads to the
\* string the module holds at that place, and every call index to the
\* function called, wherever jeff.strings repeats strings, metadata adds
\* names, or the callee is written after the call; as long as the indices of
\* 16 bits suffice.
StringAt(i) == IF i < Len(message.strings) THEN message.strings[i + 1] ELSE NoName
Decoded(meta) == [i \in DOMAIN meta |-> StringAt(meta[i])]
IndicesResolve ==
    (status = "success" /\ Len(message.strings) <= U16) =>
        /\ Decoded(message.meta) = EntryNames(module.meta)
        /\ \A f \in DOMAIN program :
              LET func == message.functions[f]
              IN /\ StringAt(func.name) = program[f].name
                 /\ Decoded(func.meta) = EntryNames(program[f].meta)
                 /\ \A i \in DOMAIN func.items :
                       LET old == program[f].items[i]
                           new == func.items[i]
                       IN /\ Decoded(new.meta) = EntryNames(old.meta)
                          /\ old.tag = "custom" => StringAt(new.ref) = old.ref
                          /\ old.tag = "call" => program[new.ref + 1].name = old.ref
                          /\ \A k \in DOMAIN old.res :
                                Decoded(func.values[new.outs[k] + 1].meta)
                                    = EntryNames(old.res[k].meta)

\* A call that runs to its end reports a failure exactly when some metadata of
\* the module is flawed, wherever it was met: the walk goes on after a flaw,
\* and nothing it does later may turn the result back.
Flawed(meta) == meta = Malformed \/ \E i \in DOMAIN meta : ~meta[i].sound
SomeMetadataFlawed ==
    \/ Flawed(module.meta)
    \/ \E f \in DOMAIN program :
          \/ Flawed(program[f].meta)
          \/ \E i \in DOMAIN program[f].items :
                \/ Flawed(program[f].items[i].meta)
                \/ \E k \in DOMAIN program[f].items[i].res :
                      Flawed(program[f].items[i].res[k].meta)
FailureReported ==
    status \in {"success", "failure"} => (status = "failure" <=> SomeMetadataFlawed)

\* The call ends.
Terminates == <>(status \notin {"start", "running"})

\* What Serialize.hpp:13 says of every entry point: success if serialization
\* completed, failure after an error has been diagnosed; a call does not abort
\* the process.
FailureIsDiagnosed == status # "fatal"

\* What JeffOps.td:2112 says of a switch: the default region is optional, so a
\* switch without one can be written.
DefaultIsOptional == status # "undefined"
=============================================================================
