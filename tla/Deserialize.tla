---------------------------- MODULE Deserialize ----------------------------
(***************************************************************************)
(* The reader: lib/Translation/Deserialize.cpp rebuilds an MLIR module     *)
(* from a Cap'n Proto message, which any producer may have written.        *)
(*                                                                         *)
(* Signatures come first, then the bodies, in walk order.  A check that    *)
(* throws discards the module ("rejected"); an index that is used without  *)
(* a check leaves the language ("undefined").  What mlir::verify will say  *)
(* of the rebuilt module is accumulated in `verifies` while it grows.      *)
(***************************************************************************)
EXTENDS JeffFormat

CONSTANTS
    Signature,  (* operand and result types of the flat kinds and of the    *)
                (* custom gates                                             *)
    IntType,    (* the type of selectors and loop bounds                    *)
    Files,      (* messages a run starts from                               *)
    U16         (* bound: 2^16 in the code                                  *)

ASSUME SignatureAssumption ==
    /\ Signature \in [FlatKinds \cup {"custom"} -> [ins : Seq(Types), res : Seq(Types)]]
    /\ IntType \in Types
    /\ Files \subseteq Message
    /\ U16 \in Nat \ {0}

\* How many regions an operation of the message has.
RegionCount(it) ==
    CASE it.tag = "for"   -> 1
      [] it.tag = "while" -> 2
      [] OTHER -> Cardinality({r \in DOMAIN it.regions : it.regions[r]})

\* A body is a tree, whoever wrote it.  In walk order: open[n] says of every
\* region that is open after n items, the outermost first, how many regions of
\* its last operation are still to come.
AfterItem(open, it) ==
    CASE it.tag = "enter"      ->
            Append([k \in DOMAIN open |-> IF k < Len(open) THEN open[k] ELSE open[k] - 1], 0)
      [] it.tag = "leave"      -> SubSeq(open, 1, Len(open) - 1)
      [] it.tag \in ScfKinds   -> [open EXCEPT ![Len(open)] = RegionCount(it)]
      [] OTHER                 -> open
WellNested(items) ==
    LET open[n \in 0 .. Len(items)] ==
            IF n = 0 THEN <<>> ELSE AfterItem(open[n - 1], items[n])
    IN /\ items # <<>> /\ open[Len(items)] = <<>>
       /\ \A n \in DOMAIN items :
             LET before == open[n - 1]
             IN /\ n = 1 \/ before # <<>>
                /\ items[n].tag = "enter" <=> n = 1 \/ before[Len(before)] > 0
                /\ items[n].tag = "leave" => items[n].meta = <<>>

ASSUME FilesAssumption ==
    \A m \in Files : \A f \in DOMAIN m.functions :
        m.functions[f].hasBody => WellNested(m.functions[f].items)

VARIABLES
    file,       (* the message                                              *)
    owned,      (* the module rebuilt so far                                *)
    body,       (* the function whose body is read                          *)
    blocks,     (* stack: the blocks under construction                     *)
    bound,      (* ctx.values: index -> SSA value, of the current function  *)
    funcOps,    (* ctx.funcs: index -> function                             *)
    readResult, (* ctx.result                                               *)
    verifies,   (* no rule of the verifier is broken so far                 *)
    reading     (* how the call of deserialize ends                         *)

readerVars == <<owned, body, blocks, bound, funcOps, readResult, verifies, reading>>
readVars == <<file, readerVars>>

----------------------------------------------------------------------------
(* The context.                                                            *)

\* DeserializationContext::deserializeMetadata for the lists ms, in order:
\* nothing is attached once the result is a failure.
Resolvable(meta) == \A i \in DOMAIN meta : meta[i] < Len(file.strings)
Decode(meta) ==
    [i \in DOMAIN meta |-> [name |-> file.strings[meta[i] + 1], sound |-> TRUE]]
Attached(ms) ==
    [k \in DOMAIN ms |->
        IF readResult = "success" /\ \A j \in 1 .. k : Resolvable(ms[j])
        THEN Decode(ms[k]) ELSE <<>>]
ReadMetadata(ms) ==
    readResult' = IF readResult = "failure" \/ \E k \in DOMAIN ms : ~Resolvable(ms[k])
                  THEN "failure" ELSE "success"

\* ctx.values.clear() at the start of a body.
KeepBound == UNCHANGED bound
ClearBound == bound' = [x \in {} |-> <<>>]

Table == file.functions[body].values
Func == owned.funcs[body]
It == file.functions[body].items[Len(Func.items) + 1]
Here == Len(Func.items) + 1
Top == blocks[Len(blocks)]
TypeAt(v) == Func.items[v[2]].res[v[3]].type

\* getValue and setValue for each element of ids: what makes them throw.
Readable(ids) == Range(ids) \subseteq DOMAIN bound
Settable(ids) ==
    /\ Range(ids) \cap DOMAIN bound = {}
    /\ IsInjective(ids)
    /\ \A k \in DOMAIN ids : ids[k] < Len(Table)
ValuesOf(ids) == [k \in DOMAIN ids |-> bound[ids[k]]]
Bind(ids, item) ==
    bound' = [x \in DOMAIN bound \cup Range(ids) |->
                IF x \in DOMAIN bound THEN bound[x] ELSE <<body, item, FirstAt(ids, x)>>]
TableMeta(ids) == [k \in DOMAIN ids |-> Table[ids[k] + 1].meta]
TableTypes(ids) == [k \in DOMAIN ids |-> Table[ids[k] + 1].type]
InTable(ids) == \A k \in DOMAIN ids : ids[k] < Len(Table)

\* Definitions of the given types; the first of them are bound and get metas.
Defs(types, metas) ==
    [k \in DOMAIN types |->
        [type |-> types[k], meta |-> IF k \in DOMAIN metas THEN metas[k] ELSE <<>>]]
Take(s, n) == SubSeq(s, 1, IF n < Len(s) THEN n ELSE Len(s))

\* The verifier: operands visible in the block, of the types ts.
OperandsVerify(vs, ts) ==
    /\ Range(vs) \subseteq Top.scope
    /\ [k \in DOMAIN vs |-> TypeAt(vs[k])] = ts

----------------------------------------------------------------------------
(* The checks of each handler, in the order it makes them: what ends the   *)
(* call, and how.                                                          *)

\* setFunc throws: the index is taken.
FuncIdNeverTaken == FALSE
FuncIdTaken == Len(owned.funcs) % U16 \in DOMAIN funcOps

CallResults(id) == owned.funcs[funcOps[id]].outs

EnterChecks(it) ==
    << <<Len(blocks) = 0 /\ ~file.functions[body].hasOperations, "rejected">>,
       <<Len(blocks) > 0 /\ ~Settable(Take(it.outs, Len(Head(Top.todo)))), "rejected">>,
       <<Len(blocks) > 0 /\ Len(it.outs) > Len(Head(Top.todo)), "undefined">>,
       <<~Settable(it.outs), "rejected">> >>
LeaveChecks(it) == << <<~Readable(it.ins), "rejected">> >>
FlatChecks(it) ==
    LET n == Len(Signature[it.tag].ins)
        m == Len(Signature[it.tag].res)
    IN << <<~Readable(Take(it.ins, n)), "rejected">>,
          <<Len(it.ins) < n, "undefined">>,
          <<~Settable(Take(it.outs, m)), "rejected">>,
          <<Len(it.outs) < m, "undefined">> >>
CustomChecks(it) ==
    << <<it.ref >= Len(file.strings), "undefined">> >> \o FlatChecks(it)
CallChecks(it) ==
    << <<it.ref \notin DOMAIN funcOps, "rejected">>,
       <<~Readable(it.ins), "rejected">> >>
    \o (IF it.ref \notin DOMAIN funcOps THEN <<>> ELSE
        << <<~Settable(Take(it.outs, Len(CallResults(it.ref)))), "rejected">>,
           <<Len(it.outs) > Len(CallResults(it.ref)), "undefined">> >>)
SwitchChecks(it) ==
    << <<it.ins = <<>>, "undefined">>,
       <<~Readable(SubSeq(it.ins, 2, Len(it.ins))), "rejected">>,
       <<~InTable(it.outs), "undefined">>,
       <<~Readable(it.ins), "rejected">> >>
ForChecks(it) ==
    << <<Len(it.ins) < 3, "undefined">>,
       <<~Readable(it.ins), "rejected">> >>
WhileChecks(it) ==
    << <<~Readable(it.ins), "rejected">>,
       <<~InTable(it.outs), "undefined">> >>
FinishChecks(owner) ==
    LET outs == file.functions[body].items[owner].outs
        m == Len(Func.items[owner].res)
    IN << <<~Settable(Take(outs, m)), "rejected">>,
          <<Len(outs) > m, "undefined">> >>
SignatureChecks(func) ==
    LET sources == func.items[1].outs
        targets == func.items[Len(func.items)].ins
        past(ids) == \E k \in DOMAIN ids : ids[k] >= Len(func.values)
    IN << <<~func.hasBody, "rejected">>,
          <<func.hasBody /\ (past(sources) \/ past(targets)), "undefined">>,
          <<func.name >= Len(file.strings), "undefined">>,
          <<FuncIdTaken, "rejected">> >>

\* The outcome of the first check that fails.
Verdict(checks) ==
    LET failing == {i \in DOMAIN checks : checks[i][1]}
    IN IF failing = {} THEN "passed"
       ELSE checks[CHOOSE i \in failing : \A j \in failing : i <= j][2]

----------------------------------------------------------------------------
(* Actions.                                                                *)

ReaderInit ==
    /\ owned = [strings |-> <<>>, meta |-> <<>>, funcs |-> <<>>]
    /\ body = 0
    /\ blocks = <<>>
    /\ bound = [x \in {} |-> <<>>]
    /\ funcOps = [x \in {} |-> 0]
    /\ readResult = "success"
    /\ verifies = TRUE
    /\ reading = "start"

\* deserializeModule up to its first loop.
BeginModule ==
    /\ reading = "start"
    /\ reading' = IF file.hasFunctions THEN "signatures" ELSE "rejected"
    /\ UNCHANGED <<file, owned, body, blocks, bound, funcOps, readResult, verifies>>

NextSignature == file.functions[Len(owned.funcs) + 1]
MoreSignatures == reading = "signatures" /\ Len(owned.funcs) < Len(file.functions)

\* deserializeFunctionSignature: the types come from the value table.
ReadSignature ==
    /\ MoreSignatures
    /\ Verdict(SignatureChecks(NextSignature)) = "passed"
    /\ LET func == NextSignature
           types(ids) == [k \in DOMAIN ids |-> func.values[ids[k] + 1].type]
       IN /\ owned' = [owned EXCEPT !.funcs = Append(@,
                [name  |-> file.strings[func.name + 1],
                 ins   |-> types(func.items[1].outs),
                 outs  |-> types(func.items[Len(func.items)].ins),
                 meta  |-> Attached(<<func.meta>>)[1],
                 items |-> <<>>])]
          /\ ReadMetadata(<<func.meta>>)
          /\ LET id == Len(owned.funcs) % U16
             IN funcOps' = [x \in DOMAIN funcOps \cup {id} |->
                               IF x = id THEN Len(owned.funcs) + 1 ELSE funcOps[x]]
    /\ UNCHANGED <<file, body, blocks, bound, verifies, reading>>

StopAtSignature ==
    /\ MoreSignatures
    /\ Verdict(SignatureChecks(NextSignature)) # "passed"
    /\ reading' = Verdict(SignatureChecks(NextSignature))
    /\ UNCHANGED <<file, owned, body, blocks, bound, funcOps, readResult, verifies>>

\* No block is under construction, and the last one begun is complete.
BetweenBodies ==
    /\ reading \in {"signatures", "bodies"}
    /\ Len(owned.funcs) = Len(file.functions)
    /\ blocks = <<>>
    /\ body # 0 => Func.items # <<>>

\* The loop over the bodies goes on.
MoreBodiesInclusive == body <= Len(file.functions)
MoreBodiesExclusive == body + 1 < Len(file.functions)
MoreBodies == body < Len(file.functions)

\* deserializeModule's second loop and deserializeFunctionBody: the indices
\* of the previous function are forgotten, the entry block is read next.
BeginBody ==
    /\ BetweenBodies
    /\ MoreBodies
    /\ body' = body + 1
    /\ ClearBound
    /\ reading' = "bodies"
    /\ UNCHANGED <<file, owned, blocks, funcOps, readResult, verifies>>

AtFunctionEntry == reading = "bodies" /\ blocks = <<>> /\ Func.items = <<>>
AtRegionEntry == reading = "bodies" /\ blocks # <<>> /\ Top.todo # <<>>
AtOwnerEnd == reading = "bodies" /\ blocks # <<>> /\ Top.todo = <<>> /\ Top.owner # 0
AtItem == reading = "bodies" /\ blocks # <<>> /\ Top.todo = <<>> /\ Top.owner = 0

AddItem(item) == owned' = [owned EXCEPT !.funcs[body].items = Append(@, item)]
NewItem(it, ins, res, meta, ref) ==
    [tag |-> it.tag, ins |-> ins, res |-> res, meta |-> meta, ref |-> ref,
     regions |-> it.regions]

\* The arguments of a new block and its sources; `below` is the stack that
\* stays under the new block.
OpenBlock(types, below) ==
    /\ AddItem(NewItem(It, <<>>, Defs(types, Attached(TableMeta(It.outs))), <<>>, NoName))
    /\ ReadMetadata(TableMeta(It.outs))
    /\ Bind(It.outs, Here)
    /\ blocks' = Append(below,
            [enter |-> Here, scope |-> {<<body, Here, k>> : k \in DOMAIN types},
             last  |-> 0, owner |-> 0, todo |-> <<>>])
    /\ UNCHANGED <<file, body, funcOps, verifies, reading>>

\* deserializeFunctionBody, the entry block.
EnterFunction ==
    /\ AtFunctionEntry
    /\ Verdict(EnterChecks(It)) = "passed"
    /\ OpenBlock(Func.ins, <<>>)

\* deserializeBlock up to its operations.
EnterRegion ==
    /\ AtRegionEntry
    /\ Verdict(EnterChecks(It)) = "passed"
    /\ OpenBlock(Head(Top.todo), [blocks EXCEPT ![Len(blocks)].todo = Tail(@)])

\* A new operation in the current block, with results of the given types;
\* the results and the operation get their metadata now.
AddOp(types, ref) ==
    LET outs == Take(It.outs, Len(types))
        metas == Attached(TableMeta(outs) \o <<It.meta>>)
        ins == ValuesOf(Take(It.ins, IF It.tag = "call" THEN Len(It.ins)
                                     ELSE Len(Signature[It.tag].ins)))
    IN /\ AddItem(NewItem(It, ins, Defs(types, SubSeq(metas, 1, Len(outs))),
                          metas[Len(metas)], ref))
       /\ ReadMetadata(TableMeta(outs) \o <<It.meta>>)
       /\ Bind(outs, Here)
       /\ blocks' = [blocks EXCEPT
              ![Len(blocks)] = [Top EXCEPT !.last = Here,
                  !.scope = Top.scope \cup {<<body, Here, k>> : k \in DOMAIN types}]]
       /\ verifies' = (verifies /\ OperandsVerify(ins,
                          IF It.tag = "call" THEN owned.funcs[funcOps[It.ref]].ins
                          ELSE Signature[It.tag].ins))
       /\ UNCHANGED <<file, body, funcOps, reading>>

\* The handlers of the qubit, qureg, int, float and array instructions.
ReadFlatOp ==
    /\ AtItem /\ It.tag \in FlatKinds
    /\ Verdict(FlatChecks(It)) = "passed"
    /\ AddOp(Signature[It.tag].res, NoName)

\* deserializeCustom.
ReadCustom ==
    /\ AtItem /\ It.tag = "custom"
    /\ Verdict(CustomChecks(It)) = "passed"
    /\ AddOp(Signature[It.tag].res, file.strings[It.ref + 1])

\* deserializeFunc: the result types are the callee's.
ReadCall ==
    /\ AtItem /\ It.tag = "call"
    /\ Verdict(CallChecks(It)) = "passed"
    /\ AddOp(CallResults(It.ref), owned.funcs[funcOps[It.ref]].name)

\* deserializeSwitch, deserializeFor and deserializeWhile up to their first
\* block: the operation is created, its results are bound after its blocks.
OpenScf(resTypes, todo, intOperands) ==
    LET ins == ValuesOf(It.ins)
    IN /\ AddItem(NewItem(It, ins, Defs(resTypes, <<>>), <<>>, NoName))
       /\ blocks' = [blocks EXCEPT
              ![Len(blocks)] = [Top EXCEPT !.last = Here, !.owner = Here, !.todo = todo]]
       /\ verifies' = (verifies /\ Range(ins) \subseteq Top.scope
                                /\ \A i \in intOperands : TypeAt(ins[i]) = IntType)
       /\ UNCHANGED <<file, body, bound, funcOps, readResult, reading>>

InTypes(from) ==
    [k \in 1 .. Len(It.ins) - from + 1 |-> TypeAt(bound[It.ins[from + k - 1]])]

\* A default that the file leaves out stays an empty region.
ReadSwitch ==
    /\ AtItem /\ It.tag = "switch"
    /\ Verdict(SwitchChecks(It)) = "passed"
    /\ OpenScf(TableTypes(It.outs), [r \in 1 .. RegionCount(It) |-> InTypes(2)], {1})

ReadFor ==
    /\ AtItem /\ It.tag = "for"
    /\ Verdict(ForChecks(It)) = "passed"
    /\ OpenScf(InTypes(4), << <<TypeAt(bound[It.ins[1]])>> \o InTypes(4) >>, {1, 2, 3})

ReadWhile ==
    /\ AtItem /\ It.tag = "while"
    /\ Verdict(WhileChecks(It)) = "passed"
    /\ OpenScf(TableTypes(It.outs), <<InTypes(1), TableTypes(It.outs)>>, {})

\* deserializeBlock after its operations: the targets, the terminator, the
\* metadata of the region.  The verifier compares the operands of a yield with
\* the results of a switch only, those of a return with the signature.
LeaveRegion ==
    /\ AtItem /\ It.tag = "leave"
    /\ Verdict(LeaveChecks(It)) = "passed"
    /\ LET meta == file.functions[body].items[Top.enter].meta
           ins == ValuesOf(It.ins)
           types == [k \in DOMAIN ins |-> TypeAt(ins[k])]
           outer == blocks[Len(blocks) - 1]
           expected == IF Len(blocks) = 1 THEN Func.outs
                       ELSE TypesOf(Func.items[outer.owner].res)
           compared == Len(blocks) = 1 \/ Func.items[outer.owner].tag = "switch"
       IN /\ owned' = [owned EXCEPT !.funcs[body].items =
                Append([@ EXCEPT ![Top.enter].meta = Attached(<<meta>>)[1]],
                       NewItem(It, ins, <<>>, <<>>, NoName))]
          /\ ReadMetadata(<<meta>>)
          /\ verifies' = (verifies /\ Range(ins) \subseteq Top.scope
                                   /\ (compared => types = expected))
    /\ blocks' = SubSeq(blocks, 1, Len(blocks) - 1)
    /\ UNCHANGED <<file, body, bound, funcOps, reading>>

\* std::prev(builder.getInsertionPoint()): the last operation of the block,
\* not the last one created.
LastCreated == Len(Func.items)
LastOperation == Top.last

\* The end of deserializeSwitch, deserializeFor and deserializeWhile, and the
\* metadata of the operation, which deserializeOperations finds as the last
\* one of the block.
FinishScf ==
    /\ AtOwnerEnd
    /\ Verdict(FinishChecks(Top.owner)) = "passed"
    /\ LET it == file.functions[body].items[Top.owner]
           types == TypesOf(Func.items[Top.owner].res)
           metas == Attached(TableMeta(it.outs) \o <<it.meta>>)
       IN /\ owned' = [owned EXCEPT !.funcs[body].items =
                [@ EXCEPT ![Top.owner].res = Defs(types, SubSeq(metas, 1, Len(it.outs))),
                          ![LastOperation].meta = metas[Len(metas)]]]
          /\ ReadMetadata(TableMeta(it.outs) \o <<it.meta>>)
          /\ Bind(it.outs, Top.owner)
          /\ blocks' = [blocks EXCEPT
                ![Len(blocks)] = [Top EXCEPT !.owner = 0,
                    !.scope = Top.scope \cup {<<body, Top.owner, k>> : k \in DOMAIN types}]]
    /\ UNCHANGED <<file, body, funcOps, verifies, reading>>

ItemChecks(it) ==
    CASE it.tag \in FlatKinds -> FlatChecks(it)
      [] it.tag = "custom"    -> CustomChecks(it)
      [] it.tag = "call"      -> CallChecks(it)
      [] it.tag = "switch"    -> SwitchChecks(it)
      [] it.tag = "for"       -> ForChecks(it)
      [] it.tag = "while"     -> WhileChecks(it)
      [] it.tag = "leave"     -> LeaveChecks(it)
CurrentChecks ==
    IF AtFunctionEntry \/ AtRegionEntry THEN EnterChecks(It)
    ELSE IF AtOwnerEnd THEN FinishChecks(Top.owner)
    ELSE ItemChecks(It)

\* A check of a body fails.
StopInBody ==
    /\ AtFunctionEntry \/ AtRegionEntry \/ AtOwnerEnd \/ AtItem
    /\ Verdict(CurrentChecks) # "passed"
    /\ reading' = Verdict(CurrentChecks)
    /\ UNCHANGED <<file, owned, body, blocks, bound, funcOps, readResult, verifies>>

\* deserializeModule after its loops: the module's metadata, and nothing is
\* returned if any metadata failed; the strings; the verifier.
FinishModule ==
    /\ BetweenBodies
    /\ body = Len(file.functions)
    /\ ReadMetadata(<<file.meta>>)
    /\ owned' = [owned EXCEPT !.meta = Attached(<<file.meta>>)[1], !.strings = file.strings]
    /\ LET unique == \A f, g \in DOMAIN owned.funcs :
                        owned.funcs[f].name = owned.funcs[g].name => f = g
       IN reading' = IF readResult' = "success" /\ verifies /\ unique
                     THEN "module" ELSE "rejected"
    /\ UNCHANGED <<file, body, blocks, bound, funcOps, verifies>>

ReaderNext ==
    \/ BeginModule
    \/ ReadSignature \/ StopAtSignature
    \/ BeginBody \/ EnterFunction \/ EnterRegion \/ LeaveRegion
    \/ ReadFlatOp \/ ReadCustom \/ ReadCall
    \/ ReadSwitch \/ ReadFor \/ ReadWhile \/ FinishScf
    \/ StopInBody \/ FinishModule

Init == file \in Files /\ ReaderInit

\* The walk is one call that runs to its end.
Spec == Init /\ [][ReaderNext]_readVars /\ WF_readVars(ReaderNext)

----------------------------------------------------------------------------
(* Properties.                                                             *)

Block == [enter : Nat \ {0}, scope : SUBSET Value, last : Nat, owner : Nat,
          todo : Seq(Seq(Types))]
Function == [name : Names, ins : Seq(Types), outs : Seq(Types), meta : Metadata,
             items : Seq(Item)]

\* Every variable holds a value of its kind.
ReaderTypeOK ==
    /\ file \in Message
    /\ owned \in [strings : Seq(Names), meta : Metadata, funcs : Seq(Function)]
    /\ body \in 0 .. Len(owned.funcs)
    /\ blocks \in Seq(Block)
    /\ DOMAIN bound \subseteq Nat /\ Range(bound) \subseteq Value
    /\ DOMAIN funcOps \subseteq 0 .. U16 - 1 /\ Range(funcOps) \subseteq DOMAIN owned.funcs
    /\ readResult \in {"success", "failure"}
    /\ verifies \in BOOLEAN
    /\ reading \in {"start", "signatures", "bodies", "module", "rejected", "undefined"}

\* An operand of the rebuilt module is the definition that carries the
\* operand's index in the same function of the message, and comes before its
\* use: wherever the indices of functions and regions overlap, and although
\* the results of an operation with regions are bound after its regions.
OperandsResolve ==
    \A f \in DOMAIN owned.funcs : \A i \in DOMAIN owned.funcs[f].items :
        LET ins == owned.funcs[f].items[i].ins
        IN \A k \in DOMAIN ins :
              /\ ins[k][1] = f
              /\ ins[k][2] < i
              /\ file.functions[f].items[ins[k][2]].outs[ins[k][3]]
                    = file.functions[f].items[i].ins[k]

\* In a module that is returned every owner carries the metadata the message
\* gives it: an operation also when nested operations were created after it,
\* a region although it is annotated after its terminator, a value also when
\* the value was numbered long before it was bound.
MetadataPlaced ==
    reading = "module" =>
        /\ owned.meta = Decode(file.meta)
        /\ \A f \in DOMAIN owned.funcs :
              /\ owned.funcs[f].meta = Decode(file.functions[f].meta)
              /\ \A i \in DOMAIN owned.funcs[f].items :
                    LET new == owned.funcs[f].items[i]
                        old == file.functions[f].items[i]
                    IN /\ new.meta = Decode(old.meta)
                       /\ \A k \in DOMAIN old.outs \cap DOMAIN new.res :
                             new.res[k].meta
                                = Decode(file.functions[f].values[old.outs[k] + 1].meta)

\* A module that is returned has a function for every function of the message,
\* complete, and a call in it calls the function the message calls, also one
\* that comes later.
CallsResolve ==
    reading = "module" =>
        /\ Len(owned.funcs) = Len(file.functions)
        /\ \A f \in DOMAIN owned.funcs :
              /\ Len(owned.funcs[f].items) = Len(file.functions[f].items)
              /\ \A i \in DOMAIN owned.funcs[f].items :
                    LET new == owned.funcs[f].items[i]
                    IN new.tag = "call" =>
                         /\ new.ref = owned.funcs[file.functions[f].items[i].ref + 1].name
                         /\ TypesOf(new.res)
                               = owned.funcs[file.functions[f].items[i].ref + 1].outs

\* What JeffOps.td:2216 says of the body of a for in a module that is returned,
\* which is a module the verifier accepts: the operand types of its yield
\* match in_values.
YieldsMatch ==
    reading = "module" =>
        \A f \in DOMAIN owned.funcs : \A i \in DOMAIN owned.funcs[f].items :
            LET items == owned.funcs[f].items
            IN items[i].tag = "for" =>
                 LET yield == CHOOSE j \in DOMAIN items :
                                /\ j > i /\ items[j].tag = "leave"
                                /\ \A m \in i + 1 .. j :
                                      Cardinality({n \in i + 1 .. m : items[n].tag = "enter"})
                                      > Cardinality({n \in i + 1 .. m : items[n].tag = "leave"})
                                      \/ m = j
                                /\ Cardinality({n \in i + 1 .. j : items[n].tag = "enter"})
                                   = Cardinality({n \in i + 1 .. j : items[n].tag = "leave"})
                 IN [k \in DOMAIN items[yield].ins |->
                        LET v == items[yield].ins[k] IN items[v[2]].res[v[3]].type]
                    = TypesOf(items[i].res)

\* The call ends.
ReaderTerminates == <>(reading \in {"module", "rejected", "undefined"})
=============================================================================
