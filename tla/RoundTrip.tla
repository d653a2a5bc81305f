----------------------------- MODULE RoundTrip -----------------------------
(***************************************************************************)
(* A module is written by Serialize and the message is read back by        *)
(* Deserialize: the reader's file is the writer's message, and reading     *)
(* starts when serialize reports success.                                  *)
(***************************************************************************)
EXTENDS Serialize

CONSTANTS
    Signature,  (* operand and result types of the flat kinds               *)
    IntType,    (* the type of selectors and loop bounds                    *)
    Nothing     (* no module                                                *)

VARIABLES owned, body, blocks, bound, funcOps, readResult, verifies, reading

Reader == INSTANCE Deserialize WITH file <- message, Files <- {}

ASSUME TablesAssumption ==
    /\ Signature \in [FlatKinds \cup {"custom"} -> [ins : Seq(Types), res : Seq(Types)]]
    /\ IntType \in Types
    /\ Nothing \notin [strings : Seq(Names), meta : Metadata, funcs : Seq(Reader!Function)]

\* The operations the walk meets satisfy the verifier.  Operands and results of
\* the others are those of their handlers; only a gate and a call name
\* something, only structured control flow has regions.
PlainVerifies(s) ==
    /\ s.tag \in DOMAIN Signature =>
          s.ins = Signature[s.tag].ins /\ TypesOf(s.res) = Signature[s.tag].res
    /\ s.tag \notin {"custom", "call"} => s.ref = NoName
    /\ s.tag \notin ScfKinds => s.regions = <<>>
SwitchVerifies(s) ==
    s.tag = "switch" =>
        /\ s.ins # <<>>
        /\ \A r \in DOMAIN s.regions : s.regions[r].block =>
              /\ TypesOf(s.regions[r].args) = Tail(s.ins)
              /\ s.regions[r].yields = TypesOf(s.res)
ForVerifies(s) ==
    s.tag = "for" =>
        /\ Len(s.ins) >= 3 /\ Len(s.regions) = 1
        /\ s.ins[2] = s.ins[1] /\ s.ins[3] = s.ins[1]
        /\ TypesOf(s.res) = SubSeq(s.ins, 4, Len(s.ins))
        /\ TypesOf(s.regions[1].args) = <<s.ins[1]>> \o SubSeq(s.ins, 4, Len(s.ins))
WhileVerifies(s) ==
    s.tag = "while" =>
        /\ Len(s.regions) = 2
        /\ TypesOf(s.regions[1].args) = s.ins
        /\ TypesOf(s.regions[2].args) = TypesOf(s.res)

ASSUME VerifiedAssumption ==
    \A s \in OpShapes :
        PlainVerifies(s) /\ SwitchVerifies(s) /\ ForVerifies(s) /\ WhileVerifies(s)

readerVars == <<owned, body, blocks, bound, funcOps, readResult, verifies, reading>>

RoundTripInit == Init /\ Reader!ReaderInit

Write == Next /\ UNCHANGED readerVars
Read == status = "success" /\ Reader!ReaderNext /\ UNCHANGED vars

RoundTripSpec ==
    /\ RoundTripInit
    /\ [][Write \/ Read]_<<vars, readerVars>>
    /\ WF_vars(Write) /\ WF_readerVars(Read)

----------------------------------------------------------------------------
(* Properties.                                                             *)

\* The module the writer walked, as the reader would hold it.
Signed(f) ==
    [name  |-> program[f].name,
     ins   |-> TypesOf(program[f].items[1].res),
     outs  |-> module.funcs[f].region.yields,
     meta  |-> program[f].meta,
     items |-> program[f].items]
Walked ==
    [strings |-> strings, meta |-> module.meta, funcs |-> [f \in DOMAIN program |-> Signed(f)]]

\* The refinement mapping: a module counts as sent when its message is
\* complete, as received when deserialize returns it.
Outcome ==
    CASE reading = "module" -> "delivered"
      [] reading # "module" /\ status = "success" -> "sent"
      [] status \in {"failure", "fatal", "undefined"} -> "refused"
      [] OTHER -> "pending"
TheExchange ==
    INSTANCE Exchange WITH
        sent <- IF status = "success" THEN Walked ELSE Nothing,
        received <- IF reading = "module" THEN owned ELSE Nothing,
        outcome <- Outcome

\* Writing and reading back delivers the module unchanged: functions, their
\* order and signatures, operations, operands, nesting, types and metadata at
\* every owner; and every message of the writer is accepted.
ImplementsExchange == TheExchange!ExchangeSpec

\* The string table is stable: reading back and writing again would add nothing to it, because every
\* name that occurs is in it, that of a function, a gate or an entry of any owner's metadata, and it
\* keeps the strings the module had at their places.
MetaNames(meta) == Range(EntryNames(meta))
ItemNames(item) ==
    MetaNames(item.meta) \cup ({item.ref} \ {NoName})
        \cup UNION {MetaNames(item.res[k].meta) : k \in DOMAIN item.res}
FunctionNames(func) ==
    {func.name} \cup MetaNames(func.meta)
        \cup UNION {ItemNames(func.items[i]) : i \in DOMAIN func.items}
StringsStable ==
    reading = "module" =>
        /\ SubSeq(owned.strings, 1, Len(module.strings)) = module.strings
        /\ MetaNames(owned.meta) \subseteq Range(owned.strings)
        /\ \A f \in DOMAIN owned.funcs : FunctionNames(owned.funcs[f]) \subseteq Range(owned.strings)
=============================================================================
