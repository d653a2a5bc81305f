----------------------------- MODULE JeffFormat -----------------------------
(***************************************************************************)
(* The two representations of a jeff program that lib/Translation converts *)
(* into each other: the MLIR module and the Cap'n Proto message.           *)
(*                                                                         *)
(* Both are trees that writer and reader walk depth first, so a function   *)
(* body is represented by its items in walk order: "enter" and "leave"     *)
(* bound a region (its block arguments, its terminator), the other items   *)
(* are operations.  An SSA value is named <<f, i, k>>, the k-th definition *)
(* of item i of function f; in the message a value is an index.            *)
(***************************************************************************)
EXTENDS Numbering

CONSTANTS
    Names,      (* strings: symbols, custom gate names, metadata names      *)
    NoName,     (* an operation that refers to nothing                      *)
    Types,      (* value types                                              *)
    Malformed,  (* metadata storage getMetadata rejects                     *)
    FlatKinds   (* instructions without regions and without references      *)

ScfKinds == {"switch", "for", "while"}
Bounds == {"enter", "leave"}
Tags == FlatKinds \cup {"custom", "call"} \cup ScfKinds \cup Bounds

ASSUME FormatAssumption ==
    /\ NoName \notin Names
    /\ FlatKinds \cap ({"custom", "call"} \cup ScfKinds \cup Bounds) = {}

\* One metadata entry; `sound` says whether its payload can be re-encoded.
Entry == [name : Names, sound : BOOLEAN]
Metadata == {Malformed} \cup Seq(Entry)
EntryNames(meta) == [i \in DOMAIN meta |-> meta[i].name]

\* The MLIR module.
Value == (Nat \ {0}) \X (Nat \ {0}) \X (Nat \ {0})
Def == [type : Types, meta : Metadata]
Item == [tag : Tags, ins : Seq(Value), res : Seq(Def), meta : Metadata,
         ref : Names \cup {NoName}, regions : Seq(BOOLEAN)]
TypesOf(defs) == [k \in DOMAIN defs |-> defs[k].type]

\* The message.  `regions` says which regions of an operation are present.
MessageItem == [tag : Tags, ins : Seq(Nat), outs : Seq(Nat), meta : Seq(Nat),
                ref : Nat, regions : Seq(BOOLEAN)]
MessageFunction ==
    [name : Nat, meta : Seq(Nat), hasBody : BOOLEAN, hasOperations : BOOLEAN,
     items : Seq(MessageItem), values : Seq([type : Types, meta : Seq(Nat)])]
Message == [hasFunctions : BOOLEAN, functions : Seq(MessageFunction),
            strings : Seq(Names), meta : Seq(Nat)]
=============================================================================
