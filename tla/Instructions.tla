---------------------------- MODULE Instructions ----------------------------
(***************************************************************************)
(* Straight-line code through the writer and the reader, with the types of *)
(* its values.  The writer puts the type of every value in a table; the    *)
(* reader takes the types of arguments and the lengths of registers and    *)
(* arrays from the table, but infers most result types from operands.      *)
(*                                                                         *)
(* All handlers of a kind use the operand order of the dialect, in both    *)
(* directions, and kinds that share their handlers (the 17 binary integer  *)
(* operations, the 18 unary float operations, ...) differ by a tag that    *)
(* both sides map one to one: one kind stands for them.                    *)
(***************************************************************************)
EXTENDS Integers, Sequences, SequencesExt

CONSTANTS
    Args,       (* types of the block's arguments                           *)
    Lengths,    (* lengths of registers and arrays                          *)
    IntWidths, FloatWidths,
    MaxOps      (* bound: operations of the block                           *)

\* mlir::ShapedType::kDynamic.
Dynamic == -1

Type == [base : {"qubit", "qureg", "int", "float", "ints", "floats"},
         width : IntWidths \cup FloatWidths \cup {0}, length : Lengths \cup {0}]
T(base, width, length) == [base |-> base, width |-> width, length |-> length]
Qubit == T("qubit", 0, 0)
I1 == T("int", 1, 0)
I32 == T("int", 32, 0)
Quregs == {T("qureg", 0, n) : n \in Lengths}
Scalars(base) ==
    {T(base, w, 0) : w \in IF base = "int" THEN IntWidths ELSE FloatWidths}
ArrayOf(scalar, n) ==
    T(IF scalar.base = "int" THEN "ints" ELSE "floats", scalar.width, n)
Arrays(base) == {ArrayOf(s, n) : s \in Scalars(base), n \in Lengths}
ElementOf(array) == T(IF array.base = "ints" THEN "int" ELSE "float", array.width, 0)
Other(base) == IF base = "int" THEN "float" ELSE "int"

ASSUME InstructionsAssumption ==
    /\ IntWidths \subseteq Nat \ {0} /\ {1, 32} \subseteq IntWidths
    /\ FloatWidths \subseteq Nat \ {0}
    /\ Lengths \subseteq Nat \cup {Dynamic}
    /\ Args \in Seq(Type)
    /\ MaxOps \in Nat

VARIABLES
    types,      (* the types of the block's values, in order of definition: *)
                (* the table of the message                                 *)
    ops,        (* the operations of the block, as they are in the message  *)
    returned,   (* the value the block returns; 0: not written yet          *)
    restored,   (* the types of the values the reader has defined           *)
    read,       (* operations read                                          *)
    verifies,   (* no rule of the verifier is broken so far                 *)
    status      (* "writing", "reading", or how reading ended               *)

blockVars == <<types, ops, returned, restored, read, verifies, status>>

----------------------------------------------------------------------------
(* What the verifier accepts: the result types of an operation, for operand *)
(* types t; none if the operands are wrong.                                 *)

When(cond, results) == IF cond THEN results ELSE {}

QubitKinds == {"alloc", "free", "measure", "measureNd", "reset"}
QubitResults(kind, t) ==
    CASE kind = "alloc"     -> When(t = <<>>, {<<Qubit>>})
      [] kind = "free"      -> When(t = <<Qubit>>, {<<>>})
      [] kind = "measure"   -> When(t = <<Qubit>>, {<<I1>>})
      [] kind = "measureNd" -> When(t = <<Qubit>>, {<<Qubit, I1>>})
      [] OTHER              -> When(t = <<Qubit>>, {<<Qubit>>})

QuregKinds == {"alloc", "free", "extractIndex", "insertIndex", "extractSlice",
               "insertSlice", "length", "split", "join", "create"}
QuregResults(kind, t) ==
    LET reg == t # <<>> /\ t[1] \in Quregs
        operands(rest) == reg /\ t = <<t[1]>> \o rest
    IN CASE kind = "alloc"        -> When(t = <<I32>>, {<<q>> : q \in Quregs})
         [] kind = "free"         -> When(operands(<<>>), {<<>>})
         [] kind = "extractIndex" -> When(operands(<<I32>>), {<<t[1], Qubit>>})
         [] kind = "insertIndex"  -> When(operands(<<I32, Qubit>>), {<<t[1]>>})
         [] kind = "extractSlice" ->
                When(operands(<<I32, I32>>), {<<t[1], q>> : q \in Quregs})
         [] kind = "insertSlice"  ->
                When(\E q \in Quregs : operands(<<I32, q>>), {<<t[1]>>})
         [] kind = "length"       -> When(operands(<<>>), {<<t[1], I32>>})
         [] kind = "split"        -> When(operands(<<I32>>), Quregs \X Quregs)
         [] kind = "join"         ->
                When(\E q \in Quregs : operands(<<q>>), {<<q>> : q \in Quregs})
         [] OTHER                 ->
                When(\A i \in DOMAIN t : t[i] = Qubit, {<<q>> : q \in Quregs})

ScalarKinds(base) ==
    {"const", "unary", "binary", "comparison", "select", "convert"}
    \cup IF base = "float" THEN {"is"} ELSE {}
ScalarResults(base, kind, t) ==
    LET S == Scalars(base)
    IN CASE kind = "const"      -> When(t = <<>>, {<<s>> : s \in S})
         [] kind = "unary"      -> When(t \in {<<s>> : s \in S}, {t})
         [] kind = "is"         -> When(t \in {<<s>> : s \in S}, {<<I1>>})
         [] kind = "binary"     -> When(t \in {<<s, s>> : s \in S}, {<<t[1]>>})
         [] kind = "comparison" -> When(t \in S \X S, {<<I1>>})
         [] kind = "select"     -> When(t \in {I1} \X S \X S, {<<s>> : s \in S})
         [] OTHER               ->
                When(t \in {<<s>> : s \in S}, {<<s>> : s \in S \cup Scalars(Other(base))})

ArrayKinds == {"const", "zero", "getIndex", "setIndex", "length", "create"}
ArrayResults(base, kind, t) ==
    LET S == Scalars(base)
        A == Arrays(base)
    IN CASE kind = "const"    -> When(t = <<>>, {<<a>> : a \in A})
         [] kind = "zero"     -> When(t = <<I32>>, {<<a>> : a \in A})
         [] kind = "getIndex" -> When(t \in A \X {I32}, {<<s>> : s \in S})
         [] kind = "setIndex" -> When(t \in A \X {I32} \X S, {<<a>> : a \in A})
         [] kind = "length"   -> When(t \in {<<a>> : a \in A}, {<<I32>>})
         [] OTHER             -> When(\A i \in DOMAIN t : t[i] \in S, {<<a>> : a \in A})

KindsOf(family) ==
    CASE family = "qubit" -> QubitKinds
      [] family = "qureg" -> QuregKinds
      [] family \in {"int", "float"} -> ScalarKinds(family)
      [] OTHER -> ArrayKinds
Results(family, kind, t) ==
    CASE family = "qubit"  -> QubitResults(kind, t)
      [] family = "qureg"  -> QuregResults(kind, t)
      [] family \in {"int", "float"} -> ScalarResults(family, kind, t)
      [] family = "ints"   -> ArrayResults("int", kind, t)
      [] OTHER             -> ArrayResults("float", kind, t)

----------------------------------------------------------------------------
(* The writer.                                                             *)

TypesAt(table, ids) == [k \in DOMAIN ids |-> table[ids[k]]]
Operands == UNION {[1 .. n -> DOMAIN types] : n \in 0 .. 3}

\* What the instruction itself says of the result: the scalar type of a
\* constant, the element type of a constant array or of an array of zeros.
Immediate(family, kind, r) ==
    IF family \in {"int", "float"} /\ kind = "const" THEN r[1]
    ELSE IF family \in {"ints", "floats"} /\ kind \in {"const", "zero"} THEN ElementOf(r[1])
    ELSE Qubit

Serialize(family) ==
    /\ status = "writing" /\ Len(ops) < MaxOps
    /\ \E kind \in KindsOf(family) : \E ins \in Operands :
       \E r \in Results(family, kind, TypesAt(types, ins)) :
          /\ ops' = Append(ops,
                [family |-> family, kind |-> kind, ins |-> ins,
                 imm |-> Immediate(family, kind, r),
                 outs |-> [k \in DOMAIN r |-> Len(types) + k]])
          /\ types' = types \o r
    /\ UNCHANGED <<returned, restored, read, verifies, status>>

SerializeQubit == Serialize("qubit")
SerializeQureg == Serialize("qureg")
SerializeInt == Serialize("int")
SerializeIntArray == Serialize("ints")
SerializeFloat == Serialize("float")
SerializeFloatArray == Serialize("floats")

\* The targets of the block: the function returns one value.
SerializeReturn ==
    /\ status = "writing"
    /\ returned' \in DOMAIN types
    /\ status' = "reading"
    /\ UNCHANGED <<types, ops, restored, read, verifies>>

----------------------------------------------------------------------------
(* The reader: the result types it creates an operation with, for operands *)
(* of types t and outputs of the types `table`.                            *)

QubitRebuilt(kind) ==
    CASE kind = "alloc" -> <<Qubit>>    [] kind = "free" -> <<>>
      [] kind = "measure" -> <<I1>>     [] kind = "measureNd" -> <<Qubit, I1>>
      [] OTHER -> <<Qubit>>

\* ctx.getLength(outputs[0]), ctx.getLength(outputs[1]).
SliceTypesSwapped(table) == <<T("qureg", 0, table[2].length), T("qureg", 0, table[1].length)>>
SliceTypes(table) == <<T("qureg", 0, table[1].length), T("qureg", 0, table[2].length)>>
QuregRebuilt(kind, t, table) ==
    CASE kind = "free"                        -> <<>>
      [] kind = "extractIndex"                -> <<t[1], Qubit>>
      [] kind \in {"insertIndex", "insertSlice"} -> <<t[1]>>
      [] kind = "length"                      -> <<t[1], I32>>
      [] kind \in {"extractSlice", "split"}   -> SliceTypes(table)
      [] OTHER                                -> <<T("qureg", 0, table[1].length)>>

\* ctx.getValue(inputs[1]).getType().
SelectConditionType(t) == t[1]
SelectType(t) == t[2]
ScalarRebuilt(kind, imm, t, table) ==
    CASE kind = "const"                 -> <<imm>>
      [] kind \in {"unary", "binary"}   -> <<t[1]>>
      [] kind \in {"comparison", "is"}  -> <<I1>>
      [] kind = "select"                -> <<SelectType(t)>>
      [] OTHER                          -> <<table[1]>>

ArrayRebuilt(kind, imm, t, table) ==
    CASE kind \in {"const", "zero"} -> <<ArrayOf(imm, table[1].length)>>
      [] kind = "getIndex"          -> <<ElementOf(t[1])>>
      [] kind = "setIndex"          -> <<t[1]>>
      [] kind = "length"            -> <<I32>>
      [] OTHER                      -> <<ArrayOf(t[1], table[1].length)>>

\* The operation is created with result types r; its results are bound.
Create(op, t, r) ==
    /\ restored' = restored \o r
    /\ read' = read + 1
    /\ verifies' = (verifies /\ r \in Results(op.family, op.kind, t))
    /\ UNCHANGED <<types, ops, returned, status>>

NextOp == ops[read + 1]
InTypes == TypesAt(restored, NextOp.ins)
TableTypes == TypesAt(types, NextOp.outs)
Reading(families) ==
    status = "reading" /\ read < Len(ops) /\ NextOp.family \in families

DeserializeQubit ==
    Reading({"qubit"}) /\ Create(NextOp, InTypes, QubitRebuilt(NextOp.kind))

DeserializeQureg ==
    Reading({"qureg"}) /\ Create(NextOp, InTypes, QuregRebuilt(NextOp.kind, InTypes, TableTypes))

DeserializeInt ==
    /\ Reading({"int"})
    /\ Create(NextOp, InTypes, ScalarRebuilt(NextOp.kind, NextOp.imm, InTypes, TableTypes))

DeserializeFloat ==
    /\ Reading({"float"})
    /\ Create(NextOp, InTypes, ScalarRebuilt(NextOp.kind, NextOp.imm, InTypes, TableTypes))

\* inputs[0] of an array that is created from no element.
NoElement == NextOp.kind = "create" /\ NextOp.ins = <<>>

DeserializeIntArray ==
    /\ Reading({"ints"}) /\ ~NoElement
    /\ Create(NextOp, InTypes, ArrayRebuilt(NextOp.kind, NextOp.imm, InTypes, TableTypes))

DeserializeFloatArray ==
    /\ Reading({"floats"}) /\ ~NoElement
    /\ Create(NextOp, InTypes, ArrayRebuilt(NextOp.kind, NextOp.imm, InTypes, TableTypes))

ReadPastEnd ==
    /\ Reading({"ints", "floats"}) /\ NoElement
    /\ status' = "undefined"
    /\ UNCHANGED <<types, ops, returned, restored, read, verifies>>

\* mlir::verify, after the return was created: it is compared with the
\* signature, whose types are those of the table.
SignatureVerifies == restored[returned] = types[returned]
ModuleVerifies == verifies /\ SignatureVerifies
DeserializeReturn ==
    /\ status = "reading" /\ read = Len(ops)
    /\ status' = IF ModuleVerifies THEN "module" ELSE "rejected"
    /\ UNCHANGED <<types, ops, returned, restored, read, verifies>>

----------------------------------------------------------------------------

BlockInit ==
    /\ types = Args
    /\ ops = <<>>
    /\ returned = 0
    /\ restored = Args
    /\ read = 0
    /\ verifies = TRUE
    /\ status = "writing"

BlockNext ==
    \/ SerializeQubit \/ SerializeQureg \/ SerializeInt \/ SerializeIntArray
    \/ SerializeFloat \/ SerializeFloatArray \/ SerializeReturn
    \/ DeserializeQubit \/ DeserializeQureg \/ DeserializeInt \/ DeserializeIntArray
    \/ DeserializeFloat \/ DeserializeFloatArray \/ ReadPastEnd \/ DeserializeReturn

BlockSpec == BlockInit /\ [][BlockNext]_blockVars

----------------------------------------------------------------------------
(* Properties.                                                             *)

\* The dialect leaves four result types to the program that its reader infers:
\* those of a select, of reading or writing an element, of creating an array.
\* Of a program that gives these operations the types their operands suggest
\* we say that its results follow.
Follows(op) ==
    LET t == TypesAt(types, op.ins)
        r == TypesAt(types, op.outs)
    IN CASE op.kind = "select" -> r[1] = t[2]
         [] op.kind = "getIndex" -> r[1] = ElementOf(t[1])
         [] op.kind = "setIndex" -> r[1] = t[1]
         [] op.kind = "create" /\ op.family \in {"ints", "floats"} ->
                t # <<>> /\ ElementOf(r[1]) = t[1]
         [] OTHER -> TRUE
ResultsFollow == \A i \in DOMAIN ops : Follows(ops[i])

\* A program whose results follow is read with the types it was written with:
\* whichever side a type comes from, the table, the instruction or an operand
\* whose own type was rebuilt before, each value gets the one it had.
TypesRestored == ResultsFollow => IsPrefix(restored, types) \/ status = "writing"

\* Such a program is accepted: rebuilding it breaks no rule of the verifier and
\* reads no input that is not there.
BlockAccepted == ResultsFollow => status \notin {"rejected", "undefined"}

\* Whatever the program, also where inferred types drift away from the written ones and feed further
\* inferences: a value keeps the class it was written with, and a qubit or a register its type. The
\* handlers of arrays cast the types of their operands on that ground.
SameClass(one, other) ==
    one.base = other.base /\ (one.base \in {"qubit", "qureg"} => one = other)
ClassesKept ==
    status # "writing" =>
        \A v \in DOMAIN restored : v \in DOMAIN types /\ SameClass(restored[v], types[v])
=============================================================================
