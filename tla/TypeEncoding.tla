---------------------------- MODULE TypeEncoding ----------------------------
(***************************************************************************)
(* The type of a value on its way through a file and through the text of   *)
(* the dialect: serializeType and deserializeType, QuregType::print and    *)
(* parse.  One type makes any number of trips; `sent` is the type the      *)
(* first trip began with.                                                  *)
(*                                                                         *)
(* The fields of the file are narrower than what they are given: a width   *)
(* has WidthLimit values (2^8), a length has LengthLimit (2^32).  MLIR     *)
(* allows any width up to 2^24, and lengths up to 2^63.                    *)
(***************************************************************************)
EXTENDS Integers, Sequences

CONSTANTS
    Types,          \* the types of values that may be sent
    WidthLimit,
    LengthLimit,
    DynamicLength,        \* ShapedType::kDynamic, a negative length
    Question        \* the token of a dynamic length

Widths == {1, 8, 16, 32, 64}
Precisions == {32, 64}

TypeKinds == {"qubit", "qureg", "int", "float", "tensor"}
ElementKinds == {"int", "float", "other"}

MakeType(kind, width, element, shape) ==
    [kind |-> kind, width |-> width, element |-> element, shape |-> shape]

\* What a type does not have is 0, "other" and the empty shape; the length of a register is the
\* shape of its type.
IsType(t) ==
    /\ t \in [kind : TypeKinds, width : Nat, element : ElementKinds, shape : Seq(Int)]
    /\ t.kind = "qubit" => t = MakeType("qubit", 0, "other", <<>>)
    /\ t.kind = "qureg" => t = MakeType("qureg", 0, "other", <<t.shape[1]>>) /\ Len(t.shape) = 1
    /\ t.kind \in {"int", "float"} => t = MakeType(t.kind, t.width, "other", <<>>)

ASSUME TypesAssumption ==
    /\ WidthLimit \in Nat /\ WidthLimit > 64
    /\ LengthLimit \in Nat \ {0}
    /\ DynamicLength \in Int /\ DynamicLength < 0 /\ Question \notin Int
    /\ \A t \in Types : IsType(t)

VARIABLES
    sent,       \* the type that was serialized first
    type,       \* the type as the program has it, unless it is on its way
    wire,       \* the record in the file, or the tokens of the text
    place       \* "program", "file", "text", "aborted", "refused"

tripVars == <<sent, type, wire, place>>

----------------------------------------------------------------------------
(* The writer.                                                             *)

WrittenWidth(w) == w % WidthLimit

\* The mutant writes the length of a dynamic register like any other.
WrittenLengthOnly(l) == [static |-> TRUE, length |-> l % LengthLimit]
WrittenLength(l) ==
    IF l = DynamicLength THEN [static |-> FALSE, length |-> 0]
    ELSE [static |-> TRUE, length |-> l % LengthLimit]

NoLength == [static |-> FALSE, length |-> 0]

Wire(kind, width, length) == [kind |-> kind, width |-> width, length |-> length]

\* report_fatal_error: a float that is not f32 or f64, a tensor that has not one dimension, or
\* elements of another type.
Writable(t) ==
    CASE t.kind = "float"  -> t.width \in Precisions
      [] t.kind = "tensor" -> /\ Len(t.shape) = 1
                              /\ \/ t.element = "int"
                                 \/ t.element = "float" /\ t.width \in Precisions
      [] OTHER -> TRUE

WrittenType(t) ==
    CASE t.kind = "qubit"  -> Wire("qubit", 0, NoLength)
      [] t.kind = "qureg"  -> Wire("qureg", 0, WrittenLength(t.shape[1]))
      [] t.kind = "int"    -> Wire("int", WrittenWidth(t.width), NoLength)
      [] t.kind = "float"  -> Wire("float", t.width, NoLength)
      [] t.kind = "tensor" -> IF t.element = "int"
                              THEN Wire("intArray", WrittenWidth(t.width), WrittenLength(t.shape[1]))
                              ELSE Wire("floatArray", t.width, WrittenLength(t.shape[1]))

SerializeType ==
    /\ place = "program"
    /\ \/ Writable(type) /\ wire' = WrittenType(type) /\ place' = "file"
       \/ ~Writable(type) /\ place' = "aborted" /\ UNCHANGED wire
    /\ UNCHANGED <<sent, type>>

----------------------------------------------------------------------------
(* The reader.                                                             *)

ReadLength(length) == IF length.static THEN length.length ELSE DynamicLength

\* KJ_FAIL_REQUIRE: a width that is not one of the dialect's.
Known(w) == w.kind \in {"int", "intArray"} => w.width \in Widths

\* The mutant swaps the precisions.
ReadPrecisionSwapped(w) == IF w = 32 THEN 64 ELSE 32
ReadPrecision(w) == w

Read(w) ==
    CASE w.kind = "qubit"      -> MakeType("qubit", 0, "other", <<>>)
      [] w.kind = "qureg"      -> MakeType("qureg", 0, "other", <<ReadLength(w.length)>>)
      [] w.kind = "int"        -> MakeType("int", w.width, "other", <<>>)
      [] w.kind = "float"      -> MakeType("float", ReadPrecision(w.width), "other", <<>>)
      [] w.kind = "intArray"   -> MakeType("tensor", w.width, "int", <<ReadLength(w.length)>>)
      [] w.kind = "floatArray" -> MakeType("tensor", ReadPrecision(w.width), "float", <<ReadLength(w.length)>>)

DeserializeType ==
    /\ place = "file"
    /\ \/ Known(wire) /\ type' = Read(wire) /\ place' = "program"
       \/ ~Known(wire) /\ place' = "refused" /\ UNCHANGED type
    /\ UNCHANGED <<sent, wire>>

----------------------------------------------------------------------------
(* The text of a register type.                                            *)

PrintedLength(l) == IF l = DynamicLength THEN Question ELSE l

PrintQureg ==
    /\ place = "program" /\ type.kind = "qureg"
    /\ wire' = <<"<", PrintedLength(type.shape[1]), ">">>
    /\ place' = "text"
    /\ UNCHANGED <<sent, type>>

ParsedLength(token) == IF token = Question THEN DynamicLength ELSE token

ParseQureg ==
    /\ place = "text"
    /\ wire[1] = "<" /\ wire[3] = ">"
    /\ type' = MakeType("qureg", 0, "other", <<ParsedLength(wire[2])>>)
    /\ place' = "program"
    /\ UNCHANGED <<sent, wire>>

----------------------------------------------------------------------------
TripInit ==
    /\ type \in Types /\ sent = type
    /\ wire = <<>>
    /\ place = "program"

TripNext == SerializeType \/ DeserializeType \/ PrintQureg \/ ParseQureg

TripSpec == TripInit /\ [][TripNext]_tripVars

----------------------------------------------------------------------------
(* Properties.                                                             *)

\* The fields of the file have room for the type.
Fits(t) ==
    /\ t.kind = "int" \/ t.element = "int" => t.width < WidthLimit
    /\ \A k \in DOMAIN t.shape : t.shape[k] \in {DynamicLength} \cup 0..(LengthLimit - 1)

\* A type that fits the fields of the file is the same after any number of trips through file and
\* text (it may be refused).  Beyond, it may come back as another: i264 as i8.
FittingTypesKept == Fits(sent) => type = sent

\* Whatever a type is read as on its first trip, no later trip changes it or refuses it: what the
\* reader makes of any width the writer lets through is a type of the dialect.
TypesSettle ==
    [][type' # type \/ place' \in {"aborted", "refused"} => type = sent]_tripVars
=============================================================================
