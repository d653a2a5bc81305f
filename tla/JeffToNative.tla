---- MODULE JeffToNative ----
(***************************************************************************)
(* The pass jeff-to-native on straight-line code, and the pass             *)
(* native-to-jeff on what it creates.                                      *)
(* lib/Conversion/JeffToNative/JeffToNative.cpp                            *)
(*                                                                         *)
(* Every action picks an operation of a jeff program that has no undefined *)
(* behaviour.  Its pattern, To..., replaces it by one or more native       *)
(* operations; Back... is what the patterns of the other pass make of      *)
(* these.  The types of jeff values are types of native values, so nothing *)
(* is ever cast between the passes.                                        *)
(*                                                                         *)
(* The jeff dialect relates neither the operand types of a select, of a    *)
(* new element and its array and of the elements of a new array, nor the   *)
(* result types of these and of an element that is read, to each other.    *)
(* Operand types are any here.  Result types are those that the first      *)
(* operand implies: the native operations infer them, so a program that    *)
(* gives another is not converted to one of its types.                     *)
(***************************************************************************)
EXTENDS NativePatterns

CONSTANTS Parameters,    \* the values of the parameters, a set of sequences of typed values
          BinaryKinds,   \* the binary operations the program uses
          MaxValues      \* its number of values, parameters included

JeffScalar(t) == (IsInt(t) /\ t[2] \in JeffWidths) \/ t = FloatType
JeffType(t)   == JeffScalar(t) \/ (IsTensor(t) /\ JeffScalar(t[2]))

ASSUME ParametersAssumption ==
    \A p \in Parameters :
        IsSequence(p) /\ \A i \in DOMAIN p : WellTyped(p[i]) /\ JeffType(p[i].type)
ASSUME KindsAssumption == BinaryKinds \subseteq BinaryOps

\* In the place of a value that native-to-jeff does not make.
Unconverted == [type |-> <<"none">>]

VARIABLES values,        \* j: the jeff value, n: its native replacement, b: the jeff value of that
          native,        \* "converting", or why jeff-to-native stopped
          back           \* "converting", or why native-to-jeff stopped

vars == <<values, native, back>>

----------------------------------------------------------------------------
\* The patterns, on the native values of the operands.

ToConst(t, v) == Replaced(t, v)

AllOnes(t) == Wrap(-1, Width(t))
\* The mutant negates the lowest bit.
ToNotOfBit(a) == Replaced(a.type, Binary("xor", a.val, 1, Width(a.type)))
ToNot(a) == Replaced(a.type, Binary("xor", a.val, AllOnes(a.type), Width(a.type)))
ToAbs(a) == Replaced(a.type, AbsoluteValue(a.val, Width(a.type)))
ToBinary(op, a, b) ==
    IF BinaryDefined(op, a.val, b.val, Width(a.type))
    THEN Replaced(a.type, Binary(op, a.val, b.val, Width(a.type)))
    ELSE Stopped("undefined")

\* arith.cmpi demands operands of one type.
ToComparison(op, a, b) ==
    IF a.type # b.type THEN Stopped("invalid")
    ELSE Replaced(IntType(1), Compare(op, a.val, Width(a.type), b.val, Width(a.type)))

\* arith.select, tensor.insert and tensor.from_elements demand that types agree, too.
ToSelect(condition, a, b) ==
    IF a.type # b.type THEN Stopped("invalid")
    ELSE Replaced(a.type, IF condition.val = 1 THEN a.val ELSE b.val)
ToConversion(op, t, a) ==
    Replaced(t, IF t = FloatType THEN <<op, a.val>> ELSE Cast(op, a.val, Width(a.type), Width(t)))
ToFloat(op, operands) == Replaced(FloatType, <<op, operands>>)
ToFloatTest(op, operands) == Replaced(IntType(1), FloatHolds(op, operands))

ToArrayConst(t, v) == IF t[3] = Dynamic THEN Stopped("refused") ELSE Replaced(t, v)

ZeroOf(elem) == IF IsInt(elem) THEN 0 ELSE <<"zero">>
Zeros(elem, n) == [k \in 1..n |-> ZeroOf(elem)]

\* An index is cast from i32: the cast extends the sign.
AsIndex(a) == SignExtend(a.val, I32, I64)

\* The length is used only where the type does not have it.
ToArrayZero(t, length) ==
    IF t[3] # Dynamic THEN Replaced(t, Zeros(t[2], t[3]))
    ELSE IF Signed(AsIndex(length), I64) < 0 THEN Stopped("undefined")
    ELSE Replaced(t, Zeros(t[2], AsIndex(length)))

ToArrayGetIndex(array, index) ==
    IF AsIndex(index) >= Len(array.val) THEN Stopped("undefined")
    ELSE Replaced(array.type[2], array.val[AsIndex(index) + 1])

ToArraySetIndex(array, index, v) ==
    IF v.type # array.type[2] THEN Stopped("invalid")
    ELSE IF AsIndex(index) >= Len(array.val) THEN Stopped("undefined")
    ELSE Replaced(array.type, [array.val EXCEPT ![AsIndex(index) + 1] = v.val])

ToArrayLength(array) == Replaced(IntType(I32), Wrap(Len(array.val), I32))

\* The builder that takes the type of tensor.from_elements from the first element asserts that
\* there is one.
ToArrayCreate(t, elements) ==
    IF t[3] = Dynamic THEN Stopped("refused")
    ELSE IF elements = <<>> THEN Stopped("undefined")
    ELSE IF \E k \in DOMAIN elements : elements[k].type # t[2] THEN Stopped("invalid")
    ELSE Replaced(t, [k \in DOMAIN elements |-> elements[k].val])

----------------------------------------------------------------------------
\* The way back, for the patterns that create several operations.

BackNot(a) == ConvertIntBinary("xor", a, ConvertConstant(a.type, AllOnes(a.type)).value)

BackArrayZero(t, length) ==
    LET zero == [n |-> Typed(t[2], ZeroOf(t[2])), c |-> TRUE]
        sizes == IF t[3] = Dynamic THEN <<ConvertIndexCast(length).value>> ELSE <<>>
    IN ConvertZero(t, sizes, TRUE, zero)

BackArrayGetIndex(array, index) ==
    ConvertExtract(array.type[2], array, ConvertIndexCast(index).value)

BackArraySetIndex(array, index, v) ==
    ConvertInsert(array.type, v, array, ConvertIndexCast(index).value)

BackArrayLength(array) == ConvertIndexCast(ConvertDim(array.type, array).value)

----------------------------------------------------------------------------
\* The jeff program.

OfType(t) == {i \in DOMAIN values : values[i].j.type = t}
Ints      == {i \in DOMAIN values : IsInt(values[i].j.type)}
Arrays    == {i \in DOMAIN values : IsTensor(values[i].j.type)}
OneType(i, k) == values[i].j.type = values[k].j.type
\* Both are numbers of any width, or both are floats.
BothScalar(i, k) == {i, k} \subseteq Ints \/ {i, k} \subseteq OfType(FloatType)
WidthOf(i) == Width(values[i].j.type)

Op(t, v, to, from) ==
    /\ native = "converting" /\ back = "converting" /\ Len(values) < MaxValues
    /\ native' = to.status
    /\ back' = IF to.status = "converting" THEN from.status ELSE back
    /\ values' =
           IF to.status # "converting" THEN values
           ELSE Append(values, [j |-> Typed(t, v), n |-> to.value,
                                b |-> IF from.status = "converting" THEN from.value ELSE Unconverted])

IntConst ==
    \E w \in JeffWidths : \E v \in {0, 2^w - 1} :
        Op(IntType(w), v, ToConst(IntType(w), v), ConvertConstant(IntType(w), v))

FloatConst ==
    \E v \in {<<"zero">>, <<"one">>} :
        Op(FloatType, v, ToConst(FloatType, v), ConvertConstant(FloatType, v))

IntUnary ==
    \E i \in Ints :
        LET a == values[i]
            w == WidthOf(i)
        IN \/ Op(a.j.type, 2^w - 1 - a.j.val, ToNot(a.n), BackNot(a.b))
           \/ Op(a.j.type, AbsoluteValue(a.j.val, w), ToAbs(a.n), ConvertAbs(a.b))

IntBinary ==
    \E op \in BinaryKinds, i, k \in Ints :
        LET x == values[i]
            y == values[k]
        IN /\ OneType(i, k) /\ BinaryDefined(op, x.j.val, y.j.val, WidthOf(i))
           /\ Op(x.j.type, Binary(op, x.j.val, y.j.val, WidthOf(i)),
                 ToBinary(op, x.n, y.n), ConvertIntBinary(op, x.b, y.b))

\* The operands may have two types; then the numbers are compared.
IntComparison ==
    \E op \in Comparisons, i, k \in Ints :
        LET x == values[i]
            y == values[k]
        IN Op(IntType(1), Compare(op, x.j.val, WidthOf(i), y.j.val, WidthOf(k)),
              ToComparison(op, x.n, y.n), ConvertCompare(op, x.b, y.b))

SelectValue ==
    \E c \in OfType(IntType(1)), i, k \in DOMAIN values :
        LET x == values[i]
            y == values[k]
        IN /\ BothScalar(i, k)
           /\ Op(x.j.type, IF values[c].j.val = 1 THEN x.j.val ELSE y.j.val,
                 ToSelect(values[c].n, x.n, y.n), ConvertSelect(x.n.type, values[c].b, x.b, y.b))

Conversion ==
    \E i \in Ints :
        LET a == values[i]
            Apply(op, t, v) == Op(t, v, ToConversion(op, t, a.n), ConvertCast(op, t, a.b))
        IN \/ \E op \in Casts, w \in JeffWidths :
                 /\ IF op = "trunc" THEN w < WidthOf(i) ELSE w > WidthOf(i)
                 /\ Apply(op, IntType(w), Cast(op, a.j.val, WidthOf(i), w))
           \/ Apply("intToFloat", FloatType, <<"intToFloat", a.j.val>>)

FloatOperation ==
    \E i, k \in OfType(FloatType) :
        LET x == values[i]
            y == values[k]
        IN \/ Op(FloatType, <<"sqrt", <<x.j.val>>>>,
                 ToFloat("sqrt", <<x.n.val>>), ConvertFloat("sqrt", <<x.b.val>>))
           \/ Op(FloatType, <<"pow", <<x.j.val, y.j.val>>>>,
                 ToFloat("pow", <<x.n.val, y.n.val>>), ConvertFloat("pow", <<x.b.val, y.b.val>>))

FloatTest ==
    \E i, k \in OfType(FloatType) :
        LET x == values[i]
            y == values[k]
        IN \/ Op(IntType(1), FloatHolds("lt", <<x.j.val, y.j.val>>),
                 ToFloatTest("lt", <<x.n.val, y.n.val>>),
                 ConvertFloatComparison("lt", <<x.b.val, y.b.val>>))
           \/ Op(IntType(1), FloatHolds("isNan", <<x.j.val>>),
                 ToFloatTest("isNan", <<x.n.val>>), ConvertFloatIs("isNan", x.b))

ArrayConst ==
    \E n \in {1, Dynamic} :
        LET t == TensorType(IntType(I32), n)
        IN Op(t, <<3>>, ToArrayConst(t, <<3>>), ConvertArrayConstant(t, <<3>>, t))

\* In a program that is defined the length is that of the type, where the type has one.
ArrayZero ==
    \E i \in OfType(IntType(I32)), elem \in {IntType(1), FloatType} :
        LET length == values[i].j.val
        IN /\ Signed(length, I32) >= 0
           /\ \E n \in {length, Dynamic} :
                 LET t == TensorType(elem, n)
                 IN Op(t, Zeros(elem, length), ToArrayZero(t, values[i].n),
                       BackArrayZero(t, values[i].b))

InBounds(i, k) == values[k].j.val < Len(values[i].j.val)

ArrayGetIndex ==
    \E i \in Arrays, k \in OfType(IntType(I32)) :
        LET array == values[i]
        IN /\ InBounds(i, k)
           /\ Op(array.j.type[2], array.j.val[values[k].j.val + 1],
                 ToArrayGetIndex(array.n, values[k].n), BackArrayGetIndex(array.b, values[k].b))

ArraySetIndex ==
    \E i \in Arrays, k \in OfType(IntType(I32)) :
        LET array == values[i]
            at == values[k].j.val + 1
        IN \E s \in DOMAIN values :
              /\ IF IsInt(array.j.type[2]) THEN s \in Ints ELSE s \in OfType(FloatType)
              /\ InBounds(i, k)
              /\ Op(array.j.type, [array.j.val EXCEPT ![at] = values[s].j.val],
                    ToArraySetIndex(array.n, values[k].n, values[s].n),
                    BackArraySetIndex(array.b, values[k].b, values[s].b))

ArrayLength ==
    \E i \in Arrays :
        Op(IntType(I32), Wrap(Len(values[i].j.val), I32),
           ToArrayLength(values[i].n), BackArrayLength(values[i].b))

\* An array of the values at the positions picked.
CreateArray(t, picked) ==
    LET From(part) == [p \in DOMAIN picked |-> part[picked[p]]]
    IN Op(t, [p \in DOMAIN picked |-> values[picked[p]].j.val],
          ToArrayCreate(t, From([i \in DOMAIN values |-> values[i].n])),
          ConvertFromElements(t, From([i \in DOMAIN values |-> values[i].b])))

ArrayCreate ==
    \/ \E elem \in {IntType(I32), FloatType}, n \in {0, Dynamic} :
          CreateArray(TensorType(elem, n), <<>>)
    \/ \E i, k \in DOMAIN values, n \in {2, Dynamic} :
          BothScalar(i, k) /\ CreateArray(TensorType(values[i].j.type, n), <<i, k>>)

Init ==
    /\ \E p \in Parameters : values = [i \in DOMAIN p |-> [j |-> p[i], n |-> p[i], b |-> p[i]]]
    /\ native = "converting"
    /\ back = "converting"

Next ==
    \/ IntConst \/ FloatConst \/ IntUnary \/ IntBinary \/ IntComparison \/ SelectValue
    \/ Conversion \/ FloatOperation \/ FloatTest \/ ArrayConst \/ ArrayZero \/ ArrayGetIndex
    \/ ArraySetIndex \/ ArrayLength \/ ArrayCreate

Spec == Init /\ [][Next]_vars

----------------------------------------------------------------------------
\* The native program computes what the jeff program does, whatever operands an operation has: as
\* far as there is a native program, whose verifier accepts it and which is defined, every value keeps
\* its type and its value.
NativeKept == \A i \in DOMAIN values : values[i].n = values[i].j

\* So does the jeff program that native-to-jeff makes of the native one, through the casts to
\* index that are dropped and the constants that are created.
RoundTripKept ==
    \A i \in DOMAIN values : values[i].b # Unconverted => values[i].b = values[i].j

\* And that pass converts all that jeff-to-native creates but an array of zeros of static length,
\* the limitation of tensor.splat that NativeToJeff.td:80 states.
RoundTripConverts ==
    /\ back \in {"converting", "refused"}
    /\ \A i \in DOMAIN values :
         values[i].b = Unconverted =>
             \E elem \in {IntType(1), FloatType}, n \in 0..(2^(I32 - 1) - 1) :
                 values[i].j = Typed(TensorType(elem, n), Zeros(elem, n))
====
