---- MODULE NativeToJeff ----
(***************************************************************************)
(* The pass native-to-jeff, lib/Conversion/NativeToJeff/NativeToJeff.cpp,  *)
(* on straight-line code.                                                  *)
(*                                                                         *)
(* The conversion driver visits the operations in order; the pattern of    *)
(* an operation replaces it by a jeff operation on the values that have    *)
(* replaced its operands (the adaptor), or refuses, and then the pass      *)
(* fails.  A value is therefore a pair: the native value and the jeff      *)
(* value in its place, which may have another type.  Both are computed, so *)
(* that the two programs can be compared.  The native program is any that  *)
(* is well typed, has no undefined behaviour and shifts no index by as     *)
(* many bits as an i32 has (the shift of the i32 in its place would be     *)
(* undefined).                                                             *)
(***************************************************************************)
EXTENDS NativePatterns

CONSTANTS NativeParameters, \* the values of the parameters, a set of sequences of typed values
          IntWidths,        \* widths of the integers the native program creates
          IndexConstants,   \* its index constants
          CastTypes,        \* the integer types its index casts convert from and to
          ArrayWidths,      \* widths the caller's type converter may choose for array constants
          NativeKinds,      \* the binary operations it uses
          MaxPairs          \* its number of values, parameters included

VARIABLES pairs, \* n: the native value, j: the jeff value, c: whether a constant defines it
          stage  \* "converting", "converted", "refused", "invalid" or "undefined"

nativeVars == <<pairs, stage>>

----------------------------------------------------------------------------
\* The driver.  Every action picks an operation of the native program and applies its pattern.

Typed2(i, k)   == pairs[i].n.type = pairs[k].n.type
IsScalarInt(i) == IsInt(pairs[i].n.type) \/ pairs[i].n.type = IndexType
Natives(t)     == {i \in DOMAIN pairs : pairs[i].n.type = t}
Tensors        == {i \in DOMAIN pairs : IsTensor(pairs[i].n.type)}

\* A native index of 64 bits that is a position in the tensor i.
InTensor(i, k) == pairs[k].n.val < Len(pairs[i].n.val)

Define(t, v, constant, outcome) ==
    /\ stage = "converting"
    /\ Len(pairs) < MaxPairs
    /\ stage' = outcome.status
    /\ pairs' = IF outcome.status = "converting"
                THEN Append(pairs, [n |-> Typed(t, v), j |-> outcome.value, c |-> constant])
                ELSE pairs

Convert(t, v, outcome) == Define(t, v, FALSE, outcome)

Constant ==
    \/ \E w \in IntWidths : \E v \in {0, 1, 2^w - 1} :
          Define(IntType(w), v, TRUE, ConvertConstant(IntType(w), v))
    \/ \E v \in IndexConstants : Define(IndexType, v, TRUE, ConvertConstant(IndexType, v))
    \/ \E v \in {<<"zero">>, <<"negative zero">>} :
          Define(FloatType, v, TRUE, ConvertConstant(FloatType, v))

ArrayConstant ==
    \E w \in IntWidths, n \in 1..2, converted \in ArrayWidths :
        \E v \in {<<2^w - 1>>, <<0, 2^w - 1>>} :
            LET t == TensorType(IntType(w), Len(v))
            IN Convert(t, v, ConvertArrayConstant(t, v, TensorType(IntType(converted), n)))

NativeBinary ==
    \E op \in NativeKinds, i, k \in DOMAIN pairs :
        LET t == pairs[i].n.type
            a == pairs[i].n.val
            b == pairs[k].n.val
        IN /\ IsScalarInt(i) /\ Typed2(i, k)
           /\ BinaryDefined(op, a, b, Width(t))
           /\ t = IndexType /\ op \in {"shl", "shr"} => b < I32
           /\ Convert(t, Binary(op, a, b, Width(t)), ConvertIntBinary(op, pairs[i].j, pairs[k].j))

Abs ==
    \E i \in DOMAIN pairs :
        /\ IsScalarInt(i)
        /\ Convert(pairs[i].n.type, AbsoluteValue(pairs[i].n.val, Width(pairs[i].n.type)),
                   ConvertAbs(pairs[i].j))

IntCompare ==
    \E op \in NativeComparisons, i, k \in DOMAIN pairs :
        LET w == Width(pairs[i].n.type)
        IN /\ IsScalarInt(i) /\ Typed2(i, k)
           /\ Convert(IntType(1), Compare(op, pairs[i].n.val, w, pairs[k].n.val, w),
                      ConvertCompare(op, pairs[i].j, pairs[k].j))

Select ==
    \E c \in Natives(IntType(1)), i, k \in DOMAIN pairs :
        /\ Typed2(i, k)
        /\ Convert(pairs[i].n.type, pairs[IF pairs[c].n.val = 1 THEN i ELSE k].n.val,
                   ConvertSelect(pairs[i].n.type, pairs[c].j, pairs[i].j, pairs[k].j))

IntCast ==
    \E op \in Casts, i \in DOMAIN pairs, w \in IntWidths :
        LET t == pairs[i].n.type
        IN /\ IsInt(t)
           /\ IF op = "trunc" THEN w < Width(t) ELSE w > Width(t)
           /\ Convert(IntType(w), Cast(op, pairs[i].n.val, Width(t), w),
                      ConvertCast(op, IntType(w), pairs[i].j))

IntToFloat ==
    \E i \in DOMAIN pairs :
        /\ IsInt(pairs[i].n.type)
        /\ Convert(FloatType, <<"toFloat", pairs[i].n.val>>,
                   ConvertCast("toFloat", FloatType, pairs[i].j))

FloatOp ==
    \E i, k \in Natives(FloatType) :
        \/ Convert(FloatType, <<"sqrt", <<pairs[i].n.val>>>>,
                   ConvertFloat("sqrt", <<pairs[i].j.val>>))
        \/ Convert(FloatType, <<"pow", <<pairs[i].n.val, pairs[k].n.val>>>>,
                   ConvertFloat("pow", <<pairs[i].j.val, pairs[k].j.val>>))
        \/ \E op \in {"lt", "ne"} :
              Convert(IntType(1), FloatHolds(op, <<pairs[i].n.val, pairs[k].n.val>>),
                      ConvertFloatComparison(op, <<pairs[i].j.val, pairs[k].j.val>>))
        \/ Convert(IntType(1), FloatHolds("isNan", <<pairs[i].n.val>>),
                   ConvertFloatIs("isNan", pairs[i].j))

\* Index values that can be the size of a tensor.
Sizes == {i \in Natives(IndexType) : pairs[i].n.val < 2^(I64 - 1)}

Empty ==
    \E i \in Sizes, elem \in {IntType(I32), FloatType, IndexType} :
        LET t == TensorType(elem, Dynamic)
        IN Convert(t, [k \in 1..pairs[i].n.val |-> Undefined],
                   ConvertZero(t, <<pairs[i].j>>, FALSE, pairs[i]))

Splat ==
    \E s \in DOMAIN pairs :
        LET t == pairs[s].n.type
        IN /\ ~IsTensor(t)
           /\ \/ \E i \in Sizes :
                    Convert(TensorType(t, Dynamic), [k \in 1..pairs[i].n.val |-> pairs[s].n.val],
                            ConvertZero(TensorType(t, Dynamic), <<pairs[i].j>>, TRUE, pairs[s]))
              \/ Convert(TensorType(t, 2), <<pairs[s].n.val, pairs[s].n.val>>,
                         ConvertZero(TensorType(t, 2), <<>>, TRUE, pairs[s]))

Extract ==
    \E i \in Tensors, k \in Natives(IndexType) :
        LET t == pairs[i].n.type[2]
        IN /\ InTensor(i, k) /\ pairs[i].n.val[pairs[k].n.val + 1] # Undefined
           /\ Convert(t, pairs[i].n.val[pairs[k].n.val + 1],
                      ConvertExtract(t, pairs[i].j, pairs[k].j))

Insert ==
    \E i \in Tensors, k \in Natives(IndexType), s \in DOMAIN pairs :
        LET t == pairs[i].n.type
        IN /\ pairs[s].n.type = t[2] /\ InTensor(i, k)
           /\ Convert(t, [pairs[i].n.val EXCEPT ![pairs[k].n.val + 1] = pairs[s].n.val],
                      ConvertInsert(t, pairs[s].j, pairs[i].j, pairs[k].j))

Dim ==
    \E i \in Tensors, k \in Natives(IndexType) :
        /\ pairs[k].n.val = 0
        /\ Convert(IndexType, Len(pairs[i].n.val), ConvertDim(pairs[i].n.type, pairs[i].j))

FromElements ==
    \E i, k \in DOMAIN pairs :
        LET t == TensorType(pairs[i].n.type, 2)
        IN /\ ~IsTensor(pairs[i].n.type) /\ Typed2(i, k)
           /\ Convert(t, <<pairs[i].n.val, pairs[k].n.val>>,
                      ConvertFromElements(t, <<pairs[i].j, pairs[k].j>>))

IndexCast ==
    \E i \in DOMAIN pairs :
        LET t == pairs[i].n.type
            v == pairs[i].n.val
        IN \/ /\ t \in CastTypes
              /\ Convert(IndexType, SignExtend(v, Width(t), I64), ConvertIndexCast(pairs[i].j))
           \/ /\ t = IndexType
              /\ \E u \in CastTypes : Convert(u, Wrap(v, Width(u)), ConvertIndexCast(pairs[i].j))

\* No pattern is registered for a cast between tensor types.
TensorCast ==
    \E i \in Tensors :
        Convert(TensorType(pairs[i].n.type[2], Dynamic), pairs[i].n.val, Stopped("refused"))

\* The function returns a value.  The return stays as it is: a value that was replaced by one of
\* another type has a use that the driver cannot satisfy.
Return ==
    \E i \in DOMAIN pairs :
        /\ stage = "converting"
        /\ stage' = IF pairs[i].j.type = pairs[i].n.type THEN "converted" ELSE "refused"
        /\ UNCHANGED pairs

NativeInit ==
    /\ \E p \in NativeParameters :
          pairs = [i \in DOMAIN p |-> [n |-> p[i], j |-> p[i], c |-> FALSE]]
    /\ stage = "converting"

NativeNext ==
    \/ Constant \/ ArrayConstant \/ NativeBinary \/ Abs \/ IntCompare \/ Select \/ IntCast
    \/ IntToFloat \/ FloatOp \/ Empty \/ Splat \/ Extract \/ Insert \/ Dim \/ FromElements
    \/ IndexCast \/ TensorCast \/ Return

NativeSpec == NativeInit /\ [][NativeNext]_nativeVars

----------------------------------------------------------------------------
\* The index values of the native program are positions and lengths an i32 can hold.
IndicesFit == \A i \in Natives(IndexType) : pairs[i].n.val < 2^(I32 - 1)

SameElements(n, j) == /\ Len(n) = Len(j)
                      /\ \A k \in DOMAIN n : n[k] \in {Undefined, j[k]}

\* The replacement has the value of what it replaces, where it has its type or stands for an
\* index: the two are numbers, sequences of elements, or terms.
Agree(n, j) ==
    IF IsTensor(n.type) THEN SameElements(n.val, j.val)
    ELSE j.type = n.type \/ n.type = IndexType => j.val = n.val

\* The conversion changes the type of an index to i32, at its constants, at tensor.dim and at every
\* operation between them, and drops the casts; as long as the index values of the program fit,
\* the jeff program computes what the native one does, in every position of an operand.
ValuesKept ==
    IndicesFit => /\ stage # "undefined"
                  /\ \A i \in DOMAIN pairs : Agree(pairs[i].n, pairs[i].j)

\* Dropping the casts between i32 and index leaves every value with its type, and an index with
\* i32: nothing is left that the driver must cast back for a use it does not convert.
TypeKept(n, j) ==
    IF IsTensor(n.type) THEN IsTensor(j.type)
    ELSE j.type = IF n.type = IndexType THEN IntType(I32) ELSE n.type
TypesKept == \A i \in DOMAIN pairs : TypeKept(pairs[i].n, pairs[i].j)

\* "The conversion ensures that the created operations are compatible with each other"
\* (NativeToJeff.td:78): no operation is created that the verifier refuses.
Compatible == stage # "invalid"

\* No operation is created that the verifier refuses, and no value replaced by one of a type that
\* its uses do not take: an index becomes an i32, any other value keeps its type.
CompatibleTypes == Compatible /\ TypesKept

\* The programs these properties are about: well typed, with parameters that are no indices (the
\* signature of a function is not converted) and casts of indices from and to i32 alone.
ScalarType(t)  == (IsInt(t) /\ Width(t) \in Nat \ {0} /\ PowersOf2(Width(t))) \/ t = FloatType
ElementType(t) == ScalarType(t) \/ t = IndexType
I32Programs ==
    /\ \A w \in IntWidths : ScalarType(IntType(w))
    /\ IndexConstants \subseteq 0..(2^I64 - 1)
    /\ CastTypes \subseteq {IntType(I32)}
    /\ NativeKinds \subseteq BinaryOps
    /\ \A p \in NativeParameters :
          /\ IsSequence(p)
          /\ \A i \in DOMAIN p :
                LET t == p[i].type
                IN WellTyped(p[i]) /\ IF IsTensor(t) THEN ElementType(t[2]) ELSE ScalarType(t)
====
