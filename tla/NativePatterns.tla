---- MODULE NativePatterns ----
(***************************************************************************)
(* The patterns of the pass native-to-jeff: what each of them makes of an  *)
(* operation, given the values that replaced its operands.                 *)
(* lib/Conversion/NativeToJeff/NativeToJeff.cpp                            *)
(***************************************************************************)
EXTENDS Arithmetic

JeffWidths == {1, I32, I64}

\* An outcome of a pattern.  "invalid": the operation created does not satisfy its definition and
\* the verifier that runs after the pass reports it.  "undefined": it has no defined result.
Replaced(t, v) == [status |-> "converting", value |-> Typed(t, v)]
Stopped(s)     == [status |-> s]

----------------------------------------------------------------------------
\* The patterns.  t is the native result type, a, b, ... are adaptor operands.

\* The mutant keeps the width of an index.
ConvertConstantWide(t, v) ==
    IF t = FloatType THEN Replaced(t, v)
    ELSE IF Width(t) \in JeffWidths THEN Replaced(IntType(Width(t)), v)
    ELSE Stopped("refused")
ConvertConstant(t, v) ==
    CASE t = IndexType ->
             IF Signed(v, I64) > 2^(I32 - 1) - 1 THEN Stopped("refused")
             ELSE Replaced(IntType(I32), Wrap(v, I32))
      [] IsInt(t) -> IF Width(t) \in JeffWidths THEN Replaced(t, v) ELSE Stopped("refused")
      [] t = FloatType -> Replaced(t, v)

\* The elements of an array constant keep their type or are extended with zeros, where the caller
\* gave a converter: that the numbers stay is that their representation as naturals stays.
ConvertArrayConstant(t, v, converted) ==
    IF /\ converted[3] = Len(v)
       /\ IF IsInt(t[2]) THEN /\ IsInt(converted[2])
                              /\ Width(t[2]) <= Width(converted[2])
                              /\ Width(converted[2]) \in JeffWidths
          ELSE t[2] = FloatType /\ converted[2] = t[2]
    THEN Replaced(converted, v) ELSE Stopped("refused")

ConvertIntBinary(op, a, b) ==
    IF a.type # b.type \/ ~IsInt(a.type) THEN Stopped("invalid")
    ELSE IF ~BinaryDefined(op, a.val, b.val, Width(a.type)) THEN Stopped("undefined")
    ELSE Replaced(a.type, Binary(op, a.val, b.val, Width(a.type)))

ConvertAbs(a) == Replaced(a.type, AbsoluteValue(a.val, Width(a.type)))

\* The mutant swaps the operands.
ConvertCompareSwapped(op, a, b) ==
    IF op \notin Comparisons THEN Stopped("refused")
    ELSE Replaced(IntType(1), Compare(op, b.val, Width(b.type), a.val, Width(a.type)))
\* The definition of the comparison does not demand operands of one type.
ConvertCompare(op, a, b) ==
    IF op \notin Comparisons THEN Stopped("refused")
    ELSE Replaced(IntType(1), Compare(op, a.val, Width(a.type), b.val, Width(b.type)))

\* The mutant swaps the alternatives.
ConvertSelectSwapped(t, condition, a, b) ==
    IF ~IsInt(t) /\ t # FloatType THEN Stopped("refused")
    ELSE LET chosen == IF condition.val = 1 THEN b ELSE a
         IN Replaced(t, IF IsInt(t) THEN Wrap(chosen.val, Width(t)) ELSE chosen.val)
ConvertSelect(t, condition, a, b) ==
    IF ~IsInt(t) /\ t # FloatType THEN Stopped("refused")
    ELSE LET chosen == IF condition.val = 1 THEN a ELSE b
         IN Replaced(t, IF IsInt(t) THEN Wrap(chosen.val, Width(t)) ELSE chosen.val)

\* extsi, extui, trunci, sitofp; and the operations on floats, whose results are terms.
ConvertCast(op, t, a) ==
    Replaced(t, IF t = FloatType THEN <<op, a.val>> ELSE Cast(op, a.val, Width(a.type), Width(t)))
ConvertFloat(op, operands) == Replaced(FloatType, <<op, operands>>)
ConvertFloatComparison(op, operands) ==
    IF op \in {"eq", "lt", "lte"} THEN Replaced(IntType(1), FloatHolds(op, operands))
    ELSE Stopped("refused")
ConvertFloatIs(op, a) == Replaced(IntType(1), FloatHolds(op, <<a.val>>))

IsZero(input) ==
    input.c /\ input.n.val = IF input.n.type = FloatType THEN <<"zero">> ELSE 0

\* The mutant takes sizes of type index, which the conversion has replaced.
ConvertZeroOfIndex(t, sizes, splat, input) ==
    IF \/ Len(sizes) # 1
       \/ sizes[1].type # IndexType
       \/ splat /\ ~IsZero(input)
    THEN Stopped("refused")
    ELSE Replaced(t, [k \in 1..sizes[1].val |-> 0])
\* tensor.empty and tensor.splat; sizes are the adaptor values of the dynamic sizes.
ConvertZero(t, sizes, splat, input) ==
    IF \/ Len(sizes) # 1
       \/ sizes[1].type # IntType(I32)
       \/ splat /\ ~IsZero(input)
       \/ IF IsInt(t[2]) THEN Width(t[2]) \notin JeffWidths ELSE t[2] # FloatType
    THEN Stopped("refused")
    ELSE IF Signed(sizes[1].val, I32) < 0 THEN Stopped("undefined")
    ELSE Replaced(t, [k \in 1..sizes[1].val |-> IF IsInt(t[2]) THEN 0 ELSE <<"zero">>])

ElementSupported(t) == IsInt(t) \/ t = FloatType

ConvertExtract(t, array, index) ==
    IF ~ElementSupported(t) THEN Stopped("refused")
    ELSE IF index.type # IntType(I32) THEN Stopped("invalid")
    ELSE IF index.val >= Len(array.val) THEN Stopped("undefined")
    ELSE Replaced(t, array.val[index.val + 1])

ConvertInsert(t, scalar, array, index) ==
    IF ~ElementSupported(t[2]) THEN Stopped("refused")
    ELSE IF index.type # IntType(I32) THEN Stopped("invalid")
    ELSE IF index.val >= Len(array.val) THEN Stopped("undefined")
    ELSE Replaced(t, [array.val EXCEPT ![index.val + 1] = scalar.val])

ConvertDim(t, array) ==
    IF ElementSupported(t[2]) THEN Replaced(IntType(I32), Wrap(Len(array.val), I32))
    ELSE Stopped("refused")

ConvertFromElements(t, elements) ==
    IF ElementSupported(t[2])
    THEN Replaced(t, [k \in DOMAIN elements |-> elements[k].val])
    ELSE Stopped("refused")

ConvertIndexCast(a) == Replaced(a.type, a.val)
====
