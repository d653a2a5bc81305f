---------------------------- MODULE PassesProofs ----------------------------
(***************************************************************************)
(* Proofs about what jeff-opt does with a program: its two conversions,    *)
(* its text and its canonicalization.  The components share no state, so   *)
(* each has its own invariant:                                             *)
(*   - JeffToNative: every value keeps its type and its value, to native   *)
(*     operations and back, at any width of i32 and i64;                   *)
(*   - RegionSyntax: the text of an operation that was verified is read as *)
(*     an operation that is verified, and the same one if its yields carry *)
(*     its values;                                                         *)
(*   - Canonicalize: no operand is lost and no value changed;              *)
(*   - NativeToJeff: the jeff program computes what the native program     *)
(*     does, of values of the same types, but that an index is an i32 in   *)
(*     it; NarrowBinary says why its operations give what those on 64 bits *)
(*     give as long as the results fit.                                    *)
(***************************************************************************)
EXTENDS JeffToNative, NativeToJeff, RegionSyntax, Canonicalize, ArithmeticProofs

----------------------------------------------------------------------------
(* JeffToNative: widths and values.                                        *)

LEMMA IntsTyped ==
  ASSUME NEW x, WellTyped(x), JeffType(x.type), IsInt(x.type)
  PROVE  /\ Width(x.type) \in JeffWidths /\ Width(x.type) \in Nat \ {0}
         /\ PowersOf2(Width(x.type)) /\ x.val \in Numbers(Width(x.type))
         /\ x.val \in Nat /\ x = Typed(x.type, x.val)
<1>1. Width(x.type) \in JeffWidths /\ x.val \in Numbers(Width(x.type)) /\ x = Typed(x.type, x.val)
  BY Kinds DEF JeffType, JeffScalar, WellTyped, Fits, Numbers
<1>2. Width(x.type) \in Nat \ {0} /\ PowersOf2(Width(x.type))
  BY <1>1, WidthsTyped
<1> QED
  BY <1>1, <1>2, NumbersTyped

----------------------------------------------------------------------------
(* JeffToNative: the invariant.                                            *)

StaticZeros(x) ==
    \E elem \in {IntType(1), FloatType}, n \in 0..(2^(I32 - 1) - 1) :
        x = Typed(TensorType(elem, n), Zeros(elem, n))

\* Every value is what it was, in all three programs; what native-to-jeff refuses ends the walk.
Kept(x) ==
    /\ WellTyped(x.j) /\ JeffType(x.j.type)
    /\ x.n = x.j
    /\ x.b = x.j \/ (x.b = Unconverted /\ StaticZeros(x.j))
PassInv ==
    /\ IsSequence(values)
    /\ \A i \in DOMAIN values : Kept(values[i])
    /\ back \in {"converting", "refused"}
    /\ back = "converting" => \A i \in DOMAIN values : values[i].b = values[i].j

\* An operation is converted well if both patterns make the value of the jeff program of it.
LEMMA OpKeeps ==
  ASSUME PassInv, NEW t, NEW v, NEW to, NEW from, Op(t, v, to, from),
         to.status = "converting" =>
             /\ WellTyped(Typed(t, v)) /\ JeffType(t)
             /\ to.value = Typed(t, v)
             /\ \/ from.status = "converting" /\ from.value = Typed(t, v)
                \/ from.status = "refused" /\ StaticZeros(Typed(t, v))
  PROVE  PassInv'
<1>1. /\ back = "converting" /\ native' = to.status
      /\ back' = IF to.status = "converting" THEN from.status ELSE back
      /\ values' =
           IF to.status # "converting" THEN values
           ELSE Append(values, [j |-> Typed(t, v), n |-> to.value,
                                b |-> IF from.status = "converting" THEN from.value ELSE Unconverted])
  BY DEF Op
<1>2. CASE to.status # "converting"
  BY <1>1, <1>2 DEF PassInv
<1>3. CASE to.status = "converting"
  <2> DEFINE e == [j |-> Typed(t, v), n |-> to.value,
                   b |-> IF from.status = "converting" THEN from.value ELSE Unconverted]
  <2>1. values' = Append(values, e) /\ back' = from.status
    BY <1>1, <1>3
  <2>2. Kept(e) /\ (from.status = "converting" => e.b = e.j)
    BY <1>3, ScalarTyped DEF Kept
  <2> HIDE DEF e
  <2>3. /\ IsSequence(values') /\ Len(values) \in Nat /\ DOMAIN values = 1 .. Len(values)
        /\ DOMAIN values' = 1 .. (Len(values) + 1)
        /\ \A i \in 1 .. Len(values) : values'[i] = values[i]
        /\ values'[Len(values) + 1] = e
    BY <2>1, Appended DEF PassInv
  <2>4. \A i \in DOMAIN values' : Kept(values'[i])
    BY <2>2, <2>3 DEF PassInv
  <2>5. back' \in {"converting", "refused"}
    BY <1>3, <2>1
  <2>6. back' = "converting" => \A i \in DOMAIN values' : values'[i].b = values'[i].j
    BY <1>1, <2>1, <2>2, <2>3 DEF PassInv
  <2>7. (\A i \in DOMAIN values : Kept(values[i]))' <=> \A i \in DOMAIN values' : Kept(values'[i])
    BY DEF Kept
  <2> QED
    BY <2>3, <2>4, <2>5, <2>6 DEF PassInv
<1> QED
  BY <1>2, <1>3

\* The operands of an operation that is converted.
LEMMA Operands ==
  ASSUME PassInv, back = "converting", NEW i \in DOMAIN values
  PROVE  /\ values[i].n = values[i].j /\ values[i].b = values[i].j
         /\ WellTyped(values[i].j) /\ JeffType(values[i].j.type)
BY DEF PassInv, Kept

LEMMA OpConverts ==
  ASSUME NEW t, NEW v, NEW to, NEW from, Op(t, v, to, from)
  PROVE  back = "converting"
BY DEF Op

----------------------------------------------------------------------------
(* JeffToNative: one lemma per operation of the jeff program.              *)

LEMMA IntTyped ==
  ASSUME NEW w \in JeffWidths, NEW v \in Numbers(w)
  PROVE  WellTyped(Typed(IntType(w), v)) /\ JeffType(IntType(w))
BY Kinds, ScalarTyped DEF JeffType, JeffScalar

LEMMA FloatTyped ==
  ASSUME NEW v
  PROVE  WellTyped(Typed(FloatType, v)) /\ JeffType(FloatType)
BY Kinds, ScalarTyped DEF JeffType, JeffScalar

LEMMA IntConstKeeps == PassInv /\ IntConst => PassInv'
<1> SUFFICES ASSUME PassInv, IntConst PROVE PassInv'
  OBVIOUS
<1>1. PICK w \in JeffWidths : \E v \in {0, 2^w - 1} :
         Op(IntType(w), v, ToConst(IntType(w), v), ConvertConstant(IntType(w), v))
  BY DEF IntConst
<1>2. PICK v \in {0, 2^w - 1} :
         Op(IntType(w), v, ToConst(IntType(w), v), ConvertConstant(IntType(w), v))
  BY <1>1
<1>3. v \in Numbers(w)
  BY WidthsTyped, NumbersTyped DEF Numbers
<1>4. ConvertConstant(IntType(w), v) = Replaced(IntType(w), v)
  BY ConstantsConverted
<1>5. WellTyped(Typed(IntType(w), v)) /\ JeffType(IntType(w))
  BY <1>3, IntTyped
<1> QED
  BY <1>2, <1>4, <1>5, Outcomes, OpKeeps DEF ToConst

LEMMA FloatConstKeeps == PassInv /\ FloatConst => PassInv'
<1> SUFFICES ASSUME PassInv, FloatConst PROVE PassInv'
  OBVIOUS
<1>1. PICK v : Op(FloatType, v, ToConst(FloatType, v), ConvertConstant(FloatType, v))
  BY DEF FloatConst
<1> QED
  BY <1>1, ConstantsConverted, FloatTyped, Outcomes, OpKeeps DEF ToConst

LEMMA IntUnaryKeeps == PassInv /\ IntUnary => PassInv'
<1> SUFFICES ASSUME PassInv, IntUnary PROVE PassInv'
  OBVIOUS
<1>1. PICK i \in Ints :
        LET a == values[i]
            w == WidthOf(i)
        IN \/ Op(a.j.type, 2^w - 1 - a.j.val, ToNot(a.n), BackNot(a.b))
           \/ Op(a.j.type, AbsoluteValue(a.j.val, w), ToAbs(a.n), ConvertAbs(a.b))
  BY DEF IntUnary
<1> DEFINE a == values[i].j
           w == Width(a.type)
           t == a.type
<1>2. back = "converting"
  BY <1>1, OpConverts
<1>3. /\ i \in DOMAIN values /\ values[i].n = a /\ values[i].b = a
      /\ WellTyped(a) /\ JeffType(t) /\ IsInt(t)
  BY <1>2, Operands DEF Ints
<1> HIDE DEF a
<1>4. /\ w \in JeffWidths /\ w \in Nat \ {0} /\ PowersOf2(w) /\ a.val \in Numbers(w)
      /\ a = Typed(t, a.val)
  BY <1>3, IntsTyped
<1>5. WidthOf(i) = w
  BY DEF WidthOf, a
<1>6. ASSUME NEW v \in Numbers(w) PROVE WellTyped(Typed(t, v)) /\ JeffType(t)
  BY <1>3, <1>6, Kinds, ScalarTyped
<1>7. CASE Op(t, 2^w - 1 - a.val, ToNot(a), BackNot(a))
  <2> DEFINE v == 2^w - 1 - a.val
  <2>1. v \in Numbers(w) /\ Binary("xor", a.val, AllOnes(t), w) = v
    BY <1>4, ComplementBits, XorWithOnes DEF AllOnes
  <2>2. ToNot(a) = Replaced(t, v)
    BY <2>1 DEF ToNot
  <2>3. ConvertConstant(t, AllOnes(t)) = Replaced(t, AllOnes(t))
    BY <1>3, <1>4, Kinds DEF ConvertConstant
  <2>4. BackNot(a) = Replaced(t, v)
    <3> DEFINE c == Typed(t, AllOnes(t))
    <3>1. BackNot(a) = ConvertIntBinary("xor", a, c)
      BY <2>3, Outcomes DEF BackNot
    <3>2. c.type = t /\ c.val = AllOnes(t)
      BY ScalarTyped
    <3> HIDE DEF c
    <3>3. BinaryDefined("xor", a.val, c.val, w)
      BY DEF BinaryDefined
    <3> QED
      BY <1>3, <2>1, <3>1, <3>2, <3>3 DEF ConvertIntBinary
  <2> HIDE DEF v
  <2>5. WellTyped(Typed(t, v)) /\ JeffType(t)
    BY <1>6, <2>1
  <2> QED
    BY <1>7, <2>2, <2>4, <2>5, Outcomes, OpKeeps DEF v
<1>8. CASE Op(t, AbsoluteValue(a.val, w), ToAbs(a), ConvertAbs(a))
  <2> DEFINE v == AbsoluteValue(a.val, w)
  <2>1. v \in Numbers(w)
    <3>1. Signed(a.val, w) \in Int /\ a.val \in Int
      BY <1>4, SignedTyped, NumbersTyped
    <3> QED
      BY <1>4, <3>1, Wrapped DEF AbsoluteValue
  <2>2. ToAbs(a) = Replaced(t, v) /\ ConvertAbs(a) = Replaced(t, v)
    BY DEF ToAbs, ConvertAbs
  <2> HIDE DEF v
  <2>3. WellTyped(Typed(t, v)) /\ JeffType(t)
    BY <1>6, <2>1
  <2> QED
    BY <1>8, <2>2, <2>3, Outcomes, OpKeeps DEF v
<1> QED
  BY <1>1, <1>3, <1>5, <1>7, <1>8 DEF a

LEMMA IntBinaryKeeps == PassInv /\ IntBinary => PassInv'
<1> SUFFICES ASSUME PassInv, IntBinary PROVE PassInv'
  OBVIOUS
<1>1. PICK kind \in BinaryKinds, i \in Ints, k \in Ints :
        LET x == values[i]
            y == values[k]
        IN /\ OneType(i, k) /\ BinaryDefined(kind, x.j.val, y.j.val, WidthOf(i))
           /\ Op(x.j.type, Binary(kind, x.j.val, y.j.val, WidthOf(i)),
                 ToBinary(kind, x.n, y.n), ConvertIntBinary(kind, x.b, y.b))
  BY DEF IntBinary
<1> DEFINE a == values[i].j
           b == values[k].j
           t == a.type
           w == Width(t)
           v == Binary(kind, a.val, b.val, w)
<1>2. back = "converting"
  BY <1>1, OpConverts
<1>3. /\ values[i].n = a /\ values[i].b = a /\ WellTyped(a) /\ JeffType(t) /\ IsInt(t)
      /\ values[k].n = b /\ values[k].b = b /\ WellTyped(b) /\ b.type = t
      /\ WidthOf(i) = w
  BY <1>1, <1>2, Operands DEF Ints, OneType, WidthOf
<1> HIDE DEF a, b
<1>4. /\ w \in Nat \ {0} /\ PowersOf2(w) /\ a.val \in Numbers(w) /\ b.val \in Numbers(w)
      /\ BinaryDefined(kind, a.val, b.val, w) /\ kind \in BinaryOps
  BY <1>1, <1>3, IntsTyped, KindsAssumption DEF a, b
<1>5. v \in Numbers(w)
  BY <1>4, BinaryTyped
<1>6. ToBinary(kind, a, b) = Replaced(t, v) /\ ConvertIntBinary(kind, a, b) = Replaced(t, v)
  BY <1>3, <1>4 DEF ToBinary, ConvertIntBinary
<1> HIDE DEF v
<1>7. WellTyped(Typed(t, v)) /\ JeffType(t)
  BY <1>3, <1>5, Kinds, ScalarTyped
<1>8. Op(t, v, ToBinary(kind, a, b), ConvertIntBinary(kind, a, b))
  BY <1>1, <1>3 DEF a, b, v
<1> QED
  BY <1>6, <1>7, <1>8, Outcomes, OpKeeps

LEMMA CompareTyped ==
  ASSUME NEW kind, NEW a, NEW wa, NEW b, NEW wb
  PROVE  /\ WellTyped(Typed(IntType(1), Compare(kind, a, wa, b, wb)))
         /\ JeffType(IntType(1))
<1>1. Compare(kind, a, wa, b, wb) \in {0, 1}
  BY DEF Compare
<1>2. \A c \in {0, 1} : c \in Numbers(1)
  BY DEF Numbers
<1> QED
  BY <1>1, <1>2, IntTyped DEF JeffWidths

LEMMA IntComparisonKeeps == PassInv /\ IntComparison => PassInv'
<1> SUFFICES ASSUME PassInv, IntComparison PROVE PassInv'
  OBVIOUS
<1>1. PICK kind \in Comparisons, i \in Ints, k \in Ints :
        LET x == values[i]
            y == values[k]
        IN Op(IntType(1), Compare(kind, x.j.val, WidthOf(i), y.j.val, WidthOf(k)),
              ToComparison(kind, x.n, y.n), ConvertCompare(kind, x.b, y.b))
  BY DEF IntComparison
<1> DEFINE a == values[i].j
           b == values[k].j
           v == Compare(kind, a.val, Width(a.type), b.val, Width(b.type))
<1>2. back = "converting"
  BY <1>1, OpConverts
<1>3. /\ values[i].n = a /\ values[i].b = a /\ WidthOf(i) = Width(a.type)
      /\ values[k].n = b /\ values[k].b = b /\ WidthOf(k) = Width(b.type)
  BY <1>2, Operands DEF Ints, WidthOf
<1> HIDE DEF a, b
<1>4. ConvertCompare(kind, a, b) = Replaced(IntType(1), v)
  BY DEF ConvertCompare
<1>5. ToComparison(kind, a, b) = IF a.type # b.type THEN Stopped("invalid") ELSE Replaced(IntType(1), v)
  BY DEF ToComparison
<1>6. WellTyped(Typed(IntType(1), v)) /\ JeffType(IntType(1))
  BY CompareTyped
<1>7. Op(IntType(1), v, ToComparison(kind, a, b), ConvertCompare(kind, a, b))
  BY <1>1, <1>3 DEF a, b
<1> HIDE DEF v
<1>8. ToComparison(kind, a, b).status = "converting" => ToComparison(kind, a, b).value = Typed(IntType(1), v)
  BY <1>5, Outcomes
<1> QED
  BY <1>4, <1>6, <1>7, <1>8, Outcomes, OpKeeps

LEMMA SelectValueKeeps == PassInv /\ SelectValue => PassInv'
<1> SUFFICES ASSUME PassInv, SelectValue PROVE PassInv'
  OBVIOUS
<1>1. PICK c \in OfType(IntType(1)), i \in DOMAIN values, k \in DOMAIN values :
        LET x == values[i]
            y == values[k]
        IN /\ BothScalar(i, k)
           /\ Op(x.j.type, IF values[c].j.val = 1 THEN x.j.val ELSE y.j.val,
                 ToSelect(values[c].n, x.n, y.n), ConvertSelect(x.n.type, values[c].b, x.b, y.b))
  BY DEF SelectValue
<1> DEFINE a == values[i].j
           b == values[k].j
           s == values[c].j
           t == a.type
           chosen == IF s.val = 1 THEN a ELSE b
<1>2. back = "converting"
  BY <1>1, OpConverts
<1>3. /\ values[i].n = a /\ values[i].b = a /\ WellTyped(a) /\ JeffType(t) /\ ~IsTensor(t)
      /\ values[k].n = b /\ values[k].b = b /\ WellTyped(b) /\ JeffType(b.type)
      /\ values[c].n = s /\ values[c].b = s
  BY <1>1, <1>2, Operands, Kinds DEF BothScalar, Ints, OfType
<1>0. Op(t, IF s.val = 1 THEN a.val ELSE b.val, ToSelect(s, a, b), ConvertSelect(t, s, a, b))
  BY <1>1, <1>3
<1> HIDE DEF a, b, s
<1>10. CASE t # b.type
  <2>1. ToSelect(s, a, b) = Stopped("invalid")
    BY <1>10 DEF ToSelect
  <2>2. ToSelect(s, a, b).status # "converting"
    BY <2>1, Outcomes
  <2> QED
    BY <1>0, <2>2, OpKeeps
<1> SUFFICES ASSUME t = b.type PROVE PassInv'
  BY <1>10
<1>4. WellTyped(chosen) /\ chosen = Typed(t, chosen.val) /\ chosen.type = t
  BY <1>3 DEF WellTyped
<1>5. ToSelect(s, a, b) = Replaced(t, chosen.val)
  BY DEF ToSelect
<1> HIDE DEF chosen
<1>6. IsInt(t) \/ t = FloatType
  BY <1>3 DEF JeffType, JeffScalar
<1>7. IsInt(t) => Wrap(chosen.val, Width(t)) = chosen.val
  <2> SUFFICES ASSUME IsInt(t) PROVE Wrap(chosen.val, Width(t)) = chosen.val
    OBVIOUS
  <2>1. /\ Width(t) \in Nat /\ PowersOf2(Width(t)) /\ chosen.val \in Numbers(Width(t))
        /\ chosen.val \in Int
    BY <1>3, <1>4, IntsTyped
  <2> QED
    BY <2>1, Wrapped
<1>8. ConvertSelect(t, s, a, b) = Replaced(t, chosen.val)
  BY <1>6, <1>7 DEF ConvertSelect, chosen
<1>9. Op(t, chosen.val, ToSelect(s, a, b), ConvertSelect(t, s, a, b))
  <2>1. (IF s.val = 1 THEN a.val ELSE b.val) = chosen.val
    BY DEF chosen
  <2> QED
    BY <1>0, <2>1
<1> QED
  BY <1>3, <1>4, <1>5, <1>8, <1>9, Outcomes, OpKeeps

LEMMA ConversionKeeps == PassInv /\ Conversion => PassInv'
<1> SUFFICES ASSUME PassInv, Conversion PROVE PassInv'
  OBVIOUS
<1>1. PICK i \in Ints :
        LET a == values[i]
            Apply(kind, t, v) == Op(t, v, ToConversion(kind, t, a.n), ConvertCast(kind, t, a.b))
        IN \/ \E kind \in Casts, w \in JeffWidths :
                 /\ IF kind = "trunc" THEN w < WidthOf(i) ELSE w > WidthOf(i)
                 /\ Apply(kind, IntType(w), Cast(kind, a.j.val, WidthOf(i), w))
           \/ Apply("intToFloat", FloatType, <<"intToFloat", a.j.val>>)
  BY DEF Conversion
<1> DEFINE a == values[i].j
<1>2. back = "converting"
  BY <1>1, OpConverts
<1>3. /\ values[i].n = a /\ values[i].b = a /\ WellTyped(a) /\ JeffType(a.type) /\ IsInt(a.type)
      /\ WidthOf(i) = Width(a.type)
  BY <1>1, <1>2, Operands DEF Ints, WidthOf
<1> HIDE DEF a
<1>4. ASSUME NEW kind, NEW t
      PROVE  /\ ToConversion(kind, t, a) =
                  Replaced(t, IF t = FloatType THEN <<kind, a.val>>
                              ELSE Cast(kind, a.val, Width(a.type), Width(t)))
             /\ ConvertCast(kind, t, a) = ToConversion(kind, t, a)
  BY DEF ToConversion, ConvertCast
<1>5. ASSUME NEW kind \in Casts, NEW w \in JeffWidths,
             Op(IntType(w), Cast(kind, a.val, Width(a.type), w),
                ToConversion(kind, IntType(w), a), ConvertCast(kind, IntType(w), a))
      PROVE  PassInv'
  <2> DEFINE v == Cast(kind, a.val, Width(a.type), w)
  <2>1. v \in Numbers(w)
    <3>1. /\ Width(a.type) \in Nat \ {0} /\ PowersOf2(Width(a.type))
          /\ a.val \in Numbers(Width(a.type)) /\ a.val \in Int
      BY <1>3, IntsTyped
    <3>2. Signed(a.val, Width(a.type)) \in Int
      BY <3>1, SignedTyped
    <3>3. \A x \in Int : Wrap(x, w) \in Numbers(w)
      BY WidthsTyped, Wrapped
    <3> QED
      BY <3>1, <3>2, <3>3 DEF Cast, SignExtend
  <2>2. ToConversion(kind, IntType(w), a) = Replaced(IntType(w), v)
    BY <1>4, Kinds
  <2>3. ConvertCast(kind, IntType(w), a) = Replaced(IntType(w), v)
    BY <1>4, <2>2
  <2>4. WellTyped(Typed(IntType(w), v)) /\ JeffType(IntType(w))
    BY <2>1, IntTyped
  <2> HIDE DEF v
  <2> QED
    BY <1>5, <2>2, <2>3, <2>4, Outcomes, OpKeeps DEF v
<1>6. ASSUME Op(FloatType, <<"intToFloat", a.val>>,
                ToConversion("intToFloat", FloatType, a), ConvertCast("intToFloat", FloatType, a))
      PROVE  PassInv'
  <2> DEFINE v == <<"intToFloat", a.val>>
  <2>1. ToConversion("intToFloat", FloatType, a) = Replaced(FloatType, v)
    BY <1>4
  <2>2. ConvertCast("intToFloat", FloatType, a) = Replaced(FloatType, v)
    BY <1>4, <2>1
  <2> HIDE DEF v
  <2> QED
    BY <1>6, <2>1, <2>2, FloatTyped, Outcomes, OpKeeps DEF v
<1>7. \/ \E kind \in Casts, w \in JeffWidths :
            Op(IntType(w), Cast(kind, a.val, Width(a.type), w),
               ToConversion(kind, IntType(w), a), ConvertCast(kind, IntType(w), a))
      \/ Op(FloatType, <<"intToFloat", a.val>>,
            ToConversion("intToFloat", FloatType, a), ConvertCast("intToFloat", FloatType, a))
  BY <1>1, <1>3 DEF a
<1> QED
  BY <1>5, <1>6, <1>7

LEMMA FloatOperationKeeps == PassInv /\ FloatOperation => PassInv'
<1> SUFFICES ASSUME PassInv, FloatOperation PROVE PassInv'
  OBVIOUS
<1>1. PICK i \in OfType(FloatType), k \in OfType(FloatType) :
        LET x == values[i]
            y == values[k]
        IN \/ Op(FloatType, <<"sqrt", <<x.j.val>>>>,
                 ToFloat("sqrt", <<x.n.val>>), ConvertFloat("sqrt", <<x.b.val>>))
           \/ Op(FloatType, <<"pow", <<x.j.val, y.j.val>>>>,
                 ToFloat("pow", <<x.n.val, y.n.val>>), ConvertFloat("pow", <<x.b.val, y.b.val>>))
  BY DEF FloatOperation
<1> DEFINE a == values[i].j.val
           b == values[k].j.val
<1>2. back = "converting"
  BY <1>1, OpConverts
<1>3. /\ values[i].n.val = a /\ values[i].b.val = a /\ values[k].n.val = b /\ values[k].b.val = b
  BY <1>2, Operands DEF OfType
<1> HIDE DEF a, b
<1>4. ASSUME NEW kind, NEW operands,
             Op(FloatType, <<kind, operands>>, ToFloat(kind, operands), ConvertFloat(kind, operands))
      PROVE  PassInv'
  <2> DEFINE v == <<kind, operands>>
  <2>1. ToFloat(kind, operands) = Replaced(FloatType, v)
    BY DEF ToFloat
  <2>2. ConvertFloat(kind, operands) = Replaced(FloatType, v)
    BY DEF ConvertFloat
  <2> HIDE DEF v
  <2> QED
    BY <1>4, <2>1, <2>2, FloatTyped, Outcomes, OpKeeps DEF v
<1>5. \/ Op(FloatType, <<"sqrt", <<a>>>>, ToFloat("sqrt", <<a>>), ConvertFloat("sqrt", <<a>>))
      \/ Op(FloatType, <<"pow", <<a, b>>>>, ToFloat("pow", <<a, b>>), ConvertFloat("pow", <<a, b>>))
  BY <1>1, <1>3 DEF a, b
<1> QED
  BY <1>4, <1>5

LEMMA FloatTestKeeps == PassInv /\ FloatTest => PassInv'
<1> SUFFICES ASSUME PassInv, FloatTest PROVE PassInv'
  OBVIOUS
<1>1. PICK i \in OfType(FloatType), k \in OfType(FloatType) :
        LET x == values[i]
            y == values[k]
        IN \/ Op(IntType(1), FloatHolds("lt", <<x.j.val, y.j.val>>),
                 ToFloatTest("lt", <<x.n.val, y.n.val>>),
                 ConvertFloatComparison("lt", <<x.b.val, y.b.val>>))
           \/ Op(IntType(1), FloatHolds("isNan", <<x.j.val>>),
                 ToFloatTest("isNan", <<x.n.val>>), ConvertFloatIs("isNan", x.b))
  BY DEF FloatTest
<1> DEFINE a == values[i].j
           b == values[k].j
<1>2. back = "converting"
  BY <1>1, OpConverts
<1>3. values[i].n = a /\ values[i].b = a /\ values[k].n = b /\ values[k].b = b
  BY <1>2, Operands DEF OfType
<1> HIDE DEF a, b
<1>4. ASSUME NEW kind, NEW operands, NEW from,
             from = Replaced(IntType(1), FloatHolds(kind, operands)),
             Op(IntType(1), FloatHolds(kind, operands), ToFloatTest(kind, operands), from)
      PROVE  PassInv'
  <2> DEFINE v == FloatHolds(kind, operands)
  <2>1. v \in {0, 1} /\ 0 \in Numbers(1) /\ 1 \in Numbers(1)
    BY DEF FloatHolds, Numbers
  <2>2. WellTyped(Typed(IntType(1), v)) /\ JeffType(IntType(1))
    BY <2>1, IntTyped DEF JeffWidths
  <2>3. ToFloatTest(kind, operands) = Replaced(IntType(1), v)
    BY DEF ToFloatTest
  <2> HIDE DEF v
  <2> QED
    BY <1>4, <2>2, <2>3, Outcomes, OpKeeps DEF v
<1>5. \/ Op(IntType(1), FloatHolds("lt", <<a.val, b.val>>), ToFloatTest("lt", <<a.val, b.val>>),
            ConvertFloatComparison("lt", <<a.val, b.val>>))
      \/ Op(IntType(1), FloatHolds("isNan", <<a.val>>), ToFloatTest("isNan", <<a.val>>),
            ConvertFloatIs("isNan", a))
  BY <1>1, <1>3 DEF a, b
<1>6. /\ ConvertFloatComparison("lt", <<a.val, b.val>>)
           = Replaced(IntType(1), FloatHolds("lt", <<a.val, b.val>>))
      /\ ConvertFloatIs("isNan", a) = Replaced(IntType(1), FloatHolds("isNan", <<a.val>>))
  BY DEF ConvertFloatComparison, ConvertFloatIs
<1> QED
  BY <1>4, <1>5, <1>6

----------------------------------------------------------------------------
(* JeffToNative: arrays.                                                   *)

\* A value of an array type.
LEMMA ArrayTyped ==
  ASSUME NEW e, NEW n, NEW v
  PROVE  /\ WellTyped(Typed(TensorType(e, n), v)) <=>
              /\ IsSequence(v) /\ Len(v) < 2^(I64 - 1)
              /\ \A k \in DOMAIN v : Fits(e, v[k])
         /\ JeffType(TensorType(e, n)) <=> JeffScalar(e)
<1> DEFINE t == TensorType(e, n)
<1>1. IsTensor(t) /\ ~IsInt(t) /\ t # FloatType /\ t[2] = e
  BY Kinds
<1> HIDE DEF t
<1>2. JeffType(t) <=> JeffScalar(e)
  BY <1>1 DEF JeffType, JeffScalar
<1>3. WellTyped(Typed(t, v)) <=>
        /\ IsSequence(v) /\ Len(v) < 2^(I64 - 1)
        /\ \A k \in DOMAIN v : Fits(e, v[k])
  BY <1>1, ScalarTyped DEF WellTyped
<1> QED
  BY <1>2, <1>3 DEF t

\* The array operands of an operation.
LEMMA ArraysTyped ==
  ASSUME NEW x, WellTyped(x), JeffType(x.type), IsTensor(x.type)
  PROVE  /\ IsSequence(x.val) /\ Len(x.val) \in Nat /\ Len(x.val) < 2^(I64 - 1)
         /\ DOMAIN x.val = 1 .. Len(x.val)
         /\ JeffScalar(x.type[2]) /\ ElementSupported(x.type[2])
         /\ \A k \in 1 .. Len(x.val) :
              WellTyped(Typed(x.type[2], x.val[k])) /\ JeffType(x.type[2])
         /\ x = Typed(x.type, x.val)
<1>1. /\ IsSequence(x.val) /\ Len(x.val) < 2^(I64 - 1) /\ JeffScalar(x.type[2])
      /\ \A k \in DOMAIN x.val : Fits(x.type[2], x.val[k])
      /\ x = Typed(x.type, x.val)
  BY Kinds DEF WellTyped, JeffType, JeffScalar
<1>2. Len(x.val) \in Nat /\ DOMAIN x.val = 1 .. Len(x.val)
  BY <1>1 DEF IsSequence
<1>3. ~IsTensor(x.type[2]) /\ ElementSupported(x.type[2]) /\ JeffType(x.type[2])
  BY <1>1, Kinds DEF JeffScalar, JeffType, ElementSupported
<1> QED
  BY <1>1, <1>2, <1>3, ScalarTyped

LEMMA ArrayConstKeeps == PassInv /\ ArrayConst => PassInv'
<1> SUFFICES ASSUME PassInv, ArrayConst PROVE PassInv'
  OBVIOUS
<1>1. PICK n \in {1, Dynamic} :
        LET t == TensorType(IntType(I32), n)
        IN Op(t, <<3>>, ToArrayConst(t, <<3>>), ConvertArrayConstant(t, <<3>>, t))
  BY DEF ArrayConst
<1> DEFINE t == TensorType(IntType(I32), n)
           v == <<3>>
<1>2. t[2] = IntType(I32) /\ t[3] = n
  BY Kinds
<1>3. /\ IsSequence(v) /\ Len(v) = 1 /\ DOMAIN v = {1} /\ v[1] = 3
  <2>1. v \in Seq({3}) /\ Len(v) = 1 /\ DOMAIN v = {1} /\ v[1] = 3
    OBVIOUS
  <2>2. {v[k] : k \in DOMAIN v} = {3}
    BY <2>1
  <2> QED
    BY <2>1, <2>2 DEF IsSequence
<1> HIDE DEF v
<1>4. WellTyped(Typed(t, v)) /\ JeffType(t)
  <2>1. 3 \in Numbers(I32) /\ 1 < 2^(I64 - 1)
    BY SmallPowers DEF Numbers
  <2>2. Fits(IntType(I32), 3) /\ JeffScalar(IntType(I32))
    BY <2>1, Kinds, ScalarTyped DEF JeffScalar, JeffWidths
  <2> QED
    BY <1>3, <2>1, <2>2, ArrayTyped
<1>5. Op(t, v, ToArrayConst(t, v), ConvertArrayConstant(t, v, t))
  BY <1>1 DEF v
<1> HIDE DEF t
<1>6. ToArrayConst(t, v) = IF n = Dynamic THEN Stopped("refused") ELSE Replaced(t, v)
  BY <1>2 DEF ToArrayConst
<1>7. n = 1 => ConvertArrayConstant(t, v, t) = Replaced(t, v)
  <2>1. IsInt(t[2]) /\ Width(t[2]) = I32 /\ I32 <= I32 /\ I32 \in JeffWidths
    BY <1>2, Kinds, WidthsTyped DEF JeffWidths
  <2> QED
    BY <1>2, <1>3, <2>1 DEF ConvertArrayConstant
<1>8. Stopped("refused").status # "converting"
  BY Outcomes
<1> QED
  BY <1>1, <1>4, <1>5, <1>6, <1>7, <1>8, Outcomes, OpKeeps

\* The zeros of an array.
LEMMA ZerosTyped ==
  ASSUME NEW elem \in {IntType(1), FloatType}, NEW n \in Nat, n < 2^(I32 - 1), NEW size
  PROVE  /\ WellTyped(Typed(TensorType(elem, size), Zeros(elem, n)))
         /\ JeffType(TensorType(elem, size))
<1> DEFINE v == Zeros(elem, n)
<1>1. /\ v = [k \in 1 .. n |-> ZeroOf(elem)] /\ DOMAIN v = 1 .. n
      /\ \A k \in 1 .. n : v[k] = ZeroOf(elem)
  BY DEF Zeros
<1> HIDE DEF v
<1>2. v \in Seq({ZeroOf(elem)}) /\ Len(v) = n
  BY <1>1
<1>3. \A k \in DOMAIN v : v[k] \in {v[j] : j \in DOMAIN v}
  OBVIOUS
<1>4. IsSequence(v)
  BY <1>1, <1>2, <1>3 DEF IsSequence
<1>5. n < 2^(I64 - 1)
  BY SmallPowers
<1>6. Fits(elem, ZeroOf(elem)) /\ JeffScalar(elem)
  <2>1. CASE elem = IntType(1)
    <3>1. 0 \in Numbers(1)
      BY DEF Numbers
    <3>2. IsInt(elem) /\ Width(elem) = 1 /\ elem[2] = 1
      BY <2>1, Kinds
    <3>3. ZeroOf(elem) = 0 /\ Fits(elem, 0)
      BY <3>1, <3>2, ScalarTyped DEF ZeroOf
    <3> QED
      BY <3>2, <3>3 DEF JeffScalar, JeffWidths
  <2>2. CASE elem = FloatType
    BY <2>2, ScalarTyped DEF JeffScalar
  <2> QED
    BY <2>1, <2>2
<1> QED
  BY <1>1, <1>2, <1>4, <1>5, <1>6, ArrayTyped DEF v

LEMMA ArrayZeroKeeps == PassInv /\ ArrayZero => PassInv'
<1> SUFFICES ASSUME PassInv, ArrayZero PROVE PassInv'
  OBVIOUS
<1>1. PICK i \in OfType(IntType(I32)), elem \in {IntType(1), FloatType} :
        LET length == values[i].j.val
        IN /\ Signed(length, I32) >= 0
           /\ \E n \in {length, Dynamic} :
                 LET t == TensorType(elem, n)
                 IN Op(t, Zeros(elem, length), ToArrayZero(t, values[i].n),
                       BackArrayZero(t, values[i].b))
  BY Zenon DEF ArrayZero
<1> DEFINE a == values[i].j
           length == a.val
<1>2. PICK n \in {length, Dynamic} :
        Op(TensorType(elem, n), Zeros(elem, length), ToArrayZero(TensorType(elem, n), values[i].n),
           BackArrayZero(TensorType(elem, n), values[i].b))
  BY <1>1
<1> DEFINE t == TensorType(elem, n)
           v == Zeros(elem, length)
<1>3. back = "converting"
  BY <1>2, OpConverts
<1>4. /\ values[i].n = a /\ values[i].b = a /\ WellTyped(a) /\ JeffType(a.type)
      /\ a.type = IntType(I32)
  BY <1>3, Operands DEF OfType
<1>5. Signed(a.val, I32) >= 0
  BY <1>1
<1>6. Op(t, v, ToArrayZero(t, a), BackArrayZero(t, a))
  BY <1>2, <1>4
<1>7. n = a.val \/ n = Dynamic
  BY <1>2
<1> HIDE DEF a
<1>8. a.val \in Numbers(I32) /\ a.val \in Nat /\ a = Typed(IntType(I32), a.val)
  BY <1>4, IntsTyped, Kinds
<1>9. /\ a.val < 2^(I32 - 1) /\ AsIndex(a) = a.val /\ Signed(AsIndex(a), I64) = a.val
      /\ n # Dynamic => n = a.val
  <2>1. Signed(a.val, I32) < 0 => FALSE
    <3>1. Signed(a.val, I32) \in Int
      BY <1>8, WidthsTyped, SignedTyped, WidthAssumption DEF JeffWidths
    <3> QED
      BY <1>5, <3>1
  <2>2. 2^(I32 - 1) \in Int
    BY SmallPowers
  <2>3. a.val < 2^(I32 - 1)
    BY <1>8, <2>1, <2>2, IndexExtended
  <2> QED
    BY <1>7, <1>8, <2>3, IndexExtended DEF AsIndex
<1>10. WellTyped(Typed(t, v)) /\ JeffType(t)
  BY <1>8, <1>9, ZerosTyped
<1>11. t[2] = elem /\ t[3] = n
  BY Kinds
<1> HIDE DEF t
<1>12. ToArrayZero(t, a) = Replaced(t, v)
  <2>1. ~(Signed(AsIndex(a), I64) < 0)
    BY <1>8, <1>9
  <2> QED
    BY <1>9, <1>11, <2>1 DEF ToArrayZero
<1>13. CASE n = Dynamic
  <2> DEFINE zero == [n |-> Typed(t[2], ZeroOf(t[2])), c |-> TRUE]
             sizes == <<a>>
  <2>1. BackArrayZero(t, a) = ConvertZero(t, sizes, TRUE, zero)
    <3>1. ConvertIndexCast(a).value = a
      BY <1>4, <1>8, Outcomes DEF ConvertIndexCast
    <3> QED
      BY <1>11, <1>13, <3>1 DEF BackArrayZero
  <2>2. Len(sizes) = 1 /\ sizes[1] = a
    OBVIOUS
  <2>3. IsZero(zero)
    <3>1. zero.c /\ zero.n.val = ZeroOf(elem) /\ zero.n.type = elem
      BY <1>11, ScalarTyped
    <3> QED
      BY <3>1, Kinds DEF IsZero, ZeroOf
  <2>4. IF IsInt(t[2]) THEN Width(t[2]) \in JeffWidths ELSE t[2] = FloatType
    BY <1>11, Kinds DEF JeffWidths
  <2>5. /\ Signed(a.val, I32) = a.val /\ ~(a.val < 0)
        /\ v = [k \in 1 .. a.val |-> IF IsInt(t[2]) THEN 0 ELSE <<"zero">>]
    BY <1>8, <1>9, <1>11, IndexExtended DEF Zeros, ZeroOf
  <2> HIDE DEF zero, sizes, v
  <2>6. ConvertZero(t, sizes, TRUE, zero) = Replaced(t, v)
    BY <1>4, <2>2, <2>3, <2>4, <2>5 DEF ConvertZero
  <2> QED
    BY <1>6, <1>10, <1>12, <2>1, <2>6, Outcomes, OpKeeps
<1>14. CASE n # Dynamic
  <2>1. BackArrayZero(t, a) = Stopped("refused")
    <3>1. Len(<<>>) # 1
      OBVIOUS
    <3> QED
      BY <1>11, <1>14, <3>1 DEF BackArrayZero, ConvertZero
  <2>2. StaticZeros(Typed(t, v))
    <3>1. n = a.val /\ n \in 0 .. (2^(I32 - 1) - 1)
      BY <1>8, <1>9, <1>14, SmallPowers
    <3> QED
      BY <3>1 DEF StaticZeros, t
  <2> HIDE DEF v
  <2> QED
    BY <1>6, <1>10, <1>12, <2>1, <2>2, Outcomes, OpKeeps
<1> QED
  BY <1>13, <1>14

\* The operands of a read or write of an array.
LEMMA PositionTyped ==
  ASSUME PassInv, back = "converting", NEW i \in Arrays, NEW k \in OfType(IntType(I32)),
         InBounds(i, k)
  PROVE  /\ values[i].n = values[i].j /\ values[i].b = values[i].j /\ WellTyped(values[i].j)
         /\ JeffType(values[i].j.type) /\ IsTensor(values[i].j.type)
         /\ values[k].n = values[k].j /\ values[k].b = values[k].j
         /\ ConvertIndexCast(values[k].j).value = values[k].j
         /\ values[k].j.type = IntType(I32) /\ values[k].j.val \in Nat
         /\ ~(values[k].j.val >= Len(values[i].j.val))
         /\ values[k].j.val + 1 \in 1 .. Len(values[i].j.val)
         /\ ~(AsIndex(values[k].j) >= Len(values[i].j.val)) => AsIndex(values[k].j) = values[k].j.val
<1> DEFINE a == values[i].j
           x == values[k].j
<1>1. /\ values[i].n = a /\ values[i].b = a /\ WellTyped(a) /\ JeffType(a.type) /\ IsTensor(a.type)
      /\ values[k].n = x /\ values[k].b = x /\ WellTyped(x) /\ JeffType(x.type)
      /\ x.type = IntType(I32) /\ x.val < Len(a.val)
  BY Operands DEF Arrays, OfType, InBounds
<1> HIDE DEF a, x
<1>2. x.val \in Numbers(I32) /\ x.val \in Nat /\ x = Typed(x.type, x.val)
  BY <1>1, IntsTyped, Kinds
<1>3. Len(a.val) \in Nat /\ Len(a.val) < 2^(I64 - 1)
  BY <1>1, ArraysTyped
<1>4. ~(x.val >= Len(a.val)) /\ x.val + 1 \in 1 .. Len(a.val)
  BY <1>1, <1>2, <1>3
<1>5. ~(AsIndex(x) >= Len(a.val)) => AsIndex(x) = x.val
  <2> DEFINE h == 2^(I32 - 1)
             g == 2^(I64 - 1)
             at == AsIndex(x)
  <2>1. h \in Nat /\ g \in Nat
    BY SmallPowers
  <2>2. /\ x.val < h => at = x.val
        /\ x.val >= h => at >= g
    BY <1>2, IndexExtended DEF AsIndex
  <2>3. Len(a.val) < g
    BY <1>3
  <2>4. at \in Int
    <3>1. Signed(x.val, I32) \in Int
      BY <1>2, SignedTyped, WidthsTyped, WidthAssumption DEF JeffWidths
    <3>2. at \in Numbers(I64) /\ Numbers(I64) \subseteq Nat
      BY <3>1, Wrapped, NumbersTyped, WidthsTyped DEF AsIndex, SignExtend, JeffWidths
    <3> QED
      BY <3>2
  <2> HIDE DEF h, g, at
  <2>5. ~(at >= Len(a.val)) => at = x.val
    BY <1>2, <1>3, <2>1, <2>2, <2>3, <2>4
  <2> QED
    BY <2>5 DEF at
<1>6. ConvertIndexCast(x).value = x
  BY <1>2, Outcomes DEF ConvertIndexCast
<1> QED
  BY <1>1, <1>2, <1>4, <1>5, <1>6 DEF a, x

LEMMA ArrayGetIndexKeeps == PassInv /\ ArrayGetIndex => PassInv'
<1> SUFFICES ASSUME PassInv, ArrayGetIndex PROVE PassInv'
  OBVIOUS
<1>1. PICK i \in Arrays, k \in OfType(IntType(I32)) :
        LET array == values[i]
        IN /\ InBounds(i, k)
           /\ Op(array.j.type[2], array.j.val[values[k].j.val + 1],
                 ToArrayGetIndex(array.n, values[k].n), BackArrayGetIndex(array.b, values[k].b))
  BY DEF ArrayGetIndex
<1> DEFINE a == values[i].j
           x == values[k].j
           t == a.type[2]
           v == a.val[x.val + 1]
<1>2. back = "converting"
  BY <1>1, OpConverts
<1>3. InBounds(i, k)
  BY <1>1
<1>4. /\ values[i].n = a /\ values[i].b = a /\ WellTyped(a) /\ JeffType(a.type) /\ IsTensor(a.type)
      /\ values[k].n = x /\ values[k].b = x /\ ConvertIndexCast(x).value = x
      /\ x.type = IntType(I32) /\ ~(x.val >= Len(a.val)) /\ x.val + 1 \in 1 .. Len(a.val)
      /\ ~(AsIndex(x) >= Len(a.val)) => AsIndex(x) = x.val
  BY <1>2, <1>3, PositionTyped
<1>5. Op(t, v, ToArrayGetIndex(a, x), BackArrayGetIndex(a, x))
  BY <1>1, <1>4
<1> HIDE DEF a, x
<1>6. WellTyped(Typed(t, v)) /\ JeffType(t) /\ ElementSupported(t)
  BY <1>4, ArraysTyped
<1>7. BackArrayGetIndex(a, x) = Replaced(t, v)
  BY <1>4, <1>6 DEF BackArrayGetIndex, ConvertExtract
<1>8. ToArrayGetIndex(a, x) = Stopped("undefined") \/ ToArrayGetIndex(a, x) = Replaced(t, v)
  BY <1>4 DEF ToArrayGetIndex
<1> HIDE DEF t, v
<1>9. Stopped("undefined").status # "converting"
  BY Outcomes
<1> QED
  BY <1>5, <1>6, <1>7, <1>8, <1>9, Outcomes, OpKeeps

LEMMA ArraySetIndexKeeps == PassInv /\ ArraySetIndex => PassInv'
<1> SUFFICES ASSUME PassInv, ArraySetIndex PROVE PassInv'
  OBVIOUS
<1>1. PICK i \in Arrays, k \in OfType(IntType(I32)) :
        LET array == values[i]
            at == values[k].j.val + 1
        IN \E s \in DOMAIN values :
              /\ IF IsInt(array.j.type[2]) THEN s \in Ints ELSE s \in OfType(FloatType)
              /\ InBounds(i, k)
              /\ Op(array.j.type, [array.j.val EXCEPT ![at] = values[s].j.val],
                    ToArraySetIndex(array.n, values[k].n, values[s].n),
                    BackArraySetIndex(array.b, values[k].b, values[s].b))
  BY DEF ArraySetIndex
<1> DEFINE a == values[i].j
           x == values[k].j
           t == a.type
<1>2. PICK s \in DOMAIN values :
        /\ InBounds(i, k)
        /\ Op(t, [a.val EXCEPT ![x.val + 1] = values[s].j.val],
              ToArraySetIndex(values[i].n, values[k].n, values[s].n),
              BackArraySetIndex(values[i].b, values[k].b, values[s].b))
  BY <1>1
<1> DEFINE e == values[s].j
           v == [a.val EXCEPT ![x.val + 1] = e.val]
<1>3. back = "converting"
  BY <1>2, OpConverts
<1>4. /\ values[i].n = a /\ values[i].b = a /\ WellTyped(a) /\ JeffType(a.type) /\ IsTensor(a.type)
      /\ values[k].n = x /\ values[k].b = x /\ ConvertIndexCast(x).value = x
      /\ x.type = IntType(I32) /\ ~(x.val >= Len(a.val)) /\ x.val + 1 \in 1 .. Len(a.val)
      /\ ~(AsIndex(x) >= Len(a.val)) => AsIndex(x) = x.val
  BY <1>1, <1>2, <1>3, PositionTyped
<1>5. /\ values[s].n = e /\ values[s].b = e /\ WellTyped(e) /\ JeffType(e.type)
  BY <1>2, <1>3, Operands
<1>6. Op(t, v, ToArraySetIndex(a, x, e), BackArraySetIndex(a, x, e))
  BY <1>2, <1>4, <1>5
<1> HIDE DEF a, x, e
<1>14. CASE e.type # t[2]
  <2>1. ToArraySetIndex(a, x, e) = Stopped("invalid")
    BY <1>14 DEF ToArraySetIndex
  <2>2. ToArraySetIndex(a, x, e).status # "converting"
    BY <2>1, Outcomes
  <2> HIDE DEF v
  <2> QED
    BY <1>6, <2>2, OpKeeps
<1> SUFFICES ASSUME e.type = t[2] PROVE PassInv'
  BY <1>14
<1>7. /\ IsSequence(a.val) /\ Len(a.val) < 2^(I64 - 1) /\ DOMAIN a.val = 1 .. Len(a.val)
      /\ JeffScalar(t[2]) /\ ElementSupported(t[2])
      /\ \A p \in DOMAIN a.val : Fits(t[2], a.val[p])
  <2>1. IsTensor(t) => \A p \in DOMAIN a.val : Fits(t[2], a.val[p])
    BY <1>4 DEF WellTyped
  <2> QED
    BY <1>4, <2>1, ArraysTyped
<1>8. Fits(t[2], e.val)
  <2>1. ~IsTensor(e.type)
    BY <1>5, <1>7, Kinds DEF JeffScalar
  <2> QED
    BY <1>5, <2>1 DEF WellTyped
<1>9. /\ IsSequence(v) /\ DOMAIN v = DOMAIN a.val /\ Len(v) = Len(a.val)
      /\ \A p \in DOMAIN a.val : v[p] = IF p = x.val + 1 THEN e.val ELSE a.val[p]
  BY <1>4, <1>7, Written
<1>10. BackArraySetIndex(a, x, e) = Replaced(t, v)
  BY <1>4, <1>7 DEF BackArraySetIndex, ConvertInsert
<1>11. ToArraySetIndex(a, x, e) = Stopped("undefined") \/ ToArraySetIndex(a, x, e) = Replaced(t, v)
  BY <1>4 DEF ToArraySetIndex
<1> HIDE DEF v
<1>12. WellTyped(Typed(t, v)) /\ JeffType(t)
  <2>1. \A p \in DOMAIN v : Fits(t[2], v[p])
    BY <1>7, <1>8, <1>9
  <2>2. IsTensor(t) /\ Typed(t, v).type = t /\ Typed(t, v).val = v
    BY <1>4, ScalarTyped
  <2>3. Typed(t, v) = Typed(Typed(t, v).type, Typed(t, v).val)
    BY <2>2
  <2> QED
    BY <1>4, <1>7, <1>9, <2>1, <2>2, <2>3 DEF WellTyped
<1> HIDE DEF t
<1>13. Stopped("undefined").status # "converting"
  BY Outcomes
<1> QED
  BY <1>6, <1>10, <1>11, <1>12, <1>13, Outcomes, OpKeeps

LEMMA ArrayLengthKeeps == PassInv /\ ArrayLength => PassInv'
<1> SUFFICES ASSUME PassInv, ArrayLength PROVE PassInv'
  OBVIOUS
<1>1. PICK i \in Arrays :
        Op(IntType(I32), Wrap(Len(values[i].j.val), I32),
           ToArrayLength(values[i].n), BackArrayLength(values[i].b))
  BY DEF ArrayLength
<1> DEFINE a == values[i].j
           t == IntType(I32)
           v == Wrap(Len(a.val), I32)
<1>2. back = "converting"
  BY <1>1, OpConverts
<1>3. /\ values[i].n = a /\ values[i].b = a /\ WellTyped(a) /\ JeffType(a.type) /\ IsTensor(a.type)
  BY <1>1, <1>2, Operands DEF Arrays
<1>4. Op(t, v, ToArrayLength(a), BackArrayLength(a))
  BY <1>1, <1>3
<1> HIDE DEF a
<1>5. Len(a.val) \in Nat /\ ElementSupported(a.type[2])
  BY <1>3, ArraysTyped
<1>6. v \in Numbers(I32)
  BY <1>5, Wrapped, WidthsTyped DEF JeffWidths
<1>7. WellTyped(Typed(t, v)) /\ JeffType(t)
  BY <1>6, IntTyped DEF JeffWidths
<1>8. ToArrayLength(a) = Replaced(t, v)
  BY DEF ToArrayLength
<1>9. BackArrayLength(a) = Replaced(t, v)
  <2>1. ConvertDim(a.type, a) = Replaced(t, v)
    BY <1>5 DEF ConvertDim
  <2>2. ConvertDim(a.type, a).value = Typed(t, v)
    BY <2>1, Outcomes
  <2> QED
    BY <2>2, ScalarTyped DEF BackArrayLength, ConvertIndexCast
<1> HIDE DEF t, v
<1> QED
  BY <1>4, <1>7, <1>8, <1>9, Outcomes, OpKeeps

LEMMA ArrayCreateKeeps == PassInv /\ ArrayCreate => PassInv'
<1> SUFFICES ASSUME PassInv, ArrayCreate PROVE PassInv'
  OBVIOUS
<1>1. CASE \E elem \in {IntType(I32), FloatType}, n \in {0, Dynamic} :
              CreateArray(TensorType(elem, n), <<>>)
  <2>1. PICK elem \in {IntType(I32), FloatType}, n \in {0, Dynamic} :
               CreateArray(TensorType(elem, n), <<>>)
    BY <1>1
  <2> DEFINE t == TensorType(elem, n)
             none == <<>>
             natives == [i \in DOMAIN values |-> values[i].n]
             backs == [i \in DOMAIN values |-> values[i].b]
             v == [p \in DOMAIN none |-> values[none[p]].j.val]
             ns == [p \in DOMAIN none |-> natives[none[p]]]
             bs == [p \in DOMAIN none |-> backs[none[p]]]
  <2>2. Op(t, v, ToArrayCreate(t, ns), ConvertFromElements(t, bs))
    BY <2>1 DEF CreateArray
  <2>3. ns = <<>>
    <3>1. DOMAIN ns = {}
      OBVIOUS
    <3> QED
      BY <3>1
  <2> HIDE DEF t, v, ns, bs
  <2>4. ToArrayCreate(t, ns) \in {Stopped("refused"), Stopped("undefined")}
    BY <2>3 DEF ToArrayCreate
  <2>5. ToArrayCreate(t, ns).status # "converting"
    BY <2>4, Outcomes
  <2> QED
    BY <2>2, <2>5, OpKeeps
<1>2. CASE \E i \in DOMAIN values, k \in DOMAIN values, n \in {2, Dynamic} :
              BothScalar(i, k) /\ CreateArray(TensorType(values[i].j.type, n), <<i, k>>)
  <2>1. PICK i \in DOMAIN values, k \in DOMAIN values, n \in {2, Dynamic} :
               BothScalar(i, k) /\ CreateArray(TensorType(values[i].j.type, n), <<i, k>>)
    BY <1>2
  <2> DEFINE elem == values[i].j.type
             t == TensorType(elem, n)
             picked == <<i, k>>
             natives == [m \in DOMAIN values |-> values[m].n]
             backs == [m \in DOMAIN values |-> values[m].b]
             v == [p \in DOMAIN picked |-> values[picked[p]].j.val]
             ns == [p \in DOMAIN picked |-> natives[picked[p]]]
             bs == [p \in DOMAIN picked |-> backs[picked[p]]]
  <2>2. Op(t, v, ToArrayCreate(t, ns), ConvertFromElements(t, bs))
    BY <2>1 DEF CreateArray
  <2>3. back = "converting"
    BY <2>2, OpConverts
  <2>4. \A m \in {i, k} :
           LET x == values[m].j
           IN values[m].n = x /\ values[m].b = x /\ WellTyped(x) /\ JeffScalar(x.type)
    <3>1. \A m \in {i, k} :
             /\ values[m].n = values[m].j /\ values[m].b = values[m].j
             /\ WellTyped(values[m].j) /\ JeffType(values[m].j.type)
      BY <2>1, <2>3, Operands
    <3>2. \A m \in {i, k} : ~IsTensor(values[m].j.type)
      BY <2>1, Kinds DEF BothScalar, Ints, OfType
    <3> QED
      BY <3>1, <3>2 DEF JeffType
  <2>5. /\ DOMAIN picked = 1 .. 2
        /\ \A p \in 1 .. 2 : picked[p] \in {i, k} /\ picked[p] \in DOMAIN values
    OBVIOUS
  <2> HIDE DEF picked
  <2>6. /\ ns = [p \in 1 .. 2 |-> values[picked[p]].j] /\ bs = ns
        /\ v = [p \in 1 .. 2 |-> values[picked[p]].j.val]
    BY <2>4, <2>5
  <2>7. /\ DOMAIN v = 1 .. 2 /\ \A p \in 1 .. 2 : v[p] = ns[p].val
        /\ DOMAIN ns = 1 .. 2 /\ ns # <<>>
        /\ [p \in DOMAIN ns |-> ns[p].val] = v
        /\ \A p \in 1 .. 2 : WellTyped(ns[p]) /\ JeffScalar(ns[p].type)
    BY <2>4, <2>5, <2>6
  <2>8. t[2] = elem /\ t[3] = n /\ JeffScalar(elem) /\ ElementSupported(elem)
    BY <2>4, Kinds DEF ElementSupported, JeffScalar
  <2> HIDE DEF t, v, ns, bs, elem
  <2>9. CASE \E p \in 1 .. 2 : ns[p].type # elem
    <3>1. ToArrayCreate(t, ns) \in {Stopped("refused"), Stopped("invalid")}
      BY <2>7, <2>8, <2>9 DEF ToArrayCreate
    <3>2. ToArrayCreate(t, ns).status # "converting"
      BY <3>1, Outcomes
    <3> QED
      BY <2>2, <3>2, OpKeeps
  <2>10. CASE \A p \in 1 .. 2 : ns[p].type = elem
    <3>1. \A p \in 1 .. 2 : Fits(elem, v[p])
      <4>1. ~IsTensor(elem)
        BY <2>8, Kinds DEF JeffScalar
      <4> QED
        BY <2>7, <2>10, <4>1 DEF WellTyped
    <3>2. ConvertFromElements(t, bs) = Replaced(t, v)
      BY <2>6, <2>7, <2>8 DEF ConvertFromElements
    <3>3. ToArrayCreate(t, ns) = Stopped("refused") \/ ToArrayCreate(t, ns) = Replaced(t, v)
      BY <2>7, <2>8, <2>10 DEF ToArrayCreate
    <3>4. IsSequence(v) /\ Len(v) = 2
      <4>1. v \in Seq({v[p] : p \in DOMAIN v}) /\ Len(v) = 2
        BY <2>6, <2>7
      <4> QED
        BY <4>1 DEF IsSequence
    <3>5. 2 < 2^(I64 - 1)
      <4>1. /\ I64 - 1 \in 0 .. I64 /\ 2 \in 0 .. I64 /\ 2 <= I64 - 1
            /\ PowersOf2(I64) /\ I64 \in Nat
        BY WidthAssumption
      <4> DEFINE two == 2
      <4>2. two \in 0 .. I64 /\ two <= I64 - 1 /\ two^two = 2^2
        BY <4>1
      <4> HIDE DEF two
      <4>3. 2^two <= 2^(I64 - 1)
        BY <4>1, <4>2, PowersGrow
      <4> QED
        BY <4>3, SmallPowers DEF two
    <3>6. WellTyped(Typed(t, v)) /\ JeffType(t)
      <4>1. /\ WellTyped(Typed(t, v)) <=>
                 IsSequence(v) /\ Len(v) < 2^(I64 - 1) /\ \A p \in DOMAIN v : Fits(elem, v[p])
            /\ JeffType(t) <=> JeffScalar(elem)
        BY ArrayTyped DEF t
      <4>2. Len(v) < 2^(I64 - 1)
        BY <3>4, <3>5
      <4> QED
        BY <2>7, <2>8, <3>1, <3>4, <4>1, <4>2
    <3>7. Stopped("refused").status # "converting"
      BY Outcomes
    <3> QED
      BY <2>2, <3>2, <3>3, <3>6, <3>7, Outcomes, OpKeeps
  <2> QED
    BY <2>9, <2>10
<1> QED
  BY <1>1, <1>2 DEF ArrayCreate

----------------------------------------------------------------------------
(* JeffToNative: the theorems.                                             *)

LEMMA PassInvInit == Init => PassInv
<1> SUFFICES ASSUME Init PROVE PassInv
  OBVIOUS
<1>1. PICK p \in Parameters : values = [i \in DOMAIN p |-> [j |-> p[i], n |-> p[i], b |-> p[i]]]
  BY DEF Init
<1>2. IsSequence(p) /\ \A i \in DOMAIN p : WellTyped(p[i]) /\ JeffType(p[i].type)
  BY ParametersAssumption
<1>3. Len(p) \in Nat /\ DOMAIN p = 1 .. Len(p)
  BY <1>2 DEF IsSequence
<1>4. /\ DOMAIN values = 1 .. Len(p)
      /\ \A i \in 1 .. Len(p) : values[i] = [j |-> p[i], n |-> p[i], b |-> p[i]]
      /\ values = [i \in 1 .. Len(p) |-> values[i]]
  BY <1>1, <1>3
<1>5. values \in Seq({values[k] : k \in DOMAIN values})
  BY <1>3, <1>4
<1>6. \A i \in DOMAIN values : Kept(values[i]) /\ values[i].b = values[i].j
  BY <1>2, <1>3, <1>4 DEF Kept
<1> QED
  BY <1>5, <1>6 DEF PassInv, IsSequence, Init

LEMMA PassInvStep == PassInv /\ [Next]_vars => PassInv'
<1> SUFFICES ASSUME PassInv, [Next]_vars PROVE PassInv'
  OBVIOUS
<1>1. CASE UNCHANGED vars
  BY <1>1 DEF vars, PassInv, Kept
<1>2. CASE Next
  BY Zenon, <1>2, IntConstKeeps, FloatConstKeeps, IntUnaryKeeps, IntBinaryKeeps, IntComparisonKeeps,
     SelectValueKeeps, ConversionKeeps, FloatOperationKeeps, FloatTestKeeps, ArrayConstKeeps,
     ArrayZeroKeeps, ArrayGetIndexKeeps, ArraySetIndexKeeps, ArrayLengthKeeps, ArrayCreateKeeps
     DEF Next
<1> QED
  BY <1>1, <1>2

\* Whatever operations a jeff program consists of, the native program has the values and types of
\* the jeff program, jeff-to-native (JeffToNative.cpp).
THEOREM NativeIsKept == Spec => []NativeKept
<1>1. PassInv => NativeKept
  BY DEF PassInv, Kept, NativeKept
<1> QED
  BY <1>1, PassInvInit, PassInvStep, PTL DEF Spec

\* So has what native-to-jeff makes of it again: the two passes are inverse where both succeed,
\* at any width of i32 and i64.
THEOREM RoundTripIsKept == Spec => []RoundTripKept
<1>1. PassInv => RoundTripKept
  BY DEF PassInv, Kept, RoundTripKept
<1> QED
  BY <1>1, PassInvInit, PassInvStep, PTL DEF Spec

\* native-to-jeff refuses nothing that jeff-to-native creates but the zeros of an array of static
\* length (NativeToJeff.td:80), and creates nothing invalid or undefined.
THEOREM RoundTripDoesConvert == Spec => []RoundTripConverts
<1>1. PassInv => RoundTripConverts
  <2> SUFFICES ASSUME PassInv PROVE RoundTripConverts
    OBVIOUS
  <2>1. ASSUME NEW i \in DOMAIN values, values[i].b = Unconverted
        PROVE  StaticZeros(values[i].j)
    <3>1. Kept(values[i])
      BY DEF PassInv
    <3>2. values[i].j # Unconverted
      <4>1. ~("val" \in DOMAIN Unconverted)
        BY DEF Unconverted
      <4>2. values[i].j = Typed(values[i].j.type, values[i].j.val)
        BY <3>1 DEF Kept, WellTyped
      <4>3. \A t, v : "val" \in DOMAIN Typed(t, v)
        BY DEF Typed
      <4> QED
        BY <4>1, <4>2, <4>3
    <3> QED
      BY <2>1, <3>1, <3>2 DEF Kept
  <2> QED
    BY <2>1 DEF PassInv, RoundTripConverts, StaticZeros
<1> QED
  BY <1>1, PassInvInit, PassInvStep, PTL DEF Spec

----------------------------------------------------------------------------
(* RegionSyntax: what is printed and read.                                 *)

Forms == SwitchOp \cup ForOp \cup WhileOp

\* What the verifier lets through.
Sound(x) == x \in Forms /\ ~NoInductionVariable(x) /\ Accepts(x)

\* A region is parsed with the arguments it had; its yields are there if they were printed.
LEMMA RegionParsed ==
  ASSUME NEW args \in Seq(Types), NEW body \in RegionBody
  PROVE  /\ Region(args, body) =
              [args |-> args, ops |-> body.ops,
               yields |-> IF body.yields = NoYield THEN <<>> ELSE body.yields]
         /\ Region(args, body) \in FullRegion
         /\ Region(args, body) # NoBlock
         /\ Region(args, body).yields # NoYield
<1> DEFINE full == [args |-> args, ops |-> body.ops, yields |-> body.yields]
           result == [args |-> args, ops |-> body.ops,
                      yields |-> IF body.yields = NoYield THEN <<>> ELSE body.yields]
<1>1. /\ body.ops \in Nat /\ body.yields \in Seq(Types) \cup {NoYield}
      /\ <<>> \in Seq(Types) /\ NoYield \notin Seq(Types) /\ NoBlock \notin FullRegion
  BY SyntaxAssumption DEF RegionBody
<1>2. full \in FullRegion /\ result \in FullRegion /\ full # NoBlock /\ result # NoBlock
  <2>1. full \in FullRegion
    BY <1>1 DEF FullRegion
  <2>2. (IF body.yields = NoYield THEN <<>> ELSE body.yields) \in Seq(Types) \cup {NoYield}
    BY <1>1
  <2>3. result \in FullRegion
    BY <1>1, <2>2 DEF FullRegion
  <2> QED
    BY <1>1, <2>1, <2>3
<1>3. result.yields # NoYield
  BY <1>1
<1>4. Region(args, body) = result
  <2>1. CASE args = <<>> /\ body.ops = 0 /\ body.yields = NoYield
    BY <2>1 DEF Region, EnsureTerminator, ParseRegion, Block
  <2>2. CASE ~(args = <<>> /\ body.ops = 0 /\ body.yields = NoYield)
    <3>1. ParseRegion(args, body) = full
      BY <2>2 DEF ParseRegion, Block
    <3>2. Region(args, body) = IF body.yields = NoYield THEN [full EXCEPT !.yields = <<>>] ELSE full
      BY <1>2, <3>1 DEF Region, EnsureTerminator
    <3> QED
      BY <3>2
  <2> QED
    BY <2>1, <2>2
<1> QED
  BY <1>2, <1>3, <1>4

\* What is printed of a region, and read back.
LEMMA RegionReturns ==
  ASSUME NEW r \in FullRegion, r.yields # NoYield, NEW shown \in BOOLEAN
  PROVE  /\ PrintRegion(r, shown) \in RegionBody
         /\ Region(r.args, PrintRegion(r, shown)) =
              [args |-> r.args, ops |-> r.ops, yields |-> IF shown THEN r.yields ELSE <<>>]
<1>1. r.args \in Seq(Types) /\ r.ops \in Nat /\ r.yields \in Seq(Types)
  BY DEF FullRegion
<1>2. PrintRegion(r, shown) \in RegionBody
  BY <1>1 DEF PrintRegion, RegionBody
<1>3. PrintRegion(r, shown).yields = (IF shown THEN r.yields ELSE NoYield)
      /\ PrintRegion(r, shown).ops = r.ops
  BY DEF PrintRegion
<1> QED
  BY <1>1, <1>2, <1>3, RegionParsed

LEMMA RegionWhole ==
  ASSUME NEW r \in FullRegion
  PROVE  r = [args |-> r.args, ops |-> r.ops, yields |-> r.yields]
BY DEF FullRegion

----------------------------------------------------------------------------
(* RegionSyntax: one kind after the other.                                 *)

LEMMA Front ==
  ASSUME NEW t \in Types, NEW s \in Seq(Types)
  PROVE  /\ <<t>> \o s \in Seq(Types) /\ <<t>> \o s # <<>> /\ (<<t>> \o s)[1] = t
         /\ Tail(<<t>> \o s) = s
OBVIOUS

LEMMA SwitchReturns ==
  ASSUME NEW x \in SwitchOp, VerifySwitch(x)
  PROVE  ParseSwitch(PrintSwitch(x)) = x
<1> DEFINE t == PrintSwitch(x)
           Clause(r) == [args |-> Len(r.args), body |-> PrintRegion(r, x.outs # <<>>)]
<1>1. /\ x.selection \in Types /\ x.ins \in Seq(Types) /\ x.outs \in Seq(Types)
      /\ x.branches \in Seq(AnyRegion) /\ x.default \in AnyRegion /\ x.kind = "switch"
  BY DEF SwitchOp
<1>2. x.outs # NoYield
  BY <1>1, SyntaxAssumption
<1>3. ASSUME NEW r \in AnyRegion, r # NoBlock, r.args = x.ins, r.yields = x.outs
      PROVE  /\ Clause(r) \in CaseClause /\ Clause(r).args = Len(x.ins)
             /\ Region(x.ins, Clause(r).body) = r
  <2>1. r \in FullRegion /\ r.yields # NoYield
    BY <1>2, <1>3 DEF AnyRegion
  <2>2. /\ PrintRegion(r, x.outs # <<>>) \in RegionBody
        /\ Region(r.args, PrintRegion(r, x.outs # <<>>)) =
             [args |-> r.args, ops |-> r.ops, yields |-> IF x.outs # <<>> THEN r.yields ELSE <<>>]
    BY <2>1, RegionReturns
  <2>3. Region(r.args, PrintRegion(r, x.outs # <<>>)) = r
    <3>1. (IF x.outs # <<>> THEN r.yields ELSE <<>>) = r.yields
      BY <1>3
    <3> QED
      BY <2>1, <2>2, <3>1, RegionWhole
  <2>4. Len(r.args) \in Nat
    BY <1>1, <1>3
  <2> QED
    BY <1>3, <2>2, <2>3, <2>4 DEF CaseClause
<1>4. /\ \A i \in DOMAIN x.branches : /\ x.branches[i] \in AnyRegion /\ x.branches[i] # NoBlock
                                      /\ x.branches[i].args = x.ins
                                      /\ x.branches[i].yields = x.outs
      /\ x.default # NoBlock => x.default.args = x.ins /\ x.default.yields = x.outs
  BY <1>1 DEF VerifySwitch
<1>5. /\ t.operands = <<x.selection>> \o x.ins /\ t.types = <<x.selection>> \o x.ins
      /\ t.results = x.outs
      /\ t.cases = [i \in DOMAIN x.branches |-> [label |-> i - 1, clause |-> Clause(x.branches[i])]]
      /\ t.default = IF x.default = NoBlock THEN NoClause ELSE Clause(x.default)
  BY Zenon DEF PrintSwitch
<1>6. t.default = NoClause <=> x.default = NoBlock
  <2>1. CASE x.default = NoBlock
    BY <1>5, <2>1
  <2>2. CASE x.default # NoBlock
    <3>1. Clause(x.default) \in CaseClause
      BY <1>1, <1>3, <1>4, <2>2
    <3>2. t.default = Clause(x.default)
      BY <1>5, <2>2
    <3> HIDE DEF Clause, t
    <3> QED
      BY <2>2, <3>1, <3>2, SyntaxAssumption
  <2> QED
    BY <2>1, <2>2
<1>7. DOMAIN t.cases = DOMAIN x.branches
  BY <1>5
<1>8. ASSUME NEW i \in DOMAIN x.branches
      PROVE  /\ t.cases[i].label = i - 1 /\ t.cases[i].clause.args = Len(x.ins)
             /\ Region(x.ins, t.cases[i].clause.body) = x.branches[i]
  <2>1. t.cases[i].label = i - 1 /\ t.cases[i].clause = Clause(x.branches[i])
    BY <1>5
  <2> QED
    BY <1>3, <1>4, <2>1
<1>9. /\ t.default # NoClause => t.default.args = Len(x.ins)
      /\ t.default # NoClause => Region(x.ins, t.default.body) = x.default
  BY <1>1, <1>3, <1>4, <1>5, <1>6
<1>10. /\ t.operands # <<>> /\ t.operands[1] = x.selection /\ Tail(t.types) = x.ins
       /\ t.types = t.operands
  BY <1>1, <1>5, Front
<1> HIDE DEF t, Clause
<1>11. [i \in DOMAIN t.cases |-> Region(x.ins, t.cases[i].clause.body)] = x.branches
  BY <1>1, <1>7, <1>8
<1>12. (IF t.default = NoClause THEN NoBlock ELSE Region(x.ins, t.default.body)) = x.default
  BY <1>6, <1>9
<1>13. ParseSwitch(t) = [kind |-> "switch", selection |-> x.selection, ins |-> x.ins,
                         outs |-> x.outs, branches |-> x.branches, default |-> x.default]
  BY <1>5, <1>7, <1>8, <1>9, <1>10, <1>11, <1>12 DEF ParseSwitch
<1> QED
  BY <1>13 DEF SwitchOp, t

\* The loops may come back with other yields, where they had none to print.
Filled(r, shown) == [args |-> r.args, ops |-> r.ops, yields |-> IF shown THEN r.yields ELSE <<>>]

LEMMA FilledRegion ==
  ASSUME NEW r \in FullRegion, r.yields # NoYield, NEW shown \in BOOLEAN
  PROVE  /\ Filled(r, shown) \in FullRegion /\ Filled(r, shown) # NoBlock
         /\ Filled(r, shown).yields # NoYield
         /\ Filled(r, shown).args = r.args
         /\ PrintRegion(Filled(r, shown), shown) = PrintRegion(r, shown)
         /\ (~shown => r.yields = <<>>) => Filled(r, shown) = r
<1>1. r.args \in Seq(Types) /\ r.ops \in Nat /\ r.yields \in Seq(Types) /\ <<>> \in Seq(Types)
  BY DEF FullRegion
<1>2. Filled(r, shown) \in FullRegion
  BY <1>1 DEF Filled, FullRegion
<1>3. PrintRegion(Filled(r, shown), shown) = PrintRegion(r, shown)
  BY DEF Filled, PrintRegion
<1>4. (~shown => r.yields = <<>>) => Filled(r, shown) = r
  BY DEF Filled, FullRegion
<1>5. Filled(r, shown).yields # NoYield /\ Filled(r, shown).args = r.args
  BY <1>1, SyntaxAssumption DEF Filled
<1> QED
  BY <1>2, <1>3, <1>4, <1>5, SyntaxAssumption

LEMMA ForReturns ==
  ASSUME NEW x \in ForOp, VerifyFor(x), ~NoInductionVariable(x)
  PROVE  ParseFor(PrintFor(x)) = [x EXCEPT !.body = Filled(x.body, x.ins # <<>>)]
<1> DEFINE t == PrintFor(x)
           r == x.body
<1>1. /\ x.kind = "for" /\ x.bounds \in [1..3 -> Types] /\ x.ins \in Seq(Types)
      /\ x.outs \in Seq(Types) /\ r \in AnyRegion
  BY DEF ForOp
<1>2. /\ r # NoBlock /\ r.yields # NoYield /\ r.args # <<>>
      /\ \A b \in 1..3 : x.bounds[b] = r.args[1]
      /\ x.ins = x.outs /\ Tail(r.args) = x.ins
  BY <1>1 DEF VerifyFor, NoInductionVariable, ForIsReached, Terminated
<1>3. r \in FullRegion /\ r.args \in Seq(Types)
  BY <1>1, <1>2 DEF AnyRegion, FullRegion
<1>4. <<r.args[1]>> \o x.ins = r.args
  <2> DEFINE args == r.args
  <2>1. args \in Seq(Types) /\ args # <<>> /\ x.ins = Tail(args)
    BY <1>2, <1>3
  <2> HIDE DEF args
  <2>2. args = <<args[1]>> \o Tail(args)
    BY <2>1
  <2> QED
    BY <2>1, <2>2 DEF args
<1>5. /\ t.bounds = x.bounds /\ t.type = r.args[1] /\ t.operands = x.ins /\ t.results = x.ins
      /\ t.body = PrintRegion(r, x.ins # <<>>)
  BY DEF PrintFor
<1>6. Region(r.args, t.body) = Filled(r, x.ins # <<>>)
  BY <1>2, <1>3, <1>5, RegionReturns DEF Filled
<1> HIDE DEF t, r
<1>7. ParseFor(t) = [kind |-> "for", bounds |-> x.bounds, ins |-> x.ins, outs |-> x.ins,
                     body |-> Filled(r, x.ins # <<>>)]
  BY <1>2, <1>4, <1>5, <1>6 DEF ParseFor
<1> QED
  BY <1>2, <1>7 DEF ForOp, t, r

LEMMA WhileReturns ==
  ASSUME NEW x \in WhileOp, VerifyWhile(x)
  PROVE  ParseWhile(PrintWhile(x)) = [x EXCEPT !.after = Filled(x.after, x.ins # <<>>)]
<1> DEFINE t == PrintWhile(x)
           b == x.before
           a == x.after
<1>1. /\ x.kind = "while" /\ x.ins \in Seq(Types) /\ x.outs \in Seq(Types)
      /\ b \in AnyRegion /\ a \in AnyRegion
  BY DEF WhileOp
<1>2. /\ b # NoBlock /\ a # NoBlock /\ b.yields # NoYield /\ a.yields # NoYield
      /\ b.args = x.ins /\ a.args = x.outs
  BY DEF VerifyWhile, Terminated
<1>3. b \in FullRegion /\ a \in FullRegion
  BY <1>1, <1>2 DEF AnyRegion
<1>4. /\ t.ins = x.ins /\ t.outs = x.outs /\ t.operands = x.ins /\ t.afterArgs = Len(a.args)
      /\ t.before = PrintRegion(b, TRUE) /\ t.after = PrintRegion(a, x.ins # <<>>)
  BY DEF PrintWhile
<1>5. Region(x.ins, t.before) = b
  <2>1. Region(b.args, PrintRegion(b, TRUE)) = [args |-> b.args, ops |-> b.ops, yields |-> b.yields]
    BY <1>2, <1>3, RegionReturns
  <2> QED
    BY <1>2, <1>3, <1>4, <2>1, RegionWhole
<1>6. Region(x.outs, t.after) = Filled(a, x.ins # <<>>)
  BY <1>2, <1>3, <1>4, RegionReturns DEF Filled
<1> HIDE DEF t, a, b
<1>7. ParseWhile(t) = [kind |-> "while", ins |-> x.ins, outs |-> x.outs, before |-> b,
                       after |-> Filled(a, x.ins # <<>>)]
  BY <1>2, <1>4, <1>5, <1>6 DEF ParseWhile
<1> QED
  BY <1>7 DEF WhileOp, t, a, b

\* Whatever was printed is read, is sound, has the same text, and is the same if its yields carry
\* the values of the loop.
LEMMA SoundReturns ==
  ASSUME NEW x, Sound(x)
  PROVE  /\ Sound(ParseForm(PrintForm(x))) /\ ParseForm(PrintForm(x)) # NoOp
         /\ PrintForm(ParseForm(PrintForm(x))) = PrintForm(x)
         /\ YieldsCarry(x) => ParseForm(PrintForm(x)) = x
<1>0. x \in Forms
  BY DEF Sound
<1>1. CASE x \in SwitchOp
  <2>1. x.kind = "switch" /\ VerifySwitch(x)
    BY <1>1 DEF Sound, SwitchOp, Accepts
  <2>2. PrintForm(x) = PrintSwitch(x) /\ PrintSwitch(x).kind = "switch"
    BY <2>1 DEF PrintForm, PrintSwitch
  <2>3. ParseForm(PrintForm(x)) = x
    BY <1>1, <2>1, <2>2, SwitchReturns DEF ParseForm
  <2> QED
    BY <1>0, <2>3, SyntaxAssumption DEF Forms
<1>2. CASE x \in ForOp
  <2> DEFINE shown == x.ins # <<>>
             y == [x EXCEPT !.body = Filled(x.body, shown)]
  <2>1. x.kind = "for" /\ VerifyFor(x) /\ ~NoInductionVariable(x)
    BY <1>2 DEF Sound, ForOp, Accepts
  <2>2. PrintForm(x) = PrintFor(x) /\ PrintFor(x).kind = "for"
    BY <2>1 DEF PrintForm, PrintFor
  <2>3. ParseForm(PrintForm(x)) = y
    BY <1>2, <2>1, <2>2, ForReturns DEF ParseForm
  <2>4. x.body \in FullRegion /\ x.body.yields # NoYield /\ shown \in BOOLEAN
    BY <1>2, <2>1 DEF ForOp, VerifyFor, ForIsReached, Terminated, AnyRegion
  <2>5. /\ Filled(x.body, shown) \in FullRegion /\ Filled(x.body, shown) # NoBlock
        /\ Filled(x.body, shown).yields # NoYield
        /\ Filled(x.body, shown).args = x.body.args
        /\ PrintRegion(Filled(x.body, shown), shown) = PrintRegion(x.body, shown)
        /\ (~shown => x.body.yields = <<>>) => Filled(x.body, shown) = x.body
    BY <2>4, FilledRegion
  <2>6. /\ y \in ForOp /\ y.kind = "for" /\ y.bounds = x.bounds /\ y.ins = x.ins /\ y.outs = x.outs
        /\ y.body = Filled(x.body, shown)
    BY <1>2, <2>5 DEF ForOp, AnyRegion
  <2> HIDE DEF y
  <2>7. Sound(y)
    <3>1. ForIsReached(x) /\ x.body.args # <<>>
      BY <2>1 DEF VerifyFor, NoInductionVariable
    <3>2. ForIsReached(y) /\ y.body.args # <<>>
      BY <2>5, <2>6, <3>1 DEF ForIsReached, Terminated
    <3>3. VerifyFor(y)
      BY <2>1, <2>5, <2>6, <3>2 DEF VerifyFor
    <3> QED
      BY <2>6, <3>2, <3>3 DEF Sound, Forms, NoInductionVariable, Accepts
  <2>8. PrintForm(y) = PrintForm(x)
    <3>1. PrintFor(y) = PrintFor(x)
      BY <2>5, <2>6 DEF PrintFor
    <3> QED
      BY <2>2, <2>6, <3>1 DEF PrintForm
  <2>9. YieldsCarry(x) => y = x
    <3>1. YieldsCarry(x) => x.body.yields = x.ins
      BY <2>1 DEF YieldsCarry
    <3> QED
      BY <1>2, <2>5, <3>1 DEF y, ForOp
  <2> QED
    BY <2>3, <2>6, <2>7, <2>8, <2>9, SyntaxAssumption DEF Forms
<1>3. CASE x \in WhileOp
  <2> DEFINE shown == x.ins # <<>>
             y == [x EXCEPT !.after = Filled(x.after, shown)]
  <2>1. x.kind = "while" /\ VerifyWhile(x)
    BY <1>3 DEF Sound, WhileOp, Accepts
  <2>2. PrintForm(x) = PrintWhile(x) /\ PrintWhile(x).kind = "while"
    BY <2>1 DEF PrintForm, PrintWhile
  <2>3. ParseForm(PrintForm(x)) = y
    BY <1>3, <2>1, <2>2, WhileReturns DEF ParseForm
  <2>4. x.after \in FullRegion /\ x.after.yields # NoYield /\ shown \in BOOLEAN
    BY <1>3, <2>1 DEF WhileOp, VerifyWhile, Terminated, AnyRegion
  <2>5. /\ Filled(x.after, shown) \in FullRegion /\ Filled(x.after, shown) # NoBlock
        /\ Filled(x.after, shown).yields # NoYield
        /\ Filled(x.after, shown).args = x.after.args
        /\ PrintRegion(Filled(x.after, shown), shown) = PrintRegion(x.after, shown)
        /\ (~shown => x.after.yields = <<>>) => Filled(x.after, shown) = x.after
    BY <2>4, FilledRegion
  <2>6. /\ y \in WhileOp /\ y.kind = "while" /\ y.ins = x.ins /\ y.outs = x.outs
        /\ y.before = x.before /\ y.after = Filled(x.after, shown)
    BY <1>3, <2>5 DEF WhileOp, AnyRegion
  <2> HIDE DEF y
  <2>7. Sound(y)
    <3>1. VerifyWhile(y)
      BY <2>1, <2>5, <2>6 DEF VerifyWhile, Terminated
    <3> QED
      BY <2>6, <3>1 DEF Sound, Forms, NoInductionVariable, Accepts
  <2>8. PrintForm(y) = PrintForm(x)
    <3>1. PrintWhile(y) = PrintWhile(x)
      BY <2>5, <2>6 DEF PrintWhile
    <3> QED
      BY <2>2, <2>6, <3>1 DEF PrintForm
  <2>9. YieldsCarry(x) => y = x
    <3>1. YieldsCarry(x) => x.after.yields = x.ins
      BY <2>1 DEF YieldsCarry
    <3> QED
      BY <1>3, <2>5, <3>1 DEF y, WhileOp
  <2> QED
    BY <2>3, <2>6, <2>7, <2>8, <2>9, SyntaxAssumption DEF Forms
<1> QED
  BY <1>0, <1>1, <1>2, <1>3 DEF Forms

----------------------------------------------------------------------------
(* RegionSyntax: any text at all.                                          *)

LEMMA ParsedForms ==
  ASSUME NEW t \in SwitchText \cup ForText \cup WhileText
  PROVE  ParseForm(t) \in Forms \cup {NoOp}
<1>1. CASE t \in SwitchText
  <2>1. /\ t.kind = "switch" /\ t.operands \in Seq(Types) /\ t.types \in Seq(Types)
        /\ t.results \in Seq(Types) /\ t.cases \in Seq([label : Nat, clause : CaseClause])
        /\ t.default \in CaseClause \cup {NoClause}
    BY <1>1 DEF SwitchText
  <2> SUFFICES ASSUME ParseSwitch(t) # NoOp PROVE ParseSwitch(t) \in SwitchOp
    BY <2>1 DEF ParseForm, Forms
  <2> DEFINE ins == Tail(t.types)
             branches == [i \in DOMAIN t.cases |-> Region(ins, t.cases[i].clause.body)]
             default == IF t.default = NoClause THEN NoBlock ELSE Region(ins, t.default.body)
  <2>2. ParseSwitch(t) = [kind |-> "switch", selection |-> t.operands[1], ins |-> ins,
                          outs |-> t.results, branches |-> branches, default |-> default]
        /\ t.operands # <<>> /\ t.types = t.operands
    BY Zenon DEF ParseSwitch
  <2>3. ins \in Seq(Types) /\ t.operands[1] \in Types
    BY <2>1, <2>2
  <2> HIDE DEF ins
  <2>4. branches \in Seq(AnyRegion)
    <3>1. ASSUME NEW i \in DOMAIN t.cases PROVE Region(ins, t.cases[i].clause.body) \in AnyRegion
      <4>1. t.cases[i] \in [label : Nat, clause : CaseClause]
        <5> DEFINE S == [label : Nat, clause : CaseClause]
                   cases == t.cases
        <5>1. cases \in Seq(S) /\ i \in DOMAIN cases
          BY <2>1
        <5> HIDE DEF S, cases
        <5>2. cases[i] \in S
          BY <5>1
        <5> QED
          BY <5>2 DEF S, cases
      <4>2. t.cases[i].clause.body \in RegionBody
        BY <4>1 DEF CaseClause
      <4> QED
        BY <2>3, <4>2, RegionParsed DEF AnyRegion
    <3>2. DOMAIN t.cases = 1 .. Len(t.cases) /\ Len(t.cases) \in Nat
      BY <2>1
    <3> QED
      BY <3>1, <3>2
  <2>5. default \in AnyRegion
    <3>1. CASE t.default # NoClause
      <4>1. t.default.body \in RegionBody
        BY <2>1, <3>1 DEF CaseClause
      <4> QED
        BY <2>3, <3>1, <4>1, RegionParsed DEF AnyRegion
    <3> QED
      BY <3>1 DEF AnyRegion
  <2> HIDE DEF branches, default
  <2> QED
    BY <2>1, <2>2, <2>3, <2>4, <2>5 DEF SwitchOp
<1>2. CASE t \in ForText
  <2>1. /\ t.kind = "for" /\ t.bounds \in [1..3 -> Types] /\ t.type \in Types
        /\ t.operands \in Seq(Types) /\ t.results \in Seq(Types) /\ t.body \in RegionBody
    BY <1>2 DEF ForText
  <2>2. <<t.type>> \o t.results \in Seq(Types)
    BY <2>1, Front
  <2>3. Region(<<t.type>> \o t.results, t.body) \in AnyRegion
    BY <2>1, <2>2, RegionParsed DEF AnyRegion
  <2>4. ParseFor(t) \in ForOp \cup {NoOp}
    BY <2>1, <2>3 DEF ParseFor, ForOp
  <2> QED
    BY <2>1, <2>4 DEF ParseForm, Forms
<1>3. CASE t \in WhileText
  <2>1. /\ t.kind = "while" /\ t.ins \in Seq(Types) /\ t.outs \in Seq(Types)
        /\ t.before \in RegionBody /\ t.after \in RegionBody
    BY <1>3 DEF WhileText
  <2>2. Region(t.ins, t.before) \in AnyRegion /\ Region(t.outs, t.after) \in AnyRegion
    BY <2>1, RegionParsed DEF AnyRegion
  <2>3. ParseWhile(t) \in WhileOp \cup {NoOp}
    BY <2>1, <2>2 DEF ParseWhile, WhileOp
  <2> QED
    BY <2>1, <2>3 DEF ParseForm, Forms
<1> QED
  BY <1>1, <1>2, <1>3

----------------------------------------------------------------------------
(* RegionSyntax: the invariant.                                            *)

\* Once printed, an operation is sound and its text is the one at hand; before, it is anything
\* until the verifier has seen it.
SyntaxInv ==
    /\ status \in {"parsed", "verified"} => op \in Forms
    /\ status = "verified" => Sound(op)
    /\ ~printed /\ status = "printed" => text \in Texts
    /\ printed => /\ status \in {"printed", "parsed", "verified"}
                  /\ Sound(op) /\ text = PrintForm(op)

LEMMA SyntaxInvInit == SyntaxInit => SyntaxInv
BY SyntaxAssumption DEF SyntaxInit, SyntaxInv, Forms

\* One step, and what it does to text and operation.
LEMMA SyntaxInvNext ==
  ASSUME SyntaxInv, SyntaxNext
  PROVE  /\ SyntaxInv'
         /\ printed /\ status = "printed" /\ YieldsCarry(op) => op' = op
         /\ printed /\ status = "verified" => text' = text
<1>1. CASE PrintOperation
  BY <1>1 DEF PrintOperation, SyntaxInv, Sound
<1>2. CASE ParseText
  <2>1. status = "printed" /\ op' = ParseForm(text) /\ text' = text /\ printed' = printed
        /\ status' = IF op' = NoOp THEN "refused" ELSE "parsed"
    BY <1>2 DEF ParseText
  <2>2. CASE printed
    <3>1. Sound(op) /\ text = PrintForm(op)
      BY <2>2 DEF SyntaxInv
    <3>2. /\ Sound(op') /\ op' # NoOp /\ PrintForm(op') = text
          /\ YieldsCarry(op) => op' = op
      <4>1. PICK x : x = ParseForm(PrintForm(op))
        OBVIOUS
      <4>2. /\ Sound(x) /\ x # NoOp /\ PrintForm(x) = PrintForm(op)
            /\ YieldsCarry(op) => x = op
        BY <3>1, <4>1, SoundReturns
      <4>3. x = op'
        BY <2>1, <3>1, <4>1
      <4> QED
        BY <3>1, <4>2, <4>3
    <3>3. SyntaxInv'
      BY <2>1, <2>2, <3>2 DEF SyntaxInv, Sound
    <3> QED
      BY <2>1, <3>2, <3>3
  <2>3. CASE ~printed
    <3>1. text \in SwitchText \cup ForText \cup WhileText
      BY <2>1, <2>3, SyntaxAssumption DEF SyntaxInv
    <3>2. op' \in Forms \cup {NoOp}
      BY <2>1, <3>1, ParsedForms
    <3>3. printed' = FALSE \/ ~printed'
      BY <2>1, <2>3
    <3> QED
      BY <2>1, <2>3, <3>2 DEF SyntaxInv
  <2> QED
    BY <2>2, <2>3
<1>3. CASE Verify
  BY <1>3 DEF Verify, SyntaxInv, Sound
<1> QED
  BY <1>1, <1>2, <1>3 DEF SyntaxNext

LEMMA SyntaxInvStutters == SyntaxInv /\ UNCHANGED syntaxVars => SyntaxInv'
BY DEF SyntaxInv, syntaxVars

LEMMA SyntaxInvHolds == SyntaxSpec => []SyntaxInv
<1>1. SyntaxInv /\ [SyntaxNext]_syntaxVars => SyntaxInv'
  BY SyntaxInvNext, SyntaxInvStutters
<1> QED
  BY <1>1, SyntaxInvInit, PTL DEF SyntaxSpec

\* For operations with any number of cases, arguments and results, and for any text: what was
\* verified once and printed is accepted by the parser and by the verifier.
THEOREM PrintedIsAccepted == SyntaxSpec => []PrintedAccepted
<1>1. SyntaxInv => PrintedAccepted
  BY DEF SyntaxInv, PrintedAccepted
<1> QED
  BY <1>1, SyntaxInvHolds, PTL

\* "print-then-parse round-trips faithfully" (JeffOps.cpp:248), for every operation whose yields
\* carry its values.
THEOREM PrintingRoundTrips == SyntaxSpec => RoundTrips
<1>1. SyntaxInv /\ [SyntaxNext]_syntaxVars =>
        [printed /\ status = "printed" /\ YieldsCarry(op) => op' = op]_syntaxVars
  BY SyntaxInvNext
<1> QED
  BY <1>1, SyntaxInvHolds, PTL DEF SyntaxSpec, RoundTrips

\* Text, once it was printed, is what the printer prints again.
THEOREM TextDoesSettle == SyntaxSpec => TextSettles
<1>1. SyntaxInv /\ [SyntaxNext]_syntaxVars =>
        [printed /\ status = "verified" => text' = text]_syntaxVars
  BY SyntaxInvNext
<1> QED
  BY <1>1, SyntaxInvHolds, PTL DEF SyntaxSpec, TextSettles

----------------------------------------------------------------------------
(* Canonicalize.                                                           *)

\* A block with operands that are left, of the width of their xor or not, and the values r.
LeftIn(b) == {i \in DOMAIN b : b[i] # Erased}
Rewritten(b, r) ==
    /\ b \in [DOMAIN b -> Operation \cup {Erased}]
    /\ \A i \in LeftIn(b) :
          /\ \A o \in OperandsOf(b[i]) :
                /\ o \in LeftIn(b)
                /\ b[i].kind \in {"xor", "not"} => b[o].width = b[i].width
          /\ HasValue(b[i], r[i], r)
RewriteInv == Rewritten(block, results)

LEMMA RewriteInvInit == RewriteInit => RewriteInv
<1> SUFFICES ASSUME RewriteInit PROVE RewriteInv
  OBVIOUS
<1>1. PICK e \in Executions : block = e.block /\ results = e.results
  BY DEF RewriteInit
<1>2. /\ block \in [DOMAIN block -> Operation]
      /\ \A i \in DOMAIN block :
            /\ \A o \in OperandsOf(block[i]) :
                  /\ o \in DOMAIN block
                  /\ block[i].kind \in {"xor", "not"} => block[o].width = block[i].width
            /\ HasValue(block[i], results[i], results)
  BY <1>1, ExecutionsAssumption
<1>3. LeftIn(block) = DOMAIN block
  BY <1>2, ExecutionsAssumption DEF LeftIn
<1>4. block \in [DOMAIN block -> Operation \cup {Erased}]
  BY <1>2
<1> QED
  BY <1>2, <1>3, <1>4 DEF RewriteInv, Rewritten

\* What has no uses can be erased.
LEMMA ErasingKeeps ==
  ASSUME NEW b, NEW r, Rewritten(b, r), NEW i \in DOMAIN b, ~Used(b, i)
  PROVE  Rewritten([b EXCEPT ![i] = Erased], r)
<1>1. PICK c : c = [b EXCEPT ![i] = Erased]
  OBVIOUS
<1>2. /\ DOMAIN c = DOMAIN b /\ c[i] = Erased
      /\ \A k \in DOMAIN b \ {i} : c[k] = b[k]
      /\ c \in [DOMAIN c -> Operation \cup {Erased}]
  BY <1>1 DEF Rewritten
<1>3. LeftIn(c) = LeftIn(b) \ {i}
  BY <1>2 DEF LeftIn
<1>4. \A k \in LeftIn(b) : i \notin OperandsOf(b[k])
  BY DEF Used, LeftIn
<1>5. \A k \in LeftIn(c) :
          /\ k \in LeftIn(b) /\ c[k] = b[k]
          /\ \A o \in OperandsOf(b[k]) : o \in LeftIn(c) /\ c[o] = b[o]
  BY <1>2, <1>3, <1>4 DEF Rewritten, LeftIn
<1>6. Rewritten(c, r)
  BY <1>2, <1>5 DEF Rewritten
<1> QED
  BY <1>1, <1>6

\* A xor with all ones of its width is a not.
LEMMA ReplacingKeeps ==
  ASSUME NEW b, NEW r, Rewritten(b, r), NEW i \in LeftIn(b),
         b[i].kind = "xor", IsAllOnes(b[b[i].b])
  PROVE  Rewritten([b EXCEPT ![i] = [@ EXCEPT !.kind = "not", !.b = b[i].a]], r)
<1> DEFINE x == b[i]
           y == [x EXCEPT !.kind = "not", !.b = x.a]
<1>1. x \in Operation /\ x.kind = "xor" /\ OperandsOf(x) = {x.a, x.b}
  BY DEF Rewritten, LeftIn, OperandsOf
<1>2. /\ x.a \in LeftIn(b) /\ x.b \in LeftIn(b)
      /\ b[x.a].width = x.width /\ b[x.b].width = x.width
  BY <1>1 DEF Rewritten
<1>3. r[x.b] = 2^x.width - 1
  BY <1>2 DEF IsAllOnes, Rewritten, HasValue
<1>4. r[i] = Binary("xor", r[x.a], r[x.b], x.width)
  BY <1>1 DEF Rewritten, HasValue
<1>5. /\ y \in Operation /\ y.kind = "not" /\ y.a = x.a /\ y.b = x.a /\ y.width = x.width
      /\ y # Erased
  BY <1>1, ExecutionsAssumption DEF Operation
<1>6. OperandsOf(y) = {x.a}
  BY <1>5 DEF OperandsOf
<1>7. HasValue(y, r[i], r)
  BY <1>3, <1>4, <1>5 DEF HasValue
<1> HIDE DEF y
<1>8. PICK c : c = [b EXCEPT ![i] = y]
  OBVIOUS
<1>9. /\ DOMAIN c = DOMAIN b /\ c[i] = y
      /\ \A k \in DOMAIN b \ {i} : c[k] = b[k]
      /\ c \in [DOMAIN c -> Operation \cup {Erased}]
  BY <1>5, <1>8 DEF Rewritten, LeftIn
<1>10. LeftIn(c) = LeftIn(b) /\ \A k \in LeftIn(b) : c[k].width = b[k].width
  BY <1>5, <1>9 DEF LeftIn
<1>11. ASSUME NEW k \in LeftIn(b)
       PROVE  /\ \A o \in OperandsOf(c[k]) :
                    /\ o \in LeftIn(b)
                    /\ c[k].kind \in {"xor", "not"} => c[o].width = c[k].width
              /\ HasValue(c[k], r[k], r)
  <2>1. CASE k = i
    BY <1>2, <1>5, <1>6, <1>7, <1>9, <1>10, <2>1
  <2>2. CASE k # i
    BY <1>9, <1>10, <2>2 DEF Rewritten, LeftIn
  <2> QED
    BY <2>1, <2>2
<1>12. Rewritten(c, r)
  BY <1>9, <1>10, <1>11 DEF Rewritten
<1> QED
  BY <1>8, <1>12 DEF y

LEMMA RewriteInvStep == RewriteInv /\ [RewriteNext]_rewriteVars => RewriteInv'
<1> SUFFICES ASSUME RewriteInv, [RewriteNext]_rewriteVars PROVE RewriteInv'
  OBVIOUS
<1>1. ASSUME NEW i \in DOMAIN block, XorToNot(i) PROVE RewriteInv'
  <2> DEFINE replaced == [block EXCEPT ![i] = [@ EXCEPT !.kind = "not", !.b = block[i].a]]
  <2>1. /\ i \in LeftIn(block) /\ block[i].kind = "xor" /\ IsAllOnes(block[block[i].b])
        /\ results' = results
        /\ block' = IF Used(replaced, block[i].b) THEN replaced
                    ELSE [replaced EXCEPT ![block[i].b] = Erased]
    BY <1>1 DEF XorToNot, Matches, Positions, LeftIn
  <2>2. Rewritten(replaced, results)
    BY <2>1, ReplacingKeeps DEF RewriteInv
  <2>3. block[i].b \in DOMAIN replaced
    BY <2>1 DEF RewriteInv, Rewritten, LeftIn, OperandsOf
  <2> HIDE DEF replaced
  <2>4. ~Used(replaced, block[i].b) =>
            Rewritten([replaced EXCEPT ![block[i].b] = Erased], results)
    BY <2>2, <2>3, ErasingKeeps
  <2> QED
    BY <2>1, <2>2, <2>4 DEF RewriteInv
<1>2. ASSUME NEW i \in DOMAIN block, EraseDead(i) PROVE RewriteInv'
  BY <1>2, ErasingKeeps DEF EraseDead, RewriteInv
<1>3. CASE UNCHANGED rewriteVars
  BY <1>3 DEF rewriteVars, RewriteInv
<1> QED
  BY <1>1, <1>2, <1>3 DEF RewriteNext

LEMMA RewriteInvariant == RewriteSpec => []RewriteInv
BY RewriteInvInit, RewriteInvStep, PTL DEF RewriteSpec

\* In blocks of any size, whatever the order of the visits: a constant is erased only when its last
\* use is gone.
THEOREM OperandsAreLeft == RewriteSpec => []OperandsLeft
<1>1. RewriteInv => OperandsLeft
  BY DEF RewriteInv, Rewritten, LeftIn, OperandsLeft, Positions
<1> QED
  BY <1>1, RewriteInvariant, PTL

\* For every width: the values of the block are those of the operations that are left.
THEOREM ResultsAreKept == RewriteSpec => []ResultsKept
<1>1. RewriteInv => ResultsKept
  BY DEF RewriteInv, Rewritten, LeftIn, ResultsKept, Positions
<1> QED
  BY <1>1, RewriteInvariant, PTL

----------------------------------------------------------------------------
(* NativeToJeff: the invariant.                                            *)

\* A native value: an element of a tensor may be one that nobody has written.
NativeTyped(n) ==
    IF IsTensor(n.type)
    THEN /\ ElementType(n.type[2])
         /\ IsSequence(n.val) /\ Len(n.val) < 2^(I64 - 1)
         /\ \A k \in DOMAIN n.val : n.val[k] = Undefined \/ Fits(n.type[2], n.val[k])
    ELSE ElementType(n.type) /\ Fits(n.type, n.val)

Agreeing(n, j) == Agree(n, j) /\ (IsTensor(n.type) => IsSequence(j.val))
AllAgree == IndicesFit => /\ stage # "undefined"
                          /\ \A i \in DOMAIN pairs : Agreeing(pairs[i].n, pairs[i].j)

NativeInv ==
    /\ IsSequence(pairs)
    /\ \A i \in DOMAIN pairs :
          NativeTyped(pairs[i].n) /\ TypeKept(pairs[i].n, pairs[i].j)
    /\ Compatible
    /\ AllAgree

LEMMA DefineKeeps ==
  ASSUME NativeInv, NEW t, NEW v, NEW c, NEW out, Define(t, v, c, out),
         out.status # "invalid",
         out.status = "converting" => NativeTyped(Typed(t, v)) /\ TypeKept(Typed(t, v), out.value),
         IndicesFit => out.status # "undefined",
         IndicesFit /\ out.status = "converting" /\ (t = IndexType => v < 2^(I32 - 1)) =>
             Agreeing(Typed(t, v), out.value)
  PROVE  NativeInv'
<1>1. /\ stage = "converting" /\ stage' = out.status
      /\ pairs' = IF out.status = "converting"
                   THEN Append(pairs, [n |-> Typed(t, v), j |-> out.value, c |-> c])
                   ELSE pairs
  BY DEF Define
<1>2. Compatible'
  BY <1>1 DEF Compatible
<1>3. CASE out.status # "converting"
  <2>1. pairs' = pairs
    BY <1>1, <1>3
  <2>2. IndicesFit' = IndicesFit
    BY <2>1 DEF IndicesFit, Natives
  <2> QED
    BY <1>1, <1>2, <2>1, <2>2 DEF NativeInv, AllAgree
<1>4. CASE out.status = "converting"
  <2> DEFINE e == [n |-> Typed(t, v), j |-> out.value, c |-> c]
  <2>1. pairs' = Append(pairs, e)
    BY <1>1, <1>4
  <2>2. e.n = Typed(t, v) /\ e.j = out.value /\ e.n.type = t /\ e.n.val = v
    BY ScalarTyped
  <2> HIDE DEF e
  <2>3. /\ IsSequence(pairs') /\ Len(pairs) \in Nat /\ DOMAIN pairs = 1 .. Len(pairs)
        /\ DOMAIN pairs' = 1 .. (Len(pairs) + 1)
        /\ \A i \in 1 .. Len(pairs) : pairs'[i] = pairs[i]
        /\ pairs'[Len(pairs) + 1] = e
    BY <2>1, Appended DEF NativeInv
  <2>4. \A i \in DOMAIN pairs' :
          NativeTyped(pairs'[i].n) /\ TypeKept(pairs'[i].n, pairs'[i].j)
    BY <1>4, <2>2, <2>3 DEF NativeInv
  <2>5. ASSUME IndicesFit'
        PROVE  stage' # "undefined" /\ \A i \in DOMAIN pairs' : Agreeing(pairs'[i].n, pairs'[i].j)
    <3>1. IndicesFit
      BY <2>3, <2>5 DEF IndicesFit, Natives
    <3>2. t = IndexType => v < 2^(I32 - 1)
      BY <2>2, <2>3, <2>5 DEF IndicesFit, Natives
    <3>3. Agreeing(e.n, e.j)
      BY <1>4, <2>2, <3>1, <3>2
    <3>4. \A i \in DOMAIN pairs : Agreeing(pairs[i].n, pairs[i].j)
      BY <3>1 DEF NativeInv, AllAgree
    <3> QED
      BY <1>1, <1>4, <2>3, <3>3, <3>4
  <2>6. AllAgree'
    BY <2>5 DEF AllAgree
  <2> QED
    BY <1>2, <2>3, <2>4, <2>6 DEF NativeInv
<1> QED
  BY <1>3, <1>4

\* A pattern that makes a scalar.
LEMMA ScalarKeeps ==
  ASSUME NativeInv, NEW t, NEW v, NEW c, NEW u, NEW x, NEW out, Define(t, v, c, out),
         ElementType(t), Fits(t, v),
         u = IF t = IndexType THEN IntType(I32) ELSE t,
         out \in {Stopped("refused"), Stopped("undefined"), Replaced(u, x)},
         IndicesFit => out # Stopped("undefined"),
         IndicesFit /\ out = Replaced(u, x) /\ (t = IndexType => v < 2^(I32 - 1)) => x = v
  PROVE  NativeInv'
<1>1. ~IsTensor(t)
  BY Kinds DEF ElementType, ScalarType
<1>2. /\ Typed(t, v).type = t /\ Typed(t, v).val = v
      /\ Typed(u, x).type = u /\ Typed(u, x).val = x
  BY ScalarTyped
<1>3. NativeTyped(Typed(t, v)) /\ TypeKept(Typed(t, v), Typed(u, x))
  BY <1>1, <1>2 DEF NativeTyped, TypeKept
<1>4. x = v => Agreeing(Typed(t, v), Typed(u, x))
  BY <1>1, <1>2 DEF Agree, Agreeing
<1>5. /\ Stopped("refused").status = "refused" /\ Stopped("undefined").status = "undefined"
      /\ Replaced(u, x).status = "converting" /\ Replaced(u, x).value = Typed(u, x)
  BY Outcomes
<1> QED
  BY <1>3, <1>4, <1>5, DefineKeeps

\* A pattern that makes a tensor.
LEMMA TensorKeeps ==
  ASSUME NativeInv, NEW t, NEW v, NEW u, NEW x, NEW out, Convert(t, v, out),
         IsTensor(t), ElementType(t[2]), IsTensor(u),
         IsSequence(v), Len(v) < 2^(I64 - 1),
         \A k \in DOMAIN v : v[k] = Undefined \/ Fits(t[2], v[k]),
         out \in {Stopped("refused"), Stopped("undefined"), Replaced(u, x)},
         IndicesFit => out # Stopped("undefined"),
         IndicesFit /\ out = Replaced(u, x) => SameElements(v, x) /\ IsSequence(x)
  PROVE  NativeInv'
<1>1. /\ Typed(t, v).type = t /\ Typed(t, v).val = v
      /\ Typed(u, x).type = u /\ Typed(u, x).val = x
  BY ScalarTyped
<1>2. NativeTyped(Typed(t, v)) /\ TypeKept(Typed(t, v), Typed(u, x))
  BY <1>1 DEF NativeTyped, TypeKept
<1>3. SameElements(v, x) /\ IsSequence(x) => Agreeing(Typed(t, v), Typed(u, x))
  BY <1>1 DEF Agree, Agreeing
<1>4. /\ Stopped("refused").status = "refused" /\ Stopped("undefined").status = "undefined"
      /\ Replaced(u, x).status = "converting" /\ Replaced(u, x).value = Typed(u, x)
  BY Outcomes
<1>5. Define(t, v, FALSE, out)
  BY DEF Convert
<1> QED
  BY <1>2, <1>3, <1>4, <1>5, DefineKeeps

LEMMA ScalarOpKeeps ==
  ASSUME NativeInv, NEW t, NEW v, NEW u, NEW x, NEW out, Convert(t, v, out),
         ElementType(t), Fits(t, v),
         u = IF t = IndexType THEN IntType(I32) ELSE t,
         out \in {Stopped("refused"), Stopped("undefined"), Replaced(u, x)},
         IndicesFit => out # Stopped("undefined"),
         IndicesFit /\ out = Replaced(u, x) /\ (t = IndexType => v < 2^(I32 - 1)) => x = v
  PROVE  NativeInv'
<1>1. Define(t, v, FALSE, out)
  BY DEF Convert
<1> QED
  BY <1>1, ScalarKeeps

\* The operands.
LEMMA Scalars ==
  ASSUME NativeInv, NEW i \in DOMAIN pairs, ~IsTensor(pairs[i].n.type)
  PROVE  LET n == pairs[i].n
             j == pairs[i].j
         IN /\ ElementType(n.type) /\ Fits(n.type, n.val)
            /\ j.type = IF n.type = IndexType THEN IntType(I32) ELSE n.type
            /\ IsInt(n.type) => /\ Width(n.type) \in Nat \ {0} /\ PowersOf2(Width(n.type))
                                /\ n.val \in Numbers(Width(n.type)) /\ n.type # IndexType
            /\ n.type = IndexType => n.val \in Numbers(I64)
            /\ IndicesFit => j.val = n.val /\ (n.type = IndexType => n.val \in Small)
<1> DEFINE n == pairs[i].n
           j == pairs[i].j
<1>1. /\ ElementType(n.type) /\ Fits(n.type, n.val)
      /\ j.type = IF n.type = IndexType THEN IntType(I32) ELSE n.type
  BY DEF NativeInv, NativeTyped, TypeKept
<1>2. IsInt(n.type) => /\ Width(n.type) \in Nat \ {0} /\ PowersOf2(Width(n.type))
                       /\ n.val \in Numbers(Width(n.type)) /\ n.type # IndexType
  BY <1>1, Kinds, ScalarTyped DEF ElementType, ScalarType
<1>3. n.type = IndexType => n.val \in Numbers(I64)
  BY <1>1 DEF Fits, Width, Numbers
<1>4. IndicesFit => j.val = n.val
  BY <1>1 DEF NativeInv, AllAgree, Agreeing, Agree
<1>5. IndicesFit /\ n.type = IndexType => n.val \in Small
  <2>1. n.val \in Numbers(I64) => n.val \in Nat
    BY Widths32, NumbersTyped
  <2>2. IndicesFit /\ n.type = IndexType => n.val < 2^(I32 - 1)
    BY DEF IndicesFit, Natives
  <2> QED
    BY <1>3, <2>1, <2>2, SmallTyped
<1> QED
  BY <1>1, <1>2, <1>3, <1>4, <1>5

LEMMA TensorValues ==
  ASSUME NativeInv, NEW i \in Tensors
  PROVE  LET n == pairs[i].n
             j == pairs[i].j
         IN /\ i \in DOMAIN pairs /\ IsTensor(n.type)
            /\ ElementType(n.type[2]) /\ IsSequence(n.val) /\ Len(n.val) < 2^(I64 - 1)
            /\ Len(n.val) \in Nat /\ DOMAIN n.val = 1 .. Len(n.val)
            /\ \A k \in DOMAIN n.val : n.val[k] = Undefined \/ Fits(n.type[2], n.val[k])
            /\ IsTensor(j.type)
            /\ IndicesFit => SameElements(n.val, j.val) /\ IsSequence(j.val)
<1> DEFINE n == pairs[i].n
           j == pairs[i].j
<1>1. /\ i \in DOMAIN pairs /\ IsTensor(n.type)
      /\ ElementType(n.type[2]) /\ IsSequence(n.val) /\ Len(n.val) < 2^(I64 - 1)
      /\ \A k \in DOMAIN n.val : n.val[k] = Undefined \/ Fits(n.type[2], n.val[k])
      /\ IsTensor(j.type)
  BY DEF NativeInv, NativeTyped, TypeKept, Tensors
<1>2. Len(n.val) \in Nat /\ DOMAIN n.val = 1 .. Len(n.val)
  BY <1>1 DEF IsSequence
<1>3. IndicesFit => SameElements(n.val, j.val) /\ IsSequence(j.val)
  BY <1>1 DEF NativeInv, AllAgree, Agreeing, Agree
<1> QED
  BY <1>1, <1>2, <1>3

----------------------------------------------------------------------------
(* NativeToJeff: one lemma per operation of the native program.            *)

\* The type of truth values.
LEMMA BitTyped ==
  /\ IntType(1) # IndexType /\ IsInt(IntType(1)) /\ ElementType(IntType(1))
  /\ \A v \in {0, 1} : Fits(IntType(1), v)
<1>1. IsInt(IntType(1)) /\ Width(IntType(1)) = 1 /\ IntType(1) # IndexType
  BY Kinds
<1>2. PowersOf2(1)
  BY Widths32 DEF PowersOf2
<1>3. \A v \in {0, 1} : v \in Numbers(1)
  BY DEF Numbers
<1> QED
  BY <1>1, <1>2, <1>3, ScalarTyped DEF ElementType, ScalarType

\* An integer type the program uses.
LEMMA IntTypes ==
  ASSUME I32Programs, NEW w \in IntWidths
  PROVE  /\ w \in Nat \ {0} /\ PowersOf2(w) /\ ElementType(IntType(w))
         /\ IsInt(IntType(w)) /\ IntType(w) # IndexType /\ IntType(w) # FloatType
         /\ ~IsTensor(IntType(w)) /\ Width(IntType(w)) = w
         /\ \A v : Fits(IntType(w), v) <=> v \in Numbers(w)
<1>1. /\ IsInt(IntType(w)) /\ IntType(w) # IndexType /\ IntType(w) # FloatType
      /\ ~IsTensor(IntType(w)) /\ Width(IntType(w)) = w
  BY Kinds
<1>2. ScalarType(IntType(w))
  BY DEF I32Programs
<1>3. w \in Nat \ {0} /\ PowersOf2(w) /\ ElementType(IntType(w))
  BY <1>1, <1>2 DEF ScalarType, ElementType
<1>4. \A v : Fits(IntType(w), v) <=> v \in Numbers(w)
  BY <1>1, ScalarTyped
<1> QED
  BY <1>1, <1>3, <1>4

LEMMA FloatFits == ElementType(FloatType) /\ FloatType # IndexType /\ \A v : Fits(FloatType, v)
BY Kinds, ScalarTyped DEF ElementType, ScalarType

LEMMA ConstantKeeps == I32Programs /\ NativeInv /\ Constant => NativeInv'
<1> SUFFICES ASSUME I32Programs, NativeInv, Constant PROVE NativeInv'
  OBVIOUS
<1>1. ASSUME NEW w \in IntWidths, NEW v \in {0, 1, 2^w - 1},
             Define(IntType(w), v, TRUE, ConvertConstant(IntType(w), v))
      PROVE  NativeInv'
  <2>1. ConvertConstant(IntType(w), v) \in {Stopped("refused"), Replaced(IntType(w), v)}
    BY ConstantsConverted
  <2>2. v \in Numbers(w)
    <3>1. w \in Nat \ {0} /\ PowersOf2(w)
      BY IntTypes
    <3>2. 2^(w - 1) \in Nat \ {0} /\ 2^w = 2 * 2^(w - 1)
      <4>1. 0 \in Numbers(w)
        BY <3>1, NumbersTyped DEF Numbers
      <4> QED
        BY <3>1, <4>1, SignedTyped
    <3> QED
      BY <3>2 DEF Numbers
  <2>3. ConvertConstant(IntType(w), v) # Stopped("undefined")
    BY <2>1, Outcomes
  <2> QED
    BY <1>1, <2>1, <2>2, <2>3, IntTypes, ScalarKeeps
<1>2. ASSUME NEW v \in IndexConstants, Define(IndexType, v, TRUE, ConvertConstant(IndexType, v))
      PROVE  NativeInv'
  <2>1. ConvertConstant(IndexType, v) \in {Stopped("refused"), Replaced(IntType(I32), Wrap(v, I32))}
    <3> DEFINE t == IndexType
    <3>1. t = IndexType /\ ~IsInt(t) /\ t # FloatType
      BY Kinds
    <3> HIDE DEF t
    <3>2. ConvertConstant(t, v) = IF Signed(v, I64) > 2^(I32 - 1) - 1 THEN Stopped("refused")
                                  ELSE Replaced(IntType(I32), Wrap(v, I32))
      BY <3>1 DEF ConvertConstant
    <3> QED
      BY <3>1, <3>2
  <2>2. v \in Numbers(I64) /\ v \in Nat
    BY Widths32, NumbersTyped DEF I32Programs, Numbers
  <2>3. Fits(IndexType, v) /\ ElementType(IndexType)
    BY <2>2 DEF Fits, Width, Numbers, ElementType
  <2>4. v < 2^(I32 - 1) => Wrap(v, I32) = v
    BY <2>2, SmallTyped
  <2>5. ConvertConstant(IndexType, v) # Stopped("undefined")
    BY <2>1, Outcomes
  <2> QED
    BY <1>2, <2>1, <2>3, <2>4, <2>5, Outcomes, ScalarKeeps
<1>3. ASSUME NEW v, Define(FloatType, v, TRUE, ConvertConstant(FloatType, v))
      PROVE  NativeInv'
  <2>1. ConvertConstant(FloatType, v) = Replaced(FloatType, v)
    BY ConstantsConverted
  <2>2. ConvertConstant(FloatType, v) # Stopped("undefined")
    BY <2>1, Outcomes
  <2> QED
    BY <1>3, <2>1, <2>2, FloatFits, ScalarKeeps
<1>4. CASE \E w \in IntWidths : \E v \in {0, 1, 2^w - 1} :
              Define(IntType(w), v, TRUE, ConvertConstant(IntType(w), v))
  BY <1>1, <1>4
<1> QED
  BY <1>2, <1>3, <1>4 DEF Constant

LEMMA NativeBinaryKeeps == I32Programs /\ NativeInv /\ NativeBinary => NativeInv'
<1> SUFFICES ASSUME I32Programs, NativeInv, NativeBinary PROVE NativeInv'
  OBVIOUS
<1>1. PICK kind \in NativeKinds, i \in DOMAIN pairs, k \in DOMAIN pairs :
        LET t == pairs[i].n.type
            a == pairs[i].n.val
            b == pairs[k].n.val
        IN /\ IsScalarInt(i) /\ Typed2(i, k)
           /\ BinaryDefined(kind, a, b, Width(t))
           /\ t = IndexType /\ kind \in {"shl", "shr"} => b < I32
           /\ Convert(t, Binary(kind, a, b, Width(t)), ConvertIntBinary(kind, pairs[i].j, pairs[k].j))
  BY DEF NativeBinary
<1> DEFINE t == pairs[i].n.type
           w == Width(t)
           a == pairs[i].n.val
           b == pairs[k].n.val
           x == pairs[i].j
           y == pairs[k].j
           u == IF t = IndexType THEN IntType(I32) ELSE t
           v == Binary(kind, a, b, w)
           r == Binary(kind, x.val, y.val, Width(u))
           out == ConvertIntBinary(kind, x, y)
<1>2. /\ BinaryDefined(kind, a, b, w) /\ Convert(t, v, out) /\ kind \in BinaryOps
      /\ t = IndexType /\ kind \in {"shl", "shr"} => b < I32
      /\ IsInt(t) \/ t = IndexType
      /\ pairs[k].n.type = t
  BY <1>1 DEF IsScalarInt, Typed2, I32Programs
<1>3. /\ x.type = u /\ y.type = u /\ ElementType(t)
      /\ IsInt(t) => /\ w \in Nat \ {0} /\ PowersOf2(w) /\ t # IndexType
                     /\ a \in Numbers(w) /\ b \in Numbers(w)
      /\ t = IndexType => a \in Numbers(I64) /\ b \in Numbers(I64)
      /\ IndicesFit => x.val = a /\ y.val = b /\ (t = IndexType => a \in Small /\ b \in Small)
  <2>1. ~IsTensor(t)
    BY <1>2, Kinds
  <2> QED
    BY <1>2, <2>1, Scalars
<1> HIDE DEF x, y, a, b, t
<1>4. IsInt(u) /\ (t = IndexType => Width(u) = I32 /\ w = I64) /\ (t # IndexType => u = t)
  BY <1>2, Kinds DEF Width
<1>5. out = IF ~BinaryDefined(kind, x.val, y.val, Width(u)) THEN Stopped("undefined")
            ELSE Replaced(u, r)
  BY <1>3, <1>4 DEF ConvertIntBinary
<1>6. Fits(t, v)
  <2>1. w \in Nat \ {0} /\ PowersOf2(w) /\ a \in Numbers(w) /\ b \in Numbers(w)
    BY <1>2, <1>3, <1>4, Widths32
  <2>2. v \in Numbers(w)
    BY <1>2, <2>1, BinaryTyped
  <2> QED
    BY <2>2 DEF Fits, Numbers
<1>7. IndicesFit => BinaryDefined(kind, x.val, y.val, Width(u))
  <2>1. CASE t = IndexType
    BY <1>2, <1>3, <1>4, <2>1, NarrowBinary
  <2>2. CASE t # IndexType
    BY <1>2, <1>3, <1>4, <2>2
  <2> QED
    BY <2>1, <2>2
<1>8. IndicesFit /\ (t = IndexType => v < 2^(I32 - 1)) => r = v
  <2>1. CASE t = IndexType
    <3>1. v \in Numbers(I64)
      BY <1>6, <2>1 DEF Fits, Width, Numbers
    <3>2. v \in Nat
      BY <3>1, NumbersTyped, Widths32
    <3>3. v < 2^(I32 - 1) => v \in Small
      BY <3>2, SmallTyped
    <3> QED
      BY <1>2, <1>3, <1>4, <2>1, <3>3, NarrowBinary
  <2>2. CASE t # IndexType
    BY <1>3, <1>4, <2>2
  <2> QED
    BY <2>1, <2>2
<1>9. out \in {Stopped("undefined"), Replaced(u, r)} /\ (IndicesFit => out = Replaced(u, r))
  BY <1>5, <1>7
<1> HIDE DEF out, v, r
<1>10. IndicesFit => out # Stopped("undefined")
  BY <1>9, Outcomes
<1> QED
  BY <1>2, <1>3, <1>6, <1>8, <1>9, <1>10, ScalarOpKeeps

LEMMA AbsKeeps == NativeInv /\ Abs => NativeInv'
<1> SUFFICES ASSUME NativeInv, Abs PROVE NativeInv'
  OBVIOUS
<1>1. PICK i \in DOMAIN pairs :
        /\ IsScalarInt(i)
        /\ Convert(pairs[i].n.type, AbsoluteValue(pairs[i].n.val, Width(pairs[i].n.type)),
              ConvertAbs(pairs[i].j))
  BY DEF Abs
<1> DEFINE t == pairs[i].n.type
           w == Width(t)
           a == pairs[i].n.val
           x == pairs[i].j
           u == IF t = IndexType THEN IntType(I32) ELSE t
           v == AbsoluteValue(a, w)
           r == AbsoluteValue(x.val, Width(u))
<1>2. Convert(t, v, ConvertAbs(x)) /\ (IsInt(t) \/ t = IndexType)
  BY <1>1 DEF IsScalarInt
<1>3. /\ x.type = u /\ ElementType(t)
      /\ IsInt(t) => w \in Nat \ {0} /\ PowersOf2(w) /\ t # IndexType /\ a \in Numbers(w)
      /\ t = IndexType => a \in Numbers(I64)
      /\ IndicesFit => x.val = a /\ (t = IndexType => a \in Small)
  <2>1. ~IsTensor(t)
    BY <1>2, Kinds
  <2> QED
    BY <2>1, Scalars
<1> HIDE DEF x, a, t
<1>4. (t = IndexType => Width(u) = I32 /\ w = I64) /\ (t # IndexType => u = t)
  BY Kinds DEF Width
<1>5. ConvertAbs(x) = Replaced(u, r)
  BY <1>3 DEF ConvertAbs
<1>6. Fits(t, v)
  <2>1. w \in Nat \ {0} /\ PowersOf2(w) /\ a \in Numbers(w)
    BY <1>2, <1>3, <1>4, Widths32
  <2>2. v \in Numbers(w)
    <3>1. Signed(a, w) \in Int /\ a \in Int
      BY <2>1, SignedTyped, NumbersTyped
    <3> QED
      BY <2>1, <3>1, Wrapped DEF AbsoluteValue
  <2> QED
    BY <2>2 DEF Fits, Numbers
<1>7. IndicesFit => r = v
  <2>1. CASE t = IndexType
    <3>1. ASSUME a \in Small PROVE AbsoluteValue(a, I32) = a /\ AbsoluteValue(a, I64) = a
      <4>1. /\ Signed(a, I32) = a /\ Signed(a, I64) = a /\ a \in Nat /\ ~(a < 0)
            /\ a \in Numbers(I32) /\ a \in Numbers(I64)
        BY <3>1, SmallTyped
      <4> QED
        BY <4>1, Wrapped, Widths32 DEF AbsoluteValue
    <3> QED
      BY <1>3, <1>4, <2>1, <3>1
  <2>2. CASE t # IndexType
    BY <1>3, <1>4, <2>2
  <2> QED
    BY <2>1, <2>2
<1> HIDE DEF v, r
<1>8. ConvertAbs(x) # Stopped("undefined")
  BY <1>5, Outcomes
<1> QED
  BY <1>2, <1>3, <1>5, <1>6, <1>7, <1>8, ScalarOpKeeps

LEMMA IntCompareKeeps == NativeInv /\ IntCompare => NativeInv'
<1> SUFFICES ASSUME NativeInv, IntCompare PROVE NativeInv'
  OBVIOUS
<1>1. PICK kind \in NativeComparisons, i \in DOMAIN pairs, k \in DOMAIN pairs :
        LET w == Width(pairs[i].n.type)
        IN /\ IsScalarInt(i) /\ Typed2(i, k)
           /\ Convert(IntType(1), Compare(kind, pairs[i].n.val, w, pairs[k].n.val, w),
                 ConvertCompare(kind, pairs[i].j, pairs[k].j))
  BY DEF IntCompare
<1> DEFINE t == pairs[i].n.type
           w == Width(t)
           a == pairs[i].n.val
           b == pairs[k].n.val
           x == pairs[i].j
           y == pairs[k].j
           u == IF t = IndexType THEN IntType(I32) ELSE t
           v == Compare(kind, a, w, b, w)
           r == Compare(kind, x.val, Width(u), y.val, Width(u))
           out == ConvertCompare(kind, x, y)
<1>2. Convert(IntType(1), v, out) /\ (IsInt(t) \/ t = IndexType) /\ pairs[k].n.type = t
  BY <1>1 DEF IsScalarInt, Typed2
<1>3. /\ x.type = u /\ y.type = u
      /\ IndicesFit => x.val = a /\ y.val = b /\ (t = IndexType => a \in Small /\ b \in Small)
  <2>1. ~IsTensor(t)
    BY <1>2, Kinds
  <2> QED
    BY <1>2, <2>1, Scalars
<1> HIDE DEF x, y, a, b, t
<1>4. (t = IndexType => Width(u) = I32 /\ w = I64) /\ (t # IndexType => u = t)
  BY Kinds DEF Width
<1>5. out \in {Stopped("refused"), Replaced(IntType(1), r)}
  BY <1>3 DEF ConvertCompare
<1>6. IndicesFit => r = v
  <2>1. CASE t = IndexType
    <3>1. a \in Small /\ b \in Small => Compare(kind, a, I32, b, I32) = Compare(kind, a, I64, b, I64)
      BY SmallTyped DEF Compare
    <3> QED
      BY <1>3, <1>4, <2>1, <3>1
  <2>2. CASE t # IndexType
    BY <1>3, <1>4, <2>2
  <2> QED
    BY <2>1, <2>2
<1>7. v \in {0, 1}
  BY DEF Compare
<1> HIDE DEF out, v, r
<1>8. out # Stopped("undefined")
  BY <1>5, Outcomes
<1> QED
  BY <1>2, <1>5, <1>6, <1>7, <1>8, BitTyped, ScalarOpKeeps

\* An operation on the values of scalars that are no indices, whose result is no index.
LEMMA TermKeeps ==
  ASSUME NativeInv, NEW t, NEW v, NEW r, ElementType(t), t # IndexType, Fits(t, v), IndicesFit => r = v,
         NEW out, out \in {Stopped("refused"), Replaced(t, r)}, Convert(t, v, out)
  PROVE  NativeInv'
<1>1. out # Stopped("undefined")
  BY Outcomes
<1> QED
  BY <1>1, ScalarOpKeeps

\* A value is selected only if it is no index.
LEMMA SelectKeeps == NativeInv /\ Select => NativeInv'
<1> SUFFICES ASSUME NativeInv, Select PROVE NativeInv'
  OBVIOUS
<1>1. PICK c \in Natives(IntType(1)), i \in DOMAIN pairs, k \in DOMAIN pairs :
        /\ Typed2(i, k)
        /\ Convert(pairs[i].n.type, pairs[IF pairs[c].n.val = 1 THEN i ELSE k].n.val,
              ConvertSelect(pairs[i].n.type, pairs[c].j, pairs[i].j, pairs[k].j))
  BY DEF Select
<1> DEFINE t == pairs[i].n.type
           a == pairs[i].n.val
           b == pairs[k].n.val
           s == pairs[c].n.val
           v == pairs[IF pairs[c].n.val = 1 THEN i ELSE k].n.val
           chosen == IF pairs[c].j.val = 1 THEN pairs[i].j ELSE pairs[k].j
           r == IF IsInt(t) THEN Wrap(chosen.val, Width(t)) ELSE chosen.val
           out == ConvertSelect(t, pairs[c].j, pairs[i].j, pairs[k].j)
<1>2. Convert(t, v, out) /\ pairs[k].n.type = t
  BY <1>1 DEF Typed2
<1>3. out = IF ~IsInt(t) /\ t # FloatType THEN Stopped("refused") ELSE Replaced(t, r)
  BY DEF ConvertSelect
<1>4. CASE ~IsInt(t) /\ t # FloatType
  <2>1. out.status = "refused"
    BY <1>3, <1>4, Outcomes
  <2>2. Define(t, v, FALSE, out)
    BY <1>2 DEF Convert
  <2> HIDE DEF out, v, t
  <2> QED
    BY <2>1, <2>2, DefineKeeps
<1>5. CASE IsInt(t) \/ t = FloatType
  <2>1. ~IsTensor(t) /\ t # IndexType
    BY <1>5, Kinds
  <2>2. /\ ElementType(t) /\ Fits(t, a) /\ Fits(t, b)
        /\ IsInt(t) => /\ Width(t) \in Nat \ {0} /\ PowersOf2(Width(t))
                       /\ a \in Numbers(Width(t)) /\ b \in Numbers(Width(t))
        /\ IndicesFit => pairs[i].j.val = a /\ pairs[k].j.val = b
    BY <1>2, <2>1, Scalars
  <2>3. IndicesFit => pairs[c].j.val = s
    <3>1. c \in DOMAIN pairs /\ ~IsTensor(pairs[c].n.type)
      BY Kinds DEF Natives
    <3> QED
      BY <3>1, Scalars
  <2>4. v = (IF s = 1 THEN a ELSE b) /\ Fits(t, v)
    BY <2>2
  <2>5. IndicesFit => chosen.val = v
    BY <2>2, <2>3, <2>4
  <2>6. IsInt(t) => Wrap(v, Width(t)) = v
    <3> SUFFICES ASSUME IsInt(t) PROVE Wrap(v, Width(t)) = v
      OBVIOUS
    <3>1. Width(t) \in Nat /\ PowersOf2(Width(t)) /\ v \in Numbers(Width(t)) /\ v \in Int
      BY <2>2, <2>4, NumbersTyped
    <3> HIDE DEF v, t
    <3> QED
      BY <3>1, Wrapped
  <2>7. IndicesFit => r = v
    BY <2>5, <2>6
  <2>8. out = Replaced(t, r) /\ out # Stopped("undefined")
    BY <1>3, <1>5, Outcomes
  <2> HIDE DEF out, v, r, t
  <2>9. out \in {Stopped("refused"), Replaced(t, r)}
    BY <2>8
  <2>10. ElementType(t) /\ t # IndexType /\ Fits(t, v) /\ (IndicesFit => r = v) /\ Convert(t, v, out)
    BY <1>2, <2>1, <2>2, <2>4, <2>7
  <2> QED
    BY <2>9, <2>10, TermKeeps
<1> QED
  BY <1>4, <1>5

LEMMA IntCastKeeps == I32Programs /\ NativeInv /\ IntCast => NativeInv'
<1> SUFFICES ASSUME I32Programs, NativeInv, IntCast PROVE NativeInv'
  OBVIOUS
<1>1. PICK kind \in Casts, i \in DOMAIN pairs, w \in IntWidths :
        LET t == pairs[i].n.type
        IN /\ IsInt(t)
           /\ IF kind = "trunc" THEN w < Width(t) ELSE w > Width(t)
           /\ Convert(IntType(w), Cast(kind, pairs[i].n.val, Width(t), w),
                 ConvertCast(kind, IntType(w), pairs[i].j))
  BY DEF IntCast
<1> DEFINE t == pairs[i].n.type
           a == pairs[i].n.val
           x == pairs[i].j
           v == Cast(kind, a, Width(t), w)
           r == Cast(kind, x.val, Width(t), w)
           out == ConvertCast(kind, IntType(w), x)
<1>2. IsInt(t) /\ Convert(IntType(w), v, out)
  BY <1>1
<1>3. /\ x.type = t /\ Width(t) \in Nat \ {0} /\ PowersOf2(Width(t)) /\ a \in Numbers(Width(t))
      /\ IndicesFit => x.val = a
  <2>1. ~IsTensor(t)
    BY <1>2, Kinds
  <2> QED
    BY <1>2, <2>1, Scalars
<1> HIDE DEF x, a, t
<1>4. out = Replaced(IntType(w), r)
  BY <1>3, IntTypes DEF ConvertCast
<1>5. v \in Numbers(w)
  <2>1. a \in Int /\ Signed(a, Width(t)) \in Int
    BY <1>3, SignedTyped, NumbersTyped
  <2>2. \A z \in Int : Wrap(z, w) \in Numbers(w)
    BY IntTypes, Wrapped
  <2> QED
    BY <2>1, <2>2 DEF Cast, SignExtend
<1>6. IndicesFit => r = v
  BY <1>3
<1> HIDE DEF out, v, r
<1>7. out # Stopped("undefined")
  BY <1>4, Outcomes
<1> QED
  BY <1>2, <1>4, <1>5, <1>6, <1>7, IntTypes, ScalarOpKeeps

LEMMA IntToFloatKeeps == NativeInv /\ IntToFloat => NativeInv'
<1> SUFFICES ASSUME NativeInv, IntToFloat PROVE NativeInv'
  OBVIOUS
<1>1. PICK i \in DOMAIN pairs :
        /\ IsInt(pairs[i].n.type)
        /\ Convert(FloatType, <<"toFloat", pairs[i].n.val>>,
              ConvertCast("toFloat", FloatType, pairs[i].j))
  BY DEF IntToFloat
<1>2. IndicesFit => pairs[i].j.val = pairs[i].n.val
  <2>1. ~IsTensor(pairs[i].n.type)
    BY <1>1, Kinds
  <2> QED
    BY <2>1, Scalars
<1>3. ConvertCast("toFloat", FloatType, pairs[i].j) = Replaced(FloatType, <<"toFloat", pairs[i].j.val>>)
  BY DEF ConvertCast
<1> DEFINE v == <<"toFloat", pairs[i].n.val>>
           r == <<"toFloat", pairs[i].j.val>>
           out == ConvertCast("toFloat", FloatType, pairs[i].j)
<1>4. Convert(FloatType, v, out) /\ out \in {Stopped("refused"), Replaced(FloatType, r)} /\ (IndicesFit => r = v)
  BY <1>1, <1>2, <1>3
<1> HIDE DEF v, r, out
<1> QED
  BY <1>4, FloatFits, TermKeeps

LEMMA FloatOpKeeps == NativeInv /\ FloatOp => NativeInv'
<1> SUFFICES ASSUME NativeInv, FloatOp PROVE NativeInv'
  OBVIOUS
<1>1. PICK i \in Natives(FloatType), k \in Natives(FloatType) :
        \/ Convert(FloatType, <<"sqrt", <<pairs[i].n.val>>>>, ConvertFloat("sqrt", <<pairs[i].j.val>>))
        \/ Convert(FloatType, <<"pow", <<pairs[i].n.val, pairs[k].n.val>>>>,
              ConvertFloat("pow", <<pairs[i].j.val, pairs[k].j.val>>))
        \/ \E kind \in {"lt", "ne"} :
              Convert(IntType(1), FloatHolds(kind, <<pairs[i].n.val, pairs[k].n.val>>),
                 ConvertFloatComparison(kind, <<pairs[i].j.val, pairs[k].j.val>>))
        \/ Convert(IntType(1), FloatHolds("isNan", <<pairs[i].n.val>>),
              ConvertFloatIs("isNan", pairs[i].j))
  BY DEF FloatOp
<1> DEFINE a == pairs[i].n.val
           b == pairs[k].n.val
           x == pairs[i].j.val
           y == pairs[k].j.val
<1>2. IndicesFit => x = a /\ y = b
  <2>1. /\ i \in DOMAIN pairs /\ ~IsTensor(pairs[i].n.type)
        /\ k \in DOMAIN pairs /\ ~IsTensor(pairs[k].n.type)
    BY Kinds DEF Natives
  <2> QED
    BY <2>1, Scalars
<1>3. ConvertFloatIs("isNan", pairs[i].j) = Replaced(IntType(1), FloatHolds("isNan", <<x>>))
  BY DEF ConvertFloatIs
<1>4. \/ Convert(FloatType, <<"sqrt", <<a>>>>, ConvertFloat("sqrt", <<x>>))
      \/ Convert(FloatType, <<"pow", <<a, b>>>>, ConvertFloat("pow", <<x, y>>))
      \/ \E kind \in {"lt", "ne"} :
            Convert(IntType(1), FloatHolds(kind, <<a, b>>), ConvertFloatComparison(kind, <<x, y>>))
      \/ Convert(IntType(1), FloatHolds("isNan", <<a>>), Replaced(IntType(1), FloatHolds("isNan", <<x>>)))
  BY <1>1, <1>3
<1> HIDE DEF a, b, x, y
<1>5. ASSUME NEW kind, NEW operands, NEW converted, IndicesFit => converted = operands,
             Convert(FloatType, <<kind, operands>>, ConvertFloat(kind, converted))
      PROVE  NativeInv'
  <2>1. ConvertFloat(kind, converted) = Replaced(FloatType, <<kind, converted>>)
    BY DEF ConvertFloat
  <2> QED
    BY <1>5, <2>1, FloatFits, TermKeeps
<1>6. ASSUME NEW kind, NEW operands, NEW converted, IndicesFit => converted = operands,
             NEW out, out \in {Stopped("refused"), Replaced(IntType(1), FloatHolds(kind, converted))},
             Convert(IntType(1), FloatHolds(kind, operands), out)
      PROVE  NativeInv'
  <2>1. FloatHolds(kind, operands) \in {0, 1}
    BY DEF FloatHolds
  <2>2. IndicesFit => FloatHolds(kind, converted) = FloatHolds(kind, operands)
    BY <1>6
  <2> QED
    BY <1>6, <2>1, <2>2, BitTyped, TermKeeps
<1>7. \A kind : ConvertFloatComparison(kind, <<x, y>>) \in
        {Stopped("refused"), Replaced(IntType(1), FloatHolds(kind, <<x, y>>))}
  BY DEF ConvertFloatComparison
<1> QED
  BY <1>2, <1>4, <1>5, <1>6, <1>7

\* Short arrays of a given element.
LEMMA PairTyped ==
  ASSUME NEW a, NEW b
  PROVE  /\ IsSequence(<<a>>) /\ Len(<<a>>) = 1 /\ DOMAIN <<a>> = {1} /\ <<a>>[1] = a
         /\ IsSequence(<<a, b>>) /\ Len(<<a, b>>) = 2 /\ DOMAIN <<a, b>> = {1, 2}
         /\ <<a, b>>[1] = a /\ <<a, b>>[2] = b
         /\ 1 < 2^(I64 - 1) /\ 2 < 2^(I64 - 1)
<1>1. IsSequence(<<a>>) /\ Len(<<a>>) = 1 /\ DOMAIN <<a>> = {1} /\ <<a>>[1] = a
  <2> DEFINE s == <<a>>
  <2>1. s \in Seq({a}) /\ Len(s) = 1 /\ DOMAIN s = {1} /\ s[1] = a
    OBVIOUS
  <2> HIDE DEF s
  <2>2. {s[k] : k \in DOMAIN s} = {a}
    BY <2>1
  <2> QED
    BY <2>1, <2>2 DEF IsSequence, s
<1>2. /\ IsSequence(<<a, b>>) /\ Len(<<a, b>>) = 2 /\ DOMAIN <<a, b>> = {1, 2}
      /\ <<a, b>>[1] = a /\ <<a, b>>[2] = b
  <2> DEFINE s == <<a, b>>
  <2>1. s \in Seq({a, b}) /\ Len(s) = 2 /\ DOMAIN s = {1, 2} /\ s[1] = a /\ s[2] = b
    OBVIOUS
  <2> HIDE DEF s
  <2>2. {s[k] : k \in DOMAIN s} = {a, b}
    BY <2>1
  <2> QED
    BY <2>1, <2>2 DEF IsSequence, s
<1>3. 1 < 2^(I64 - 1) /\ 2 < 2^(I64 - 1)
  <2> DEFINE two == 2
  <2>1. /\ two \in 0 .. I64 /\ I64 - 1 \in 0 .. I64 /\ two <= I64 - 1 /\ two^two = 2^2
        /\ I64 \in Nat /\ PowersOf2(I64)
    BY WidthAssumption
  <2> HIDE DEF two
  <2>2. 2^two <= 2^(I64 - 1)
    BY <2>1, PowersGrow
  <2> QED
    BY <2>2, SmallPowers DEF two
<1> QED
  BY <1>1, <1>2, <1>3

LEMMA ArrayConstantKeeps == I32Programs /\ NativeInv /\ ArrayConstant => NativeInv'
<1> SUFFICES ASSUME I32Programs, NativeInv, ArrayConstant PROVE NativeInv'
  OBVIOUS
<1>1. PICK w \in IntWidths, n \in 1 .. 2, converted \in ArrayWidths :
        \E v \in {<<2^w - 1>>, <<0, 2^w - 1>>} :
            LET t == TensorType(IntType(w), Len(v))
            IN Convert(t, v, ConvertArrayConstant(t, v, TensorType(IntType(converted), n)))
  BY DEF ArrayConstant
<1>2. PICK v \in {<<2^w - 1>>, <<0, 2^w - 1>>} :
        LET t == TensorType(IntType(w), Len(v))
        IN Convert(t, v, ConvertArrayConstant(t, v, TensorType(IntType(converted), n)))
  BY <1>1
<1> DEFINE t == TensorType(IntType(w), Len(v))
           u == TensorType(IntType(converted), n)
           out == ConvertArrayConstant(t, v, u)
<1>3. Convert(t, v, out)
  BY <1>2
<1>4. IsTensor(t) /\ t[2] = IntType(w) /\ IsTensor(u)
  BY Kinds
<1>5. out \in {Stopped("refused"), Replaced(u, v)}
  BY DEF ConvertArrayConstant
<1>6. 0 \in Numbers(w) /\ 2^w - 1 \in Numbers(w)
  <2>1. w \in Nat /\ PowersOf2(w)
    BY IntTypes
  <2>2. 2^w \in Nat \ {0}
    BY <2>1, NumbersTyped
  <2> QED
    BY <2>2 DEF Numbers
<1>7. /\ IsSequence(v) /\ Len(v) < 2^(I64 - 1)
      /\ \A k \in DOMAIN v : v[k] \in Numbers(w)
  <2> DEFINE ones == 2^w - 1
  <2>1. (v = <<ones>> \/ v = <<0, ones>>) /\ 0 \in Numbers(w) /\ ones \in Numbers(w)
    BY <1>6
  <2> HIDE DEF ones
  <2>2. CASE v = <<ones>>
    <3>1. IsSequence(v) /\ Len(v) = 1 /\ DOMAIN v = {1} /\ v[1] = ones /\ 1 < 2^(I64 - 1)
      BY <2>2, PairTyped
    <3> QED
      BY <2>1, <3>1
  <2>3. CASE v = <<0, ones>>
    <3>1. /\ IsSequence(v) /\ Len(v) = 2 /\ DOMAIN v = {1, 2} /\ v[1] = 0 /\ v[2] = ones
          /\ 2 < 2^(I64 - 1)
      BY <2>3, PairTyped
    <3> QED
      BY <2>1, <3>1
  <2> QED
    BY <2>1, <2>2, <2>3
<1>8. \A k \in DOMAIN v : Fits(t[2], v[k])
  BY <1>4, <1>7, IntTypes
<1>9. SameElements(v, v) /\ IsSequence(v) /\ out # Stopped("undefined")
  BY <1>5, <1>7, Outcomes DEF SameElements
<1>10. ElementType(t[2])
  BY <1>4, IntTypes
<1> HIDE DEF t, u, out
<1> QED
  BY <1>3, <1>4, <1>5, <1>7, <1>8, <1>9, <1>10, TensorKeeps

\* A length: an index that is converted.
LEMMA Lengths ==
  ASSUME NativeInv, NEW i \in Sizes
  PROVE  /\ pairs[i].j.type = IntType(I32)
         /\ pairs[i].n.val \in Nat /\ pairs[i].n.val < 2^(I64 - 1)
         /\ IndicesFit => /\ pairs[i].j.val = pairs[i].n.val /\ pairs[i].n.val \in Small
                          /\ ~(Signed(pairs[i].j.val, I32) < 0)
<1>1. i \in DOMAIN pairs /\ pairs[i].n.type = IndexType /\ pairs[i].n.val < 2^(I64 - 1)
  BY DEF Sizes, Natives
<1>2. ~IsTensor(pairs[i].n.type)
  BY <1>1, Kinds
<1>3. /\ pairs[i].j.type = IntType(I32) /\ pairs[i].n.val \in Numbers(I64)
      /\ IndicesFit => pairs[i].j.val = pairs[i].n.val /\ pairs[i].n.val \in Small
  BY <1>1, <1>2, Scalars
<1>4. pairs[i].n.val \in Nat
  BY <1>3, NumbersTyped, Widths32
<1>5. pairs[i].n.val \in Small => ~(Signed(pairs[i].n.val, I32) < 0)
  BY <1>4, SmallTyped
<1> QED
  BY <1>1, <1>3, <1>4, <1>5

LEMMA Repeated ==
  ASSUME NEW n \in Nat, NEW v
  PROVE  LET s == [k \in 1 .. n |-> v]
         IN DOMAIN s = 1 .. n /\ Len(s) = n /\ IsSequence(s) /\ \A k \in 1 .. n : s[k] = v
<1> DEFINE s == [k \in 1 .. n |-> v]
<1>1. DOMAIN s = 1 .. n /\ \A k \in 1 .. n : s[k] = v
  OBVIOUS
<1>2. s \in Seq({v}) /\ Len(s) = n
  OBVIOUS
<1>3. \A k \in DOMAIN s : s[k] \in {s[j] : j \in DOMAIN s}
  OBVIOUS
<1> HIDE DEF s
<1>4. s \in Seq({s[j] : j \in DOMAIN s})
  BY <1>2, <1>3
<1> QED
  BY <1>1, <1>2, <1>4 DEF IsSequence, s

\* The pattern of an array of unwritten elements or of copies of one.
LEMMA FilledKeeps ==
  ASSUME NativeInv, NEW i \in Sizes, NEW elem, ElementType(elem), NEW v, NEW splat \in BOOLEAN, NEW input,
         v = Undefined \/ Fits(elem, v),
         splat => v = input.n.val /\ elem = input.n.type,
         ~splat => v = Undefined,
         Convert(TensorType(elem, Dynamic), [k \in 1 .. pairs[i].n.val |-> v],
            ConvertZero(TensorType(elem, Dynamic), <<pairs[i].j>>, splat, input))
  PROVE  NativeInv'
<1> DEFINE t == TensorType(elem, Dynamic)
           n == pairs[i].n.val
           size == pairs[i].j
           sizes == <<size>>
           s == [k \in 1 .. n |-> v]
           z == IF IsInt(elem) THEN 0 ELSE <<"zero">>
           r == [k \in 1 .. size.val |-> z]
           out == ConvertZero(t, sizes, splat, input)
<1>1. IsTensor(t) /\ t[2] = elem
  BY Kinds
<1>2. sizes[1] = size /\ Len(sizes) = 1
  OBVIOUS
<1>3. /\ size.type = IntType(I32) /\ n \in Nat /\ n < 2^(I64 - 1)
      /\ IndicesFit => size.val = n /\ ~(Signed(size.val, I32) < 0)
  BY Lengths
<1> HIDE DEF n, size, sizes, t
<1>4. out \in {Stopped("refused"), Stopped("undefined"), Replaced(t, r)}
  BY <1>1, <1>2 DEF ConvertZero
<1>5. IndicesFit => out \in {Stopped("refused"), Replaced(t, r)}
  BY <1>1, <1>2, <1>3 DEF ConvertZero
<1>6. out = Replaced(t, r) => /\ splat => IsZero(input)
                              /\ IsInt(elem) \/ elem = FloatType
  <2>1. ASSUME splat /\ ~IsZero(input) PROVE out = Stopped("refused")
    BY <2>1 DEF ConvertZero
  <2>2. ASSUME ~IsInt(elem), elem # FloatType PROVE out = Stopped("refused")
    BY <1>1, <2>2 DEF ConvertZero
  <2> HIDE DEF out, r
  <2>3. out = Replaced(t, r) => out # Stopped("refused")
    BY Outcomes
  <2> QED
    BY <2>1, <2>2, <2>3
<1>7. out = Replaced(t, r) => v \in {Undefined, z}
  BY <1>6, Kinds DEF IsZero
<1>8. /\ DOMAIN s = 1 .. n /\ Len(s) = n /\ IsSequence(s)
      /\ \A k \in 1 .. n : s[k] = v
  BY <1>3, Repeated
<1>9. IndicesFit /\ out = Replaced(t, r) => SameElements(s, r) /\ IsSequence(r)
  <2> SUFFICES ASSUME IndicesFit, out = Replaced(t, r) PROVE SameElements(s, r) /\ IsSequence(r)
    OBVIOUS
  <2>1. v \in {Undefined, z} /\ size.val = n
    BY <1>3, <1>7
  <2>2. r = [k \in 1 .. n |-> z]
    BY <2>1
  <2> HIDE DEF s, r, z
  <2>3. DOMAIN r = 1 .. n /\ Len(r) = n /\ IsSequence(r) /\ \A k \in 1 .. n : r[k] = z
    BY <1>3, <2>2, Repeated
  <2> QED
    BY <1>8, <2>1, <2>3 DEF SameElements
<1>10. IndicesFit => out # Stopped("undefined")
  <2> HIDE DEF out, r
  <2> QED
    BY <1>5, Outcomes
<1>11. Convert(t, s, out)
  BY DEF t, n, size, sizes
<1> HIDE DEF s, r, out, z
<1>12. \A k \in DOMAIN s : s[k] = Undefined \/ Fits(t[2], s[k])
  BY <1>1, <1>8
<1> QED
  BY <1>1, <1>3, <1>4, <1>8, <1>9, <1>10, <1>11, <1>12, TensorKeeps

LEMMA EmptyKeeps == NativeInv /\ Empty => NativeInv'
<1> SUFFICES ASSUME NativeInv, Empty PROVE NativeInv'
  OBVIOUS
<1>1. PICK i \in Sizes, elem \in {IntType(I32), FloatType, IndexType} :
        LET t == TensorType(elem, Dynamic)
        IN Convert(t, [k \in 1..pairs[i].n.val |-> Undefined],
              ConvertZero(t, <<pairs[i].j>>, FALSE, pairs[i]))
  BY DEF Empty
<1>2. ElementType(elem)
  BY Kinds, Widths32 DEF ElementType, ScalarType
<1> QED
  BY <1>1, <1>2, FilledKeeps

LEMMA SplatKeeps == NativeInv /\ Splat => NativeInv'
<1> SUFFICES ASSUME NativeInv, Splat PROVE NativeInv'
  OBVIOUS
<1>1. PICK s \in DOMAIN pairs :
        LET t == pairs[s].n.type
        IN /\ ~IsTensor(t)
           /\ \/ \E i \in Sizes :
                    Convert(TensorType(t, Dynamic), [k \in 1..pairs[i].n.val |-> pairs[s].n.val],
                       ConvertZero(TensorType(t, Dynamic), <<pairs[i].j>>, TRUE, pairs[s]))
              \/ Convert(TensorType(t, 2), <<pairs[s].n.val, pairs[s].n.val>>,
                    ConvertZero(TensorType(t, 2), <<>>, TRUE, pairs[s]))
  BY DEF Splat
<1> DEFINE t == pairs[s].n.type
           v == pairs[s].n.val
<1>2. ElementType(t) /\ Fits(t, v)
  BY <1>1, Scalars
<1>3. ASSUME NEW i \in Sizes,
             Convert(TensorType(t, Dynamic), [k \in 1..pairs[i].n.val |-> v],
                ConvertZero(TensorType(t, Dynamic), <<pairs[i].j>>, TRUE, pairs[s]))
      PROVE  NativeInv'
  BY <1>2, <1>3, FilledKeeps
<1>4. ASSUME Convert(TensorType(t, 2), <<v, v>>, ConvertZero(TensorType(t, 2), <<>>, TRUE, pairs[s]))
      PROVE  NativeInv'
  <2> DEFINE out == ConvertZero(TensorType(t, 2), <<>>, TRUE, pairs[s])
             pair == <<v, v>>
  <2>1. out = Stopped("refused")
    <3>1. Len(<<>>) # 1
      OBVIOUS
    <3> QED
      BY <3>1 DEF ConvertZero
  <2>2. out.status = "refused" /\ Define(TensorType(t, 2), pair, FALSE, out)
    BY <1>4, <2>1, Outcomes DEF Convert
  <2> HIDE DEF out, pair, t
  <2> QED
    BY <2>2, DefineKeeps
<1> QED
  BY <1>1, <1>3, <1>4

\* A position in a tensor.
LEMMA InTensorTyped ==
  ASSUME NativeInv, NEW i \in Tensors, NEW k \in Natives(IndexType), InTensor(i, k)
  PROVE  /\ pairs[k].j.type = IntType(I32)
         /\ pairs[k].n.val + 1 \in DOMAIN pairs[i].n.val
         /\ IndicesFit => /\ pairs[k].j.val = pairs[k].n.val
                          /\ ~(pairs[k].j.val >= Len(pairs[i].j.val))
                          /\ DOMAIN pairs[i].j.val = DOMAIN pairs[i].n.val
<1> DEFINE n == pairs[i].n
           j == pairs[i].j
           x == pairs[k].n.val
<1>1. k \in DOMAIN pairs /\ pairs[k].n.type = IndexType /\ ~IsTensor(pairs[k].n.type)
  BY Kinds DEF Natives
<1>2. /\ pairs[k].j.type = IntType(I32) /\ x \in Numbers(I64)
      /\ IndicesFit => pairs[k].j.val = x
  BY <1>1, Scalars
<1>3. x \in Nat
  BY <1>2, NumbersTyped, Widths32
<1>4. /\ Len(n.val) \in Nat /\ DOMAIN n.val = 1 .. Len(n.val)
      /\ IndicesFit => SameElements(n.val, j.val) /\ IsSequence(j.val)
  BY TensorValues
<1>5. x < Len(n.val)
  BY DEF InTensor
<1> HIDE DEF n, j, x
<1>6. x + 1 \in DOMAIN n.val
  BY <1>3, <1>4, <1>5
<1>7. IndicesFit => Len(j.val) = Len(n.val) /\ DOMAIN j.val = 1 .. Len(j.val)
  BY <1>4 DEF SameElements, IsSequence
<1>8. IndicesFit => ~(x >= Len(j.val)) /\ DOMAIN j.val = DOMAIN n.val
  BY <1>3, <1>4, <1>5, <1>7
<1> QED
  BY <1>2, <1>6, <1>8 DEF n, j, x

LEMMA ExtractKeeps == NativeInv /\ Extract => NativeInv'
<1> SUFFICES ASSUME NativeInv, Extract PROVE NativeInv'
  OBVIOUS
<1>1. PICK i \in Tensors, k \in Natives(IndexType) :
        LET t == pairs[i].n.type[2]
        IN /\ InTensor(i, k) /\ pairs[i].n.val[pairs[k].n.val + 1] # Undefined
           /\ Convert(t, pairs[i].n.val[pairs[k].n.val + 1],
                 ConvertExtract(t, pairs[i].j, pairs[k].j))
  BY DEF Extract
<1> DEFINE n == pairs[i].n
           j == pairs[i].j
           x == pairs[k].n.val
           y == pairs[k].j
           t == n.type[2]
           v == n.val[x + 1]
           r == j.val[y.val + 1]
           out == ConvertExtract(t, j, y)
<1>2. Convert(t, v, out) /\ v # Undefined /\ InTensor(i, k)
  BY <1>1
<1>3. /\ ElementType(t)
      /\ \A p \in DOMAIN n.val : n.val[p] = Undefined \/ Fits(t, n.val[p])
      /\ IndicesFit => SameElements(n.val, j.val)
  BY TensorValues
<1>4. /\ y.type = IntType(I32) /\ x + 1 \in DOMAIN n.val
      /\ IndicesFit => y.val = x /\ ~(y.val >= Len(j.val))
  BY <1>2, InTensorTyped
<1> HIDE DEF n, j, x, y, t
<1>5. Fits(t, v)
  BY <1>2, <1>3, <1>4
<1>6. IndicesFit => r = v
  BY <1>2, <1>3, <1>4 DEF SameElements
<1>7. CASE t = IndexType
  <2>1. out = Stopped("refused")
    <3>1. ~ElementSupported(t)
      BY <1>7, Kinds DEF ElementSupported
    <3> QED
      BY <3>1 DEF ConvertExtract
  <2>2. out.status = "refused" /\ Define(t, v, FALSE, out)
    BY <1>2, <2>1, Outcomes DEF Convert
  <2> HIDE DEF out, v
  <2> QED
    BY <2>2, DefineKeeps
<1>8. CASE t # IndexType
  <2>1. out \in {Stopped("refused"), Stopped("undefined"), Replaced(t, r)}
    BY <1>4 DEF ConvertExtract
  <2>2. IndicesFit => out \in {Stopped("refused"), Replaced(t, r)}
    BY <1>4 DEF ConvertExtract
  <2> HIDE DEF out, v, r
  <2>3. IndicesFit => out # Stopped("undefined")
    BY <2>2, Outcomes
  <2> QED
    BY <1>2, <1>3, <1>5, <1>6, <1>8, <2>1, <2>3, ScalarOpKeeps
<1> QED
  BY <1>7, <1>8

LEMMA InsertKeeps == NativeInv /\ Insert => NativeInv'
<1> SUFFICES ASSUME NativeInv, Insert PROVE NativeInv'
  OBVIOUS
<1>1. PICK i \in Tensors, k \in Natives(IndexType), s \in DOMAIN pairs :
        LET t == pairs[i].n.type
        IN /\ pairs[s].n.type = t[2] /\ InTensor(i, k)
           /\ Convert(t, [pairs[i].n.val EXCEPT ![pairs[k].n.val + 1] = pairs[s].n.val],
                 ConvertInsert(t, pairs[s].j, pairs[i].j, pairs[k].j))
  BY DEF Insert
<1> DEFINE n == pairs[i].n
           j == pairs[i].j
           x == pairs[k].n.val
           y == pairs[k].j
           e == pairs[s].n.val
           f == pairs[s].j
           t == n.type
           v == [n.val EXCEPT ![x + 1] = e]
           r == [j.val EXCEPT ![y.val + 1] = f.val]
           out == ConvertInsert(t, f, j, y)
<1>2. Convert(t, v, out) /\ pairs[s].n.type = t[2] /\ InTensor(i, k)
  BY <1>1
<1>3. /\ IsTensor(t) /\ ElementType(t[2]) /\ IsSequence(n.val) /\ Len(n.val) < 2^(I64 - 1)
      /\ \A p \in DOMAIN n.val : n.val[p] = Undefined \/ Fits(t[2], n.val[p])
      /\ IndicesFit => SameElements(n.val, j.val) /\ IsSequence(j.val)
  BY TensorValues
<1>4. /\ y.type = IntType(I32) /\ x + 1 \in DOMAIN n.val
      /\ IndicesFit => y.val = x /\ ~(y.val >= Len(j.val)) /\ DOMAIN j.val = DOMAIN n.val
  BY <1>2, InTensorTyped
<1>5. Fits(t[2], e) /\ (IndicesFit => f.val = e)
  <2>1. ~IsTensor(pairs[s].n.type)
    BY <1>2, <1>3, Kinds DEF ElementType, ScalarType
  <2> QED
    BY <1>2, <2>1, Scalars
<1> HIDE DEF n, j, x, y, t, e, f
<1>6. /\ IsSequence(v) /\ DOMAIN v = DOMAIN n.val /\ Len(v) = Len(n.val)
      /\ \A p \in DOMAIN n.val : v[p] = IF p = x + 1 THEN e ELSE n.val[p]
  BY <1>3, <1>4, Written
<1>7. IndicesFit => SameElements(v, r) /\ IsSequence(r)
  <2> SUFFICES ASSUME IndicesFit PROVE SameElements(v, r) /\ IsSequence(r)
    OBVIOUS
  <2>1. y.val + 1 \in DOMAIN j.val /\ y.val = x /\ f.val = e
    BY <1>4, <1>5
  <2>2. /\ IsSequence(r) /\ DOMAIN r = DOMAIN j.val /\ Len(r) = Len(j.val)
        /\ \A p \in DOMAIN j.val : r[p] = IF p = y.val + 1 THEN f.val ELSE j.val[p]
    BY <1>3, <2>1, Written
  <2> HIDE DEF v, r
  <2> QED
    BY <1>3, <1>4, <1>6, <2>1, <2>2 DEF SameElements
<1>8. out \in {Stopped("refused"), Stopped("undefined"), Replaced(t, r)}
  BY <1>4 DEF ConvertInsert
<1>9. IndicesFit => out \in {Stopped("refused"), Replaced(t, r)}
  BY <1>4 DEF ConvertInsert
<1> HIDE DEF out, v, r
<1>10. IndicesFit => out # Stopped("undefined")
  BY <1>9, Outcomes
<1>11. \A p \in DOMAIN v : v[p] = Undefined \/ Fits(t[2], v[p])
  BY <1>3, <1>5, <1>6
<1>12. Len(v) < 2^(I64 - 1)
  BY <1>3, <1>6
<1> QED
  BY <1>2, <1>3, <1>6, <1>7, <1>8, <1>10, <1>11, <1>12, TensorKeeps

LEMMA DimKeeps == NativeInv /\ Dim => NativeInv'
<1> SUFFICES ASSUME NativeInv, Dim PROVE NativeInv'
  OBVIOUS
<1>1. PICK i \in Tensors :
        Convert(IndexType, Len(pairs[i].n.val), ConvertDim(pairs[i].n.type, pairs[i].j))
  BY DEF Dim
<1> DEFINE n == pairs[i].n
           j == pairs[i].j
           v == Len(n.val)
           r == Wrap(Len(j.val), I32)
           out == ConvertDim(n.type, j)
<1>2. /\ v \in Nat /\ v < 2^(I64 - 1)
      /\ IndicesFit => SameElements(n.val, j.val)
  BY TensorValues
<1> HIDE DEF n, j
<1>3. out \in {Stopped("refused"), Replaced(IntType(I32), r)}
  BY DEF ConvertDim
<1>4. IndicesFit /\ v < 2^(I32 - 1) => r = v
  BY <1>2, SmallTyped DEF SameElements
<1>5. ElementType(IndexType) /\ Fits(IndexType, v)
  <2>1. v \in 0 .. (2^I64 - 1)
    BY <1>2, SmallPowers
  <2> QED
    BY <2>1 DEF ElementType, Fits, Width
<1>6. Convert(IndexType, v, out)
  BY <1>1 DEF n, j
<1> HIDE DEF v, r, out
<1>7. out # Stopped("undefined")
  BY <1>3, Outcomes
<1> QED
  BY <1>3, <1>4, <1>5, <1>6, <1>7, ScalarOpKeeps

LEMMA FromElementsKeeps == NativeInv /\ FromElements => NativeInv'
<1> SUFFICES ASSUME NativeInv, FromElements PROVE NativeInv'
  OBVIOUS
<1>1. PICK i \in DOMAIN pairs, k \in DOMAIN pairs :
        LET t == TensorType(pairs[i].n.type, 2)
        IN /\ ~IsTensor(pairs[i].n.type) /\ Typed2(i, k)
           /\ Convert(t, <<pairs[i].n.val, pairs[k].n.val>>,
                 ConvertFromElements(t, <<pairs[i].j, pairs[k].j>>))
  BY DEF FromElements
<1> DEFINE e == pairs[i].n.type
           t == TensorType(e, 2)
           a == pairs[i].n.val
           b == pairs[k].n.val
           x == pairs[i].j
           y == pairs[k].j
           v == <<a, b>>
           r == <<x.val, y.val>>
           out == ConvertFromElements(t, <<x, y>>)
<1>2. Convert(t, v, out) /\ ~IsTensor(e) /\ pairs[k].n.type = e
  BY <1>1 DEF Typed2
<1>3. /\ ElementType(e) /\ Fits(e, a) /\ Fits(e, b)
      /\ IndicesFit => x.val = a /\ y.val = b
  BY <1>2, Scalars
<1>4. IsTensor(t) /\ t[2] = e
  BY Kinds
<1> HIDE DEF e, t, a, b, x, y
<1>5. out \in {Stopped("refused"), Replaced(t, r)}
  <2> DEFINE pair == <<x, y>>
  <2>1. DOMAIN pair = {1, 2} /\ pair[1] = x /\ pair[2] = y
    OBVIOUS
  <2>2. [p \in DOMAIN pair |-> pair[p].val] = r
    <3> HIDE DEF pair
    <3>1. r = [p \in {1, 2} |-> r[p]] /\ r[1] = x.val /\ r[2] = y.val
      OBVIOUS
    <3> HIDE DEF r
    <3> QED
      BY <2>1, <3>1
  <2> HIDE DEF pair, r
  <2>3. ConvertFromElements(t, pair) \in {Stopped("refused"), Replaced(t, r)}
    BY <2>2 DEF ConvertFromElements
  <2> QED
    BY <2>3 DEF pair
<1>6. /\ IsSequence(v) /\ Len(v) = 2 /\ DOMAIN v = {1, 2} /\ v[1] = a /\ v[2] = b
      /\ IsSequence(r) /\ Len(r) = 2 /\ r[1] = x.val /\ r[2] = y.val
      /\ 2 < 2^(I64 - 1)
  BY PairTyped
<1> HIDE DEF v, r
<1>7. IndicesFit => SameElements(v, r) /\ IsSequence(r)
  BY <1>3, <1>6 DEF SameElements
<1>8. \A p \in DOMAIN v : v[p] = Undefined \/ Fits(t[2], v[p])
  BY <1>3, <1>4, <1>6
<1>9. Len(v) < 2^(I64 - 1)
  BY <1>6
<1> HIDE DEF out
<1>10. out # Stopped("undefined")
  BY <1>5, Outcomes
<1> QED
  BY <1>2, <1>3, <1>4, <1>5, <1>6, <1>7, <1>8, <1>9, <1>10, TensorKeeps

LEMMA IndexCastKeeps == I32Programs /\ NativeInv /\ IndexCast => NativeInv'
<1> SUFFICES ASSUME I32Programs, NativeInv, IndexCast PROVE NativeInv'
  OBVIOUS
<1>1. PICK i \in DOMAIN pairs :
        LET t == pairs[i].n.type
            v == pairs[i].n.val
        IN \/ /\ t \in CastTypes
              /\ Convert(IndexType, SignExtend(v, Width(t), I64), ConvertIndexCast(pairs[i].j))
           \/ /\ t = IndexType
              /\ \E u \in CastTypes : Convert(u, Wrap(v, Width(u)), ConvertIndexCast(pairs[i].j))
  BY DEF IndexCast
<1> DEFINE t == pairs[i].n.type
           a == pairs[i].n.val
           x == pairs[i].j
           out == ConvertIndexCast(x)
<1>2. \A u \in CastTypes : u = IntType(I32)
  BY DEF I32Programs
<1>3. /\ IsInt(IntType(I32)) /\ ~IsTensor(IntType(I32)) /\ Width(IntType(I32)) = I32
      /\ IntType(I32) # IndexType
  BY Kinds
<1>4. \/ t = IntType(I32) /\ Convert(IndexType, SignExtend(a, I32, I64), out)
      \/ t = IndexType /\ Convert(IntType(I32), Wrap(a, I32), out)
  BY <1>1, <1>2, <1>3
<1>5. /\ x.type = IntType(I32)
      /\ t = IntType(I32) => a \in Numbers(I32)
      /\ t = IndexType => a \in Numbers(I64)
      /\ IndicesFit => x.val = a /\ (t = IndexType => a \in Small)
  <2>1. ~IsTensor(t)
    BY <1>3, <1>4, Kinds
  <2> QED
    BY <1>3, <1>4, <2>1, Scalars
<1> HIDE DEF t, a, x
<1>6. out = Replaced(IntType(I32), x.val)
  BY <1>5 DEF ConvertIndexCast
<1> HIDE DEF out
<1>7. out # Stopped("undefined")
  BY <1>6, Outcomes
<1>8. CASE t = IntType(I32) /\ Convert(IndexType, SignExtend(a, I32, I64), out)
  <2> DEFINE v == SignExtend(a, I32, I64)
  <2>1. v \in Numbers(I64)
    <3>1. Signed(a, I32) \in Int
      BY <1>5, <1>8, SignedTyped, Widths32
    <3> QED
      BY <3>1, Wrapped, Widths32 DEF SignExtend
  <2>2. ElementType(IndexType) /\ Fits(IndexType, v)
    BY <2>1 DEF ElementType, Fits, Width, Numbers
  <2>3. v < 2^(I32 - 1) => v = a
    <3> DEFINE h == 2^(I32 - 1)
               g == 2^(I64 - 1)
    <3>1. /\ a < h => v = a
          /\ a >= h => v >= g
      BY <1>5, <1>8, IndexExtended
    <3>2. h \in Nat /\ g \in Nat /\ h <= g /\ a \in Nat /\ v \in Nat
      BY <1>5, <1>8, <2>1, SmallPowers, NumbersTyped, Widths32
    <3> HIDE DEF h, g, v
    <3>3. v < h => v = a
      BY <3>1, <3>2
    <3> QED
      BY <3>3 DEF h
  <2> HIDE DEF v
  <2>4. Convert(IndexType, v, out)
    BY <1>8 DEF v
  <2> QED
    BY <1>5, <1>6, <1>7, <2>2, <2>3, <2>4, ScalarOpKeeps
<1>9. CASE t = IndexType /\ Convert(IntType(I32), Wrap(a, I32), out)
  <2> DEFINE v == Wrap(a, I32)
  <2>1. v \in Numbers(I32)
    <3>1. a \in Int
      BY <1>5, <1>9, NumbersTyped, Widths32
    <3> QED
      BY <3>1, Wrapped, Widths32
  <2>2. ElementType(IntType(I32)) /\ Fits(IntType(I32), v)
    BY <1>3, <2>1, Widths32, ScalarTyped DEF ElementType, ScalarType
  <2>3. IndicesFit => x.val = v
    BY <1>5, <1>9, SmallTyped
  <2> HIDE DEF v
  <2>4. Convert(IntType(I32), v, out)
    BY <1>9 DEF v
  <2> QED
    BY <1>3, <1>6, <1>7, <2>2, <2>3, <2>4, ScalarOpKeeps
<1> QED
  BY <1>4, <1>8, <1>9

LEMMA TensorCastKeeps == NativeInv /\ TensorCast => NativeInv'
<1> SUFFICES ASSUME NativeInv, TensorCast PROVE NativeInv'
  OBVIOUS
<1>1. PICK t, v : Convert(t, v, Stopped("refused"))
  BY DEF TensorCast
<1>2. Stopped("refused").status = "refused" /\ Define(t, v, FALSE, Stopped("refused"))
  BY <1>1, Outcomes DEF Convert
<1> QED
  BY <1>2, DefineKeeps

LEMMA ReturnKeeps == NativeInv /\ Return => NativeInv'
<1> SUFFICES ASSUME NativeInv, Return PROVE NativeInv'
  OBVIOUS
<1>1. stage' \in {"converted", "refused"} /\ pairs' = pairs
  BY DEF Return
<1>2. IndicesFit' = IndicesFit
  BY <1>1 DEF IndicesFit, Natives
<1> QED
  BY <1>1, <1>2 DEF NativeInv, AllAgree, Compatible

----------------------------------------------------------------------------
(* NativeToJeff: the theorems.                                             *)

LEMMA NativeInvInit == I32Programs /\ NativeInit => NativeInv
<1> SUFFICES ASSUME I32Programs, NativeInit PROVE NativeInv
  OBVIOUS
<1>1. PICK p \in NativeParameters : pairs = [i \in DOMAIN p |-> [n |-> p[i], j |-> p[i], c |-> FALSE]]
  BY DEF NativeInit
<1>2. /\ IsSequence(p)
      /\ \A i \in DOMAIN p :
            LET t == p[i].type
            IN WellTyped(p[i]) /\ IF IsTensor(t) THEN ElementType(t[2]) ELSE ScalarType(t)
  BY DEF I32Programs
<1>3. Len(p) \in Nat /\ DOMAIN p = 1 .. Len(p)
  BY <1>2 DEF IsSequence
<1>4. /\ DOMAIN pairs = 1 .. Len(p)
      /\ \A i \in 1 .. Len(p) : pairs[i].n = p[i] /\ pairs[i].j = p[i]
      /\ pairs = [i \in 1 .. Len(p) |-> pairs[i]]
  BY <1>1, <1>3
<1>5. pairs \in Seq({pairs[k] : k \in DOMAIN pairs})
  BY <1>3, <1>4
<1>6. ASSUME NEW x, WellTyped(x),
             IF IsTensor(x.type) THEN ElementType(x.type[2]) ELSE ScalarType(x.type)
      PROVE  NativeTyped(x) /\ TypeKept(x, x) /\ Agreeing(x, x)
  <2>1. CASE IsTensor(x.type)
    BY <1>6, <2>1 DEF WellTyped, NativeTyped, TypeKept, Agreeing, Agree, SameElements
  <2>2. CASE ~IsTensor(x.type)
    <3>1. x.type # IndexType
      BY <1>6, <2>2, Kinds DEF ScalarType
    <3> QED
      BY <1>6, <2>2, <3>1 DEF WellTyped, NativeTyped, TypeKept, Agreeing, Agree, ElementType
  <2> QED
    BY <2>1, <2>2
<1>7. \A i \in DOMAIN pairs :
        /\ NativeTyped(pairs[i].n) /\ TypeKept(pairs[i].n, pairs[i].j)
        /\ Agreeing(pairs[i].n, pairs[i].j)
  BY <1>2, <1>3, <1>4, <1>6
<1>8. stage = "converting"
  BY DEF NativeInit
<1> QED
  BY <1>5, <1>7, <1>8 DEF NativeInv, IsSequence, AllAgree, Compatible

LEMMA NativeInvStep == I32Programs /\ NativeInv /\ [NativeNext]_nativeVars => NativeInv'
<1> SUFFICES ASSUME I32Programs, NativeInv, [NativeNext]_nativeVars PROVE NativeInv'
  OBVIOUS
<1>1. CASE UNCHANGED nativeVars
  <2>1. pairs' = pairs /\ stage' = stage
    BY <1>1 DEF nativeVars
  <2>2. IndicesFit' = IndicesFit
    BY <2>1 DEF IndicesFit, Natives
  <2> QED
    BY <2>1, <2>2 DEF NativeInv, AllAgree, Compatible
<1>2. CASE NativeNext
  BY Zenon, <1>2, ConstantKeeps, ArrayConstantKeeps, NativeBinaryKeeps, AbsKeeps, IntCompareKeeps,
     SelectKeeps, IntCastKeeps, IntToFloatKeeps, FloatOpKeeps, EmptyKeeps, SplatKeeps, ExtractKeeps,
     InsertKeeps, DimKeeps, FromElementsKeeps, IndexCastKeeps, TensorCastKeeps, ReturnKeeps DEF NativeNext
<1> QED
  BY <1>1, <1>2

LEMMA NativeInvariant ==
  ASSUME I32Programs
  PROVE  NativeSpec => []NativeInv
<1>1. NativeInit => NativeInv
  BY NativeInvInit
<1>2. NativeInv /\ [NativeNext]_nativeVars => NativeInv'
  BY NativeInvStep
<1> QED
  BY <1>1, <1>2, PTL DEF NativeSpec

\* Whatever operations a native program consists of, the jeff program computes what it does, as long
\* as the index values of the native program fit an i32 (NativeToJeff.cpp): the values of indices
\* through arithmetic on i32 in place of 64 bits, the elements of tensors, the operands in their order.
THEOREM ValuesAreKept ==
  ASSUME I32Programs
  PROVE  NativeSpec => []ValuesKept
<1>1. NativeInv => ValuesKept
  BY DEF NativeInv, AllAgree, Agreeing, ValuesKept
<1> QED
  BY <1>1, NativeInvariant, PTL

\* No operation is created that the verifier refuses, and every value keeps its type but an index,
\* which is an i32 (NativeToJeff.td:78), where indices are cast from and to i32 alone.
THEOREM TypesAreCompatible ==
  ASSUME I32Programs
  PROVE  NativeSpec => []CompatibleTypes
<1>1. NativeInv => CompatibleTypes
  BY DEF NativeInv, CompatibleTypes, TypesKept
<1> QED
  BY <1>1, NativeInvariant, PTL
=============================================================================
