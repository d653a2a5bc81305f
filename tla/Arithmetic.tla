---- MODULE Arithmetic ----
(***************************************************************************)
(* Typed values and the meaning of the operations that the arith and       *)
(* tensor dialects of MLIR and the jeff dialect have in common.            *)
(*                                                                         *)
(* An integer of width w is a number in 0..2^w - 1.  The dialects have the *)
(* widths 1, 8, 16, 32 and 64 and an index of 64 bits; the models have     *)
(* smaller ones, I32 for i32 and I64 for i64 and index.  A float is a term *)
(* that records how it was computed: <<"sqrt", x>>.  A tensor is the       *)
(* sequence of its elements.                                               *)
(***************************************************************************)
EXTENDS Integers, Sequences, FiniteSetsExt

CONSTANTS I32,       \* width of i32, the type of indices in jeff
          I64,       \* width of i64 and of index
          Undefined  \* an element nobody has written

\* The equation that defines the powers of two, up to 2^w.
PowersOf2(w) == \A k \in 0..(w - 1) : 2^(k + 1) = 2 * 2^k

ASSUME WidthAssumption ==
    I32 \in Nat \ {0, 1} /\ I64 \in Nat /\ I64 > I32 /\ PowersOf2(I64)

Dynamic == -1        \* a length that is not part of the type

IntType(w)          == <<"int", w>>
IndexType           == <<"index">>
FloatType           == <<"float">>
TensorType(elem, n) == <<"tensor", elem, n>>

IsInt(t)    == t[1] = "int"
IsTensor(t) == t[1] = "tensor"
Width(t)    == IF t = IndexType THEN I64 ELSE t[2]

Typed(t, v) == [type |-> t, val |-> v]

\* Values a program may have: numbers fit their width, arrays can be indexed.
IsSequence(s) == s \in Seq({s[k] : k \in DOMAIN s})
Fits(t, v)    == IsInt(t) \/ t = IndexType => v \in 0..(2^Width(t) - 1)
WellTyped(x)  ==
    /\ x = Typed(x.type, x.val)
    /\ IF IsTensor(x.type)
       THEN /\ IsSequence(x.val) /\ Len(x.val) < 2^(I64 - 1)
            /\ \A k \in DOMAIN x.val : Fits(x.type[2], x.val[k])
       ELSE Fits(x.type, x.val)

Wrap(v, w)   == v % 2^w
Signed(v, w) == IF v < 2^(w - 1) THEN v ELSE v - 2^w
SignExtend(v, from, to) == Wrap(Signed(v, from), to)

Bits(v, w)     == {k \in 0..(w - 1) : (v \div 2^k) % 2 = 1}
OfBits(set, w) == CHOOSE v \in 0..(2^w - 1) : Bits(v, w) = set

Quotient(a, b) ==    \* rounded towards zero
    LET abs(x) == IF x < 0 THEN -x ELSE x
        q == abs(a) \div abs(b)
    IN IF (a < 0) = (b < 0) THEN q ELSE -q

BinaryOps == {"add", "sub", "mul", "divS", "divU", "pow", "and", "or", "xor", "minS", "minU",
              "maxS", "maxU", "remS", "remU", "shl", "shr"}

\* Where the operations have a defined result.
BinaryDefined(op, a, b, w) ==
    /\ op \in {"divS", "divU", "remS", "remU"} => b # 0
    /\ op \in {"divS", "remS"} => ~(a = 2^(w - 1) /\ b = 2^w - 1)
    /\ op \in {"shl", "shr"} => b < w
    /\ op = "pow" => Signed(b, w) >= 0

Binary(op, a, b, w) ==
    LET sa == Signed(a, w)
        sb == Signed(b, w)
        result ==
            CASE op = "add" -> a + b
              [] op = "sub" -> a - b
              [] op = "mul" -> a * b
              [] op = "divS" -> Quotient(sa, sb)
              [] op = "divU" -> a \div b
              [] op = "pow" -> IF b = 0 THEN 1 ELSE IF sa = 0 THEN 0 ELSE sa^b
              [] op = "and" -> OfBits(Bits(a, w) \cap Bits(b, w), w)
              [] op = "or"  -> OfBits(Bits(a, w) \cup Bits(b, w), w)
              [] op = "xor" -> OfBits(SymDiff(Bits(a, w), Bits(b, w)), w)
              [] op = "minS" -> IF sa < sb THEN a ELSE b
              [] op = "minU" -> IF a < b THEN a ELSE b
              [] op = "maxS" -> IF sa < sb THEN b ELSE a
              [] op = "maxU" -> IF a < b THEN b ELSE a
              [] op = "remS" -> sa - sb * Quotient(sa, sb)
              [] op = "remU" -> a % b
              [] op = "shl" -> a * 2^b
              [] op = "shr" -> sa \div 2^b
    IN Wrap(result, w)

AbsoluteValue(a, w) == Wrap(IF Signed(a, w) < 0 THEN -Signed(a, w) ELSE a, w)

\* The comparisons jeff has, and those only the arith dialect has.
Comparisons       == {"eq", "ltS", "lteS", "ltU", "lteU"}
NativeComparisons == Comparisons \cup {"ne", "gtS", "gteS", "gtU", "gteU"}

\* The operands are numbers: of one width, or of two where nothing demands one.
Compare(op, a, wa, b, wb) ==
    LET sa == Signed(a, wa)
        sb == Signed(b, wb)
        holds ==
            CASE op = "eq" -> a = b
              [] op = "ne" -> a # b
              [] op = "ltS" -> sa < sb
              [] op = "lteS" -> sa <= sb
              [] op = "gtS" -> sa > sb
              [] op = "gteS" -> sa >= sb
              [] op = "ltU" -> a < b
              [] op = "lteU" -> a <= b
              [] op = "gtU" -> a > b
              [] op = "gteU" -> a >= b
    IN IF holds THEN 1 ELSE 0

\* Floats are not computed with: a comparison or test is some function of its operands in order.
FloatHolds(op, operands) == IF operands[1] = <<"zero">> THEN 1 ELSE 0

\* extsi, extui, trunci and the cast between integers and index.
Casts == {"extS", "extU", "trunc"}
Cast(op, v, from, to) == IF op = "extS" THEN SignExtend(v, from, to) ELSE Wrap(v, to)
====
