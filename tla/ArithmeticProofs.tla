-------------------------- MODULE ArithmeticProofs --------------------------
(***************************************************************************)
(* Numbers of a width: powers of two, remainders, bits.  The provers know  *)
(* linear arithmetic and the typing of the rest; what they are told of     *)
(* powers is PowersOf2, everything else is proved, by induction where it   *)
(* must be.                                                                *)
(***************************************************************************)
EXTENDS NativePatterns, WellFoundedInduction, TLAPS

\* Induction over the numbers with a property: they form a set.
LEMMA SetInduction ==
  ASSUME NEW S, 0 \in S, \A n \in Nat : n \in S => n + 1 \in S
  PROVE  \A n \in Nat : n \in S
<1> SUFFICES ASSUME NEW m \in Nat, m \notin S PROVE FALSE
  OBVIOUS
<1> DEFINE T == {n \in Nat : n \notin S}
           R == OpToRel(<, Nat)
<1>1. IsWellFoundedOn(R, Nat)
  BY NatLessThanWellFounded
<1>2. T \subseteq Nat /\ T # {}
  OBVIOUS
<1>3. PICK x \in T : \A y \in T : <<y, x>> \notin R
  <2> HIDE DEF R, T
  <2> QED
    BY <1>1, <1>2, WFMin
<1> HIDE DEF R
<1>4. x \in Nat /\ x # 0 /\ x - 1 \in Nat
  OBVIOUS
<1>5. x - 1 \in T
  BY <1>4
<1>6. <<x - 1, x>> \in R
  BY <1>4 DEF OpToRel, R
<1> QED
  BY <1>3, <1>5, <1>6

----------------------------------------------------------------------------
(* Division.                                                               *)

LEMMA Product ==
  ASSUME NEW a \in Nat, NEW b \in Nat
  PROVE  a * b \in Nat /\ (a # 0 => a * b >= b)
<1>1. a * b \in Int
  OBVIOUS
<1>2. a * b >= 0
  OBVIOUS
<1>3. a # 0 => a * b >= b
  <2>1. CASE a # 0
    <3>1. a - 1 \in Nat
      BY <2>1
    <3>2. (a - 1) * b >= 0
      BY <3>1
    <3>3. (a - 1) * b = a * b - b
      OBVIOUS
    <3> QED
      BY <3>2, <3>3
  <2> QED
    BY <2>1
<1> QED
  BY <1>1, <1>2, <1>3

LEMMA DivMod ==
  ASSUME NEW m \in Nat \ {0}, NEW x \in Int
  PROVE  /\ x \div m \in Int /\ x % m \in 0 .. (m - 1)
         /\ x = m * (x \div m) + (x % m)
OBVIOUS

\* Quotient and remainder are determined.
LEMMA DivUnique ==
  ASSUME NEW m \in Nat \ {0}, NEW q \in Int, NEW r \in 0 .. (m - 1), NEW p \in Int,
         NEW s \in 0 .. (m - 1), m * q + r = m * p + s
  PROVE  q = p /\ r = s
<1>1. ASSUME NEW a \in Int, NEW b \in Int, a > b PROVE m * a - m * b >= m
  <2>1. a - b - 1 >= 0
    BY <1>1
  <2>2. m * (a - b - 1) >= 0
    BY <2>1
  <2>3. m * (a - b - 1) = m * a - m * b - m
    OBVIOUS
  <2> QED
    BY <2>2, <2>3
<1>2. /\ m * q \in Int /\ m * p \in Int
      /\ m * q - m * p = s - r
  OBVIOUS
<1>3. ~(q > p)
  BY <1>1, <1>2
<1>4. ~(p > q)
  BY <1>1, <1>2
<1>5. q = p
  BY <1>3, <1>4
<1> QED
  BY <1>2, <1>5

LEMMA Division ==
  ASSUME NEW m \in Nat \ {0}, NEW q \in Int, NEW r \in 0 .. (m - 1)
  PROVE  (m * q + r) \div m = q /\ (m * q + r) % m = r
<1> DEFINE x == m * q + r
<1>1. x \in Int
  OBVIOUS
<1>2. x \div m \in Int /\ x % m \in 0 .. (m - 1) /\ x = m * (x \div m) + (x % m)
  BY <1>1, DivMod
<1>3. m * q + r = m * (x \div m) + (x % m)
  BY <1>2
<1> HIDE DEF x
<1>4. q = x \div m /\ r = x % m
  BY <1>2, <1>3, DivUnique
<1> QED
  BY <1>4 DEF x

\* A remainder by a multiple says everything about the remainder by a factor.
LEMMA RemainderOfRemainder ==
  ASSUME NEW m \in Nat \ {0}, NEW k \in Nat \ {0}, NEW x \in Int
  PROVE  (x % (m * k)) % m = x % m
<1>1. m * k \in Nat \ {0}
  BY Product
<1> DEFINE q == x \div (m * k)
           r == x % (m * k)
           q2 == r \div m
           r2 == r % m
<1>2. q \in Int /\ r \in Int /\ x = (m * k) * q + r
  <2> DEFINE n == m * k
  <2>1. n \in Nat \ {0}
    BY <1>1
  <2> HIDE DEF n
  <2>2. x \div n \in Int /\ x % n \in 0 .. (n - 1) /\ x = n * (x \div n) + (x % n)
    BY <2>1, DivMod
  <2>3. x % n \in Int
    BY <2>1, <2>2
  <2> QED
    BY <2>2, <2>3 DEF n
<1> HIDE DEF q, r
<1>3. q2 \in Int /\ r2 \in 0 .. (m - 1) /\ r = m * q2 + r2
  BY <1>2, DivMod
<1> HIDE DEF q2, r2
<1>4. (m * k) * q = m * (k * q) /\ m * (k * q + q2) = m * (k * q) + m * q2
      /\ k * q + q2 \in Int
  BY <1>2, <1>3
<1>5. x = m * (k * q + q2) + r2
  BY <1>2, <1>3, <1>4
<1>6. x % m = r2
  BY <1>3, <1>4, <1>5, Division
<1> QED
  BY <1>6 DEF r2, r

----------------------------------------------------------------------------
(* Powers of two.                                                          *)

LEMMA Powers ==
  ASSUME NEW w \in Nat, PowersOf2(w)
  PROVE  \A k \in 0 .. w : 2^k \in Nat \ {0}
<1> DEFINE S == {k \in Nat : k <= w => 2^k \in Nat \ {0}}
<1>1. 0 \in S
  OBVIOUS
<1>2. ASSUME NEW k \in Nat, k \in S PROVE k + 1 \in S
  <2>1. CASE k + 1 <= w
    <3>1. 2^k \in Nat \ {0} /\ 2^(k + 1) = 2 * 2^k
      BY <1>2, <2>1 DEF PowersOf2
    <3> QED
      BY <3>1
  <2> QED
    BY <2>1
<1> HIDE DEF S
<1>3. \A k \in Nat : k \in S
  BY <1>1, <1>2, SetInduction
<1> QED
  BY <1>3 DEF S

LEMMA PowerOfSum ==
  ASSUME NEW w \in Nat, PowersOf2(w), NEW i \in 0 .. w, NEW k \in 0 .. w, i + k <= w
  PROVE  2^(i + k) = 2^i * 2^k
<1> DEFINE S == {n \in Nat : i + n <= w => 2^(i + n) = 2^i * 2^n}
<1>1. 2^i \in Nat
  BY Powers
<1>2. 0 \in S
  BY <1>1
<1>3. ASSUME NEW n \in Nat, n \in S PROVE n + 1 \in S
  <2>1. CASE i + (n + 1) <= w
    <3>1. 2^(i + n) = 2^i * 2^n /\ 2^((i + n) + 1) = 2 * 2^(i + n) /\ 2^(n + 1) = 2 * 2^n
      BY <1>3, <2>1 DEF PowersOf2
    <3>2. 2^n \in Nat
      BY <2>1, Powers
    <3>3. i + (n + 1) = (i + n) + 1
      OBVIOUS
    <3>4. 2 * (2^i * 2^n) = 2^i * (2 * 2^n)
      BY <1>1, <3>2
    <3> QED
      BY <3>1, <3>3, <3>4
  <2> QED
    BY <2>1
<1> HIDE DEF S
<1>4. \A n \in Nat : n \in S
  BY <1>2, <1>3, SetInduction
<1> QED
  BY <1>4 DEF S

LEMMA PowersGrow ==
  ASSUME NEW w \in Nat, PowersOf2(w), NEW i \in 0 .. w, NEW k \in 0 .. w, i <= k
  PROVE  2^i <= 2^k /\ (i < k => 2 * 2^i <= 2^k)
<1>1. 2^i \in Nat \ {0} /\ 2^(k - i) \in Nat \ {0} /\ 2^k = 2^i * 2^(k - i)
  <2>1. k - i \in 0 .. w /\ i + (k - i) = k
    OBVIOUS
  <2>2. 2^(i + (k - i)) = 2^i * 2^(k - i)
    BY <2>1, PowerOfSum
  <2> QED
    BY <2>1, <2>2, Powers
<1>2. 2^(k - i) * 2^i >= 2^i
  BY <1>1, Product
<1>3. ASSUME i < k PROVE 2 * 2^i <= 2^k
  <2>1. k - i - 1 \in 0 .. (w - 1) /\ k - i - 1 + 1 = k - i
    BY <1>3
  <2>2. 2^(k - i) = 2 * 2^(k - i - 1) /\ 2^(k - i - 1) \in Nat \ {0}
    BY <2>1, Powers DEF PowersOf2
  <2> DEFINE a == 2^i
             b == 2^(k - i - 1)
  <2>3. a \in Nat /\ b \in Nat \ {0} /\ 2^k = a * (2 * b)
    BY <1>1, <2>2
  <2> HIDE DEF a, b
  <2>4. b * a >= a
    BY <2>3, Product
  <2>5. a * (2 * b) = 2 * (b * a)
    BY <2>3
  <2> QED
    BY <2>3, <2>4, <2>5 DEF a
<1> QED
  BY <1>1, <1>2, <1>3

----------------------------------------------------------------------------
(* Bits.                                                                   *)

Numbers(w) == 0 .. (2^w - 1)

LEMMA NumbersTyped ==
  ASSUME NEW w \in Nat, PowersOf2(w)
  PROVE  /\ 2^w \in Nat \ {0} /\ Numbers(w) \subseteq Nat
         /\ \A v \in Nat : v \in Numbers(w) <=> v < 2^w
         /\ Numbers(0) = {0}
BY Powers DEF Numbers

\* A bit of a number does not depend on the bits above it.
LEMMA BitOfSum ==
  ASSUME NEW w \in Nat, PowersOf2(w), NEW k \in 0 .. (w - 1), NEW v \in Nat, NEW a \in Nat
  PROVE  ((2^w * a + v) \div 2^k) % 2 = (v \div 2^k) % 2
<1>1. /\ 2^k \in Nat \ {0} /\ 2^(w - k - 1) \in Nat \ {0}
      /\ 2^w = 2^k * (2 * 2^(w - k - 1))
  <2>1. k \in 0 .. w /\ w - k \in 0 .. w /\ w - k - 1 \in 0 .. (w - 1) /\ k + (w - k) = w
        /\ (w - k - 1) + 1 = w - k
    OBVIOUS
  <2>2. 2^(k + (w - k)) = 2^k * 2^(w - k)
    BY <2>1, PowerOfSum
  <2>3. 2^((w - k - 1) + 1) = 2 * 2^(w - k - 1)
    BY <2>1 DEF PowersOf2
  <2> QED
    BY <2>1, <2>2, <2>3, Powers
<1> DEFINE m == 2^k
           h == 2^(w - k - 1)
           q == v \div m
           r == v % m
           b == q \div 2
           c == q % 2
<1>2. m \in Nat \ {0} /\ h \in Nat \ {0} /\ 2^w = m * (2 * h)
  BY <1>1
<1> HIDE DEF m, h
<1>3. q \in Int /\ r \in 0 .. (m - 1) /\ v = m * q + r
  BY <1>2, DivMod
<1> HIDE DEF q, r
<1>4. b \in Int /\ c \in 0 .. 1 /\ q = 2 * b + c
  BY <1>3
<1> HIDE DEF b, c
<1>5. /\ h * a \in Int
      /\ 2^w * a + v = m * (2 * (h * a) + q) + r
  <2>1. (m * (2 * h)) * a = m * (2 * (h * a)) /\ h * a \in Int
    BY <1>2
  <2>2. m * (2 * (h * a) + q) = m * (2 * (h * a)) + m * q
    BY <1>2, <1>3, <2>1
  <2>3. m * (2 * (h * a)) \in Int /\ m * q \in Int
    BY <1>2, <1>3, <2>1
  <2> QED
    BY <1>2, <1>3, <2>1, <2>2, <2>3
<1>6. (2^w * a + v) \div m = 2 * (h * a) + q
  <2> DEFINE p == 2 * (h * a) + q
  <2>1. p \in Int
    BY <1>3, <1>5
  <2>2. 2^w * a + v = m * p + r
    BY <1>5
  <2> HIDE DEF p
  <2>3. (m * p + r) \div m = p
    BY <1>2, <1>3, <2>1, Division
  <2> QED
    BY <2>2, <2>3 DEF p
<1>7. (2 * (h * a) + q) % 2 = c /\ q % 2 = c
  BY <1>3, <1>4, <1>5
<1> QED
  BY <1>6, <1>7 DEF m, q

\* The bits of a number with one more.
LEMMA BitsOfSum ==
  ASSUME NEW w \in Nat, PowersOf2(w + 1), NEW v \in Numbers(w), NEW a \in 0 .. 1
  PROVE  /\ PowersOf2(w)
         /\ 2^w * a + v \in Numbers(w + 1)
         /\ Bits(2^w * a + v, w + 1) = Bits(v, w) \cup (IF a = 1 THEN {w} ELSE {})
<1>1. PowersOf2(w) /\ 2^(w + 1) = 2 * 2^w
  BY DEF PowersOf2
<1>2. /\ 2^w \in Nat \ {0} /\ v \in Nat /\ v < 2^w
  BY <1>1, NumbersTyped
<1> DEFINE m == 2^w
           x == m * a + v
<1>3. x \in Nat /\ x < 2 * m
  BY <1>2
<1>4. (x \div 2^w) % 2 = a
  <2>1. x \div m = a
    BY <1>2, Division
  <2> QED
    BY <2>1
<1>5. \A k \in 0 .. (w - 1) : (x \div 2^k) % 2 = (v \div 2^k) % 2
  <2>1. \A k \in 0 .. (w - 1) : ((2^w * a + v) \div 2^k) % 2 = (v \div 2^k) % 2
    <3>1. a \in Nat
      OBVIOUS
    <3> QED
      BY <1>1, <1>2, <3>1, BitOfSum
  <2> QED
    BY <2>1
<1> HIDE DEF x
<1>6. Bits(x, w + 1) = Bits(v, w) \cup (IF a = 1 THEN {w} ELSE {})
  <2>1. \A k : k \in 0 .. ((w + 1) - 1) <=> k \in 0 .. (w - 1) \/ k = w
    OBVIOUS
  <2>2. \A k \in 0 .. (w - 1) : k \in Bits(x, w + 1) <=> k \in Bits(v, w)
    BY <1>5, <2>1 DEF Bits
  <2>3. w \in Bits(x, w + 1) <=> a = 1
    BY <1>4, <2>1 DEF Bits
  <2>4. Bits(x, w + 1) \subseteq 0 .. ((w + 1) - 1) /\ Bits(v, w) \subseteq 0 .. (w - 1)
    BY DEF Bits
  <2> QED
    BY <2>1, <2>2, <2>3, <2>4
<1>7. x \in Numbers(w + 1)
  BY <1>1, <1>2, <1>3 DEF Numbers
<1> QED
  BY <1>1, <1>6, <1>7 DEF x

\* A number splits into its highest bit and the rest.
LEMMA HighestBit ==
  ASSUME NEW w \in Nat, PowersOf2(w + 1), NEW x \in Numbers(w + 1)
  PROVE  \E a \in 0 .. 1 : \E v \in Numbers(w) : x = 2^w * a + v
<1>1. PowersOf2(w) /\ 2^(w + 1) = 2 * 2^w
  BY DEF PowersOf2
<1>2. 2^w \in Nat \ {0} /\ x \in Nat /\ x < 2 * 2^w
  BY <1>1, NumbersTyped DEF Numbers
<1>3. CASE x < 2^w
  <2>1. x \in Numbers(w) /\ x = 2^w * 0 + x
    BY <1>2, <1>3 DEF Numbers
  <2> QED
    BY <2>1
<1>4. CASE x >= 2^w
  <2>1. x - 2^w \in Numbers(w) /\ x = 2^w * 1 + (x - 2^w)
    BY <1>2, <1>4 DEF Numbers
  <2> QED
    BY <2>1
<1> QED
  BY <1>2, <1>3, <1>4

\* A number of w bits is determined by its bits, and any bits are those of one.
LEMMA BitsOfNumbers ==
  ASSUME NEW w \in Nat, PowersOf2(w)
  PROVE  /\ \A s \in SUBSET (0 .. (w - 1)) : \E v \in Numbers(w) : Bits(v, w) = s
         /\ \A u, v \in Numbers(w) : Bits(u, w) = Bits(v, w) => u = v
<1> DEFINE Exists(n) == \A s \in SUBSET (0 .. (n - 1)) : \E v \in Numbers(n) : Bits(v, n) = s
           Unique(n) == \A u, v \in Numbers(n) : Bits(u, n) = Bits(v, n) => u = v
           S == {n \in Nat : n <= w => Exists(n) /\ Unique(n)}
<1>1. 0 \in S
  <2>1. Numbers(0) = {0} /\ 0 .. (0 - 1) = {}
    BY NumbersTyped
  <2>2. Bits(0, 0) = {}
    BY <2>1 DEF Bits
  <2> QED
    BY <2>1, <2>2
<1>2. ASSUME NEW n \in Nat, n \in S, n + 1 <= w PROVE Exists(n + 1) /\ Unique(n + 1)
  <2>1. PowersOf2(n + 1) /\ Exists(n) /\ Unique(n)
    BY <1>2 DEF PowersOf2
  <2>2. ASSUME NEW s \in SUBSET (0 .. ((n + 1) - 1))
        PROVE  \E v \in Numbers(n + 1) : Bits(v, n + 1) = s
    <3> DEFINE t == s \ {n}
               a == IF n \in s THEN 1 ELSE 0
    <3>1. t \in SUBSET (0 .. (n - 1))
      OBVIOUS
    <3>2. PICK v \in Numbers(n) : Bits(v, n) = t
      BY <2>1, <3>1
    <3>3. a \in 0 .. 1
      OBVIOUS
    <3> HIDE DEF a
    <3>4. /\ 2^n * a + v \in Numbers(n + 1)
          /\ Bits(2^n * a + v, n + 1) = Bits(v, n) \cup (IF a = 1 THEN {n} ELSE {})
      BY <2>1, <3>2, <3>3, BitsOfSum
    <3>5. t \cup (IF a = 1 THEN {n} ELSE {}) = s
      BY DEF a
    <3> QED
      BY <3>2, <3>4, <3>5
  <2>3. ASSUME NEW x \in Numbers(n + 1), NEW y \in Numbers(n + 1), Bits(x, n + 1) = Bits(y, n + 1)
        PROVE  x = y
    <3>1. PICK a \in 0 .. 1, v \in Numbers(n) : x = 2^n * a + v
      BY <2>1, HighestBit
    <3>2. PICK b \in 0 .. 1, u \in Numbers(n) : y = 2^n * b + u
      BY <2>1, HighestBit
    <3>3. Bits(x, n + 1) = Bits(v, n) \cup (IF a = 1 THEN {n} ELSE {})
      BY <2>1, <3>1, BitsOfSum
    <3>4. Bits(y, n + 1) = Bits(u, n) \cup (IF b = 1 THEN {n} ELSE {})
      BY <2>1, <3>2, BitsOfSum
    <3>5. n \notin Bits(v, n) /\ n \notin Bits(u, n)
      BY DEF Bits
    <3>6. a = b
      BY <2>3, <3>3, <3>4, <3>5
    <3>7. Bits(v, n) = Bits(u, n)
      BY <2>3, <3>3, <3>4, <3>5, <3>6
    <3>8. v = u
      BY <2>1, <3>7
    <3> QED
      BY <3>1, <3>2, <3>6, <3>8
  <2> QED
    BY <2>2, <2>3
<1>3. \A n \in Nat : n \in S => n + 1 \in S
  BY <1>2
<1> HIDE DEF S
<1>4. \A n \in Nat : n \in S
  BY <1>1, <1>3, SetInduction
<1>5. w \in S
  BY <1>4
<1> QED
  BY <1>5 DEF S

LEMMA BitsAndBack ==
  ASSUME NEW w \in Nat, PowersOf2(w)
  PROVE  /\ \A s \in SUBSET (0 .. (w - 1)) :
               OfBits(s, w) \in Numbers(w) /\ Bits(OfBits(s, w), w) = s
         /\ \A v \in Numbers(w) : Bits(v, w) \in SUBSET (0 .. (w - 1)) /\ OfBits(Bits(v, w), w) = v
<1>1. ASSUME NEW s \in SUBSET (0 .. (w - 1))
      PROVE  OfBits(s, w) \in Numbers(w) /\ Bits(OfBits(s, w), w) = s
  <2>1. \E v \in 0 .. (2^w - 1) : Bits(v, w) = s
    BY BitsOfNumbers DEF Numbers
  <2> QED
    BY <2>1 DEF OfBits, Numbers
<1>2. \A v : Bits(v, w) \in SUBSET (0 .. (w - 1))
  BY DEF Bits
<1>3. ASSUME NEW v \in Numbers(w) PROVE OfBits(Bits(v, w), w) = v
  BY <1>1, <1>2, BitsOfNumbers
<1> QED
  BY <1>1, <1>2, <1>3

\* The complement of a number has the other bits.
LEMMA ComplementBits ==
  ASSUME NEW w \in Nat, PowersOf2(w), NEW v \in Numbers(w)
  PROVE  /\ 2^w - 1 - v \in Numbers(w)
         /\ Bits(2^w - 1 - v, w) = (0 .. (w - 1)) \ Bits(v, w)
<1> DEFINE c == 2^w - 1 - v
<1>1. 2^w \in Nat \ {0} /\ v \in Nat /\ v < 2^w /\ c \in Nat
  BY NumbersTyped
<1>2. ASSUME NEW k \in 0 .. (w - 1)
      PROVE  (c \div 2^k) % 2 = 1 <=> ~((v \div 2^k) % 2 = 1)
  <2> DEFINE m == 2^k
             h == 2^(w - k - 1)
             q == v \div m
             r == v % m
  <2>1. m \in Nat \ {0} /\ h \in Nat \ {0} /\ 2^w = m * (2 * h)
    <3>1. k \in 0 .. w /\ w - k \in 0 .. w /\ w - k - 1 \in 0 .. (w - 1) /\ k + (w - k) = w
          /\ (w - k - 1) + 1 = w - k
      OBVIOUS
    <3>2. 2^(k + (w - k)) = 2^k * 2^(w - k)
      BY <3>1, PowerOfSum
    <3>3. 2^((w - k - 1) + 1) = 2 * 2^(w - k - 1)
      BY <3>1 DEF PowersOf2
    <3> QED
      BY <3>1, <3>2, <3>3, Powers
  <2> HIDE DEF m, h
  <2>2. q \in Int /\ r \in 0 .. (m - 1) /\ v = m * q + r
    BY <1>1, <2>1, DivMod
  <2> HIDE DEF q, r
  <2> DEFINE p == 2 * h - 1 - q
  <2>3. p \in Int /\ m - 1 - r \in 0 .. (m - 1)
    BY <2>1, <2>2
  <2>4. c = m * p + (m - 1 - r)
    <3>1. m * p = m * (2 * h) - m - m * q
      BY <2>1, <2>2
    <3>2. m * (2 * h) \in Int /\ m * q \in Int
      BY <2>1, <2>2
    <3> HIDE DEF p
    <3> QED
      BY <2>1, <2>2, <3>1, <3>2
  <2>5. c \div m = p
    <3> HIDE DEF p, c
    <3> QED
      BY <2>1, <2>3, <2>4, Division
  <2>6. p % 2 = 1 <=> ~(q % 2 = 1)
    BY <2>1, <2>2
  <2> HIDE DEF c, p
  <2> QED
    BY <2>5, <2>6 DEF m, q
<1>3. c \in Numbers(w)
  BY <1>1 DEF Numbers
<1> HIDE DEF c
<1>4. Bits(c, w) = (0 .. (w - 1)) \ Bits(v, w)
  BY <1>2 DEF Bits
<1> QED
  BY <1>3, <1>4 DEF c

LEMMA Wrapped ==
  ASSUME NEW w \in Nat, PowersOf2(w), NEW x \in Int
  PROVE  /\ Wrap(x, w) \in Numbers(w)
         /\ x \in Numbers(w) => Wrap(x, w) = x
         /\ Wrap(-1, w) = 2^w - 1
<1> DEFINE m == 2^w
<1>1. m \in Nat \ {0}
  BY Powers
<1> HIDE DEF m
<1>2. x % m \in 0 .. (m - 1)
  BY <1>1
<1>3. x \in 0 .. (m - 1) => x % m = x
  BY <1>1
<1>4. (-1) % m = m - 1
  BY <1>1
<1> QED
  BY <1>2, <1>3, <1>4 DEF Wrap, Numbers, m

\* Exclusive or with all ones is the complement.
LEMMA XorWithOnes ==
  ASSUME NEW w \in Nat, PowersOf2(w), NEW v \in Numbers(w)
  PROVE  Binary("xor", v, Wrap(-1, w), w) = 2^w - 1 - v
<1> DEFINE ones == Wrap(-1, w)
           c == 2^w - 1 - v
<1>1. /\ ones = 2^w - 1 /\ ones \in Numbers(w) /\ 2^w \in Nat \ {0} /\ 0 \in Numbers(w)
      /\ ones = 2^w - 1 - 0
  BY Wrapped, NumbersTyped DEF Numbers
<1>2. Bits(0, w) = {}
  <2>1. \A k \in 0 .. (w - 1) : 0 \div 2^k = 0
    <3> SUFFICES ASSUME NEW k \in 0 .. (w - 1) PROVE 0 \div 2^k = 0
      OBVIOUS
    <3> DEFINE m == 2^k
    <3>1. m \in Nat \ {0}
      BY Powers
    <3> HIDE DEF m
    <3>2. 0 \div m = 0
      BY <3>1
    <3> QED
      BY <3>2 DEF m
  <2> QED
    BY <2>1 DEF Bits
<1>3. Bits(ones, w) = 0 .. (w - 1)
  BY <1>1, <1>2, ComplementBits
<1>4. c \in Numbers(w) /\ Bits(c, w) = (0 .. (w - 1)) \ Bits(v, w)
  BY ComplementBits
<1>5. Bits(v, w) \subseteq 0 .. (w - 1)
  BY DEF Bits
<1> HIDE DEF ones, c
<1>6. SymDiff(Bits(v, w), Bits(ones, w)) = Bits(c, w)
  BY <1>3, <1>4, <1>5 DEF SymDiff
<1>7. OfBits(SymDiff(Bits(v, w), Bits(ones, w)), w) = c
  BY <1>4, <1>6, BitsAndBack
<1>8. Binary("xor", v, ones, w) = Wrap(OfBits(SymDiff(Bits(v, w), Bits(ones, w)), w), w)
  BY DEF Binary
<1>9. Wrap(c, w) = c
  <2>1. c \in Int
    BY <1>4, NumbersTyped
  <2> QED
    BY <1>4, <2>1, Wrapped
<1> QED
  BY <1>7, <1>8, <1>9 DEF ones, c

----------------------------------------------------------------------------
(* Operations.                                                             *)

LEMMA SignedTyped ==
  ASSUME NEW w \in Nat \ {0}, PowersOf2(w), NEW v \in Numbers(w)
  PROVE  /\ Signed(v, w) \in Int
         /\ 2^(w - 1) \in Nat \ {0} /\ 2^w = 2 * 2^(w - 1)
         /\ v < 2^(w - 1) => Signed(v, w) = v
         /\ v >= 2^(w - 1) => Signed(v, w) = v - 2^w /\ Signed(v, w) < 0
<1>1. 2^(w - 1) \in Nat \ {0} /\ 2^w \in Nat \ {0} /\ v \in Nat /\ v < 2^w
  BY Powers, NumbersTyped
<1>2. 2^w = 2 * 2^(w - 1)
  BY DEF PowersOf2
<1> QED
  BY <1>1, <1>2 DEF Signed

LEMMA QuotientTyped ==
  ASSUME NEW a \in Int, NEW b \in Int, b # 0
  PROVE  Quotient(a, b) \in Int
<1>1. ASSUME NEW x \in Nat, NEW y \in Nat \ {0} PROVE x \div y \in Int
  OBVIOUS
<1> QED
  BY <1>1 DEF Quotient

\* A defined operation on numbers of a width gives a number of that width.
LEMMA BinaryTyped ==
  ASSUME NEW w \in Nat \ {0}, PowersOf2(w), NEW a \in Numbers(w), NEW b \in Numbers(w),
         NEW op \in BinaryOps, BinaryDefined(op, a, b, w)
  PROVE  Binary(op, a, b, w) \in Numbers(w)
<1> DEFINE sa == Signed(a, w)
           sb == Signed(b, w)
<1>1. a \in Nat /\ b \in Nat /\ sa \in Int /\ sb \in Int
  BY SignedTyped, NumbersTyped
<1>2. op \in {"divS", "divU", "remS", "remU"} => b # 0 /\ sb # 0
  BY <1>1, SignedTyped DEF BinaryDefined
<1>3. /\ Bits(a, w) \cap Bits(b, w) \in SUBSET (0 .. (w - 1))
      /\ Bits(a, w) \cup Bits(b, w) \in SUBSET (0 .. (w - 1))
      /\ SymDiff(Bits(a, w), Bits(b, w)) \in SUBSET (0 .. (w - 1))
  BY DEF Bits, SymDiff
<1>4. \A s \in SUBSET (0 .. (w - 1)) : OfBits(s, w) \in Int
  BY BitsAndBack, NumbersTyped
<1> HIDE DEF sa, sb
<1>5. \A x \in Int : Wrap(x, w) \in Numbers(w)
  BY Wrapped
<1>6. CASE op = "add"
  BY <1>1, <1>5, <1>6 DEF Binary
<1>7. CASE op = "sub"
  BY <1>1, <1>5, <1>7 DEF Binary
<1>8. CASE op = "mul"
  BY <1>1, <1>5, <1>8 DEF Binary
<1>9. CASE op = "divS"
  <2>1. Quotient(sa, sb) \in Int
    BY <1>1, <1>2, <1>9, QuotientTyped
  <2> QED
    BY <1>5, <1>9, <2>1 DEF Binary, sa, sb
<1>10. CASE op = "divU"
  <2>1. a \div b \in Int
    BY <1>1, <1>2, <1>10
  <2> QED
    BY <1>5, <1>10, <2>1 DEF Binary
<1>11. CASE op = "pow"
  <2>1. sb >= 0
    BY <1>11 DEF BinaryDefined, sb
  <2>2. b \in Nat
    BY <1>1
  <2>3. (IF b = 0 THEN 1 ELSE IF sa = 0 THEN 0 ELSE sa^b) \in Int
    BY <1>1, <2>2
  <2> QED
    BY <1>5, <1>11, <2>3 DEF Binary, sa, sb
<1>12. CASE op = "and"
  BY <1>3, <1>4, <1>5, <1>12 DEF Binary
<1>13. CASE op = "or"
  BY <1>3, <1>4, <1>5, <1>13 DEF Binary
<1>14. CASE op = "xor"
  BY <1>3, <1>4, <1>5, <1>14 DEF Binary
<1>15. CASE op \in {"minS", "minU", "maxS", "maxU"}
  BY <1>1, <1>5, <1>15 DEF Binary
<1>16. CASE op = "remS"
  <2>1. Quotient(sa, sb) \in Int
    BY <1>1, <1>2, <1>16, QuotientTyped
  <2>2. sa - sb * Quotient(sa, sb) \in Int
    BY <1>1, <2>1
  <2> QED
    BY <1>5, <1>16, <2>2 DEF Binary, sa, sb
<1>17. CASE op = "remU"
  <2>1. a % b \in Int
    BY <1>1, <1>2, <1>17
  <2> QED
    BY <1>5, <1>17, <2>1 DEF Binary
<1>18. CASE op \in {"shl", "shr"}
  <2>1. 2^b \in Nat \ {0}
    <3>1. b \in 0 .. w
      BY <1>1, <1>18 DEF BinaryDefined
    <3> QED
      BY <3>1, Powers
  <2>2. a * 2^b \in Int /\ sa \div 2^b \in Int
    BY <1>1, <2>1
  <2> QED
    BY <1>5, <1>18, <2>2 DEF Binary, sa
<1> QED
  BY <1>6, <1>7, <1>8, <1>9, <1>10, <1>11, <1>12, <1>13, <1>14, <1>15, <1>16, <1>17, <1>18
  DEF BinaryOps


----------------------------------------------------------------------------
(* Widths, types, values and outcomes.                                     *)

LEMMA WidthsTyped ==
  /\ I32 \in Nat /\ I64 \in Nat /\ 2 <= I32 /\ I32 < I64
  /\ \A w \in JeffWidths : w \in Nat \ {0} /\ w <= I64 /\ PowersOf2(w)
BY WidthAssumption DEF JeffWidths, PowersOf2

LEMMA SmallPowers ==
  /\ 2^1 = 2 /\ 2^2 = 4
  /\ 2^(I32 - 1) \in Nat \ {0} /\ 2^I32 = 2 * 2^(I32 - 1) /\ 2 <= 2^(I32 - 1)
  /\ 2^(I64 - 1) \in Nat \ {0} /\ 2^I64 = 2 * 2^(I64 - 1) /\ 2^I32 <= 2^(I64 - 1)
<1>1. I32 \in Nat /\ I64 \in Nat /\ 2 <= I32 /\ I32 < I64 /\ PowersOf2(I64)
  BY WidthAssumption
<1>2. /\ I32 - 1 \in 0 .. I64 /\ I64 - 1 \in 0 .. I64 /\ I32 \in 0 .. I64 /\ 1 \in 0 .. I64
      /\ 1 <= I32 - 1 /\ I32 <= I64 - 1 /\ (I32 - 1) + 1 = I32 /\ (I64 - 1) + 1 = I64
      /\ I32 - 1 \in 0 .. (I64 - 1) /\ I64 - 1 \in 0 .. (I64 - 1)
  BY <1>1
<1>3. 2^1 = 2 /\ 2^2 = 4
  OBVIOUS
<1>4. 2^((I32 - 1) + 1) = 2 * 2^(I32 - 1) /\ 2^((I64 - 1) + 1) = 2 * 2^(I64 - 1)
  BY <1>1, <1>2 DEF PowersOf2
<1>5. 2^(I32 - 1) \in Nat \ {0} /\ 2^(I64 - 1) \in Nat \ {0}
  BY <1>1, <1>2, Powers
<1>6. 2^1 <= 2^(I32 - 1) /\ 2^I32 <= 2^(I64 - 1)
  BY <1>1, <1>2, PowersGrow
<1> QED
  BY <1>2, <1>3, <1>4, <1>5, <1>6

LEMMA Kinds ==
  /\ \A w : IsInt(IntType(w)) /\ ~IsTensor(IntType(w)) /\ IntType(w) # IndexType
            /\ IntType(w) # FloatType /\ Width(IntType(w)) = w /\ IntType(w)[2] = w
  /\ ~IsInt(FloatType) /\ ~IsTensor(FloatType) /\ FloatType # IndexType
  /\ ~IsInt(IndexType) /\ ~IsTensor(IndexType)
  /\ \A e, n : LET t == TensorType(e, n)
               IN IsTensor(t) /\ ~IsInt(t) /\ t # FloatType /\ t # IndexType /\ t[2] = e /\ t[3] = n
  /\ \A t : IsInt(t) => ~IsTensor(t) /\ t # IndexType /\ t # FloatType /\ Width(t) = t[2]
  /\ \A t : IsTensor(t) => t # IndexType /\ t # FloatType
BY DEF IntType, IsInt, IsTensor, IndexType, FloatType, Width, TensorType

\* A value of a scalar type.
LEMMA ScalarTyped ==
  ASSUME NEW t, NEW v
  PROVE  /\ Typed(t, v).type = t /\ Typed(t, v).val = v
         /\ ~IsTensor(t) => (WellTyped(Typed(t, v)) <=> Fits(t, v))
         /\ IsInt(t) => (Fits(t, v) <=> v \in Numbers(Width(t)))
         /\ Fits(FloatType, v)
BY Kinds DEF Typed, WellTyped, Fits, Numbers

LEMMA Appended ==
  ASSUME NEW s, IsSequence(s), NEW e
  PROVE  /\ IsSequence(Append(s, e)) /\ Len(s) \in Nat /\ DOMAIN s = 1 .. Len(s)
         /\ DOMAIN Append(s, e) = 1 .. (Len(s) + 1)
         /\ \A i \in 1 .. Len(s) : Append(s, e)[i] = s[i]
         /\ Append(s, e)[Len(s) + 1] = e
<1> DEFINE S == {s[k] : k \in DOMAIN s}
           t == Append(s, e)
<1>1. s \in Seq(S)
  BY DEF IsSequence
<1> HIDE DEF S
<1>2. s \in Seq(S \cup {e})
  BY <1>1
<1>3. /\ t \in Seq(S \cup {e}) /\ Len(s) \in Nat /\ DOMAIN s = 1 .. Len(s)
      /\ DOMAIN t = 1 .. (Len(s) + 1)
      /\ \A i \in 1 .. Len(s) : t[i] = s[i]
      /\ t[Len(s) + 1] = e
  BY <1>2
<1> HIDE DEF t
<1>4. S \cup {e} \subseteq {t[k] : k \in DOMAIN t}
  BY <1>3 DEF S
<1>5. t \in Seq({t[k] : k \in DOMAIN t})
  BY <1>3
<1> QED
  BY <1>3, <1>5 DEF IsSequence, t

LEMMA Written ==
  ASSUME NEW s, IsSequence(s), NEW p \in DOMAIN s, NEW v
  PROVE  LET u == [s EXCEPT ![p] = v]
         IN /\ IsSequence(u) /\ DOMAIN u = DOMAIN s /\ Len(u) = Len(s)
            /\ \A k \in DOMAIN s : u[k] = IF k = p THEN v ELSE s[k]
<1> DEFINE S == {s[k] : k \in DOMAIN s} \cup {v}
           u == [s EXCEPT ![p] = v]
<1>1. s \in Seq(S)
  BY DEF IsSequence
<1> HIDE DEF S
<1>2. /\ u \in Seq(S \cup {v}) /\ Len(u) = Len(s) /\ DOMAIN u = DOMAIN s
      /\ \A k \in DOMAIN s : u[k] = IF k = p THEN v ELSE s[k]
  BY <1>1 DEF S
<1> HIDE DEF u
<1>3. DOMAIN u = 1 .. Len(u) /\ Len(u) \in Nat
  BY <1>2
<1>4. u = [k \in 1 .. Len(u) |-> u[k]]
  BY <1>2
<1>5. u \in Seq({u[k] : k \in DOMAIN u})
  BY <1>3, <1>4
<1> QED
  BY <1>2, <1>5 DEF IsSequence, u

\* The cast of an i32 to index: a position or length stays, a negative number is behind every array.
LEMMA IndexExtended ==
  ASSUME NEW v \in Numbers(I32)
  PROVE  /\ v < 2^(I32 - 1) =>
              SignExtend(v, I32, I64) = v /\ Signed(v, I64) = v /\ Signed(v, I32) = v
         /\ v >= 2^(I32 - 1) => SignExtend(v, I32, I64) >= 2^(I64 - 1) /\ Signed(v, I32) < 0
<1> DEFINE h == 2^(I32 - 1)
           m == 2^I32
           g == 2^(I64 - 1)
           n == 2^I64
<1>1. h \in Nat \ {0} /\ m = 2 * h /\ g \in Nat \ {0} /\ n = 2 * g /\ m <= g
  BY SmallPowers
<1>2. v \in Nat /\ v < m
  BY <1>1 DEF Numbers
<1>3. Signed(v, I32) = IF v < h THEN v ELSE v - m
  BY DEF Signed
<1>4. Signed(v, I64) = IF v < g THEN v ELSE v - n
  BY DEF Signed
<1>5. SignExtend(v, I32, I64) = Signed(v, I32) % n
  BY DEF SignExtend, Wrap
<1> HIDE DEF h, m, g, n
<1>6. CASE v < h
  <2>1. n \in Nat \ {0} /\ v \in 0 .. (n - 1)
    BY <1>1, <1>2
  <2>2. v % n = v
    BY <2>1
  <2>3. v < g
    BY <1>1, <1>2
  <2>4. ~(v >= h)
    BY <1>1, <1>2, <1>6
  <2> QED
    BY <1>3, <1>4, <1>5, <1>6, <2>2, <2>3, <2>4 DEF h
<1>7. CASE v >= h
  <2>1. /\ n \in Nat \ {0} /\ v - m + n \in 0 .. (n - 1) /\ v - m + n >= g
        /\ -1 \in Int /\ v - m = n * (-1) + (v - m + n) /\ v - m < 0 /\ ~(v < h)
    BY <1>1, <1>2, <1>7
  <2>2. (n * (-1) + (v - m + n)) % n = v - m + n
    BY <2>1, Division
  <2>3. (v - m) % n = v - m + n
    BY <2>1, <2>2
  <2> QED
    BY <1>3, <1>5, <1>7, <2>1, <2>3 DEF h, g
<1>8. v < h \/ v >= h
  BY <1>1, <1>2
<1> QED
  BY <1>6, <1>7, <1>8

\* Outcomes.
LEMMA Outcomes ==
  ASSUME NEW t, NEW v, NEW s
  PROVE  /\ Replaced(t, v).status = "converting" /\ Replaced(t, v).value = Typed(t, v)
         /\ Stopped(s).status = s
BY DEF Replaced, Stopped

LEMMA ConstantsConverted ==
  /\ \A w : \A v : ConvertConstant(IntType(w), v) =
                     IF w \in JeffWidths THEN Replaced(IntType(w), v) ELSE Stopped("refused")
  /\ \A v : ConvertConstant(FloatType, v) = Replaced(FloatType, v)
<1>1. ASSUME NEW w, NEW v
      PROVE  ConvertConstant(IntType(w), v) =
                IF w \in JeffWidths THEN Replaced(IntType(w), v) ELSE Stopped("refused")
  <2>1. IntType(w) # IndexType /\ IsInt(IntType(w)) /\ IntType(w) # FloatType
        /\ Width(IntType(w)) = w
    BY Kinds
  <2> DEFINE t == IntType(w)
  <2> HIDE DEF t
  <2>2. t # IndexType /\ IsInt(t) /\ t # FloatType /\ Width(t) = w
    BY <2>1 DEF t
  <2>3. ConvertConstant(t, v) = IF Width(t) \in JeffWidths THEN Replaced(t, v) ELSE Stopped("refused")
    BY <2>2 DEF ConvertConstant
  <2> QED
    BY <2>2, <2>3 DEF t
<1>2. ASSUME NEW v PROVE ConvertConstant(FloatType, v) = Replaced(FloatType, v)
  BY Kinds DEF ConvertConstant
<1> QED
  BY <1>1, <1>2

----------------------------------------------------------------------------
(* An operation on i32 in the place of one on index.                       *)

LEMMA Widths32 ==
  /\ I32 \in Nat \ {0} /\ I64 \in Nat \ {0} /\ PowersOf2(I32) /\ PowersOf2(I64) /\ I32 < I64
  /\ Numbers(I32) \subseteq Numbers(I64)
<1>1. I32 \in Nat \ {0} /\ I64 \in Nat \ {0} /\ PowersOf2(I64) /\ I32 < I64 /\ PowersOf2(I32)
  BY WidthAssumption DEF PowersOf2
<1>2. 2^I32 \in Nat /\ 2^I64 \in Nat /\ 2^I32 <= 2^I64
  BY SmallPowers
<1> QED
  BY <1>1, <1>2 DEF Numbers

LEMMA NarrowWrap ==
  ASSUME NEW x \in Int, Wrap(x, I64) \in Numbers(I32)
  PROVE  Wrap(x, I32) = Wrap(x, I64)
<1> DEFINE m == 2^I32
           k == 2^(I64 - I32)
           y == x % 2^I64
<1>1. m \in Nat \ {0} /\ k \in Nat \ {0} /\ 2^I64 = m * k
  <2>1. /\ I32 \in 0 .. I64 /\ I64 - I32 \in 0 .. I64 /\ I32 + (I64 - I32) = I64
        /\ I64 \in Nat /\ PowersOf2(I64)
    BY Widths32
  <2>2. m \in Nat \ {0} /\ k \in Nat \ {0}
    BY <2>1, Powers
  <2>3. 2^(I32 + (I64 - I32)) = 2^I32 * 2^(I64 - I32)
    BY <2>1, PowerOfSum
  <2> QED
    BY <2>1, <2>2, <2>3
<1>2. y \in 0 .. (m - 1)
  BY DEF Wrap, Numbers
<1>3. y % m = x % m
  <2> HIDE DEF m, k
  <2>1. (x % (m * k)) % m = x % m
    BY <1>1, RemainderOfRemainder
  <2> QED
    BY <1>1, <2>1
<1>4. y % m = y
  <2> HIDE DEF m, y
  <2> QED
    BY <1>1, <1>2
<1> QED
  BY <1>3, <1>4 DEF Wrap

LEMMA NarrowBits ==
  /\ \A v \in Numbers(I32) : Bits(v, I64) = Bits(v, I32)
  /\ \A s \in SUBSET (0 .. (I32 - 1)) : OfBits(s, I64) = OfBits(s, I32)
<1>1. ASSUME NEW v \in Numbers(I32) PROVE Bits(v, I64) = Bits(v, I32)
  <2>1. ASSUME NEW k \in I32 .. (I64 - 1) PROVE (v \div 2^k) % 2 # 1
    <3> DEFINE m == 2^k
    <3>1. I32 \in 0 .. I64 /\ k \in 0 .. I64 /\ I32 <= k /\ I64 \in Nat /\ PowersOf2(I64)
      BY Widths32
    <3>2. m \in Nat \ {0} /\ 2^I32 <= m /\ 2^I32 \in Nat
      BY <3>1, Powers, PowersGrow
    <3>3. v \in Nat /\ v < 2^I32
      BY <3>2 DEF Numbers
    <3> HIDE DEF m
    <3>4. 0 \in Int /\ v \in 0 .. (m - 1) /\ m * 0 + v = v
      BY <3>2, <3>3
    <3>5. (m * 0 + v) \div m = 0
      BY <3>2, <3>4, Division
    <3>6. v \div m = 0
      BY <3>4, <3>5
    <3> QED
      BY <3>6 DEF m
  <2>2. I32 .. (I64 - 1) = (0 .. (I64 - 1)) \ (0 .. (I32 - 1)) /\ 0 .. (I32 - 1) \subseteq 0 .. (I64 - 1)
    BY Widths32
  <2> QED
    BY <2>1, <2>2 DEF Bits
<1>2. ASSUME NEW s \in SUBSET (0 .. (I32 - 1)) PROVE OfBits(s, I64) = OfBits(s, I32)
  <2> DEFINE v == OfBits(s, I32)
  <2>1. v \in Numbers(I32) /\ Bits(v, I32) = s
    BY BitsAndBack, Widths32
  <2>2. v \in Numbers(I64) /\ Bits(v, I64) = s
    BY <1>1, <2>1, Widths32
  <2> HIDE DEF v
  <2>3. OfBits(Bits(v, I64), I64) = v
    BY <2>2, BitsAndBack, Widths32
  <2> QED
    BY <2>2, <2>3 DEF v
<1> QED
  BY <1>1, <1>2

\* Positions and lengths an i32 can hold.
Small == 0 .. (2^(I32 - 1) - 1)

LEMMA SmallTyped ==
  /\ Small \subseteq Nat /\ Small \subseteq Numbers(I32) /\ Small \subseteq Numbers(I64)
  /\ \A v \in Nat : v \in Small <=> v < 2^(I32 - 1)
  /\ \A v \in Small : /\ Signed(v, I32) = v /\ Signed(v, I64) = v
                      /\ v # 2^(I32 - 1) /\ v < 2^(I32 - 1)
                      /\ Wrap(v, I32) = v
<1>1. Small \subseteq Nat /\ Small \subseteq Numbers(I32)
  BY SmallPowers DEF Small, Numbers
<1>2. Small \subseteq Numbers(I64)
  BY <1>1, Widths32
<1>3. \A v \in Nat : v \in Small <=> v < 2^(I32 - 1)
  BY SmallPowers DEF Small
<1>4. \A v \in Small : v < 2^(I32 - 1) /\ v # 2^(I32 - 1)
  BY SmallPowers DEF Small
<1>5. \A v \in Small : Signed(v, I32) = v /\ Signed(v, I64) = v
  BY <1>1, <1>4, IndexExtended
<1>6. \A v \in Small : Wrap(v, I32) = v
  BY <1>1, Wrapped, Widths32
<1> QED
  BY <1>1, <1>2, <1>3, <1>4, <1>5, <1>6

LEMMA NarrowBinary ==
  ASSUME NEW op \in BinaryOps, NEW a \in Small, NEW b \in Small, BinaryDefined(op, a, b, I64),
         op \in {"shl", "shr"} => b < I32
  PROVE  /\ BinaryDefined(op, a, b, I32)
         /\ Binary(op, a, b, I64) \in Small => Binary(op, a, b, I32) = Binary(op, a, b, I64)
<1>1. /\ a \in Nat /\ b \in Nat /\ a \in Numbers(I32) /\ b \in Numbers(I32)
      /\ Signed(a, I32) = a /\ Signed(a, I64) = a /\ Signed(b, I32) = b /\ Signed(b, I64) = b
      /\ a # 2^(I32 - 1)
  BY SmallTyped
<1>2. BinaryDefined(op, a, b, I32)
  BY <1>1 DEF BinaryDefined
<1>3. ASSUME \E x \in Int : Binary(op, a, b, I64) = Wrap(x, I64) /\ Binary(op, a, b, I32) = Wrap(x, I32),
             Binary(op, a, b, I64) \in Small
      PROVE  Binary(op, a, b, I32) = Binary(op, a, b, I64)
  BY <1>3, NarrowWrap, SmallTyped
<1>4. \E x \in Int : Binary(op, a, b, I64) = Wrap(x, I64) /\ Binary(op, a, b, I32) = Wrap(x, I32)
  <2>1. CASE op \in {"add", "sub"}
    <3>1. a + b \in Int /\ a - b \in Int
      BY <1>1
    <3> QED
      BY <1>1, <2>1, <3>1 DEF Binary
  <2>2. CASE op = "mul"
    <3>1. a * b \in Int
      BY <1>1
    <3> QED
      BY <2>2, <3>1 DEF Binary
  <2>3. CASE op = "divS"
    <3>1. Quotient(a, b) \in Int
      BY <1>1, <2>3, QuotientTyped DEF BinaryDefined
    <3> QED
      BY <1>1, <2>3, <3>1 DEF Binary
  <2>4. CASE op \in {"divU", "remU"}
    <3>1. a \div b \in Int /\ a % b \in Int
      BY <1>1, <2>4 DEF BinaryDefined
    <3> QED
      BY <2>4, <3>1 DEF Binary
  <2>5. CASE op = "pow"
    <3> DEFINE x == IF b = 0 THEN 1 ELSE IF a = 0 THEN 0 ELSE a^b
    <3>1. x \in Int
      BY <1>1
    <3>2. Binary(op, a, b, I64) = Wrap(x, I64) /\ Binary(op, a, b, I32) = Wrap(x, I32)
      BY <1>1, <2>5 DEF Binary
    <3> QED
      BY <3>1, <3>2
  <2>6. CASE op \in {"and", "or", "xor"}
    <3> DEFINE s == CASE op = "and" -> Bits(a, I32) \cap Bits(b, I32)
                      [] op = "or" -> Bits(a, I32) \cup Bits(b, I32)
                      [] op = "xor" -> SymDiff(Bits(a, I32), Bits(b, I32))
    <3>1. Bits(a, I64) = Bits(a, I32) /\ Bits(b, I64) = Bits(b, I32)
      BY <1>1, NarrowBits
    <3>2. s \in SUBSET (0 .. (I32 - 1))
      BY <2>6 DEF Bits, SymDiff
    <3>3. OfBits(s, I64) = OfBits(s, I32) /\ OfBits(s, I32) \in Numbers(I32)
      <4> HIDE DEF s
      <4> QED
        BY <3>2, NarrowBits, BitsAndBack, Widths32
    <3>4. OfBits(s, I32) \in Int
      <4> HIDE DEF s
      <4>1. Numbers(I32) \subseteq Nat
        BY NumbersTyped, Widths32
      <4> QED
        BY <3>3, <4>1
    <3>5. Binary(op, a, b, I64) = Wrap(OfBits(s, I64), I64) /\ Binary(op, a, b, I32) = Wrap(OfBits(s, I32), I32)
      BY <2>6, <3>1 DEF Binary
    <3> HIDE DEF s
    <3> QED
      BY <3>3, <3>4, <3>5
  <2>7. CASE op \in {"minS", "minU", "maxS", "maxU"}
    BY <1>1, <2>7 DEF Binary
  <2>8. CASE op = "remS"
    <3>1. Quotient(a, b) \in Int
      BY <1>1, <2>8, QuotientTyped DEF BinaryDefined
    <3>2. a - b * Quotient(a, b) \in Int
      BY <1>1, <3>1
    <3> QED
      BY <1>1, <2>8, <3>2 DEF Binary
  <2>9. CASE op \in {"shl", "shr"}
    <3>1. 2^b \in Nat \ {0}
      <4>1. b \in 0 .. I32
        BY <1>1, <2>9, Widths32
      <4> QED
        BY <4>1, Powers, Widths32
    <3>2. a * 2^b \in Int /\ a \div 2^b \in Int
      BY <1>1, <3>1
    <3> QED
      BY <1>1, <2>9, <3>2 DEF Binary
  <2> QED
    BY <2>1, <2>2, <2>3, <2>4, <2>5, <2>6, <2>7, <2>8, <2>9 DEF BinaryOps
<1> QED
  BY <1>2, <1>3, <1>4

=============================================================================
