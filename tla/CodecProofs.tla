---------------------------- MODULE CodecProofs ----------------------------
(***************************************************************************)
(* PlaneCodec for planes of every size and depth: the arithmetic of        *)
(* residuals, the bits of a number and the tree of a predictor come back,  *)
(* and the two decoders give back what the two encoders wrote, in step     *)
(* with them, alone and among all coders.  The orders of events in         *)
(* PlaneModes.  And wide samples in Container, with what describes them:   *)
(* what is written is accepted and comes back.                             *)
(***************************************************************************)
EXTENDS WebDecoder, SequenceTheorems, FiniteSetTheorems, WellFoundedInduction, TLAPS

(* Counting.  A set of numbers that is not empty has a smallest one.        *)

LEMMA Smallest ==
  ASSUME NEW S \in SUBSET Nat, S # {}
  PROVE  \E n \in S : \A m \in S : n <= m
<1>1. \E n \in S : \A m \in S : ~ (<<m, n>> \in OpToRel(<, Nat))
  BY NatLessThanWellFounded, WFMin
<1>2. PICK n \in S : \A m \in S : ~ (m < n)
  BY <1>1 DEF OpToRel
<1> QED
  BY <1>2

LEMMA Induction ==
  ASSUME NEW S, 0 \in S, \A n \in Nat : n \in S => n + 1 \in S
  PROVE  \A n \in Nat : n \in S
<1> SUFFICES ASSUME ~ \A n \in Nat : n \in S PROVE FALSE
  OBVIOUS
<1> DEFINE Missing == {n \in Nat : n \notin S}
<1>1. Missing # {} /\ Missing \in SUBSET Nat
  OBVIOUS
<1>2. PICK n \in Missing : \A m \in Missing : n <= m
  <2> HIDE DEF Missing
  <2> QED
    BY <1>1, Smallest
<1>3. n # 0 /\ n - 1 \in Nat /\ n - 1 \notin Missing
  BY <1>2
<1> QED
  BY <1>2, <1>3

LEMMA MaxOfTwo ==
  ASSUME NEW a \in Int, NEW b \in Int
  PROVE  Max({a, b}) = IF a >= b THEN a ELSE b
<1> DEFINE c == IF a >= b THEN a ELSE b
<1>1. c \in {a, b} /\ \A y \in {a, b} : c >= y
  OBVIOUS
<1>2. \A x \in {a, b} : (\A y \in {a, b} : x >= y) => x = c
  OBVIOUS
<1> HIDE DEF c
<1>3. Max({a, b}) = c
  BY <1>1, <1>2, Zenon DEF Max
<1> QED
  BY <1>3 DEF c

LEMMA MinOfTwo ==
  ASSUME NEW a \in Int, NEW b \in Int
  PROVE  Min({a, b}) = IF a <= b THEN a ELSE b
<1> DEFINE c == IF a <= b THEN a ELSE b
<1>1. c \in {a, b} /\ \A y \in {a, b} : c <= y
  OBVIOUS
<1>2. \A x \in {a, b} : (\A y \in {a, b} : x <= y) => x = c
  OBVIOUS
<1> HIDE DEF c
<1>3. Min({a, b}) = c
  BY <1>1, <1>2, Zenon DEF Min
<1> QED
  BY <1>3 DEF c

-----------------------------------------------------------------------------
(* Powers of two, and the bits of a number.                                 *)

\* The powers up to the n-th.
Doublings(n) == {q \in [0..n -> Nat] : q[0] = 1 /\ \A i \in 1..n : q[i] = 2 * q[i - 1]}

LEMMA DoublingsAgree ==
  ASSUME NEW m \in Nat, NEW n \in Nat, NEW q \in Doublings(m), NEW r \in Doublings(n)
  PROVE  \A i \in Nat : i <= m /\ i <= n => q[i] = r[i]
<1> DEFINE Same == {i \in Nat : i <= m /\ i <= n => q[i] = r[i]}
<1>1. 0 \in Same
  BY DEF Doublings
<1>2. ASSUME NEW i \in Nat, i \in Same PROVE i + 1 \in Same
  <2> SUFFICES ASSUME i + 1 <= m, i + 1 <= n PROVE q[i + 1] = r[i + 1]
    OBVIOUS
  <2>1. i + 1 \in 1..m /\ i + 1 \in 1..n /\ (i + 1) - 1 = i
    OBVIOUS
  <2>2. q[i + 1] = 2 * q[i] /\ r[i + 1] = 2 * r[i]
    BY <2>1 DEF Doublings
  <2> QED
    BY <1>2, <2>2
<1>3. \A i \in Nat : i \in Same
  <2> HIDE DEF Same
  <2> QED
    BY <1>1, <1>2, Induction
<1> QED
  BY <1>3

LEMMA DoublingsExist == \A n \in Nat : Doublings(n) # {}
<1> DEFINE Some == {k \in Nat : Doublings(k) # {}}
<1>1. 0 \in Some
  <2>1. [i \in 0..0 |-> 1] \in Doublings(0)
    BY DEF Doublings
  <2> QED
    BY <2>1
<1>2. ASSUME NEW k \in Nat, k \in Some PROVE k + 1 \in Some
  <2>1. PICK q : q \in Doublings(k)
    BY <1>2
  <2> DEFINE r == [i \in 0..k + 1 |-> IF i <= k THEN q[i] ELSE 2 * q[k]]
  <2>2. q \in [0..k -> Nat] /\ q[0] = 1 /\ \A i \in 1..k : q[i] = 2 * q[i - 1]
    BY <2>1 DEF Doublings
  <2>3. r \in [0..k + 1 -> Nat] /\ r[0] = 1
    BY <2>2
  <2>4. \A i \in 1..k + 1 : r[i] = 2 * r[i - 1]
    BY <2>2
  <2> HIDE DEF r
  <2>5. r \in Doublings(k + 1)
    BY <2>3, <2>4 DEF Doublings
  <2> QED
    BY <2>5
<1>3. \A n \in Nat : n \in Some
  <2> HIDE DEF Some
  <2> QED
    BY <1>1, <1>2, Induction
<1> QED
  BY <1>3

LEMMA Powers ==
  /\ Power \in [Nat -> Nat] /\ Power[0] = 1
  /\ \A n \in Nat : Power[n + 1] = 2 * Power[n]
  /\ \A n \in Nat \ {0} : Power[n] = 2 * Power[n - 1]
<1> DEFINE first(n) == CHOOSE q \in Doublings(n) : TRUE
           f == [n \in Nat |-> first(n)[n]]
<1>1. ASSUME NEW n \in Nat PROVE first(n) \in Doublings(n)
  BY DoublingsExist
<1> HIDE DEF first
<1>2. f \in [Nat -> Nat] /\ f[0] = 1
  BY <1>1 DEF Doublings
<1>3. ASSUME NEW n \in Nat, n # 0 PROVE f[n] = 2 * f[n - 1]
  <2>1. n - 1 \in Nat /\ n \in 1..n /\ n - 1 <= n /\ n - 1 <= n - 1
    BY <1>3
  <2>2. first(n)[n] = 2 * first(n)[n - 1]
    BY <1>1, <2>1 DEF Doublings
  <2>3. first(n)[n - 1] = first(n - 1)[n - 1]
    BY <1>1, <2>1, DoublingsAgree
  <2> QED
    BY <2>1, <2>2, <2>3
<1> HIDE DEF f
<1>4. f = [n \in Nat |-> IF n = 0 THEN 1 ELSE 2 * f[n - 1]]
  BY <1>2, <1>3
<1>5. Power = [n \in Nat |-> IF n = 0 THEN 1 ELSE 2 * Power[n - 1]]
  BY <1>4 DEF Power
<1>6. Power[0] = 1
  BY <1>5
<1>7. ASSUME NEW n \in Nat PROVE Power[n + 1] = 2 * Power[n]
  <2>1. n + 1 \in Nat /\ n + 1 # 0 /\ (n + 1) - 1 = n
    OBVIOUS
  <2> QED
    BY <1>5, <2>1
<1>8. \A n \in Nat : Power[n] \in Nat
  <2> DEFINE Natural == {n \in Nat : Power[n] \in Nat}
  <2>1. 0 \in Natural /\ \A n \in Nat : n \in Natural => n + 1 \in Natural
    BY <1>6, <1>7
  <2>2. \A n \in Nat : n \in Natural
    <3> HIDE DEF Natural
    <3> QED
      BY <2>1, Induction
  <2> QED
    BY <2>2
<1> QED
  BY <1>5, <1>6, <1>7, <1>8

\* A power is above its exponent.
LEMMA PowersPositive == \A n \in Nat : Power[n] \in Nat \ {0} /\ n < Power[n]
<1> DEFINE Above == {n \in Nat : n < Power[n]}
<1>1. 0 \in Above /\ \A n \in Nat : n \in Above => n + 1 \in Above
  BY Powers
<1>2. \A n \in Nat : n \in Above
  <2> HIDE DEF Above
  <2> QED
    BY <1>1, Induction
<1> QED
  BY <1>2, Powers

LEMMA PowersGrow ==
  ASSUME NEW m \in Nat, NEW n \in Nat, m <= n
  PROVE  Power[m] <= Power[n]
<1> DEFINE Further == {k \in Nat : Power[m] <= Power[m + k]}
<1>1. 0 \in Further
  BY Powers
<1>2. ASSUME NEW k \in Nat, k \in Further PROVE k + 1 \in Further
  <2>1. m + k \in Nat /\ (m + k) + 1 = m + (k + 1)
    OBVIOUS
  <2>2. Power[m + (k + 1)] = 2 * Power[m + k]
    BY <2>1, Powers
  <2> QED
    BY <1>2, <2>1, <2>2, Powers
<1>3. \A k \in Nat : k \in Further
  <2> HIDE DEF Further
  <2> QED
    BY <1>1, <1>2, Induction
<1>4. n - m \in Nat /\ m + (n - m) = n
  OBVIOUS
<1>5. n - m \in Further
  BY <1>3, <1>4
<1> QED
  BY <1>4, <1>5

LEMMA BitsIs ==
  ASSUME NEW v \in Nat
  PROVE  /\ Bits(v) \in 0..v /\ v < Power[Bits(v)]
         /\ Bits(v) > 0 => Power[Bits(v) - 1] <= v
<1> DEFINE S == {k \in Nat : v < Power[k]}
<1>1. v \in S /\ S \in SUBSET Nat
  BY PowersPositive
<1>2. PICK k \in S : \A m \in S : k <= m
  <2> HIDE DEF S
  <2> QED
    BY <1>1, Smallest
<1>3. k \in 0..v
  BY <1>1, <1>2
<1>4. k > 0 => Power[k - 1] <= v
  <2> SUFFICES ASSUME k > 0 PROVE Power[k - 1] <= v
    OBVIOUS
  <2>1. k - 1 \in Nat /\ k - 1 \notin S
    BY <1>2
  <2> QED
    BY <2>1, Powers
<1>5. \E j \in 0..v : v < Power[j] /\ (j > 0 => Power[j - 1] <= v)
  BY <1>2, <1>3, <1>4
<1> QED
  BY <1>5 DEF Bits

\* A number below the n-th power has at most n bits.
LEMMA BitsBelow ==
  ASSUME NEW v \in Nat, NEW n \in Nat, v < Power[n]
  PROVE  Bits(v) <= n
<1>1. Bits(v) \in Nat /\ (Bits(v) > 0 => Power[Bits(v) - 1] <= v)
  BY BitsIs
<1> SUFFICES ASSUME Bits(v) > n PROVE FALSE
  BY <1>1
<1>2. Bits(v) - 1 \in Nat /\ n <= Bits(v) - 1
  BY <1>1
<1>3. Power[n] <= Power[Bits(v) - 1]
  BY <1>2, PowersGrow
<1> QED
  BY <1>1, <1>2, <1>3, Powers

LEMMA ZeroHasNoBits == Bits(0) = 0
BY BitsIs

LEMMA Apart ==
  ASSUME NEW d \in Nat \ {0}, NEW a \in Int, NEW b \in Int, a < b
  PROVE  d * a + d <= d * b
<1>1. d * (a + 1) <= d * b
  OBVIOUS
<1> QED
  BY <1>1

LEMMA QuotientIs ==
  ASSUME NEW d \in Nat \ {0}, NEW n \in Nat
  PROVE  n = d * (n \div d) + (n % d) /\ n % d \in 0..d - 1 /\ n \div d \in Nat
<1> DEFINE q == n \div d
           r == n % d
<1>1. n = d * q + r /\ r \in 0..d - 1 /\ q \in Int
  OBVIOUS
<1> HIDE DEF q, r
<1>2. q >= 0
  <2>1. SUFFICES ASSUME q <= -1 PROVE FALSE
    BY <1>1
  <2>2. d * q <= -d
    BY <1>1, <2>1
  <2> QED
    BY <1>1, <2>2
<1> QED
  BY <1>1, <1>2 DEF q, r

\* A number as its half and its lowest bit, above any place.
LEMMA Halved ==
  ASSUME NEW v \in Nat, NEW p \in Nat \ {0}
  PROVE  /\ v \div p = 2 * (v \div (2 * p)) + ((v \div p) % 2)
         /\ (v \div p) % 2 \in {0, 1} /\ v \div p \in Nat
<1> DEFINE q == v \div p
           r == v % p
           a == v \div (2 * p)
           b == v % (2 * p)
           c == q \div 2
           d == q % 2
<1>1. v = p * q + r /\ r \in 0..p - 1 /\ q \in Nat
  BY QuotientIs
<1>2. v = 2 * p * a + b /\ b \in 0..2 * p - 1 /\ a \in Nat
  <2>1. 2 * p \in Nat \ {0}
    OBVIOUS
  <2> QED
    BY <2>1, QuotientIs
<1>3. q = 2 * c + d /\ d \in {0, 1} /\ c \in Nat
  BY <1>1
<1> HIDE DEF q, r, a, b, c, d
<1>4. p * q = 2 * (p * c) + p * d
  BY <1>1, <1>3
<1>5. a = c
  <2> DEFINE pa == p * a
             pc == p * c
  <2>1. p * d \in {0, p}
    BY <1>3
  <2>2. 2 * p * a = 2 * pa /\ pa \in Nat /\ pc \in Nat
    BY <1>2, <1>3
  <2>3. (a < c => pa + p <= pc) /\ (c < a => pc + p <= pa)
    <3>1. a \in Int /\ c \in Int
      BY <1>2, <1>3
    <3> QED
      BY <3>1, Apart, Zenon
  <2> HIDE DEF pa, pc
  <2>5. p * q = 2 * pc + p * d
    BY <1>4 DEF pc
  <2>6. v = 2 * pa + b /\ v = 2 * pc + p * d + r
    BY <1>1, <1>2, <2>2, <2>5
  <2> DEFINE pd == p * d
  <2>7. pd \in {0, p} /\ v = 2 * pc + pd + r
    BY <2>1, <2>6
  <2> HIDE DEF pd
  <2> QED
    BY <1>1, <1>2, <1>3, <2>2, <2>3, <2>6, <2>7
<1>6. q = 2 * a + d /\ d \in {0, 1} /\ q \in Nat
  BY <1>1, <1>3, <1>5
<1> QED
  BY <1>6 DEF q, a, d

\* What the decoder makes of the upper n of m bits of v.
LEMMA BitsValueIs ==
  ASSUME NEW r \in Nat, NEW m \in Nat, NEW v \in Nat, NEW n \in 0..m,
         \A j \in 1..n : BitAt(r + j) = (v \div Power[m - j]) % 2
  PROVE  BitsValue(r, n) = (v \div Power[m - n]) - Power[n] * (v \div Power[m])
<1> DEFINE from(h) == [j \in 0..n |-> IF j = 0 THEN 0 ELSE 2 * h[j - 1] + BitAt(r + j)]
           read0 == CHOOSE h : h = from(h)
           told == [j \in 0..n |-> (v \div Power[m - j]) - Power[j] * (v \div Power[m])]
<1>1. BitsValue(r, n) = read0[n]
  BY DEF BitsValue
<1>2. told = from(told)
  <2>1. ASSUME NEW j \in 0..n
        PROVE  told[j] = IF j = 0 THEN 0 ELSE 2 * told[j - 1] + BitAt(r + j)
    <3>1. CASE j = 0
      <4>1. v \div Power[m] \in Nat
        BY Halved, PowersPositive
      <4> QED
        BY <3>1, <4>1, Powers
    <3>2. CASE j # 0
      <4> DEFINE p == Power[m - j]
                 c == v \div Power[m]
                 w == Power[j - 1]
      <4>1. j - 1 \in 0..n /\ j \in 1..n /\ m - j \in Nat /\ m - (j - 1) \in Nat \ {0}
            /\ (m - (j - 1)) - 1 = m - j /\ j - 1 \in Nat /\ j \in Nat \ {0}
        BY <3>2
      <4>2. Power[m - (j - 1)] = 2 * p /\ Power[j] = 2 * w /\ p \in Nat \ {0} /\ w \in Nat
        BY <4>1, Powers, PowersPositive
      <4>3. c \in Nat
        BY Halved, PowersPositive
      <4>4. told[j] = (v \div p) - (2 * w) * c
        BY <4>1, <4>2
      <4>5. told[j - 1] = (v \div (2 * p)) - w * c
        BY <4>1, <4>2
      <4>6. BitAt(r + j) = (v \div p) % 2
        BY <4>1
      <4> HIDE DEF p, c, w, told
      <4>7. v \div p = 2 * (v \div (2 * p)) + ((v \div p) % 2) /\ (v \div p) % 2 \in {0, 1}
        BY <4>2, Halved
      <4>8. v \div (2 * p) \in Nat
        <5>1. 2 * p \in Nat \ {0}
          BY <4>2
        <5> QED
          BY <5>1, Halved
      <4>9. (2 * w) * c = 2 * (w * c) /\ w * c \in Nat
        BY <4>2, <4>3
      <4> DEFINE a == v \div p
                 b == v \div (2 * p)
                 d == (v \div p) % 2
                 x == w * c
                 y == (2 * w) * c
      <4>10. told[j] = a - y /\ told[j - 1] = b - x /\ BitAt(r + j) = d
        BY <4>4, <4>5, <4>6
      <4>11. a = 2 * b + d /\ d \in {0, 1} /\ b \in Nat
        BY <4>7, <4>8
      <4>12. y = 2 * x /\ x \in Nat
        BY <4>9
      <4> HIDE DEF a, b, d, x, y
      <4> QED
        BY <3>2, <4>10, <4>11, <4>12
    <3> QED
      BY <3>1, <3>2
  <2> HIDE DEF told
  <2>2. told = [j \in 0..n |-> told[j]]
    BY DEF told
  <2> QED
    BY <2>1, <2>2
<1>3. read0 = from(read0)
  <2>1. \E h : h = from(h)
    BY <1>2
  <2> HIDE DEF from
  <2> QED
    BY <2>1
<1> HIDE DEF read0, told
<1>4. read0[n] = told[n]
  <2> DEFINE Same == {j \in Nat : j \in 0..n => read0[j] = told[j]}
  <2>1. 0 \in Same
    BY <1>2, <1>3
  <2>2. ASSUME NEW j \in Nat, j \in Same PROVE j + 1 \in Same
    <3> SUFFICES ASSUME j + 1 \in 0..n PROVE read0[j + 1] = told[j + 1]
      OBVIOUS
    <3>1. j \in 0..n /\ (j + 1) - 1 = j /\ j + 1 # 0
      OBVIOUS
    <3>2. read0[j] = told[j]
      BY <2>2, <3>1
    <3>3. read0[j + 1] = 2 * read0[j] + BitAt(r + (j + 1))
      BY <1>3, <3>1
    <3>4. told[j + 1] = 2 * told[j] + BitAt(r + (j + 1))
      BY <1>2, <3>1
    <3> QED
      BY <3>2, <3>3, <3>4
  <2>3. \A j \in Nat : j \in Same
    <3> HIDE DEF Same
    <3> QED
      BY <2>1, <2>2, Induction
  <2> QED
    BY <2>3
<1> QED
  BY <1>1, <1>4 DEF told

\* The division by the power above a number, and by the one below it.
LEMMA LeadingBit ==
  ASSUME NEW v \in Nat, NEW p \in Nat \ {0}
  PROVE  /\ v < p => v \div p = 0
         /\ p <= v /\ v < 2 * p => v \div p = 1
<1> DEFINE q == v \div p
<1>1. v = p * q + (v % p) /\ v % p \in 0..p - 1 /\ q \in Nat
  BY QuotientIs
<1> HIDE DEF q
<1> DEFINE pq == p * q
           zero == 0
           one == 1
<1>5. q \in Int /\ zero \in Int /\ one \in Int
  BY <1>1
<1> HIDE DEF zero, one
<1>6. (zero < q => p * zero + p <= pq) /\ (one < q => p * one + p <= pq)
  BY <1>5, Apart, Zenon
<1>7. p * zero = 0 /\ p * one = p /\ (q = 0 => pq = 0) /\ pq \in Int
  BY <1>5 DEF zero, one
<1>8. v = pq + (v % p)
  BY <1>1
<1> HIDE DEF pq
<1>9. (0 < q => p <= pq) /\ (1 < q => 2 * p <= pq)
  BY <1>6, <1>7 DEF zero, one
<1>2. ASSUME v < p PROVE q = 0
  BY <1>1, <1>2, <1>7, <1>8, <1>9
<1>3. ASSUME p <= v, v < 2 * p PROVE q = 1
  BY <1>1, <1>3, <1>7, <1>8, <1>9
<1> QED
  BY <1>2, <1>3 DEF q

-----------------------------------------------------------------------------
(* Residuals.                                                               *)

LEMMA Levels ==
  ASSUME shape \in Shapes
  PROVE  half \in Nat \ {0} /\ M = 2 * half /\ maxv = 2 * half - 1
<1>1. shape.depth \in Nat \ {0}
  BY ShapesAssumption
<1>2. shape.depth - 1 \in Nat
  BY <1>1
<1>3. M = 2 * Power[shape.depth - 1] /\ Power[shape.depth - 1] \in Nat \ {0}
  BY <1>1, <1>2, Powers, PowersPositive DEF M
<1> QED
  BY <1>3 DEF half, maxv

LEMMA ModSame ==
  ASSUME NEW d \in Nat \ {0}, NEW n \in 0..d - 1
  PROVE  n % d = n
OBVIOUS

LEMMA ModBelow ==
  ASSUME NEW d \in Nat \ {0}, NEW n \in -d..-1
  PROVE  n % d = n + d
OBVIOUS

LEMMA ModAbove ==
  ASSUME NEW d \in Nat \ {0}, NEW n \in d..2 * d - 1
  PROVE  n % d = n - d
OBVIOUS

LEMMA ResidualCases ==
  ASSUME shape \in Shapes, NEW s \in 0..maxv, NEW p \in 0..maxv
  PROVE  \/ s - p \in -half..half - 1 /\ Residual(s, p) = s - p
         \/ s - p < -half /\ Residual(s, p) = s - p + M
         \/ s - p >= half /\ Residual(s, p) = s - p - M
<1>1. half \in Nat \ {0} /\ M = 2 * half /\ maxv = 2 * half - 1
  BY Levels
<1> DEFINE n == s - p + half
<1>2. n \in Int /\ n > -half /\ n < 3 * half
  BY <1>1
<1>3. Residual(s, p) = (n % M) - half
  BY DEF Residual
<1> HIDE DEF n
<1>4. CASE n < 0
  <2>1. n \in -M..-1 /\ M \in Nat \ {0}
    BY <1>1, <1>2, <1>4
  <2>2. n % M = n + M
    BY <2>1, ModBelow
  <2> QED
    BY <1>1, <1>3, <1>4, <2>2 DEF n
<1>5. CASE n >= M
  <2>1. n \in M..2 * M - 1 /\ M \in Nat \ {0}
    BY <1>1, <1>2, <1>5
  <2>2. n % M = n - M
    BY <2>1, ModAbove
  <2> QED
    BY <1>1, <1>3, <1>5, <2>2 DEF n
<1>6. CASE n >= 0 /\ n < M
  <2>1. n \in 0..M - 1 /\ M \in Nat \ {0}
    BY <1>1, <1>2, <1>6
  <2>2. n % M = n
    BY <2>1, ModSame
  <2> QED
    BY <1>1, <1>3, <1>6, <2>2 DEF n
<1> QED
  BY <1>1, <1>2, <1>4, <1>5, <1>6

LEMMA ResidualRange ==
  ASSUME shape \in Shapes, NEW s \in 0..maxv, NEW p \in 0..maxv
  PROVE  Residual(s, p) \in -half..half - 1
<1>1. half \in Nat \ {0} /\ M = 2 * half /\ maxv = 2 * half - 1
  BY Levels
<1> QED
  BY <1>1, ResidualCases

\* map_res gives each residual a code of its own in the range of the samples,
\* and unmap_res gives it back, in both of their forms and at every depth.
THEOREM MapReversible ==
  ASSUME shape \in Shapes, pos \in BOOLEAN, NEW e \in -half..half - 1
  PROVE  MapRes(e) \in 0..maxv /\ UnmapRes(MapRes(e)) = e /\ (MapRes(e) = 0 <=> e = 0)
<1>1. half \in Nat \ {0} /\ maxv = 2 * half - 1
  BY Levels
<1>2. CASE ~pos
  BY <1>1, <1>2 DEF MapRes, UnmapRes
<1>3. CASE pos
  <2>1. CASE e = -half
    BY <1>1, <1>3, <2>1 DEF MapRes, UnmapRes
  <2>2. CASE e # -half
    BY <1>1, <1>3, <2>2 DEF MapRes, UnmapRes
  <2> QED
    BY <2>1, <2>2
<1> QED
  BY <1>2, <1>3

\* A sample comes back from its code, whatever the prediction was, at every
\* depth: the step on which every decoder of stream.c rests.
THEOREM SampleReversible ==
  ASSUME shape \in Shapes, pos \in BOOLEAN, NEW s \in 0..maxv, NEW p \in 0..maxv
  PROVE  Restored(p, UnmapRes(MapRes(Residual(s, p)))) = s
<1>1. half \in Nat \ {0} /\ M = 2 * half /\ maxv = 2 * half - 1
  BY Levels
<1> DEFINE e == Residual(s, p)
<1>2. e \in -half..half - 1 /\ UnmapRes(MapRes(e)) = e
  BY ResidualRange, MapReversible
<1>3. e = s - p \/ e = s - p + M \/ e = s - p - M
  BY ResidualCases
<1>4. SUFFICES (p + e) % M = s
  BY <1>2 DEF Restored
<1> HIDE DEF e
<1>5. CASE e = s - p
  <2>1. p + e \in 0..M - 1 /\ M \in Nat \ {0}
    BY <1>1, <1>5
  <2> QED
    BY <1>5, <2>1, ModSame
<1>6. CASE e = s - p + M
  <2>1. p + e \in M..2 * M - 1 /\ M \in Nat \ {0}
    BY <1>1, <1>6
  <2> QED
    BY <1>6, <2>1, ModAbove, <1>1
<1>7. CASE e = s - p - M
  <2>1. p + e \in -M..-1 /\ M \in Nat \ {0}
    BY <1>1, <1>7
  <2> QED
    BY <1>7, <2>1, ModBelow, <1>1
<1> QED
  BY <1>3, <1>5, <1>6, <1>7

-----------------------------------------------------------------------------

LEMMA ClampRange ==
  ASSUME shape \in Shapes, NEW n \in Int
  PROVE  Clamp(n) \in 0..maxv
BY Levels DEF Clamp

\* The neighbours a predictor is given, when they are samples of the plane.
SampleValues == [W : 0..maxv, N : 0..maxv, NW : 0..maxv, NE : 0..maxv, WW : 0..maxv, NN : 0..maxv]

\* Every predictor stays within the samples of the plane: a run in
\* decode_plane_xzr is stored as predicted, without the mask of the other
\* stores, and needs none.
THEOREM PredictionInRange ==
  ASSUME shape \in Shapes, NEW b \in SampleValues, NEW id \in 0..15
  PROVE  Predict(id, b) \in 0..maxv
<1>1. /\ maxv \in Nat
      /\ b.W \in 0..maxv /\ b.N \in 0..maxv /\ b.NW \in 0..maxv
      /\ b.NE \in 0..maxv /\ b.WW \in 0..maxv /\ b.NN \in 0..maxv
  BY Levels DEF SampleValues
<1>2. Median(b) \in 0..maxv
  <2>1. Max({b.N, b.W}) = IF b.N >= b.W THEN b.N ELSE b.W
    BY <1>1, MaxOfTwo
  <2>2. Min({b.N, b.W}) = IF b.N <= b.W THEN b.N ELSE b.W
    BY <1>1, MinOfTwo
  <2> QED
    BY <1>1, <2>1, <2>2 DEF Median
<1>3. \A n \in Int : Clamp(n) \in 0..maxv
  BY ClampRange
<1>4. CASE id = 0
  BY <1>2, <1>4 DEF Predict
<1>5. CASE id = 1
  BY <1>1, <1>5 DEF Predict
<1>6. CASE id = 2
  BY <1>1, <1>6 DEF Predict
<1>7. CASE id = 3
  BY <1>1, <1>7 DEF Predict
<1>8. CASE id = 4
  BY <1>1, <1>3, <1>8 DEF Predict
<1>9. CASE id = 5
  BY <1>1, <1>9 DEF Predict
<1>10. CASE id = 6
  BY <1>1, <1>10 DEF Predict
<1>11. CASE id = 7
  BY <1>1, <1>3, <1>11 DEF Predict
<1>12. CASE id = 8
  BY <1>1, <1>3, <1>12 DEF Predict
<1>13. CASE id = 9
  BY <1>1, <1>3, <1>13 DEF Predict
<1>14. CASE id = 10
  BY <1>1, <1>3, <1>14 DEF Predict
<1>15. CASE id = 11
  BY <1>1, <1>3, <1>15 DEF Predict
<1>16. CASE id = 12
  BY <1>1, <1>3, <1>16 DEF Predict
<1>17. CASE id = 13
  BY <1>1, <1>3, <1>17 DEF Predict
<1>18. CASE id = 14
  BY <1>1, <1>3, <1>18 DEF Predict
<1>19. CASE id = 15
  BY <1>1, <1>3, <1>19 DEF Predict
<1> QED
  BY <1>4, <1>5, <1>6, <1>7, <1>8, <1>9, <1>10, <1>11,
     <1>12, <1>13, <1>14, <1>15, <1>16, <1>17, <1>18, <1>19

-----------------------------------------------------------------------------
(* Orders of events.                                                        *)

LEMMA Division ==
  ASSUME NEW d \in Nat \ {0}, NEW n \in Int
  PROVE  n = d * (n \div d) + (n % d) /\ n % d \in 0..d - 1 /\ n \div d \in Int
OBVIOUS

LEMMA QuotientBelow ==
  ASSUME NEW a \in Nat \ {0}, NEW d \in Nat \ {0}, NEW n \in 0..a * d - 1
  PROVE  n \div d \in 0..a - 1
<1> DEFINE q == n \div d
           r == n % d
<1>1. n = d * q + r /\ r \in 0..d - 1 /\ q \in Int
  BY Division
<1> HIDE DEF q, r
<1>2. q >= 0
  <2>1. SUFFICES ASSUME q <= -1 PROVE FALSE
    BY <1>1
  <2>2. d * q <= -d
    BY <1>1, <2>1
  <2> QED
    BY <1>1, <2>2
<1>3. q <= a - 1
  <2>1. SUFFICES ASSUME q >= a PROVE FALSE
    BY <1>1
  <2>2. d * q >= d * a
    BY <1>1, <2>1
  <2> QED
    BY <1>1, <2>2
<1> QED
  BY <1>1, <1>2, <1>3 DEF q

LEMMA CellInside ==
  ASSUME NEW w \in Nat \ {0}, NEW h \in Nat \ {0}, NEW y \in 0..h - 1, NEW x \in 0..w - 1
  PROVE  y * w + x \in 0..w * h - 1
<1>1. y * w <= (h - 1) * w
  OBVIOUS
<1>2. 0 <= y * w
  OBVIOUS
<1> QED
  BY <1>1, <1>2
LEMMA SameColumn ==
  ASSUME NEW w \in Nat \ {0}, NEW k \in Int, NEW a \in 0..w - 1, NEW b \in 0..w - 1,
         (a + k) % w = (b + k) % w
  PROVE  a = b
<1> DEFINE qa == (a + k) \div w
           qb == (b + k) \div w
           m == (a + k) % w
<1>1. a + k = w * qa + m /\ b + k = w * qb + m /\ qa \in Int /\ qb \in Int /\ m \in Int
  BY Division
<1> HIDE DEF qa, qb, m
<1>2. w * qb + a = w * qa + b
  BY <1>1
<1>3. qa < qb => w * qa + w <= w * qb
  BY <1>1, Apart, Zenon
<1>4. qb < qa => w * qb + w <= w * qa
  BY <1>1, Apart, Zenon
<1> QED
  BY <1>1, <1>2, <1>3, <1>4

\* A rank as its quotient and remainder by the height.
LEMMA RankInColumns ==
  ASSUME shape.w \in Nat \ {0}, shape.h \in Nat \ {0}, NEW rank \in Indices
  PROVE  /\ rank = shape.h * (rank \div shape.h) + (rank % shape.h)
         /\ rank \div shape.h \in 0..W - 1 /\ rank % shape.h \in 0..shape.h - 1
<1>1. rank \in 0..shape.w * shape.h - 1 /\ rank \in Int
  BY DEF Indices, Size
<1>2. rank \div shape.h \in 0..W - 1
  BY <1>1, QuotientBelow, Zenon DEF W
<1> QED
  BY <1>1, <1>2, Division, Zenon

LEMMA RankInRows ==
  ASSUME shape.w \in Nat \ {0}, shape.h \in Nat \ {0}, NEW rank \in Indices
  PROVE  /\ rank = W * Y(rank) + X(rank)
         /\ Y(rank) \in 0..shape.h - 1 /\ X(rank) \in 0..W - 1
<1>1. rank \in 0..shape.h * W - 1 /\ rank \in Int /\ W \in Nat \ {0}
  BY DEF Indices, Size, W
<1>2. rank \div W \in 0..shape.h - 1
  BY <1>1, QuotientBelow, Zenon
<1> QED
  BY <1>1, <1>2, Division, Zenon DEF X, Y

\* Each order is one cell (x, y) for each rank, written as y * W + x, and no
\* two ranks have the same cell.
LEMMA CellsGiveOrder ==
  ASSUME shape.w \in Nat \ {0}, shape.h \in Nat \ {0}, NEW order,
         NEW x, NEW y,
         \A r \in Indices : /\ x[r] \in 0..W - 1 /\ y[r] \in 0..shape.h - 1
                           /\ order_pos(r, order) = y[r] * W + x[r],
         \A r, s \in Indices : x[r] = x[s] /\ y[r] = y[s] => r = s
  PROVE  \A r \in Indices : /\ order_pos(r, order) \in Indices
                           /\ \A s \in Indices : order_pos(r, order) = order_pos(s, order) => r = s
<1> SUFFICES ASSUME NEW r \in Indices
             PROVE  /\ order_pos(r, order) \in Indices
                    /\ \A s \in Indices : order_pos(r, order) = order_pos(s, order) => r = s
  OBVIOUS
<1>1. order_pos(r, order) \in Indices
  <2>1. W \in Nat \ {0}
    BY DEF W
  <2>2. y[r] * W + x[r] \in 0..W * shape.h - 1
    BY <2>1, CellInside, Zenon
  <2> QED
    BY <2>2 DEF Indices, Size, W
<1>2. ASSUME NEW s \in Indices, order_pos(r, order) = order_pos(s, order)
      PROVE  r = s
  <2>1. /\ W \in Nat \ {0} /\ y[r] \in Int /\ y[s] \in Int
        /\ W * y[r] + x[r] = W * y[s] + x[s]
    BY <1>2 DEF W
  <2>2. /\ y[r] < y[s] => W * y[r] + W <= W * y[s]
        /\ y[s] < y[r] => W * y[s] + W <= W * y[r]
    BY <2>1, Apart, Zenon
  <2>3. y[r] = y[s] /\ x[r] = x[s]
    BY <2>1, <2>2
  <2> QED
    BY <2>3
<1> QED
  BY <1>1, <1>2

\* Each of the eight orders of order_pos visits every sample of a plane of any
\* size once: an event never falls on another, as the array of residuals that
\* decode_plane_event fills takes for granted.
THEOREM OrderVisitsOnce ==
  ASSUME shape.w \in Nat \ {0}, shape.h \in Nat \ {0}, NEW order \in 0..7
  PROVE  \A r \in Indices : /\ order_pos(r, order) \in Indices
                           /\ \A s \in Indices : order_pos(r, order) = order_pos(s, order) => r = s
<1> DEFINE column(r) == r \div shape.h
           row(r) == r % shape.h
           Goal == \A r \in Indices : /\ order_pos(r, order) \in Indices
                                     /\ \A s \in Indices : order_pos(r, order) = order_pos(s, order) => r = s
<1>1. \A r \in Indices : r = shape.h * column(r) + row(r) /\ column(r) \in 0..W - 1 /\ row(r) \in 0..shape.h - 1
  BY RankInColumns
<1>2. \A r \in Indices : r = W * Y(r) + X(r) /\ Y(r) \in 0..shape.h - 1 /\ X(r) \in 0..W - 1
  BY RankInRows
<1>3. W \in Nat \ {0}
  BY DEF W
<1> HIDE DEF column, row, Goal
<1>4. CASE order = 0
  BY <1>4 DEF order_pos, Goal, Indices
<1>5. CASE order = 1
  <2> DEFINE x == [r \in Indices |-> column(r)]
             y == [r \in Indices |-> row(r)]
  <2>1. \A r \in Indices : x[r] = column(r) /\ y[r] = row(r)
    OBVIOUS
  <2>2. \A r \in Indices : order_pos(r, order) = row(r) * W + column(r)
    BY <1>5 DEF order_pos, column, row
  <2>3. \A r, s \in Indices : x[r] = x[s] /\ y[r] = y[s] => r = s
    BY <1>1, <2>1
  <2> HIDE DEF x, y
  <2> QED
    BY <1>1, <2>1, <2>2, <2>3, CellsGiveOrder DEF Goal
<1>6. CASE order \in 2..5
  <2> DEFINE k == <<1, -1, 2, -2>>[order - 1]
             x == [r \in Indices |-> (column(r) + k * row(r)) % W]
             y == [r \in Indices |-> row(r)]
  <2>1. \A r \in Indices : x[r] = (column(r) + k * row(r)) % W /\ y[r] = row(r)
    OBVIOUS
  <2>2. \A r \in Indices : order_pos(r, order) = row(r) * W + x[r]
    BY <1>6, <2>1 DEF order_pos, column, row
  <2>3. k \in Int
    BY <1>6
  <2> HIDE DEF k, x, y
  <2>4. ASSUME NEW r \in Indices
        PROVE  x[r] \in 0..W - 1
    <3>1. column(r) + k * row(r) \in Int
      BY <1>1, <2>3
    <3> QED
      BY <1>3, <2>1, <3>1, Division, Zenon
  <2>5. ASSUME NEW r \in Indices, NEW s \in Indices, x[r] = x[s], y[r] = y[s]
        PROVE  r = s
    <3>1. row(r) = row(s)
      BY <2>1, <2>5
    <3>2. k * row(r) \in Int
      BY <1>1, <2>3
    <3>3. (column(r) + k * row(r)) % W = (column(s) + k * row(r)) % W
      BY <2>1, <2>5, <3>1
    <3>4. column(r) = column(s)
      BY <1>1, <1>3, <3>2, <3>3, SameColumn
    <3> QED
      BY <1>1, <3>1, <3>4
  <2> QED
    BY <1>1, <2>1, <2>2, <2>4, <2>5, CellsGiveOrder DEF Goal
<1>7. CASE order = 6
  <2> DEFINE x == [r \in Indices |-> IF Y(r) % 2 = 1 THEN W - 1 - X(r) ELSE X(r)]
             y == [r \in Indices |-> Y(r)]
  <2>1. \A r \in Indices : x[r] = (IF Y(r) % 2 = 1 THEN W - 1 - X(r) ELSE X(r)) /\ y[r] = Y(r)
    OBVIOUS
  <2>2. \A r \in Indices : order_pos(r, order) = y[r] * W + x[r]
    BY <1>2, <1>3, <1>7, <2>1 DEF order_pos
  <2> HIDE DEF x, y
  <2>3. \A r \in Indices : x[r] \in 0..W - 1
    BY <1>2, <1>3, <2>1
  <2>4. \A r, s \in Indices : x[r] = x[s] /\ y[r] = y[s] => r = s
    BY <1>2, <1>3, <2>1
  <2> QED
    BY <1>2, <2>1, <2>2, <2>3, <2>4, CellsGiveOrder DEF Goal
<1>8. CASE order = 7
  <2> DEFINE x == [r \in Indices |-> column(r)]
             y == [r \in Indices |-> IF column(r) % 2 = 1 THEN shape.h - 1 - row(r) ELSE row(r)]
  <2>1. \A r \in Indices : x[r] = column(r) /\ y[r] = IF column(r) % 2 = 1 THEN shape.h - 1 - row(r) ELSE row(r)
    OBVIOUS
  <2>2. \A r \in Indices : order_pos(r, order) = y[r] * W + x[r]
    BY <1>8, <2>1 DEF order_pos, column, row
  <2> HIDE DEF x, y
  <2>3. \A r \in Indices : y[r] \in 0..shape.h - 1
    BY <1>1, <2>1
  <2>4. \A r, s \in Indices : x[r] = x[s] /\ y[r] = y[s] => r = s
    BY <1>1, <2>1
  <2> QED
    BY <1>1, <2>1, <2>2, <2>3, <2>4, CellsGiveOrder DEF Goal
<1> QED
  BY <1>4, <1>5, <1>6, <1>7, <1>8 DEF Goal
-----------------------------------------------------------------------------
(* Numbers come back.  Stands says that bits with their slots are on the    *)
(* wire behind the r-th.                                                    *)

Tables == {"unary", "mant", "run_unary", "run_mant", "nz", "zr", "predtree"}
Slot == Tables \X Nat \X Nat \X Nat
Entry == [slot : Slot, bit : {0, 1}]

Stands(r, code) ==
  /\ r + Len(code) <= Len(wire)
  /\ \A i \in 1..Len(code) : wire[r + i] = code[i]

\* The slots of a code.
AsWritten(slots, code) ==
  /\ slots \in Seq(Slot) /\ code \in Seq(Entry) /\ Len(slots) = Len(code)
  /\ \A i \in 1..Len(code) : code[i].slot = slots[i]

LEMMA StandsAgrees ==
  ASSUME NEW r \in Nat, Len(wire) \in Nat, NEW code, NEW slots, Stands(r, code), AsWritten(slots, code)
  PROVE  Agrees(r, slots)
BY DEF Stands, AsWritten, Agrees

LEMMA PutIs ==
  ASSUME NEW table \in Tables, NEW ctx \in Nat, NEW size \in Nat, NEW index \in Nat,
         NEW bit \in {0, 1}
  PROVE  Put(table, ctx, size, index, bit) \in Entry
BY DEF Put, Entry, Slot

LEMMA PutHas ==
  ASSUME NEW table, NEW ctx, NEW size, NEW index, NEW bit
  PROVE  /\ Put(table, ctx, size, index, bit).slot = <<table, ctx, size, index>>
         /\ Put(table, ctx, size, index, bit).bit = bit
BY DEF Put

LEMMA SlotIs ==
  ASSUME NEW table \in Tables, NEW ctx \in Nat, NEW size \in Nat, NEW index \in Nat
  PROVE  <<table, ctx, size, index>> \in Slot
BY DEF Slot

LEMMA SeqMade ==
  ASSUME NEW S, NEW n \in Nat, NEW f, f = [i \in 1..n |-> f[i]], \A i \in 1..n : f[i] \in S
  PROVE  f \in Seq(S) /\ Len(f) = n
OBVIOUS

\* Three parts one behind the other.
Followed(S, A, B, C, s) ==
  /\ s \in Seq(S) /\ Len(s) = Len(A) + Len(B) + Len(C)
  /\ \A i \in 1..Len(A) : s[i] = A[i]
  /\ \A i \in 1..Len(B) : s[Len(A) + i] = B[i]
  /\ \A i \in 1..Len(C) : s[Len(A) + Len(B) + i] = C[i]

LEMMA ThreeParts ==
  ASSUME NEW S, NEW A \in Seq(S), NEW B \in Seq(S), NEW C \in Seq(S)
  PROVE  Followed(S, A, B, C, (A \o B) \o C)
<1> DEFINE D == A \o B
           s == D \o C
<1>1. D \in Seq(S) /\ Len(D) = Len(A) + Len(B)
      /\ \A i \in 1..Len(A) + Len(B) : D[i] = IF i <= Len(A) THEN A[i] ELSE B[i - Len(A)]
  BY ConcatProperties
<1>0. D \in Seq(S)
  BY <1>1
<1> HIDE DEF D
<1>2. D \o C \in Seq(S) /\ Len(D \o C) = Len(D) + Len(C)
      /\ \A i \in 1..Len(D) + Len(C) : (D \o C)[i] = IF i <= Len(D) THEN D[i] ELSE C[i - Len(D)]
  BY <1>0, ConcatProperties, Zenon
<1>3. s = D \o C
  OBVIOUS
<1> HIDE DEF s
<1>4. Len(A) \in Nat /\ Len(B) \in Nat /\ Len(C) \in Nat
  OBVIOUS
<1>5. \A i \in 1..Len(A) + Len(B) : s[i] = D[i]
  BY <1>1, <1>2, <1>3, <1>4
<1>6. \A i \in 1..Len(C) : s[Len(A) + Len(B) + i] = C[i]
  BY <1>1, <1>2, <1>3, <1>4
<1>7. \A i \in 1..Len(A) : s[i] = A[i]
  BY <1>1, <1>4, <1>5
<1>8. \A i \in 1..Len(B) : s[Len(A) + i] = B[i]
  <2> TAKE i \in 1..Len(B)
  <2>1. Len(A) + i \in 1..Len(A) + Len(B) /\ ~ (Len(A) + i <= Len(A)) /\ (Len(A) + i) - Len(A) = i
    BY <1>4
  <2> QED
    BY <1>1, <1>5, <2>1
<1>9. Len(s) = Len(A) + Len(B) + Len(C) /\ s \in Seq(S)
  BY <1>1, <1>2, <1>3, <1>4
<1> QED
  BY <1>4, <1>6, <1>7, <1>8, <1>9, Zenon DEF Followed, s, D

\* A part, one element that may be missing, and another part.
JoinedWith(S, A, more, x, C, k, u, b, s) ==
  /\ s \in Seq(S) /\ Len(s) = u + b
  /\ \A i \in 1..k : s[i] = A[i]
  /\ more => s[k + 1] = x
  /\ \A j \in 1..b : s[u + j] = C[j]

LEMMA PartsWithin ==
  ASSUME NEW S, NEW k \in Nat, NEW b \in Nat, NEW u \in Nat, NEW x, NEW more \in BOOLEAN,
         u = (IF more THEN k + 1 ELSE k), NEW A \in [1..k -> S], NEW C \in [1..b -> S],
         NEW B \in Seq(S), Len(B) = (IF more THEN 1 ELSE 0), more => B[1] = x
  PROVE  JoinedWith(S, A, more, x, C, k, u, b, (A \o B) \o C)
<1>1. A \in Seq(S) /\ Len(A) = k
  OBVIOUS
<1>2. C \in Seq(S) /\ Len(C) = b
  OBVIOUS
<1> DEFINE s == (A \o B) \o C
<1>3. /\ s \in Seq(S) /\ Len(s) = Len(A) + Len(B) + Len(C)
      /\ \A i \in 1..Len(A) : s[i] = A[i]
      /\ \A i \in 1..Len(B) : s[Len(A) + i] = B[i]
      /\ \A i \in 1..Len(C) : s[Len(A) + Len(B) + i] = C[i]
  <2>1. A \in Seq(S) /\ C \in Seq(S)
    BY <1>1, <1>2
  <2>2. Followed(S, A, B, C, s)
    BY <2>1, ThreeParts, Zenon
  <2> QED
    BY <2>2 DEF Followed
<1> HIDE DEF s
<1>4. Len(A) + Len(B) = u
  BY <1>1
<1>5. more => s[k + 1] = x
  <2> SUFFICES ASSUME more PROVE s[k + 1] = x
    OBVIOUS
  <2>1. 1 \in 1..Len(B) /\ Len(A) = k /\ B[1] = x
    BY <1>1
  <2> QED
    BY <1>3, <2>1
<1>6. s \in Seq(S) /\ Len(s) = u + b
  BY <1>1, <1>2, <1>3, <1>4
<1>7. \A j \in 1..b : s[u + j] = C[j]
  BY <1>2, <1>3, <1>4
<1>8. \A i \in 1..k : s[i] = A[i]
  BY <1>1, <1>3
<1> QED
  BY <1>5, <1>6, <1>7, <1>8, Zenon DEF JoinedWith, s

BitIn(v, n) == (v \div Power[n]) % 2

\* The size of a number is sent in u bits, what is below its leading bit in b.
SizeBits(k, limit) == IF k < limit THEN k + 1 ELSE k
BitsBelowLeading(k) == IF k = 0 THEN 0 ELSE k - 1

LEMMA NumberSizes ==
  ASSUME NEW limit \in Nat, NEW v \in Nat, v < Power[limit]
  PROVE  /\ Bits(v) \in Nat /\ Bits(v) <= limit
         /\ SizeBits(Bits(v), limit) \in Nat /\ BitsBelowLeading(Bits(v)) \in Nat
BY BitsIs, BitsBelow DEF SizeBits, BitsBelowLeading

LEMMA BitOfIs ==
  ASSUME NEW v \in Nat, NEW n \in Nat
  PROVE  BitIn(v, n) \in {0, 1}
BY PowersPositive, Halved DEF BitIn

\* The bits of a number v of k bits, and what stands where in them.
Shape(unary, mant, ctx, limit, v, k, code) ==
  LET u == SizeBits(k, limit)
      b == BitsBelowLeading(k)
  IN  /\ code \in Seq(Entry) /\ Len(code) = u + b
      /\ \A i \in 1..k : code[i] = Put(unary, ctx, 0, i - 1, 1)
      /\ k < limit => code[k + 1] = Put(unary, ctx, 0, k, 0)
      /\ \A j \in 1..b : code[u + j] = Put(mant, ctx, k, k - 1 - j, BitIn(v, k - 1 - j))

LEMMA NumberShape ==
  ASSUME NEW unary \in Tables, NEW mant \in Tables, NEW ctx \in Nat, NEW limit \in Nat,
         NEW v \in Nat, v < Power[limit]
  PROVE  Shape(unary, mant, ctx, limit, v, Bits(v), Number(unary, mant, ctx, limit, v))
<1>0. PICK k \in Nat : k = Bits(v) /\ k <= limit
  BY NumberSizes
<1> DEFINE u == SizeBits(k, limit)
           b == BitsBelowLeading(k)
           more == k < limit
           x == Put(unary, ctx, 0, k, 0)
           A == [i \in 1..k |-> Put(unary, ctx, 0, i - 1, 1)]
           B == IF k < limit THEN <<x>> ELSE <<>>
           C == [j \in 1..b |-> Put(mant, ctx, k, k - 1 - j, BitIn(v, k - 1 - j))]
<1>1. 1..(k - 1) = 1..b /\ u \in Nat /\ b \in Nat
  BY DEF BitsBelowLeading, SizeBits
<1>2. Number(unary, mant, ctx, limit, v) = (A \o B) \o C
  BY <1>0, <1>1, Zenon DEF Number, BitIn
<1>3. A \in [1..k -> Entry]
  <2>1. ASSUME NEW i \in 1..k PROVE Put(unary, ctx, 0, i - 1, 1) \in Entry
    <3>1. i - 1 \in Nat /\ 0 \in Nat /\ 1 \in {0, 1}
      OBVIOUS
    <3> QED
      BY <3>1, PutIs, Zenon
  <2> QED
    BY <2>1, Zenon
<1>4. x \in Entry
  <2>1. 0 \in Nat /\ 0 \in {0, 1}
    OBVIOUS
  <2> QED
    BY <2>1, PutIs, Zenon
<1>5. C \in [1..b -> Entry]
  <2>1. ASSUME NEW j \in 1..b PROVE Put(mant, ctx, k, k - 1 - j, BitIn(v, k - 1 - j)) \in Entry
    <3>1. k - 1 - j \in Nat
      BY <1>1
    <3>2. BitIn(v, k - 1 - j) \in {0, 1}
      BY <3>1, BitOfIs, Zenon
    <3> QED
      BY <3>1, <3>2, PutIs, Zenon
  <2> QED
    BY <2>1, Zenon
<1>6. u = (IF more THEN k + 1 ELSE k) /\ more \in BOOLEAN
  BY DEF SizeBits
<1>7. /\ \A i \in 1..k : A[i] = Put(unary, ctx, 0, i - 1, 1)
      /\ \A j \in 1..b : C[j] = Put(mant, ctx, k, k - 1 - j, BitIn(v, k - 1 - j))
  BY Zenon
<1>8. B \in Seq(Entry) /\ Len(B) = (IF more THEN 1 ELSE 0) /\ (more => B[1] = x)
  <2> HIDE DEF x
  <2>1. CASE k < limit
    BY <1>4, <2>1
  <2>2. CASE ~ (k < limit)
    BY <2>2
  <2> QED
    BY <2>1, <2>2
<1> DEFINE code == (A \o B) \o C
<1> HIDE DEF more, x, A, B, C, u, b
<1>9. JoinedWith(Entry, A, more, x, C, k, u, b, code)
  BY <1>1, <1>3, <1>5, <1>6, <1>8, PartsWithin, ZenonT(60)
<1> HIDE DEF code
<1>10. Shape(unary, mant, ctx, limit, v, k, code)
  BY <1>7, <1>9, Zenon DEF JoinedWith, Shape, more, x, u, b
<1> QED
  BY <1>0, <1>2, <1>10, Zenon DEF code

\* A number that stands on the wire is what the decoder reads there, from the
\* slots it was written in.
LEMMA NumberComesBack ==
  ASSUME NEW unary \in Tables, NEW mant \in Tables, NEW ctx \in Nat, NEW limit \in Nat,
         NEW v \in Nat, v < Power[limit], NEW r \in Nat, Len(wire) \in Nat,
         NEW code, code = Number(unary, mant, ctx, limit, v), Stands(r, code),
         NEW c, c = NumberRead(unary, mant, ctx, limit, r)
  PROVE  c.size = Bits(v) /\ c.value = v /\ AsWritten(c.slots, code)
<1>0. PICK k, u, b : k = Bits(v) /\ u = SizeBits(k, limit) /\ b = BitsBelowLeading(k)
  OBVIOUS
<1>1. k \in Nat /\ k <= limit /\ u \in Nat /\ b \in Nat
  BY <1>0, NumberSizes
<1>2. Shape(unary, mant, ctx, limit, v, k, code)
  BY <1>0, NumberShape, Zenon
<1>3. /\ code \in Seq(Entry) /\ Len(code) = u + b
      /\ \A i \in 1..k : code[i] = Put(unary, ctx, 0, i - 1, 1)
      /\ k < limit => code[k + 1] = Put(unary, ctx, 0, k, 0)
      /\ \A j \in 1..b : code[u + j] = Put(mant, ctx, k, k - 1 - j, BitIn(v, k - 1 - j))
  BY <1>0, <1>2, Zenon DEF Shape
<1>4. b = (IF k = 0 THEN 0 ELSE k - 1) /\ u = (IF k < limit THEN k + 1 ELSE k)
  BY <1>0 DEF SizeBits, BitsBelowLeading
<1>5. k <= u /\ (k < limit => u = k + 1) /\ (k = limit => u = k)
  BY <1>1, <1>4
<1>6. ASSUME NEW i \in 1..k
      PROVE  code[i].slot = <<unary, ctx, 0, i - 1>> /\ code[i].bit = 1 /\ <<unary, ctx, 0, i - 1>> \in Slot
  <2>1. i - 1 \in Nat /\ 0 \in Nat /\ 1 \in {0, 1}
    BY <1>1
  <2> QED
    <3>1. code[i] = Put(unary, ctx, 0, i - 1, 1)
      BY <1>3, Zenon
    <3>2. code[i].slot = <<unary, ctx, 0, i - 1>> /\ code[i].bit = 1
      BY <3>1, PutHas
    <3>3. <<unary, ctx, 0, i - 1>> \in Slot
      BY <1>1, <2>1, SlotIs, Zenon
    <3> QED
      BY <3>2, <3>3, Zenon
<1>7. ASSUME k < limit
      PROVE  code[k + 1].slot = <<unary, ctx, 0, k>> /\ code[k + 1].bit = 0 /\ <<unary, ctx, 0, k>> \in Slot
  <2>1. 0 \in Nat /\ 0 \in {0, 1}
    OBVIOUS
  <2> QED
    <3>1. code[k + 1] = Put(unary, ctx, 0, k, 0)
      BY <1>3, <1>7, Zenon
    <3>2. code[k + 1].slot = <<unary, ctx, 0, k>> /\ code[k + 1].bit = 0
      BY <3>1, PutHas
    <3>3. <<unary, ctx, 0, k>> \in Slot
      BY <1>1, <2>1, SlotIs, Zenon
    <3> QED
      BY <3>2, <3>3, Zenon
<1>8. ASSUME NEW j \in 1..b
      PROVE  /\ code[u + j].slot = <<mant, ctx, k, k - 1 - j>> /\ <<mant, ctx, k, k - 1 - j>> \in Slot
             /\ code[u + j].bit = BitIn(v, k - 1 - j)
  <2>1. k - 1 - j \in Nat
    BY <1>1, <1>4
  <2>2. BitIn(v, k - 1 - j) \in {0, 1}
    BY <2>1, BitOfIs, Zenon
  <2> QED
    <3> DEFINE n == k - 1 - j
               bit == BitIn(v, k - 1 - j)
    <3>1. code[u + j] = Put(mant, ctx, k, n, bit)
      BY <1>3, Zenon
    <3>2. n \in Nat /\ bit \in {0, 1}
      BY <2>1, <2>2, Zenon
    <3> HIDE DEF n, bit
    <3>3. code[u + j].slot = <<mant, ctx, k, n>> /\ code[u + j].bit = bit
      BY <3>1, PutHas
    <3>4. <<mant, ctx, k, n>> \in Slot
      BY <1>1, <3>2, SlotIs, Zenon
    <3> QED
      BY <3>3, <3>4, Zenon DEF n, bit
<1>9. ASSUME NEW i \in 1..u + b PROVE BitAt(r + i) = code[i].bit
  <2>0. Len(code) = u + b /\ u \in Nat /\ b \in Nat
    BY <1>1, <1>3
  <2>1. r + i <= Len(wire) /\ wire[r + i] = code[i]
    BY <2>0 DEF Stands
  <2> QED
    BY <2>1 DEF BitAt
<1>10. \A i \in 1..k : BitAt(r + i) = 1
  <2> TAKE i \in 1..k
  <2>1. i \in 1..u + b
    BY <1>1, <1>5
  <2> QED
    BY <1>6, <1>9, <2>1, Zenon
<1>11. k = limit \/ BitAt(r + k + 1) = 0
  <2> SUFFICES ASSUME k < limit PROVE BitAt(r + k + 1) = 0
    BY <1>1
  <2>1. k + 1 \in 1..u + b /\ r + (k + 1) = r + k + 1
    BY <1>1, <1>5
  <2>2. BitAt(r + (k + 1)) = 0
    BY <1>7, <1>9, <2>1, Zenon
  <2> QED
    BY <2>1, <2>2
<1>12. SizeRead(r, limit) = k
  <2> DEFINE Q(n) == (n = limit \/ BitAt(r + n + 1) = 0) /\ \A i \in 1..n : BitAt(r + i) = 1
  <2>1. k \in 0..limit /\ Q(k)
    <3>1. k \in 0..limit
      BY <1>1
    <3> QED
      BY <3>1, <1>10, <1>11
  <2>2. ASSUME NEW n \in 0..limit, Q(n) PROVE n = k
    <3> SUFFICES ASSUME n # k PROVE FALSE
      OBVIOUS
    <3>1. CASE n < k
      <4>1. n + 1 \in 1..k /\ r + (n + 1) = r + n + 1 /\ n # limit
        BY <1>1, <3>1
      <4>2. BitAt(r + (n + 1)) = 1
        BY <1>10, <4>1, Zenon
      <4>3. BitAt(r + n + 1) = 0
        BY <2>2, <4>1
      <4> QED
        BY <4>1, <4>2, <4>3
    <3>2. CASE k < n
      <4>1. k + 1 \in 1..n /\ r + (k + 1) = r + k + 1 /\ k # limit
        BY <1>1, <3>2
      <4>2. BitAt(r + (k + 1)) = 1
        BY <2>2, <4>1
      <4> QED
        BY <1>11, <4>1, <4>2
    <3> QED
      BY <1>1, <3>1, <3>2
  <2>3. SizeRead(r, limit) = CHOOSE n \in 0..limit : Q(n)
    BY DEF SizeRead
  <2> HIDE DEF Q
  <2> QED
    BY <2>1, <2>2, <2>3
<1>13. Min({k + 1, limit}) = u
  <2>1. Min({k + 1, limit}) = IF k + 1 <= limit THEN k + 1 ELSE limit
    BY <1>1, MinOfTwo
  <2> QED
    BY <1>1, <1>4, <2>1
<1> DEFINE value == IF k = 0 THEN 0 ELSE Power[k - 1] + BitsValue(r + u, k - 1)
           P == [i \in 1..u |-> <<unary, ctx, 0, i - 1>>]
           R == [j \in 1..(k - 1) |-> <<mant, ctx, k, k - 1 - j>>]
<1>14. c = [size |-> k, value |-> value, slots |-> P \o R]
  BY <1>12, <1>13 DEF NumberRead
<1>15. P \in Seq(Slot) /\ Len(P) = u /\ \A i \in 1..u : P[i] = code[i].slot
  <2>1. ASSUME NEW i \in 1..u PROVE <<unary, ctx, 0, i - 1>> = code[i].slot /\ <<unary, ctx, 0, i - 1>> \in Slot
    <3>1. CASE i \in 1..k
      BY <1>6, <3>1, Zenon
    <3>2. CASE i \notin 1..k
      <4>1. i = k + 1 /\ i - 1 = k /\ k < limit
        BY <1>1, <1>5, <3>2
      <4> QED
        BY <1>7, <4>1
    <3> QED
      BY <3>1, <3>2
  <2>2. P = [i \in 1..u |-> P[i]] /\ \A i \in 1..u : P[i] = <<unary, ctx, 0, i - 1>>
    OBVIOUS
  <2> HIDE DEF P
  <2>3. \A i \in 1..u : P[i] = code[i].slot /\ P[i] \in Slot
    BY <2>1, <2>2, Zenon
  <2> QED
    BY <1>1, <2>2, <2>3, SeqMade, Zenon
<1>16. R \in Seq(Slot) /\ Len(R) = b /\ \A j \in 1..b : R[j] = code[u + j].slot
  <2>1. 1..(k - 1) = 1..b
    BY <1>1, <1>4
  <2>2. R = [j \in 1..b |-> R[j]] /\ \A j \in 1..b : R[j] = <<mant, ctx, k, k - 1 - j>>
    BY <2>1, Zenon
  <2> HIDE DEF R
  <2>3. \A j \in 1..b : R[j] = code[u + j].slot /\ R[j] \in Slot
    BY <1>8, <2>2, Zenon
  <2> QED
    BY <1>1, <2>2, <2>3, SeqMade, Zenon
<1>17. c.slots = P \o R /\ c.size = k /\ c.value = value
  <2> HIDE DEF P, R, value
  <2> QED
    BY <1>14
<1> HIDE DEF P, R, value
<1>18. P \o R \in Seq(Slot) /\ Len(P \o R) = Len(P) + Len(R)
       /\ \A i \in 1..Len(P) + Len(R) : (P \o R)[i] = IF i <= Len(P) THEN P[i] ELSE R[i - Len(P)]
  BY <1>15, <1>16, ConcatProperties, Zenon
<1>19. ASSUME NEW i \in 1..Len(code) PROVE code[i].slot = (P \o R)[i]
  <2>1. i \in 1..u + b /\ i \in 1..Len(P) + Len(R) /\ i \in Int
    BY <1>1, <1>3, <1>15, <1>16
  <2>2. CASE i <= u
    <3>1. i \in 1..u /\ i <= Len(P)
      BY <1>15, <2>1, <2>2
    <3> QED
      BY <1>15, <1>18, <2>1, <3>1, Zenon
  <2>3. CASE ~ (i <= u)
    <3>1. i - u \in 1..b /\ ~ (i <= Len(P)) /\ i - Len(P) = i - u /\ u + (i - u) = i
      BY <1>1, <1>15, <2>1, <2>3
    <3>2. (P \o R)[i] = R[i - u]
      BY <1>18, <2>1, <3>1
    <3>3. R[i - u] = code[u + (i - u)].slot
      BY <1>16, <3>1, Zenon
    <3> QED
      BY <3>1, <3>2, <3>3
  <2> QED
    BY <2>2, <2>3
<1>20. value = v
  <2>1. CASE k = 0
    <3>1. v < Power[0]
      BY <1>0, <2>1, BitsIs
    <3> QED
      BY <2>1, <3>1, Powers DEF value
  <2>2. CASE k # 0
    <3>0. PICK n \in Nat : n = k - 1
      BY <1>1, <2>2
    <3>1. n \in 0..n /\ b = n /\ n - n = 0 /\ r + u \in Nat
      BY <1>1, <1>4, <2>2, <3>0
    <3>2. ASSUME NEW j \in 1..n PROVE BitAt(r + u + j) = (v \div Power[n - j]) % 2
      <4>1. u + j \in 1..u + b /\ r + (u + j) = r + u + j /\ j \in 1..b /\ k - 1 - j = n - j
        BY <1>1, <3>0, <3>1
      <4>2. BitAt(r + (u + j)) = code[u + j].bit
        BY <1>9, <4>1, Zenon
      <4>3. code[u + j].bit = BitIn(v, k - 1 - j)
        BY <1>8, <4>1, Zenon
      <4> QED
        BY <4>1, <4>2, <4>3 DEF BitIn
    <3>3. v < Power[k] /\ Power[n] <= v /\ Power[k] = 2 * Power[n] /\ Power[n] \in Nat \ {0}
      <4>1. k \in Nat \ {0} /\ k > 0
        BY <1>1, <2>2
      <4>2. v < Power[k] /\ Power[n] <= v
        BY <1>0, <3>0, <4>1, BitsIs
      <4> QED
        BY <3>0, <4>1, <4>2, Powers, PowersPositive
    <3>4. value = Power[n] + BitsValue(r + u, n)
      BY <2>2, <3>0 DEF value
    <3>5. BitsValue(r + u, n) = (v \div Power[n - n]) - Power[n] * (v \div Power[n])
      <4>1. \A j \in 1..n : BitAt((r + u) + j) = (v \div Power[n - j]) % 2
        BY <3>2
      <4> DEFINE q == r + u
      <4>2. q \in Nat /\ n \in 0..n
        BY <3>1
      <4> HIDE DEF q
      <4>3. \A j \in 1..n : BitAt(q + j) = (v \div Power[n - j]) % 2
        BY <4>1 DEF q
      <4>4. BitsValue(q, n) = (v \div Power[n - n]) - Power[n] * (v \div Power[n])
        BY <4>2, <4>3, BitsValueIs
      <4> QED
        BY <4>4 DEF q
    <3>6. v \div Power[n - n] = v
      BY <3>1, Powers
    <3>7. v \div Power[n] = 1
      BY <3>3, LeadingBit
    <3> DEFINE p == Power[n]
    <3>8. p \in Nat /\ BitsValue(r + u, n) = v - p * 1 /\ value = p + BitsValue(r + u, n)
      BY <3>3, <3>4, <3>5, <3>6, <3>7
    <3> HIDE DEF p
    <3> QED
      BY <3>8
  <2> QED
    BY <2>1, <2>2
<1> QED
  BY <1>0, <1>3, <1>15, <1>16, <1>17, <1>18, <1>19, <1>20, Zenon DEF AsWritten

\* A tree has one slot for each way there: the bits before, with a 1 before them.
LEMMA TreeShape ==
  ASSUME NEW bits \in Nat, NEW sym \in Nat
  PROVE  /\ Tree(bits, sym) \in Seq(Entry) /\ Len(Tree(bits, sym)) = bits
         /\ \A i \in 1..bits :
              /\ Tree(bits, sym)[i].slot = <<"predtree", 0, 0, Power[i - 1] + sym \div Power[bits - i + 1]>>
              /\ Tree(bits, sym)[i].bit = BitIn(sym, bits - i)
              /\ Tree(bits, sym)[i].slot \in Slot
<1> DEFINE index(i) == Power[i - 1] + sym \div Power[bits - i + 1]
           bit(i) == BitIn(sym, bits - i)
           tree == [i \in 1..bits |-> Put("predtree", 0, 0, index(i), bit(i))]
<1>1. Tree(bits, sym) = tree
  BY Zenon DEF Tree, BitIn
<1>2. ASSUME NEW i \in 1..bits PROVE index(i) \in Nat /\ bit(i) \in {0, 1}
  <2>1. i - 1 \in Nat /\ bits - i \in Nat /\ bits - i + 1 \in Nat
    OBVIOUS
  <2>2. Power[i - 1] \in Nat /\ sym \div Power[bits - i + 1] \in Nat
    BY <2>1, PowersPositive, Halved
  <2> QED
    BY <2>1, <2>2, BitOfIs
<1> HIDE DEF index, bit
<1>3. "predtree" \in Tables /\ 0 \in Nat
  BY DEF Tables
<1>4. ASSUME NEW i \in 1..bits
      PROVE  /\ tree[i] \in Entry /\ tree[i].slot = <<"predtree", 0, 0, index(i)>> /\ tree[i].bit = bit(i)
             /\ tree[i].slot \in Slot
  <2>1. tree[i] = Put("predtree", 0, 0, index(i), bit(i))
    OBVIOUS
  <2> HIDE DEF tree
  <2>2. tree[i] \in Entry
    BY <1>2, <1>3, <2>1, PutIs, Zenon
  <2>3. <<"predtree", 0, 0, index(i)>> \in Slot
    BY <1>2, <1>3, SlotIs, Zenon
  <2>4. tree[i].slot = <<"predtree", 0, 0, index(i)>> /\ tree[i].bit = bit(i)
    BY <2>1, PutHas
  <2> QED
    BY <2>2, <2>3, <2>4, Zenon
<1>5. tree = [i \in 1..bits |-> tree[i]]
  OBVIOUS
<1> HIDE DEF tree
<1>6. tree \in Seq(Entry) /\ Len(tree) = bits
  BY <1>4, <1>5, SeqMade
<1> QED
  BY <1>1, <1>4, <1>6, Zenon DEF index, bit

LEMMA TreeComesBack ==
  ASSUME NEW bits \in Nat, NEW sym \in Nat, sym < Power[bits], NEW r \in Nat, Len(wire) \in Nat,
         Stands(r, Tree(bits, sym))
  PROVE  TreeRead(bits, r).value = sym /\ AsWritten(TreeRead(bits, r).slots, Tree(bits, sym))
<1> DEFINE tree == Tree(bits, sym)
           index(i) == Power[i - 1] + sym \div Power[bits - i + 1]
<1>1. /\ tree \in Seq(Entry) /\ Len(tree) = bits
      /\ \A i \in 1..bits : /\ tree[i].slot = <<"predtree", 0, 0, index(i)>>
                            /\ tree[i].bit = BitIn(sym, bits - i) /\ tree[i].slot \in Slot
  BY TreeShape, Zenon
<1> HIDE DEF tree, index
<1>2. ASSUME NEW i \in 1..bits PROVE BitAt(r + i) = (sym \div Power[bits - i]) % 2
  <2>1. r + i <= Len(wire) /\ wire[r + i] = tree[i]
    BY <1>1 DEF Stands, tree
  <2> QED
    BY <1>1, <2>1 DEF BitAt, BitIn
<1>3. sym \div Power[bits] = 0
  BY LeadingBit, PowersPositive
<1>4. ASSUME NEW n \in 0..bits PROVE BitsValue(r, n) = sym \div Power[bits - n]
  <2>1. BitsValue(r, n) = (sym \div Power[bits - n]) - Power[n] * (sym \div Power[bits])
    <3>1. \A j \in 1..n : BitAt(r + j) = (sym \div Power[bits - j]) % 2
      BY <1>2
    <3> QED
      BY <3>1, BitsValueIs
  <2> DEFINE q == sym \div Power[bits - n]
             p == Power[n]
  <2>2. q \in Nat /\ p \in Nat
    <3>1. bits - n \in Nat /\ n \in Nat
      OBVIOUS
    <3> QED
      BY <3>1, PowersPositive, Halved
  <2>3. BitsValue(r, n) = q - p * 0
    BY <1>3, <2>1
  <2> HIDE DEF q, p
  <2>4. BitsValue(r, n) = q
    BY <2>2, <2>3
  <2> QED
    BY <2>4 DEF q
<1>5. BitsValue(r, bits) = sym
  <2>1. BitsValue(r, bits) = sym \div Power[bits - bits] /\ bits - bits = 0
    BY <1>4
  <2> QED
    BY <2>1, Powers
<1> DEFINE at0(i) == <<"predtree", 0, 0, Power[i - 1] + BitsValue(r, i - 1)>>
           slots == [i \in 1..bits |-> at0(i)]
<1>6. TreeRead(bits, r) = [value |-> BitsValue(r, bits), slots |-> slots]
  BY DEF TreeRead
<1>7. ASSUME NEW i \in 1..bits PROVE at0(i) = tree[i].slot
  <2>1. i - 1 \in 0..bits /\ bits - (i - 1) = bits - i + 1
    OBVIOUS
  <2>2. BitsValue(r, i - 1) = sym \div Power[bits - i + 1]
    BY <1>4, <2>1
  <2> QED
    BY <1>1, <2>2 DEF index
<1> HIDE DEF at0
<1>8. slots = [i \in 1..bits |-> slots[i]] /\ \A i \in 1..bits : slots[i] = tree[i].slot
  BY <1>7
<1> HIDE DEF slots
<1>9. slots \in Seq(Slot) /\ Len(slots) = bits
  BY <1>1, <1>8, SeqMade, SMTT(60)
<1>10. TreeRead(bits, r).value = sym /\ TreeRead(bits, r).slots = slots
  BY <1>5, <1>6
<1> QED
  BY <1>1, <1>8, <1>9, <1>10, ZenonT(60) DEF AsWritten, tree

-----------------------------------------------------------------------------
(* Sequences of n elements each, one behind the other.                      *)

\* The j-th element is the i-th of the s-th part.
Spot(n, t, j, s, i) == s \in 1..t /\ i \in 1..n /\ n * (s - 1) + i = j

LEMMA PlaceOf ==
  ASSUME NEW n \in Nat \ {0}, NEW t \in Nat, NEW j \in 1..n * t,
         NEW s, NEW i, s = ((j - 1) \div n) + 1, i = ((j - 1) % n) + 1
  PROVE  s \in 1..t /\ i \in 1..n /\ n * (s - 1) + i = j
<1> DEFINE q == (j - 1) \div n
           m == (j - 1) % n
<1>0. t \in Nat \ {0} /\ n * t = t * n
  OBVIOUS
<1>1. j - 1 \in 0..t * n - 1 /\ j - 1 \in Int
  BY <1>0
<1>2. q \in 0..t - 1
  BY <1>0, <1>1, QuotientBelow, Zenon
<1>3. j - 1 = n * q + m /\ m \in 0..n - 1
  BY <1>1, Division, Zenon
<1>4. s = q + 1 /\ i = m + 1
  OBVIOUS
<1> HIDE DEF q, m
<1>5. s - 1 = q
  BY <1>2, <1>4
<1> DEFINE z == n * q
<1>6. z \in Int
  BY <1>2
<1>7. n * (s - 1) = z
  BY <1>5
<1> HIDE DEF z
<1>8. j - 1 = z + m
  BY <1>3 DEF z
<1> QED
  BY <1>2, <1>3, <1>4, <1>6, <1>7, <1>8

LEMMA PlaceIs ==
  ASSUME NEW n \in Nat \ {0}, NEW t \in Nat, NEW s \in 1..t, NEW i \in 1..n,
         NEW j, j = n * (s - 1) + i
  PROVE  j \in 1..n * t /\ ((j - 1) \div n) + 1 = s /\ ((j - 1) % n) + 1 = i
<1> DEFINE a == s - 1
           q == (j - 1) \div n
           m == (j - 1) % n
           na == n * a
           nq == n * q
<1>1. a \in Nat /\ a \in Int /\ a + 1 <= t /\ na \in Nat
  OBVIOUS
<1>2. n * (a + 1) <= n * t
  BY <1>1
<1>3. n * (a + 1) = na + n
  BY <1>1
<1>4. j \in 1..n * t /\ j = na + i
  BY <1>1, <1>2, <1>3
<1>5. j - 1 = nq + m /\ m \in 0..n - 1 /\ q \in Int /\ nq \in Int
  BY <1>4, Division
<1>6. (a < q => na + n <= nq) /\ (q < a => nq + n <= na)
  BY <1>1, <1>5, Apart, Zenon
<1> HIDE DEF na, nq, q, m
<1>7. q = a
  BY <1>1, <1>4, <1>5, <1>6
<1>8. nq = na
  BY <1>7 DEF nq, na
<1>9. m = i - 1
  BY <1>1, <1>4, <1>5, <1>8
<1> QED
  BY <1>1, <1>4, <1>7, <1>9 DEF q, m

LEMMA SpotOf ==
  ASSUME NEW n \in Nat \ {0}, NEW t \in Nat, NEW j \in 1..n * t
  PROVE  Spot(n, t, j, ((j - 1) \div n) + 1, ((j - 1) % n) + 1)
BY PlaceOf DEF Spot

LEMMA SpotIs ==
  ASSUME NEW n \in Nat \ {0}, NEW t \in Nat, NEW s \in 1..t, NEW i \in 1..n
  PROVE  n * (s - 1) + i \in 1..n * t
BY PlaceIs

\* The parts t, of n elements each, make the sequence s.
Flat(S, n, count, parts, s) ==
  /\ s \in Seq(S) /\ Len(s) = n * count
  /\ \A t \in 1..count : \A i \in 1..n : s[n * (t - 1) + i] = parts[t][i]

LEMMA FlatIs ==
  ASSUME NEW S, NEW n \in Nat \ {0}, NEW count \in Nat, NEW parts,
         parts = [t \in 1..count |-> parts[t]],
         \A t \in 1..count : parts[t] \in Seq(S) /\ Len(parts[t]) = n
  PROVE  Flat(S, n, count, parts, FlattenSeq(parts))
<1> SUFFICES /\ FlattenSeq(parts) \in Seq(S) /\ Len(FlattenSeq(parts)) = n * count
             /\ \A t \in 1..count : \A i \in 1..n : FlattenSeq(parts)[n * (t - 1) + i] = parts[t][i]
  BY Zenon DEF Flat
<1>1. parts \in Seq(Seq(S)) /\ Len(parts) = count
  BY SeqMade
<1>2. CASE count = 0
  <2>1. FlattenSeq(parts) = parts
    BY <1>1, <1>2 DEF FlattenSeq
  <2>2. <<>> \in Seq(S) /\ Len(<<>>) = 0 /\ n * count = 0 /\ 1..count = {}
    BY <1>2
  <2>3. parts = <<>>
    BY <1>1, <1>2
  <2> QED
    BY <2>1, <2>2, <2>3
<1>3. CASE count # 0
  <2> DEFINE from(h) == [t \in 1..count |-> IF t = 1 THEN parts[t] ELSE h[t - 1] \o parts[t]]
             flat == CHOOSE h : h = from(h)
             told == [t \in 1..count |->
                        [j \in 1..n * t |-> parts[((j - 1) \div n) + 1][((j - 1) % n) + 1]]]
  <2>1. FlattenSeq(parts) = flat[count]
    BY <1>1, <1>3 DEF FlattenSeq
  <2>2. ASSUME NEW t \in 1..count
        PROVE  /\ told[t] \in Seq(S) /\ Len(told[t]) = n * t
               /\ \A s \in 1..t : \A i \in 1..n : told[t][n * (s - 1) + i] = parts[s][i]
    <3>1. ASSUME NEW j \in 1..n * t
          PROVE  parts[((j - 1) \div n) + 1][((j - 1) % n) + 1] \in S
      <4> DEFINE a == ((j - 1) \div n) + 1
                 b == ((j - 1) % n) + 1
      <4>1. a \in 1..t /\ b \in 1..n
        BY PlaceOf, SMTT(60)
      <4>2. a \in 1..count /\ b \in 1..n
        BY <4>1
      <4> HIDE DEF a, b
      <4>3. parts[a][b] \in S
        BY <4>2
      <4> QED
        BY <4>3 DEF a, b
    <3>2. told[t] = [j \in 1..n * t |-> told[t][j]]
      OBVIOUS
    <3>3. \A j \in 1..n * t : told[t][j] = parts[((j - 1) \div n) + 1][((j - 1) % n) + 1]
      OBVIOUS
    <3>4. n * t \in Nat
      OBVIOUS
    <3> HIDE DEF told
    <3>5. told[t] \in Seq(S) /\ Len(told[t]) = n * t
      <4> DEFINE f == told[t]
                 m == n * t
      <4>1. m \in Nat /\ f = [j \in 1..m |-> f[j]]
        BY <3>2, <3>4
      <4>2. \A j \in 1..m : f[j] \in S
        BY <3>1, <3>3
      <4> HIDE DEF f, m
      <4>3. f \in Seq(S) /\ Len(f) = m
        BY <4>1, <4>2, SeqMade
      <4> QED
        BY <4>3 DEF f, m
    <3>6. ASSUME NEW s \in 1..t, NEW i \in 1..n
          PROVE  told[t][n * (s - 1) + i] = parts[s][i]
      <4> DEFINE j == n * (s - 1) + i
      <4>1. j \in 1..n * t /\ ((j - 1) \div n) + 1 = s /\ ((j - 1) % n) + 1 = i
        <5>1. t \in Nat
          OBVIOUS
        <5> QED
          BY <5>1, PlaceIs
      <4> HIDE DEF j
      <4>2. told[t][j] = parts[s][i]
        BY <3>3, <4>1
      <4> QED
        BY <4>2 DEF j
    <3> QED
      BY <3>5, <3>6
  <2>3. told = from(told)
    <3>1. ASSUME NEW t \in 1..count
          PROVE  told[t] = IF t = 1 THEN parts[t] ELSE told[t - 1] \o parts[t]
      <4>1. told[t] \in Seq(S) /\ Len(told[t]) = n * t
            /\ \A s \in 1..t : \A i \in 1..n : told[t][n * (s - 1) + i] = parts[s][i]
        BY <2>2
      <4>2. parts[t] \in Seq(S) /\ Len(parts[t]) = n
        OBVIOUS
      <4> HIDE DEF told
      <4>3. CASE t = 1
        <5>1. \A i \in 1..n : told[t][i] = parts[t][i]
          BY <4>1, <4>3
        <5>2. Len(told[t]) = Len(parts[t])
          BY <4>1, <4>2, <4>3
        <5> DEFINE a == told[t]
                   b == parts[t]
        <5>3. a \in Seq(S) /\ b \in Seq(S) /\ Len(a) = n /\ Len(b) = n /\ \A i \in 1..n : a[i] = b[i]
          BY <4>1, <4>2, <5>1, <5>2
        <5> HIDE DEF a, b
        <5>4. a = b
          BY <5>3
        <5> QED
          BY <4>3, <5>4 DEF a, b
      <4>4. CASE t # 1
        <5>1. t - 1 \in 1..count
          BY <4>4
        <5>2. told[t - 1] \in Seq(S) /\ Len(told[t - 1]) = n * (t - 1)
              /\ \A s \in 1..t - 1 : \A i \in 1..n : told[t - 1][n * (s - 1) + i] = parts[s][i]
          BY <2>2, <5>1
        <5> DEFINE a == told[t]
                   b == told[t - 1]
                   c == parts[t]
                   d == b \o c
        <5>3. d \in Seq(S) /\ Len(d) = Len(b) + Len(c)
              /\ \A i \in 1..Len(b) + Len(c) : d[i] = IF i <= Len(b) THEN b[i] ELSE c[i - Len(b)]
          <6>1. b \in Seq(S) /\ c \in Seq(S)
            BY <4>2, <5>2
          <6> HIDE DEF b, c
          <6> QED
            BY <6>1, ConcatProperties, ZenonT(60)
        <5>4. n * t = n * (t - 1) + n /\ n * (t - 1) \in Nat
          BY <4>4
        <5> DEFINE m == n * (t - 1)
        <5>5. m \in Nat /\ Len(b) = m /\ Len(c) = n /\ Len(a) = m + n /\ a \in Seq(S)
          BY <4>1, <4>2, <5>2, <5>4
        <5>6. \A i \in 1..n : a[m + i] = c[i]
          <6>1. t \in 1..t
            BY <4>4
          <6> QED
            BY <4>1, <6>1
        <5>7. ASSUME NEW j \in 1..m PROVE a[j] = b[j]
          <6> DEFINE s == ((j - 1) \div n) + 1
                     i == ((j - 1) % n) + 1
          <6>1. s \in 1..t - 1 /\ i \in 1..n /\ n * (s - 1) + i = j
            <7>1. t - 1 \in Nat /\ j \in 1..n * (t - 1)
              BY <5>1
            <7> QED
              BY <7>1, PlaceOf
          <6> HIDE DEF s, i
          <6>2. s \in 1..t
            BY <6>1
          <6>3. a[n * (s - 1) + i] = parts[s][i] /\ b[n * (s - 1) + i] = parts[s][i]
            BY <4>1, <5>2, <6>1, <6>2
          <6> QED
            BY <6>1, <6>3
        <5> HIDE DEF a, b, c, d, m
        <5>8. ASSUME NEW j \in 1..m + n PROVE a[j] = d[j]
          <6>1. CASE j <= m
            BY <5>3, <5>5, <5>7, <6>1
          <6>2. CASE j > m
            <7>1. j - m \in 1..n /\ m + (j - m) = j
              BY <5>5, <6>2
            <7>2. d[j] = c[j - m]
              BY <5>3, <5>5, <6>2
            <7>3. a[m + (j - m)] = c[j - m]
              BY <5>6, <7>1
            <7> QED
              BY <7>1, <7>2, <7>3
          <6> QED
            BY <5>5, <6>1, <6>2
        <5>9. a = d
          <6>1. Len(d) = m + n /\ Len(a) = m + n /\ m + n \in Nat
            BY <5>3, <5>5
          <6> DEFINE z == m + n
          <6>2. a \in Seq(S) /\ d \in Seq(S) /\ Len(d) = z /\ Len(a) = z /\ \A j \in 1..z : a[j] = d[j]
            BY <5>3, <5>5, <5>8, <6>1
          <6> HIDE DEF z
          <6> QED
            BY <6>2
        <5> QED
          BY <4>4, <5>9 DEF a, b, c, d
      <4> QED
        BY <4>3, <4>4
    <3>2. told = [t \in 1..count |-> told[t]]
      OBVIOUS
    <3> HIDE DEF told
    <3> QED
      BY <3>1, <3>2
  <2>4. flat = from(flat)
    <3>1. \E h : h = from(h)
      BY <2>3
    <3> HIDE DEF from
    <3> QED
      BY <3>1
  <2> HIDE DEF flat, told
  <2>5. flat[count] = told[count]
    <3> DEFINE Same == {t \in Nat : t + 1 \in 1..count => flat[t + 1] = told[t + 1]}
    <3>1. 0 \in Same
      BY <1>3, <2>3, <2>4
    <3>2. ASSUME NEW t \in Nat, t \in Same PROVE t + 1 \in Same
      <4> SUFFICES ASSUME (t + 1) + 1 \in 1..count PROVE flat[(t + 1) + 1] = told[(t + 1) + 1]
        OBVIOUS
      <4> DEFINE s == (t + 1) + 1
      <4>1. s \in 1..count /\ s # 1 /\ s - 1 = t + 1 /\ t + 1 \in 1..count
        OBVIOUS
      <4>2. flat[t + 1] = told[t + 1]
        BY <3>2, <4>1
      <4> HIDE DEF s
      <4>3. flat[s] = flat[s - 1] \o parts[s] /\ told[s] = told[s - 1] \o parts[s]
        BY <2>3, <2>4, <4>1
      <4> QED
        BY <4>1, <4>2, <4>3 DEF s
    <3>3. \A t \in Nat : t \in Same
      <4> HIDE DEF Same
      <4> QED
        BY <3>1, <3>2, Induction
    <3>4. count - 1 \in Nat /\ (count - 1) + 1 = count
      BY <1>3
    <3>5. count - 1 \in Same
      BY <3>3, <3>4
    <3> QED
      BY <1>3, <3>4, <3>5
  <2>6. count \in 1..count
    BY <1>3
  <2>7. /\ told[count] \in Seq(S) /\ Len(told[count]) = n * count
        /\ \A s \in 1..count : \A i \in 1..n : told[count][n * (s - 1) + i] = parts[s][i]
    BY <2>2, <2>6
  <2>8. FlattenSeq(parts) = told[count]
    BY <2>1, <2>5, Zenon
  <2> QED
    BY <2>7, <2>8
<1> QED
  BY <1>2, <1>3

-----------------------------------------------------------------------------
(* Neighbours, tiles and codes of a sample.                                 *)

LEMMA ShapeIs ==
  ASSUME shape \in Shapes
  PROVE  shape.w \in Nat \ {0} /\ shape.h \in Nat \ {0} /\ shape.depth \in Nat \ {0}
BY ShapesAssumption

\* Where a sample is in its row, and where its row is.
LEMMA CellIs ==
  ASSUME shape \in Shapes, NEW i \in Indices
  PROVE  /\ i \in Nat /\ W \in Nat \ {0} /\ Size \in Nat
         /\ X(i) \in 0..W - 1 /\ Y(i) \in 0..shape.h - 1
         /\ X(i) <= i /\ (Y(i) > 0 => W + X(i) <= i) /\ (Y(i) > 1 => 2 * W + X(i) <= i)
         /\ i + (W - X(i)) <= Size
<1>1. shape.w \in Nat \ {0} /\ shape.h \in Nat \ {0} /\ W = shape.w
  BY ShapeIs DEF W
<1>2. i = W * Y(i) + X(i) /\ Y(i) \in 0..shape.h - 1 /\ X(i) \in 0..W - 1
  BY <1>1, RankInRows
<1>3. i \in Nat /\ Size \in Nat /\ Size = W * shape.h
  BY <1>1 DEF Indices, Size
<1> DEFINE y == Y(i)
           wy == W * Y(i)
<1> HIDE DEF y
<1>4. wy \in Nat /\ (Y(i) > 0 => W <= wy) /\ (Y(i) > 1 => 2 * W <= wy)
  BY <1>1, <1>2
<1>5. wy + W <= Size
  <2>1. W * (Y(i) + 1) <= W * shape.h
    BY <1>1, <1>2
  <2>2. W * (Y(i) + 1) = W * Y(i) + W
    BY <1>1, <1>2
  <2> QED
    BY <1>3, <2>1, <2>2
<1>6. i = wy + X(i)
  BY <1>2
<1> HIDE DEF wy
<1> QED
  BY <1>1, <1>2, <1>3, <1>4, <1>5, <1>6

\* Neighbours are samples before.
LEMMA NeighboursSame ==
  ASSUME shape \in Shapes, NEW i \in Indices, NEW f, NEW g, \A j \in 0..i - 1 : f[j] = g[j]
  PROVE  Neighbours(f, i) = Neighbours(g, i)
<1>1. /\ i \in Nat /\ W \in Nat \ {0} /\ X(i) \in 0..W - 1 /\ Y(i) \in Nat
      /\ X(i) <= i /\ (Y(i) > 0 => W + X(i) <= i) /\ (Y(i) > 1 => 2 * W + X(i) <= i)
  BY CellIs
<1>2. X(i) > 0 => f[i - 1] = g[i - 1]
  BY <1>1
<1>3. Y(i) > 0 => f[i - W] = g[i - W]
  BY <1>1
<1>4. X(i) > 0 /\ Y(i) > 0 => f[i - W - 1] = g[i - W - 1]
  BY <1>1
<1>5. Y(i) > 0 /\ X(i) + 1 < W => f[i - W + 1] = g[i - W + 1]
  BY <1>1
<1>6. X(i) > 1 => f[i - 2] = g[i - 2]
  BY <1>1
<1>7. Y(i) > 1 => f[i - 2 * W] = g[i - 2 * W]
  BY <1>1
<1> HIDE DEF X, Y
<1> QED
  BY <1>2, <1>3, <1>4, <1>5, <1>6, <1>7 DEF Neighbours

LEMMA NeighboursTyped ==
  ASSUME shape \in Shapes, NEW i \in Indices, NEW f \in [Indices -> 0..maxv]
  PROVE  Neighbours(f, i) \in SampleValues
<1>1. /\ i \in Nat /\ W \in Nat \ {0} /\ X(i) \in 0..W - 1 /\ Y(i) \in Nat
      /\ X(i) <= i /\ (Y(i) > 0 => W + X(i) <= i) /\ (Y(i) > 1 => 2 * W + X(i) <= i)
  BY CellIs
<1>2. \A j \in 0..i : f[j] \in 0..maxv
  <2>1. Size \in Nat /\ i \in 0..Size - 1
    BY CellIs DEF Indices
  <2>2. \A j \in 0..i : j \in Indices
    BY <2>1 DEF Indices
  <2> QED
    BY <2>2
<1>3. half \in 0..maxv
  BY Levels
<1>4. X(i) > 0 => f[i - 1] \in 0..maxv
  BY <1>1, <1>2
<1>5. Y(i) > 0 => f[i - W] \in 0..maxv
  BY <1>1, <1>2
<1>6. X(i) > 0 /\ Y(i) > 0 => f[i - W - 1] \in 0..maxv
  BY <1>1, <1>2
<1>7. Y(i) > 0 /\ X(i) + 1 < W => f[i - W + 1] \in 0..maxv
  BY <1>1, <1>2
<1>8. X(i) > 1 => f[i - 2] \in 0..maxv
  BY <1>1, <1>2
<1>9. Y(i) > 1 => f[i - 2 * W] \in 0..maxv
  BY <1>1, <1>2
<1> DEFINE w == IF X(i) > 0 THEN f[i - 1] ELSE IF Y(i) > 0 THEN f[i - W] ELSE half
           n == IF Y(i) > 0 THEN f[i - W] ELSE w
           nw == IF X(i) > 0 /\ Y(i) > 0 THEN f[i - W - 1] ELSE n
           ne == IF Y(i) > 0 /\ X(i) + 1 < W THEN f[i - W + 1] ELSE n
           ww == IF X(i) > 1 THEN f[i - 2] ELSE w
           nn == IF Y(i) > 1 THEN f[i - 2 * W] ELSE n
<1>10. w \in 0..maxv
  BY <1>3, <1>4, <1>5
<1>11. n \in 0..maxv
  BY <1>5, <1>10
<1> HIDE DEF w, n
<1>12. nw \in 0..maxv /\ ne \in 0..maxv /\ ww \in 0..maxv /\ nn \in 0..maxv
  BY <1>6, <1>7, <1>8, <1>9, <1>10, <1>11
<1>13. Neighbours(f, i) = [W |-> w, N |-> n, NW |-> nw, NE |-> ne, WW |-> ww, NN |-> nn]
  BY Zenon DEF Neighbours, w, n
<1> HIDE DEF nw, ne, ww, nn
<1> QED
  BY <1>10, <1>11, <1>12, <1>13 DEF SampleValues

\* The number of tiles along a side is enough for its samples.
LEMMA TileAlong ==
  ASSUME NEW d \in Nat \ {0}, NEW n \in Nat \ {0}, NEW x \in 0..n - 1
  PROVE  (n + d - 1) \div d \in Nat \ {0} /\ x \div d \in 0..((n + d - 1) \div d) - 1
<1> DEFINE c == (n + d - 1) \div d
           r == (n + d - 1) % d
<1>1. n + d - 1 = d * c + r /\ r \in 0..d - 1 /\ c \in Nat
  <2>1. n + d - 1 \in Nat
    OBVIOUS
  <2> QED
    BY <2>1, QuotientIs
<1> HIDE DEF c, r
<1>2. d * c >= n
  BY <1>1
<1>3. c # 0
  BY <1>2
<1>4. x \in 0..c * d - 1
  BY <1>1, <1>2
<1>5. x \div d \in 0..c - 1
  BY <1>1, <1>3, <1>4, QuotientBelow
<1> QED
  BY <1>1, <1>3, <1>5 DEF c

LEMMA TileCountIs ==
  ASSUME shape \in Shapes, tlog \in Nat
  PROVE  TileCount \in Nat /\ \A i \in Indices : tlog # 0 => TileOf(i) \in Tiles
<1>1. TileSide \in Nat \ {0} /\ W \in Nat \ {0} /\ shape.h \in Nat \ {0}
  BY PowersPositive, ShapeIs DEF TileSide, W
<1>2. TilesAcross \in Nat \ {0} /\ TilesDown \in Nat \ {0}
  <2>1. 0 \in 0..W - 1 /\ 0 \in 0..shape.h - 1
    BY <1>1
  <2> QED
    BY <1>1, <2>1, TileAlong DEF TilesAcross, TilesDown
<1>3. TileCount \in Nat
  BY <1>2 DEF TileCount
<1>4. ASSUME NEW i \in Indices, tlog # 0 PROVE TileOf(i) \in Tiles
  <2>1. X(i) \in 0..W - 1 /\ Y(i) \in 0..shape.h - 1
    BY CellIs
  <2>2. X(i) \div TileSide \in 0..TilesAcross - 1
    BY <1>1, <2>1, TileAlong, Zenon DEF TilesAcross
  <2>3. Y(i) \div TileSide \in 0..TilesDown - 1
    BY <1>1, <2>1, TileAlong, Zenon DEF TilesDown
  <2>4. (Y(i) \div TileSide) * TilesAcross + X(i) \div TileSide \in 0..TilesAcross * TilesDown - 1
    BY <1>2, <2>2, <2>3, CellInside, Zenon
  <2> QED
    BY <1>4, <2>4 DEF TileOf, Tiles, TileCount
<1> QED
  BY <1>3, <1>4

-----------------------------------------------------------------------------
(* What a plane may be, and a map.                                          *)

GoodInput ==
  /\ shape \in Shapes /\ method \in {"base", "xzr"}
  /\ pos \in IF method = "base" THEN BOOLEAN ELSE {FALSE}
  /\ tlog \in Tilings /\ plane \in [Indices -> 0..maxv]

Pred(m, i) == IF tlog = 0 THEN 0 ELSE m[TileOf(i)]
Code(m, i) == CodeAt(i, Pred(m, i))

\* Samples from i on, within its row, that are as predicted.
Zeros(m, i) == {n \in 1..W - X(i) : \A j \in i..i + n - 1 : Code(m, j) = 0}
RunFrom(m, i) == Max(Zeros(m, i))

LEMMA PredictorsAre ==
  ASSUME method \in {"base", "xzr"}
  PROVE  /\ TreeBits \in Nat \ {0} /\ Predictors = 0..Power[TreeBits] - 1
         /\ Predictors \subseteq 0..15 /\ 0 \in Predictors
         /\ method = "xzr" => Predictors = 0..15
<1>1. Power[1] = 2 /\ Power[2] = 4 /\ Power[3] = 8 /\ Power[4] = 16
  <2>1. Power[1] = 2 * Power[0]
    BY Powers
  <2>2. Power[2] = 2 * Power[1]
    BY Powers
  <2>3. Power[3] = 2 * Power[2]
    BY Powers
  <2>4. Power[4] = 2 * Power[3]
    BY Powers
  <2> QED
    BY <2>1, <2>2, <2>3, <2>4, Powers
<1>2. CASE method = "base"
  BY <1>1, <1>2 DEF TreeBits, Predictors
<1>3. CASE method = "xzr"
  BY <1>1, <1>3 DEF TreeBits, Predictors
<1> QED
  BY <1>2, <1>3

LEMMA PredIs ==
  ASSUME GoodInput, NEW m \in [Tiles -> Predictors], NEW i \in Indices
  PROVE  Pred(m, i) \in Predictors /\ Pred(m, i) \in 0..15
<1>1. tlog \in Nat
  BY TilingsAssumption DEF GoodInput
<1>2. tlog # 0 => TileOf(i) \in Tiles
  BY <1>1, TileCountIs DEF GoodInput
<1> QED
  BY <1>2, PredictorsAre DEF Pred, GoodInput

\* The code of a sample, and the sample from it.
LEMMA CodeIs ==
  ASSUME GoodInput, NEW i \in Indices, NEW id \in 0..15
  PROVE  /\ CodeAt(i, id) \in 0..maxv
         /\ UnmapRes(CodeAt(i, id)) = ResidualAt(i, id)
         /\ Restored(Predict(id, Neighbours(plane, i)), ResidualAt(i, id)) = plane[i]
         /\ CodeAt(i, id) = 0 => Predict(id, Neighbours(plane, i)) = plane[i]
<1> DEFINE p == Predict(id, Neighbours(plane, i))
           s == plane[i]
<1>1. shape \in Shapes /\ pos \in BOOLEAN /\ s \in 0..maxv
  BY DEF GoodInput
<1>2. p \in 0..maxv
  BY NeighboursTyped, PredictionInRange DEF GoodInput
<1>3. ResidualAt(i, id) = Residual(s, p) /\ CodeAt(i, id) = MapRes(Residual(s, p))
  BY DEF ResidualAt, CodeAt
<1> HIDE DEF p, s
<1> DEFINE e == Residual(s, p)
<1>4. e \in -half..half - 1
  BY <1>1, <1>2, ResidualRange
<1>5. Restored(p, UnmapRes(MapRes(e))) = s
  BY <1>1, <1>2, SampleReversible
<1> HIDE DEF e
<1>6. MapRes(e) \in 0..maxv /\ UnmapRes(MapRes(e)) = e /\ (MapRes(e) = 0 <=> e = 0)
  BY <1>1, <1>4, MapReversible
<1>7. ASSUME e = 0 PROVE p = s
  <2>1. M \in Nat \ {0} /\ p \in 0..M - 1 /\ p \in Nat
    BY <1>1, <1>2, Levels
  <2>2. p + 0 = p
    BY <2>1
  <2>3. p % M = s
    BY <1>5, <1>6, <1>7, <2>2 DEF Restored
  <2> QED
    BY <2>1, <2>3, ModSame
<1> QED
  BY <1>3, <1>5, <1>6, <1>7 DEF p, s, e

LEMMA PredictedAt ==
  ASSUME GoodInput, NEW i \in Indices, NEW id \in 0..15, NEW f, \A j \in 0..i - 1 : f[j] = plane[j]
  PROVE  /\ Restored(Predict(id, Neighbours(f, i)), ResidualAt(i, id)) = plane[i]
         /\ CodeAt(i, id) = 0 => Predict(id, Neighbours(f, i)) = plane[i]
<1>1. Neighbours(f, i) = Neighbours(plane, i)
  BY NeighboursSame DEF GoodInput
<1> QED
  BY <1>1, CodeIs

-----------------------------------------------------------------------------
(* The context of a sample, after a code of k bits and a residual of sign s. *)

Activity(f, i) ==
  ActivityContext(IF method = "base" THEN NearActivity(Neighbours(f, i)) ELSE WideActivity(Neighbours(f, i)))
ContextOf(f, i, k, s) == ectx(Activity(f, i), k, s, method # "base")

LEMMA ContextNow ==
  ASSUME NEW f, NEW i
  PROVE  Context(f, i) = ContextOf(f, i, prevk, prevs)
BY DEF Context, ContextOf, Activity

LEMMA ContextSame ==
  ASSUME shape \in Shapes, NEW i \in Indices, NEW f, NEW g, \A j \in 0..i - 1 : f[j] = g[j], NEW k, NEW s
  PROVE  ContextOf(f, i, k, s) = ContextOf(g, i, k, s)
BY NeighboursSame DEF ContextOf, Activity

LEMMA ContextIs ==
  ASSUME GoodInput, NEW i \in Indices, NEW k \in Nat, NEW s
  PROVE  ContextOf(plane, i, k, s) \in Nat
<1> DEFINE b == Neighbours(plane, i)
<1>1. b \in SampleValues
  BY NeighboursTyped DEF GoodInput
<1> HIDE DEF b
<1>2. maxv \in Nat
  BY Levels DEF GoodInput
<1>3. NearActivity(b) \in Nat /\ WideActivity(b) \in Nat
  <2>1. /\ b.W \in Int /\ b.N \in Int /\ b.NW \in Int /\ b.NE \in Int /\ b.WW \in Int /\ b.NN \in Int
    BY <1>1, <1>2 DEF SampleValues
  <2>2. \A x, y \in Int : Abs(x - y) \in Nat
    BY DEF Abs
  <2>3. NearActivity(b) \in Nat
    <3>1. Abs(b.W - b.NW) \in Nat /\ Abs(b.NW - b.N) \in Nat /\ Abs(b.N - b.NE) \in Nat
      BY <2>1, <2>2
    <3> QED
      BY <3>1 DEF NearActivity
  <2>4. Abs(b.W - b.WW) \in Nat /\ Abs(b.N - b.NN) \in Nat
    BY <2>1, <2>2
  <2> QED
    BY <2>3, <2>4 DEF WideActivity
<1>4. \A n \in Nat : ActivityContext(n) \in Nat
  <2> SUFFICES ASSUME NEW n \in Nat PROVE ActivityContext(n) \in Nat
    OBVIOUS
  <2>1. CASE n > 1024 \/ n <= 2
    BY <2>1 DEF ActivityContext
  <2>2. CASE ~ (n > 1024) /\ ~ (n <= 2)
    <3>1. n - 1 \in Nat
      BY <2>2
    <3>2. Bits(n - 1) \in Nat
      BY <3>1, BitsIs
    <3> QED
      BY <2>2, <3>2 DEF ActivityContext
  <2> QED
    BY <2>1, <2>2
<1>5. Activity(plane, i) \in Nat
  BY <1>3, <1>4 DEF Activity, b
<1> DEFINE a == Activity(plane, i)
<1> HIDE DEF a
<1>6. a \in Nat
  BY <1>5 DEF a
<1>7. \A six \in BOOLEAN : ectx(a, k, s, six) \in Nat
  BY <1>6 DEF ectx
<1>8. (method # "base") \in BOOLEAN
  OBVIOUS
<1> QED
  BY <1>7, <1>8 DEF ContextOf, a

-----------------------------------------------------------------------------
(* The map.                                                                 *)

LEMMA MinIs ==
  ASSUME NEW S \in SUBSET Nat, S # {}
  PROVE  Min(S) \in S
<1>1. \E n \in S : \A m \in S : n <= m
  BY Smallest
<1> QED
  BY <1>1 DEF Min

LEMMA CostIs ==
  ASSUME GoodInput, NEW tile, NEW id \in 0..15
  PROVE  TileCost(tile, id) \in Nat
<1> DEFINE T == {i \in Indices : TileOf(i) = tile}
           cost(i) == Cost(CodeAt(i, id))
           some(s) == CHOOSE x \in s : TRUE
           from(g) == [s \in SUBSET T |-> IF s = {} THEN 0 ELSE cost(some(s)) + g[s \ {some(s)}]]
           iter == CHOOSE g : g = from(g)
           Small(n) == {s \in SUBSET T : Cardinality(s) <= n}
           Sums(n) == {g \in [Small(n) -> Nat] :
                         \A s \in Small(n) : g[s] = IF s = {} THEN 0 ELSE cost(some(s)) + g[s \ {some(s)}]}
<1>1. TileCost(tile, id) = iter[T]
  BY DEF TileCost, MapThenSumSet, MapThenFoldSet
<1>2. ASSUME NEW i \in T PROVE cost(i) \in Nat
  <2>1. CodeAt(i, id) \in Nat
    <3>0. i \in Indices
      OBVIOUS
    <3>1. CodeAt(i, id) \in 0..maxv
      BY <3>0, CodeIs
    <3>2. maxv \in Nat
      BY Levels DEF GoodInput
    <3> QED
      BY <3>1, <3>2
  <2>2. Bits(CodeAt(i, id)) \in Nat
    BY <2>1, BitsIs
  <2> QED
    BY <2>1, <2>2 DEF Cost
<1> HIDE DEF cost
<1>3. IsFiniteSet(T)
  <2>1. Size \in Int
    <3>1. shape.w \in Nat /\ shape.h \in Nat
      BY ShapeIs DEF GoodInput
    <3> QED
      BY <3>1 DEF Size
  <2>2. IsFiniteSet(Indices)
    BY <2>1, FS_Interval DEF Indices
  <2> QED
    BY <2>2, FS_Subset
<1> HIDE DEF T
<1>4. ASSUME NEW s \in SUBSET T
      PROVE  Cardinality(s) \in Nat /\ (Cardinality(s) = 0 <=> s = {})
             /\ (s # {} => /\ some(s) \in s /\ some(s) \in T /\ s \ {some(s)} \in SUBSET T
                           /\ Cardinality(s \ {some(s)}) = Cardinality(s) - 1)
  <2>1. IsFiniteSet(s)
    BY <1>3, FS_Subset
  <2>2. Cardinality(s) \in Nat /\ (Cardinality(s) = 0 <=> s = {})
    BY <2>1, FS_CardinalityType, FS_EmptySet
  <2>3. ASSUME s # {}
        PROVE  /\ some(s) \in s /\ some(s) \in T /\ s \ {some(s)} \in SUBSET T
               /\ Cardinality(s \ {some(s)}) = Cardinality(s) - 1
    <3>1. some(s) \in s
      BY <2>3
    <3> HIDE DEF some
    <3> QED
      BY <2>1, <3>1, FS_RemoveElement
  <2> QED
    BY <2>2, <2>3
<1> HIDE DEF some
<1>10. \A s \in Small(0) : s = {}
  <2> TAKE s \in Small(0)
  <2>1. Cardinality(s) \in Nat /\ (Cardinality(s) = 0 <=> s = {}) /\ Cardinality(s) <= 0
    BY <1>4
  <2> QED
    BY <2>1
<1>11. ASSUME NEW n \in Nat, NEW s \in Small(n) PROVE s \in Small(n + 1)
  <2>1. Cardinality(s) \in Nat /\ Cardinality(s) <= n
    BY <1>4
  <2>2. Cardinality(s) <= n + 1
    BY <2>1
  <2> QED
    BY <2>2
<1>5. \A n \in Nat : Sums(n) # {}
  <2> DEFINE Found == {n \in Nat : Sums(n) # {}}
  <2>1. 0 \in Found
    <3> DEFINE g == [s \in Small(0) |-> 0]
    <3>2. g \in Sums(0)
      BY <1>10
    <3> QED
      BY <3>2
  <2>2. ASSUME NEW n \in Nat, n \in Found PROVE n + 1 \in Found
    <3>1. PICK q : q \in Sums(n)
      BY <2>2
    <3> DEFINE next(s) == IF s = {} THEN 0 ELSE cost(some(s)) + q[s \ {some(s)}]
               g == [s \in Small(n + 1) |-> next(s)]
    <3>2. ASSUME NEW s \in Small(n + 1), s # {}
          PROVE  s \ {some(s)} \in Small(n) /\ some(s) \in T
      BY <1>4, <3>2
    <3>3. q \in [Small(n) -> Nat] /\ \A s \in Small(n) : q[s] = next(s)
      BY <3>1
    <3>4. ASSUME NEW s \in Small(n + 1) PROVE next(s) \in Nat
      BY <1>2, <3>2, <3>3
    <3>5. \A s \in Small(n) : s \in Small(n + 1)
      BY <1>11
    <3> HIDE DEF Small, next
    <3>6. g \in [Small(n + 1) -> Nat] /\ \A s \in Small(n + 1) : g[s] = next(s)
      BY <3>4
    <3>7. \A s \in Small(n) : g[s] = q[s]
      BY <3>3, <3>5, <3>6
    <3> HIDE DEF g
    <3>8. \A s \in Small(n + 1) : g[s] = IF s = {} THEN 0 ELSE cost(some(s)) + g[s \ {some(s)}]
      BY <3>2, <3>6, <3>7 DEF next
    <3>9. g \in Sums(n + 1)
      BY <3>6, <3>8
    <3> QED
      BY <3>9
  <2> HIDE DEF Found
  <2>3. \A n \in Nat : n \in Found
    BY <2>1, <2>2, Induction
  <2> QED
    BY <2>3 DEF Found
<1>6. iter = from(iter)
  <2>1. Cardinality(T) \in Nat
    BY <1>3, FS_CardinalityType
  <2>2. Small(Cardinality(T)) = SUBSET T
    BY <1>3, FS_Subset
  <2>3. PICK g : g \in Sums(Cardinality(T))
    BY <1>5, <2>1
  <2>4. g \in [SUBSET T -> Nat]
        /\ \A s \in SUBSET T : g[s] = IF s = {} THEN 0 ELSE cost(some(s)) + g[s \ {some(s)}]
    BY <2>2, <2>3
  <2>5. g = from(g)
    BY <2>4
  <2>6. \E h : h = from(h)
    BY <2>5
  <2> HIDE DEF from
  <2> QED
    BY <2>6
<1> HIDE DEF iter, Sums
<1>7. \A s \in SUBSET T : iter[s] = IF s = {} THEN 0 ELSE cost(some(s)) + iter[s \ {some(s)}]
  BY <1>6
<1>8. \A n \in Nat : \A s \in Small(n) : iter[s] \in Nat
  <2> DEFINE Natural == {n \in Nat : \A s \in Small(n) : iter[s] \in Nat}
  <2>1. 0 \in Natural
    <3>1. \A s \in Small(0) : s \in SUBSET T
      OBVIOUS
    <3> HIDE DEF Small
    <3>2. \A s \in Small(0) : iter[s] = 0
      BY <1>7, <1>10, <3>1
    <3> QED
      BY <3>2
  <2>2. ASSUME NEW n \in Nat, n \in Natural PROVE n + 1 \in Natural
    <3> SUFFICES ASSUME NEW s \in Small(n + 1) PROVE iter[s] \in Nat
      OBVIOUS
    <3>1. CASE s = {}
      BY <1>7, <3>1
    <3>2. CASE s # {}
      <4>1. s \ {some(s)} \in Small(n) /\ some(s) \in T
        BY <1>4, <3>2
      <4>2. iter[s \ {some(s)}] \in Nat /\ cost(some(s)) \in Nat
        BY <1>2, <2>2, <4>1
      <4> QED
        BY <1>7, <3>2, <4>2
    <3> QED
      BY <3>1, <3>2
  <2> HIDE DEF Natural
  <2>3. \A n \in Nat : n \in Natural
    BY <2>1, <2>2, Induction
  <2> QED
    BY <2>3 DEF Natural
<1>9. Cardinality(T) \in Nat /\ T \in Small(Cardinality(T))
  BY <1>3, FS_CardinalityType
<1> QED
  BY <1>1, <1>8, <1>9

LEMMA CheapestIs ==
  ASSUME GoodInput, NEW tile
  PROVE  Cheapest(tile) \in Predictors
<1> DEFINE costs == {TileCost(tile, id) : id \in Predictors}
           best == {id \in Predictors : \A other \in Predictors : TileCost(tile, id) <= TileCost(tile, other)}
<1>1. Predictors \subseteq 0..15 /\ 0 \in Predictors
  BY PredictorsAre DEF GoodInput
<1>2. \A id \in Predictors : TileCost(tile, id) \in Nat
  BY <1>1, CostIs
<1>3. costs \in SUBSET Nat /\ costs # {}
  BY <1>1, <1>2
<1>4. PICK n \in costs : \A m \in costs : n <= m
  <2> HIDE DEF costs
  <2> QED
    BY <1>3, Smallest
<1>5. best # {} /\ best \in SUBSET Nat
  <2>1. PICK id \in Predictors : n = TileCost(tile, id)
    OBVIOUS
  <2>2. \A other \in Predictors : TileCost(tile, other) \in costs
    OBVIOUS
  <2>3. id \in best
    BY <1>4, <2>1, <2>2
  <2>4. best \subseteq Predictors
    OBVIOUS
  <2>5. Predictors \subseteq Nat
    BY <1>1
  <2> HIDE DEF best
  <2> QED
    BY <2>3, <2>4, <2>5
<1>6. Min(best) \in best
  <2> HIDE DEF best
  <2> QED
    BY <1>5, MinIs
<1> QED
  BY <1>6 DEF Cheapest

LEMMA MapsAre ==
  ASSUME GoodInput
  PROVE  Maps \subseteq [Tiles -> Predictors]
<1>1. \A tile \in Tiles : Cheapest(tile) \in Predictors
  BY CheapestIs
<1>2. method = "xzr" => Presets \subseteq Predictors
  BY PresetsAssumption, PredictorsAre
<1> QED
  BY <1>1, <1>2 DEF Maps

MapWire(m) == FlattenSeq([n \in 1..TileCount |-> Tree(TreeBits, m[n - 1])])

\* A tree of so many bits.
LEMMA TreeFits ==
  ASSUME NEW bits \in Nat, NEW sym \in Nat
  PROVE  Tree(bits, sym) \in Seq(Entry) /\ Len(Tree(bits, sym)) = bits
BY TreeShape

LEMMA MapShape ==
  ASSUME GoodInput, NEW m \in [Tiles -> Predictors]
  PROVE  /\ MapWire(m) \in Seq(Entry) /\ Len(MapWire(m)) = TreeBits * TileCount
         /\ \A t \in 1..TileCount : \A i \in 1..TreeBits :
              MapWire(m)[TreeBits * (t - 1) + i] = Tree(TreeBits, m[t - 1])[i]
         /\ \A t \in 1..TileCount : m[t - 1] \in Nat /\ m[t - 1] < Power[TreeBits]
         /\ TileCount \in Nat /\ TreeBits \in Nat \ {0}
<1>1. TreeBits \in Nat \ {0} /\ Predictors = 0..Power[TreeBits] - 1 /\ Power[TreeBits] \in Nat
  BY PredictorsAre, Powers DEF GoodInput
<1>2. TileCount \in Nat
  BY TileCountIs, TilingsAssumption DEF GoodInput
<1>3. ASSUME NEW t \in 1..TileCount
      PROVE  m[t - 1] \in Nat /\ m[t - 1] < Power[TreeBits]
  <2>1. t - 1 \in Tiles
    BY <1>2 DEF Tiles
  <2>2. m[t - 1] \in Predictors
    BY <2>1
  <2> QED
    BY <1>1, <2>2
<1> DEFINE parts == [n \in 1..TileCount |-> Tree(TreeBits, m[n - 1])]
<1>4. ASSUME NEW t \in 1..TileCount
      PROVE  parts[t] \in Seq(Entry) /\ Len(parts[t]) = TreeBits
  <2>1. parts[t] = Tree(TreeBits, m[t - 1])
    OBVIOUS
  <2> DEFINE sym == m[t - 1]
             b == TreeBits
  <2>2. b \in Nat /\ sym \in Nat /\ parts[t] = Tree(b, sym)
    BY <1>1, <1>3, <2>1
  <2>3. b = TreeBits
    OBVIOUS
  <2> HIDE DEF parts, sym, b
  <2>4. Tree(b, sym) \in Seq(Entry) /\ Len(Tree(b, sym)) = b
    BY <2>2, TreeFits
  <2> QED
    BY <2>2, <2>3, <2>4
<1>5. parts = [t \in 1..TileCount |-> parts[t]] /\ \A t \in 1..TileCount : parts[t] = Tree(TreeBits, m[t - 1])
  OBVIOUS
<1>6. MapWire(m) = FlattenSeq(parts)
  BY DEF MapWire
<1> HIDE DEF parts
<1>7. /\ FlattenSeq(parts) \in Seq(Entry) /\ Len(FlattenSeq(parts)) = TreeBits * TileCount
      /\ \A t \in 1..TileCount : \A i \in 1..TreeBits : FlattenSeq(parts)[TreeBits * (t - 1) + i] = parts[t][i]
  <2>1. Flat(Entry, TreeBits, TileCount, parts, FlattenSeq(parts))
    BY <1>1, <1>2, <1>4, <1>5, FlatIs, Zenon
  <2> QED
    BY <2>1 DEF Flat
<1> QED
  BY <1>1, <1>2, <1>3, <1>5, <1>6, <1>7, SMTT(60)

TreeAt(n) == TreeRead(TreeBits, (n - 1) * TreeBits)

Trees == [n \in 1..TileCount |-> TreeAt(n)]
TreeSlots == FlattenSeq([n \in 1..TileCount |-> Trees[n].slots])

LEMMA MapComesBack ==
  ASSUME GoodInput, NEW m \in [Tiles -> Predictors], Len(wire) \in Nat, Stands(0, MapWire(m))
  PROVE  /\ Agrees(0, TreeSlots) /\ Len(TreeSlots) = TreeBits * TileCount
         /\ [tile \in Tiles |-> Trees[tile + 1].value] = m
<1>a. PICK trees, slots : trees = Trees /\ slots = TreeSlots
  OBVIOUS
<1>b. trees = [n \in 1..TileCount |-> TreeAt(n)] /\ slots = FlattenSeq([n \in 1..TileCount |-> trees[n].slots])
  BY <1>a, Zenon DEF Trees, TreeSlots
<1> DEFINE b == TreeBits
           bits == MapWire(m)
<1>1. /\ bits \in Seq(Entry) /\ Len(bits) = b * TileCount
      /\ \A t \in 1..TileCount : \A i \in 1..b : bits[b * (t - 1) + i] = Tree(b, m[t - 1])[i]
      /\ \A t \in 1..TileCount : m[t - 1] \in Nat /\ m[t - 1] < Power[b]
      /\ TileCount \in Nat /\ b \in Nat \ {0}
  BY MapShape
<1>2. Stands(0, bits)
  OBVIOUS
<1> HIDE DEF b, bits
<1>3. ASSUME NEW t \in 1..TileCount
      PROVE  TreeAt(t).value = m[t - 1] /\ AsWritten(TreeAt(t).slots, Tree(b, m[t - 1]))
             /\ Len(Tree(b, m[t - 1])) = b
  <2> DEFINE r == (t - 1) * b
             tree == Tree(b, m[t - 1])
  <2>0. t \in Nat /\ t - 1 \in Nat /\ b \in Nat /\ TileCount \in Nat
    BY <1>1
  <2>1. r \in Nat /\ r = b * (t - 1)
    <3> DEFINE a == t - 1
    <3>1. a \in Nat
      BY <2>0
    <3> HIDE DEF a
    <3>2. a * b \in Nat /\ a * b = b * a
      BY <2>0, <3>1
    <3> QED
      BY <3>2 DEF a
  <2>2. tree \in Seq(Entry) /\ Len(tree) = b
    <3> DEFINE sym == m[t - 1]
    <3>1. sym \in Nat
      BY <1>1
    <3> HIDE DEF sym
    <3>2. Tree(b, sym) \in Seq(Entry) /\ Len(Tree(b, sym)) = b
      BY <2>0, <3>1, TreeFits
    <3> QED
      BY <3>2 DEF sym
  <2>3. ASSUME NEW i \in 1..b PROVE r + i <= Len(wire) /\ wire[r + i] = tree[i]
    <3> DEFINE j == b * (t - 1) + i
    <3>1. j \in 1..b * TileCount
      <4>1. b \in Nat \ {0} /\ TileCount \in Nat
        BY <1>1
      <4> QED
        BY <4>1, SpotIs, Zenon
    <3>2. j = r + i /\ bits[j] = tree[i]
      BY <1>1, <2>1
    <3> HIDE DEF j, r, tree
    <3>3. 0 + j = j /\ j <= Len(wire) /\ wire[0 + j] = bits[j]
      BY <1>1, <1>2, <3>1 DEF Stands
    <3> QED
      BY <3>2, <3>3
  <2>4. Stands(r, tree)
    <3>1. b \in 1..b
      BY <1>1
    <3> HIDE DEF r, tree
    <3> QED
      BY <2>2, <2>3, <3>1 DEF Stands
  <2>5. TreeAt(t) = TreeRead(b, r)
    BY DEF TreeAt, b
  <2> DEFINE sym == m[t - 1]
  <2>6. sym \in Nat /\ sym < Power[b] /\ tree = Tree(b, sym)
    BY <1>1
  <2> HIDE DEF r, sym, tree
  <2>7. TreeRead(b, r).value = sym /\ AsWritten(TreeRead(b, r).slots, Tree(b, sym))
    BY <2>0, <2>1, <2>4, <2>6, TreeComesBack
  <2> QED
    BY <2>2, <2>5, <2>6, <2>7 DEF sym
<1> DEFINE parts == [n \in 1..TileCount |-> trees[n].slots]
<1>4. \A t \in 1..TileCount : trees[t] = TreeAt(t)
  BY <1>b
<1>5. ASSUME NEW t \in 1..TileCount PROVE parts[t] \in Seq(Slot) /\ Len(parts[t]) = b
  BY <1>3, <1>4 DEF AsWritten
<1>6. parts = [t \in 1..TileCount |-> parts[t]] /\ slots = FlattenSeq(parts)
      /\ \A t \in 1..TileCount : parts[t] = TreeAt(t).slots
  BY <1>b, <1>4
<1> HIDE DEF parts
<1>7. /\ slots \in Seq(Slot) /\ Len(slots) = b * TileCount
      /\ \A t \in 1..TileCount : \A i \in 1..b : slots[b * (t - 1) + i] = parts[t][i]
  <2>1. /\ FlattenSeq(parts) \in Seq(Slot) /\ Len(FlattenSeq(parts)) = b * TileCount
        /\ \A t \in 1..TileCount : \A i \in 1..b : FlattenSeq(parts)[b * (t - 1) + i] = parts[t][i]
    <3>1. b \in Nat \ {0} /\ TileCount \in Nat
      BY <1>1
    <3>2. Flat(Slot, b, TileCount, parts, FlattenSeq(parts))
      BY <1>5, <1>6, <3>1, FlatIs, Zenon
    <3> QED
      BY <3>2 DEF Flat
  <2> QED
    BY <1>6, <2>1
<1>8. ASSUME NEW j \in 1..b * TileCount PROVE bits[j].slot = slots[j]
  <2> DEFINE t == ((j - 1) \div b) + 1
             i == ((j - 1) % b) + 1
  <2>1. t \in 1..TileCount /\ i \in 1..b /\ b * (t - 1) + i = j
    <3>1. b \in Nat \ {0} /\ TileCount \in Nat
      BY <1>1
    <3>2. Spot(b, TileCount, j, t, i)
      BY <3>1, SpotOf, Zenon
    <3> QED
      BY <3>2, Zenon DEF Spot
  <2> HIDE DEF t, i
  <2>2. bits[j] = Tree(b, m[t - 1])[i] /\ slots[j] = TreeAt(t).slots[i]
    BY <1>1, <1>6, <1>7, <2>1, ZenonT(60)
  <2>3. Tree(b, m[t - 1])[i].slot = TreeAt(t).slots[i]
    BY <1>3, <2>1 DEF AsWritten
  <2> QED
    BY <2>2, <2>3
<1>9. AsWritten(slots, bits)
  BY <1>1, <1>7, <1>8 DEF AsWritten
<1>10. Agrees(0, slots)
  BY <1>2, <1>9, StandsAgrees
<1>11. [tile \in Tiles |-> trees[tile + 1].value] = m
  <2>1. ASSUME NEW tile \in Tiles PROVE trees[tile + 1].value = m[tile]
    <3>1. tile + 1 \in 1..TileCount /\ (tile + 1) - 1 = tile
      BY <1>1 DEF Tiles
    <3>2. TreeAt(tile + 1).value = m[(tile + 1) - 1]
      BY <1>3, <3>1
    <3> QED
      BY <1>4, <3>1, <3>2
  <2> QED
    BY <2>1
<1> QED
  BY <1>a, <1>7, <1>10, <1>11, Zenon DEF b

-----------------------------------------------------------------------------
(* Codes one behind the other.                                              *)

LEMMA Prefixed ==
  ASSUME NEW p, NEW c, NEW a, NEW b, AsWritten(a, p), AsWritten(b, c)
  PROVE  AsWritten(a \o b, p \o c) /\ Len(p \o c) = Len(p) + Len(c) /\ p \o c \in Seq(Entry)
<1>1. /\ a \in Seq(Slot) /\ b \in Seq(Slot) /\ p \in Seq(Entry) /\ c \in Seq(Entry)
      /\ Len(a) = Len(p) /\ Len(b) = Len(c) /\ Len(p) \in Nat /\ Len(c) \in Nat
      /\ \A i \in 1..Len(p) : p[i].slot = a[i]
      /\ \A i \in 1..Len(c) : c[i].slot = b[i]
  BY DEF AsWritten
<1> DEFINE s == a \o b
           t == p \o c
<1>2. s \in Seq(Slot) /\ Len(s) = Len(a) + Len(b)
      /\ \A i \in 1..Len(a) + Len(b) : s[i] = IF i <= Len(a) THEN a[i] ELSE b[i - Len(a)]
  <2>1. a \in Seq(Slot) /\ b \in Seq(Slot)
    BY <1>1
  <2> QED
    BY <2>1, ConcatProperties, Zenon
<1>3. t \in Seq(Entry) /\ Len(t) = Len(p) + Len(c)
      /\ \A i \in 1..Len(p) + Len(c) : t[i] = IF i <= Len(p) THEN p[i] ELSE c[i - Len(p)]
  <2>1. p \in Seq(Entry) /\ c \in Seq(Entry)
    BY <1>1
  <2> QED
    BY <2>1, ConcatProperties, Zenon
<1> HIDE DEF s, t
<1>4. ASSUME NEW i \in 1..Len(t) PROVE t[i].slot = s[i]
  <2>1. CASE i <= Len(p)
    <3>1. i \in 1..Len(p) /\ i \in 1..Len(p) + Len(c) /\ i \in 1..Len(a) + Len(b) /\ i <= Len(a)
      BY <1>1, <1>3, <2>1
    <3>2. t[i] = p[i] /\ s[i] = a[i]
      BY <1>2, <1>3, <2>1, <3>1
    <3> QED
      BY <1>1, <3>1, <3>2
  <2>2. CASE ~ (i <= Len(p))
    <3>1. i - Len(p) \in 1..Len(c)
      BY <1>1, <1>3, <2>2
    <3> QED
      BY <1>1, <1>2, <1>3, <2>2, <3>1
  <2> QED
    BY <2>1, <2>2
<1>5. Len(s) = Len(t)
  BY <1>1, <1>2, <1>3
<1>6. AsWritten(s, t)
  BY <1>2, <1>3, <1>4, <1>5 DEF AsWritten
<1> QED
  BY <1>3, <1>6 DEF s, t

LEMMA StandsSplit ==
  ASSUME NEW r \in Nat, Len(wire) \in Nat, NEW p \in Seq(Entry), NEW c \in Seq(Entry), Stands(r, p \o c)
  PROVE  Stands(r, p) /\ Stands(r + Len(p), c)
<1> DEFINE t == p \o c
<1>1. t \in Seq(Entry) /\ Len(t) = Len(p) + Len(c)
      /\ \A i \in 1..Len(p) + Len(c) : t[i] = IF i <= Len(p) THEN p[i] ELSE c[i - Len(p)]
  BY ConcatProperties, Zenon
<1>2. Stands(r, t)
  OBVIOUS
<1> HIDE DEF t
<1>3. Len(p) \in Nat /\ Len(c) \in Nat
  OBVIOUS
<1>4. r + (Len(p) + Len(c)) <= Len(wire) /\ \A i \in 1..Len(p) + Len(c) : wire[r + i] = t[i]
  BY <1>1, <1>2 DEF Stands
<1>5. Stands(r, p)
  BY <1>1, <1>3, <1>4, SMTT(60) DEF Stands
<1>6. Stands(r + Len(p), c)
  <2>1. ASSUME NEW i \in 1..Len(c) PROVE wire[r + Len(p) + i] = c[i]
    <3>1. Len(p) + i \in 1..Len(p) + Len(c) /\ r + (Len(p) + i) = r + Len(p) + i
          /\ ~ (Len(p) + i <= Len(p)) /\ (Len(p) + i) - Len(p) = i
      BY <1>3
    <3>2. wire[r + (Len(p) + i)] = t[Len(p) + i] /\ t[Len(p) + i] = c[i]
      BY <1>1, <1>4, <3>1
    <3> QED
      BY <3>1, <3>2
  <2> QED
    BY <1>3, <1>4, <2>1 DEF Stands
<1> QED
  BY <1>5, <1>6

\* What stands on the wire stands there when more is written.
LEMMA StandsStill ==
  ASSUME NEW r \in Nat, NEW c, NEW w \in Seq(Entry), NEW v \in Seq(Entry), wire = w, wire' = w \o v,
         Len(c) \in Nat, Stands(r, c)
  PROVE  Stands(r, c)'
<1> DEFINE t == w \o v
<1>1. t \in Seq(Entry) /\ Len(t) = Len(w) + Len(v)
      /\ \A i \in 1..Len(w) + Len(v) : t[i] = IF i <= Len(w) THEN w[i] ELSE v[i - Len(w)]
  BY ConcatProperties, Zenon
<1>2. wire' = t /\ Len(w) \in Nat /\ Len(v) \in Nat
  OBVIOUS
<1> HIDE DEF t
<1>3. r + Len(c) <= Len(w) /\ \A i \in 1..Len(c) : w[r + i] = c[i]
  BY DEF Stands
<1>4. \A i \in 1..Len(c) : t[r + i] = c[i]
  BY <1>1, <1>2, <1>3
<1>5. r + Len(c) <= Len(t)
  BY <1>1, <1>2, <1>3
<1> QED
  BY <1>2, <1>4, <1>5 DEF Stands

\* What is written stands at the end.
LEMMA StandsLast ==
  ASSUME NEW w \in Seq(Entry), NEW v \in Seq(Entry), wire' = w \o v
  PROVE  Stands(Len(w), v)'
<1> DEFINE t == w \o v
<1>1. t \in Seq(Entry) /\ Len(t) = Len(w) + Len(v)
      /\ \A i \in 1..Len(w) + Len(v) : t[i] = IF i <= Len(w) THEN w[i] ELSE v[i - Len(w)]
  BY ConcatProperties, Zenon
<1>2. wire' = t /\ Len(w) \in Nat /\ Len(v) \in Nat
  OBVIOUS
<1> HIDE DEF t
<1>3. \A i \in 1..Len(v) : t[Len(w) + i] = v[i]
  BY <1>1, <1>2, SMTT(60)
<1> QED
  BY <1>1, <1>2, <1>3 DEF Stands

-----------------------------------------------------------------------------
(* What depends on the input alone stays as it is.                          *)

LEMMA SizesStay ==
  ASSUME UNCHANGED input
  PROVE  /\ W' = W /\ Size' = Size /\ Indices' = Indices /\ M' = M /\ half' = half /\ maxv' = maxv
         /\ shape' = shape /\ method' = method /\ pos' = pos /\ tlog' = tlog /\ plane' = plane
<1>1. shape' = shape /\ method' = method /\ pos' = pos /\ tlog' = tlog /\ plane' = plane
  BY DEF input
<1>2. W' = W /\ Size' = Size /\ M' = M
  BY <1>1 DEF W, Size, M
<1>3. Indices' = Indices /\ half' = half /\ maxv' = maxv
  BY <1>2 DEF Indices, half, maxv
<1> QED
  BY <1>1, <1>2, <1>3

LEMMA CellsStay ==
  ASSUME UNCHANGED input, NEW i
  PROVE  X(i)' = X(i) /\ Y(i)' = Y(i)
BY SizesStay DEF X, Y

LEMMA NeighboursStay ==
  ASSUME UNCHANGED input, NEW f, NEW i
  PROVE  Neighbours(f, i)' = Neighbours(f, i)
BY SizesStay, CellsStay DEF Neighbours

LEMMA ClampStays ==
  ASSUME UNCHANGED input, NEW n
  PROVE  Clamp(n)' = Clamp(n)
BY SizesStay, Zenon DEF Clamp

LEMMA PredictStays ==
  ASSUME UNCHANGED input, NEW id, NEW b
  PROVE  Predict(id, b)' = Predict(id, b)
BY ClampStays DEF Predict

LEMMA ResidualStays ==
  ASSUME UNCHANGED input, NEW i, NEW id
  PROVE  ResidualAt(i, id)' = ResidualAt(i, id)
BY SizesStay, NeighboursStay, PredictStays, Zenon DEF ResidualAt, Residual

LEMMA CodeStays ==
  ASSUME UNCHANGED input, NEW i, NEW id
  PROVE  CodeAt(i, id)' = CodeAt(i, id)
<1>1. \A e : MapRes(e)' = MapRes(e)
  BY SizesStay DEF MapRes
<1>2. ResidualAt(i, id)' = ResidualAt(i, id)
  BY ResidualStays
<1> QED
  BY <1>1, <1>2, Zenon DEF CodeAt

LEMMA TilesStay ==
  ASSUME UNCHANGED input
  PROVE  /\ TreeBits' = TreeBits /\ Predictors' = Predictors
         /\ TileCount' = TileCount /\ Tiles' = Tiles
         /\ \A i : TileOf(i)' = TileOf(i)
<1>1. TreeBits' = TreeBits
  BY SizesStay, Zenon DEF TreeBits
<1>2. TileSide' = TileSide
  BY SizesStay, Zenon DEF TileSide
<1>3. TilesAcross' = TilesAcross /\ TilesDown' = TilesDown
  BY SizesStay, <1>2, Zenon DEF TilesAcross, TilesDown
<1>4. TileCount' = TileCount
  BY SizesStay, <1>3, Zenon DEF TileCount
<1>5. \A i : TileOf(i)' = TileOf(i)
  BY CellsStay, <1>2, <1>3, Zenon DEF TileOf
<1> QED
  BY <1>1, <1>4, <1>5, Zenon DEF Predictors, Tiles

LEMMA PredStays ==
  ASSUME UNCHANGED input, NEW m, NEW i
  PROVE  Pred(m, i)' = Pred(m, i) /\ Code(m, i)' = Code(m, i)
<1>1. Pred(m, i)' = Pred(m, i)
  BY SizesStay, TilesStay, Zenon DEF Pred
<1>2. CodeAt(i, Pred(m, i))' = CodeAt(i, Pred(m, i))
  <2>1. \A id : CodeAt(i, id)' = CodeAt(i, id)
    BY CodeStays
  <2> QED
    BY <1>1, <2>1, Zenon
<1> QED
  BY <1>1, <1>2, Zenon DEF Code

LEMMA RunStays ==
  ASSUME UNCHANGED input, NEW m, NEW i
  PROVE  RunFrom(m, i)' = RunFrom(m, i)
<1>1. Zeros(m, i)' = Zeros(m, i)
  BY SizesStay, CellsStay, PredStays DEF Zeros
<1> QED
  BY <1>1, Zenon DEF RunFrom

LEMMA ContextStays ==
  ASSUME UNCHANGED input, NEW f, NEW i, NEW k, NEW s
  PROVE  ContextOf(f, i, k, s)' = ContextOf(f, i, k, s)
<1>1. Activity(f, i)' = Activity(f, i)
  BY SizesStay, NeighboursStay, Zenon DEF Activity
<1> QED
  BY SizesStay, <1>1, Zenon DEF ContextOf

LEMMA MapStays ==
  ASSUME UNCHANGED input, NEW m
  PROVE  MapWire(m)' = MapWire(m)
BY TilesStay, Zenon DEF MapWire

LEMMA SampleStays ==
  ASSUME UNCHANGED input, NEW ctx, NEW v
  PROVE  Sample(ctx, v)' = Sample(ctx, v)
BY SizesStay, Zenon DEF Sample

LEMMA GoodStays ==
  ASSUME UNCHANGED input, GoodInput
  PROVE  GoodInput'
BY SizesStay, Zenon DEF GoodInput

-----------------------------------------------------------------------------
(* The stream, place by place.  A place is a sample with what the coder     *)
(* keeps there and the bits before it.                                      *)

LEMMA RunIs ==
  ASSUME GoodInput, NEW m, NEW i \in Indices, Code(m, i) = 0
  PROVE  /\ RunFrom(m, i) \in Nat \ {0} /\ RunFrom(m, i) <= W - X(i) /\ i + RunFrom(m, i) <= Size
         /\ \A j \in i..i + RunFrom(m, i) - 1 : j \in Indices /\ Code(m, j) = 0
<1>1. i \in Nat /\ W \in Nat \ {0} /\ Size \in Nat /\ X(i) \in 0..W - 1 /\ i + (W - X(i)) <= Size
  BY CellIs DEF GoodInput
<1> DEFINE left == W - X(i)
           short == {left - n : n \in Zeros(m, i)}
<1>2. left \in Nat \ {0} /\ i + left <= Size
  BY <1>1
<1> HIDE DEF left
<1>3. Zeros(m, i) \subseteq 1..left /\ 1 \in Zeros(m, i)
  BY <1>1, <1>2 DEF Zeros, left
<1>4. short \in SUBSET Nat /\ short # {}
  BY <1>2, <1>3
<1>5. PICK d \in short : \A e \in short : d <= e
  <2> HIDE DEF short
  <2> QED
    BY <1>4, Smallest
<1>6. PICK n \in Zeros(m, i) : d = left - n
  BY <1>5
<1>7. ASSUME NEW e \in Zeros(m, i) PROVE n >= e
  <2>1. left - e \in short /\ e \in Nat /\ n \in Nat
    BY <1>3
  <2> HIDE DEF short
  <2> QED
    BY <1>2, <1>5, <1>6, <2>1
<1>8. RunFrom(m, i) \in Zeros(m, i)
  BY <1>7, Zenon DEF RunFrom, Max
<1> DEFINE run == RunFrom(m, i)
<1>9. run \in 1..left /\ \A j \in i..i + run - 1 : Code(m, j) = 0
  BY <1>3, <1>8 DEF Zeros
<1> HIDE DEF run
<1>10. i + run <= Size /\ \A j \in i..i + run - 1 : j \in Indices
  BY <1>1, <1>2, <1>9 DEF Indices
<1> QED
  BY <1>2, <1>9, <1>10 DEF run, left

Stops == [at : 0..Size, k : Nat, s : {-1, 0, 1}, bits : Nat]

\* The place n samples and so many bits behind e.
Ahead(e, n, k, s, chunk) ==
  [at |-> e.at + n,
   k |-> IF (e.at + n) % W = 0 THEN 0 ELSE k,
   s |-> IF (e.at + n) % W = 0 THEN 0 ELSE s,
   bits |-> e.bits + Len(chunk)]

ContextAt(e) == ContextOf(plane, e.at, e.k, e.s)

\* What encode_plane and encode_plane_xzr write at the place e, and the place
\* they are at then.
BaseStep(m, e, chunk, f) ==
  LET code == Code(m, e.at)
  IN  /\ method = "base"
      /\ chunk = Sample(ContextAt(e), code)
      /\ f = Ahead(e, 1, Bits(code), 0, chunk)

NonzeroStep(m, e, chunk, f) ==
  LET code == Code(m, e.at)
  IN  /\ method = "xzr" /\ code # 0
      /\ chunk = <<Put("nz", ContextAt(e), 0, 0, 1)>> \o Sample(ContextAt(e), code - 1)
      /\ f = Ahead(e, 1, Bits(code), Sign(ResidualAt(e.at, Pred(m, e.at))), chunk)

RunStep(m, e, chunk, f) ==
  LET run == RunFrom(m, e.at)
      zero == Put("nz", ContextAt(e), 0, 0, 0)
  IN  /\ method = "xzr" /\ Code(m, e.at) = 0
      /\ \/ run = 1 /\ chunk = <<zero, Put("zr", ContextAt(e), 0, 0, 0)>>
         \/ /\ run # 1 /\ Bits(run - 2) <= RunBits
            /\ chunk = <<zero, Put("zr", ContextAt(e), 0, 0, 1)>> \o Run(ContextAt(e), run - 2)
      /\ f = Ahead(e, run, 0, 0, chunk)

Step(m, e, chunk, f) == BaseStep(m, e, chunk, f) \/ NonzeroStep(m, e, chunk, f) \/ RunStep(m, e, chunk, f)

\* The code at the place e is on the wire, and leads to another place of E.
Passed(m, E, e) ==
  /\ e.at < Size
  /\ \E chunk \in Seq(Entry), f \in E : Stands(e.bits, chunk) /\ Step(m, e, chunk, f)

First == [at |-> 0, k |-> 0, s |-> 0, bits |-> TreeBits * TileCount]
Trail(m, E) == E \in SUBSET Stops /\ First \in E /\ Stands(0, MapWire(m))

\* Either side is at the place e, with so many bits before it.
Now(e, bits) == e.at = at /\ e.k = prevk /\ e.s = prevs /\ e.bits = bits

\* The stream ends at the place here, or at the end of the plane.
UpTo(m, E, here) == here \in E /\ \A e \in E : e = here \/ Passed(m, E, e)
Complete(m, E) == \A e \in E : Passed(m, E, e) \/ (e.at = Size /\ e.bits = Len(wire))

AtStart == at = 0 /\ prevk = 0 /\ prevs = 0 /\ read = 0
Same == \A i \in 0..at - 1 : out[i] = plane[i]

\* What holds of the stream while it is written, and while it is read.
Writing(m, E, e) == tp = m /\ read = 0 /\ Trail(m, E) /\ UpTo(m, E, e) /\ Now(e, Len(wire))
Reading(m, E, e) == tp = m /\ Same /\ Trail(m, E) /\ Complete(m, E) /\ e \in E /\ Now(e, read)

StreamInv ==
  /\ GoodInput /\ wire \in Seq(Entry)
  /\ \/ stage = "map" /\ AtStart
     \/ stage = "encode" /\ \E m, E, e : m \in [Tiles -> Predictors] /\ Writing(m, E, e)
     \/ stage = "start" /\ AtStart /\ \E m, E : m \in [Tiles -> Predictors] /\ Trail(m, E) /\ Complete(m, E)
     \/ stage = "decode" /\ \E m, E, e : m \in [Tiles -> Predictors] /\ Reading(m, E, e)
     \/ stage = "done" /\ at = Size /\ read = Len(wire) /\ Same
     \/ stage = "cut"

LEMMA PlacesStay ==
  ASSUME UNCHANGED input
  PROVE  /\ Stops' = Stops /\ First' = First
         /\ \A e, n, k, s, chunk : Ahead(e, n, k, s, chunk)' = Ahead(e, n, k, s, chunk)
         /\ \A e : ContextAt(e)' = ContextAt(e)
<1>1. Stops' = Stops
  BY SizesStay, Zenon DEF Stops
<1>2. First' = First
  BY TilesStay, Zenon DEF First
<1>3. ASSUME NEW e, NEW n, NEW k, NEW s, NEW chunk
      PROVE  Ahead(e, n, k, s, chunk)' = Ahead(e, n, k, s, chunk)
  BY SizesStay DEF Ahead
<1>4. ASSUME NEW e PROVE ContextAt(e)' = ContextAt(e)
  <2>1. \A f, i : ContextOf(f, i, e.k, e.s)' = ContextOf(f, i, e.k, e.s)
    BY ContextStays
  <2> QED
    BY SizesStay, <2>1, Zenon DEF ContextAt
<1> QED
  BY <1>1, <1>2, <1>3, <1>4, Zenon

LEMMA StepStays ==
  ASSUME UNCHANGED input, NEW m, NEW e, NEW chunk, NEW f
  PROVE  Step(m, e, chunk, f)' <=> Step(m, e, chunk, f)
<1>1. /\ method' = method /\ ContextAt(e)' = ContextAt(e) /\ Code(m, e.at)' = Code(m, e.at)
      /\ RunFrom(m, e.at)' = RunFrom(m, e.at)
      /\ \A n, k, s : Ahead(e, n, k, s, chunk)' = Ahead(e, n, k, s, chunk)
      /\ \A ctx, v : Sample(ctx, v)' = Sample(ctx, v)
  BY SizesStay, PlacesStay, PredStays, RunStays, SampleStays, Zenon
<1>2. ResidualAt(e.at, Pred(m, e.at))' = ResidualAt(e.at, Pred(m, e.at))
  <2>1. \A id : ResidualAt(e.at, id)' = ResidualAt(e.at, id)
    BY ResidualStays
  <2> QED
    BY <2>1, PredStays, Zenon
<1>3. BaseStep(m, e, chunk, f)' <=> BaseStep(m, e, chunk, f)
  BY <1>1, Zenon DEF BaseStep
<1>4. NonzeroStep(m, e, chunk, f)' <=> NonzeroStep(m, e, chunk, f)
  BY <1>1, <1>2, Zenon DEF NonzeroStep
<1>5. RunStep(m, e, chunk, f)' <=> RunStep(m, e, chunk, f)
  BY <1>1, Zenon DEF RunStep
<1> QED
  BY <1>3, <1>4, <1>5, Zenon DEF Step

-----------------------------------------------------------------------------
(* What a step writes is a code that the decoder reads.                     *)

\* The entries of the zero-run flags.
LEMMA FlagsAre ==
  ASSUME NEW ctx \in Nat, NEW a \in {0, 1}, NEW b \in {0, 1}
  PROVE  /\ Put("nz", ctx, 0, 0, a) \in Entry /\ Put("zr", ctx, 0, 0, b) \in Entry
         /\ AsWritten(<<<<"nz", ctx, 0, 0>>>>, <<Put("nz", ctx, 0, 0, a)>>)
         /\ AsWritten(<<<<"nz", ctx, 0, 0>>, <<"zr", ctx, 0, 0>>>>,
                      <<Put("nz", ctx, 0, 0, a), Put("zr", ctx, 0, 0, b)>>)
<1>1. Put("nz", ctx, 0, 0, a) \in Entry /\ Put("zr", ctx, 0, 0, b) \in Entry
  BY DEF Put, Entry, Slot, Tables
<1>2. <<"nz", ctx, 0, 0>> \in Slot /\ <<"zr", ctx, 0, 0>> \in Slot
  BY DEF Slot, Tables
<1>3. /\ Put("nz", ctx, 0, 0, a).slot = <<"nz", ctx, 0, 0>>
      /\ Put("zr", ctx, 0, 0, b).slot = <<"zr", ctx, 0, 0>>
  BY DEF Put
<1> DEFINE p == Put("nz", ctx, 0, 0, a)
           q == Put("zr", ctx, 0, 0, b)
           x == <<"nz", ctx, 0, 0>>
           y == <<"zr", ctx, 0, 0>>
<1>4. p \in Entry /\ q \in Entry /\ x \in Slot /\ y \in Slot /\ p.slot = x /\ q.slot = y
  BY <1>1, <1>2, <1>3
<1> HIDE DEF p, q, x, y
<1>5. AsWritten(<<x>>, <<p>>) /\ AsWritten(<<x, y>>, <<p, q>>)
  BY <1>4 DEF AsWritten
<1> QED
  BY <1>4, <1>5 DEF p, q, x, y

\* A code, and that of a run.
LEMMA SampleFits ==
  ASSUME GoodInput, NEW ctx \in Nat, NEW v \in 0..maxv
  PROVE  Sample(ctx, v) \in Seq(Entry) /\ v \in Nat /\ v < Power[shape.depth]
<1>1. shape.depth \in Nat /\ Power[shape.depth] \in Nat /\ maxv = Power[shape.depth] - 1
  BY ShapeIs, Powers DEF GoodInput, maxv, M
<1>2. v \in Nat /\ v < Power[shape.depth]
  BY <1>1
<1>3. "unary" \in Tables /\ "mant" \in Tables
  BY DEF Tables
<1>4. Shape("unary", "mant", ctx, shape.depth, v, Bits(v), Number("unary", "mant", ctx, shape.depth, v))
  BY <1>1, <1>2, <1>3, NumberShape, Zenon
<1> QED
  BY <1>2, <1>4, Zenon DEF Shape, Sample

LEMMA RunFits ==
  ASSUME NEW ctx \in Nat, NEW v \in Nat, Bits(v) <= RunBits
  PROVE  Run(ctx, v) \in Seq(Entry) /\ v < Power[RunBits]
<1>1. RunBits \in Nat /\ Bits(v) \in Nat /\ v < Power[Bits(v)]
  BY RunAssumption, BitsIs
<1>2. Power[Bits(v)] <= Power[RunBits] /\ Power[Bits(v)] \in Nat /\ Power[RunBits] \in Nat
  BY <1>1, PowersGrow, Powers
<1>3. v < Power[RunBits]
  BY <1>1, <1>2
<1>4. "run_unary" \in Tables /\ "run_mant" \in Tables
  BY DEF Tables
<1>5. Shape("run_unary", "run_mant", ctx, RunBits, v, Bits(v), Number("run_unary", "run_mant", ctx, RunBits, v))
  BY <1>1, <1>3, <1>4, NumberShape, Zenon
<1> QED
  BY <1>3, <1>5, Zenon DEF Shape, Run

\* A code read where it stands.
LEMMA SampleComesBack ==
  ASSUME GoodInput, NEW ctx \in Nat, NEW v \in 0..maxv, NEW r \in Nat, Len(wire) \in Nat,
         Stands(r, Sample(ctx, v))
  PROVE  /\ SampleRead(ctx, r).size = Bits(v) /\ SampleRead(ctx, r).value = v
         /\ AsWritten(SampleRead(ctx, r).slots, Sample(ctx, v))
<1>1. v \in Nat /\ v < Power[shape.depth] /\ shape.depth \in Nat
  BY SampleFits, ShapeIs DEF GoodInput
<1>2. "unary" \in Tables /\ "mant" \in Tables
  BY DEF Tables
<1> DEFINE code == Number("unary", "mant", ctx, shape.depth, v)
           c == NumberRead("unary", "mant", ctx, shape.depth, r)
<1>3. Sample(ctx, v) = code /\ SampleRead(ctx, r) = c
  BY Zenon DEF Sample, SampleRead
<1>4. Stands(r, code)
  BY <1>3, Zenon
<1>5. c.size = Bits(v) /\ c.value = v /\ AsWritten(c.slots, code)
  BY <1>1, <1>2, <1>4, NumberComesBack, ZenonT(60)
<1> QED
  BY <1>3, <1>5, Zenon

LEMMA RunComesBack ==
  ASSUME NEW ctx \in Nat, NEW v \in Nat, Bits(v) <= RunBits, NEW r \in Nat, Len(wire) \in Nat,
         Stands(r, Run(ctx, v))
  PROVE  RunRead(ctx, r).value = v /\ AsWritten(RunRead(ctx, r).slots, Run(ctx, v))
<1>1. v < Power[RunBits] /\ RunBits \in Nat
  BY RunFits, RunAssumption
<1>2. "run_unary" \in Tables /\ "run_mant" \in Tables
  BY DEF Tables
<1> DEFINE code == Number("run_unary", "run_mant", ctx, RunBits, v)
           c == NumberRead("run_unary", "run_mant", ctx, RunBits, r)
<1>3. Run(ctx, v) = code /\ RunRead(ctx, r) = c
  BY Zenon DEF Run, RunRead
<1>4. Stands(r, code)
  BY <1>3, Zenon
<1>5. c.size = Bits(v) /\ c.value = v /\ AsWritten(c.slots, code)
  BY <1>1, <1>2, <1>4, NumberComesBack, Zenon
<1> QED
  BY <1>3, <1>5, Zenon

-----------------------------------------------------------------------------
(* The encoder.                                                             *)

LEMMA PlaceHere ==
  ASSUME GoodInput, NEW m \in [Tiles -> Predictors], NEW e \in Stops, e.at < Size
  PROVE  /\ e.at \in Indices /\ e.at \in Nat /\ e.k \in Nat /\ e.bits \in Nat /\ e.s \in {-1, 0, 1}
         /\ ContextAt(e) \in Nat /\ Code(m, e.at) \in 0..maxv /\ Pred(m, e.at) \in 0..15
<1>1. e.at \in 0..Size /\ e.k \in Nat /\ e.bits \in Nat /\ e.s \in {-1, 0, 1}
  BY DEF Stops
<1>2. shape.w * shape.h \in Nat
  BY ShapeIs DEF GoodInput
<1>3. Size \in Nat /\ Indices = 0..Size - 1
  BY <1>2 DEF Size, Indices
<1>4. e.at \in Indices /\ e.at \in Nat
  BY <1>1, <1>3
<1> QED
  BY <1>1, <1>4, ContextIs, PredIs, CodeIs DEF ContextAt, Code

\* A step writes entries and leads to a place.
LEMMA StepLands ==
  ASSUME GoodInput, NEW m \in [Tiles -> Predictors], NEW e \in Stops, e.at < Size,
         NEW chunk, NEW f, Step(m, e, chunk, f)
  PROVE  chunk \in Seq(Entry) /\ f \in Stops /\ f.at > e.at
<1> DEFINE ctx == ContextAt(e)
           code == Code(m, e.at)
<1>1. /\ e.at \in Indices /\ e.at \in Nat /\ e.k \in Nat /\ e.bits \in Nat
      /\ ctx \in Nat /\ code \in 0..maxv
  BY PlaceHere
<1>2. Size \in Nat /\ W \in Nat \ {0} /\ maxv \in Nat
  <2>1. shape \in Shapes
    BY DEF GoodInput
  <2>2. Power[shape.depth] \in Nat \ {0}
    BY <2>1, ShapeIs, PowersPositive
  <2> QED
    BY <1>1, <2>1, <2>2, CellIs DEF maxv, M
<1>3. ASSUME NEW n \in Nat \ {0}, e.at + n <= Size, NEW k \in Nat, NEW s \in {-1, 0, 1},
             chunk \in Seq(Entry), f = Ahead(e, n, k, s, chunk)
      PROVE  f \in Stops /\ f.at > e.at
  <2>1. Len(chunk) \in Nat
    BY <1>3
  <2> DEFINE here == e.at
             before == e.bits
             more == Len(chunk)
             turn == (here + n) % W = 0
  <2>2. f = [at |-> here + n, k |-> IF turn THEN 0 ELSE k, s |-> IF turn THEN 0 ELSE s, bits |-> before + more]
    BY <1>3 DEF Ahead
  <2>3. here \in Nat /\ before \in Nat /\ more \in Nat /\ here + n <= Size
    BY <1>1, <1>3, <2>1
  <2> HIDE DEF here, before, more, turn
  <2>4. f \in Stops /\ f.at = here + n
    BY <1>2, <2>2, <2>3 DEF Stops
  <2> QED
    BY <2>3, <2>4 DEF here
<1> HIDE DEF ctx, code
<1>4. CASE BaseStep(m, e, chunk, f)
  <2>1. chunk = Sample(ctx, code) /\ f = Ahead(e, 1, Bits(code), 0, chunk)
    BY <1>4 DEF BaseStep, ctx, code
  <2>2. chunk \in Seq(Entry) /\ code \in Nat
    <3>1. Sample(ctx, code) \in Seq(Entry)
      BY <1>1, SampleFits
    <3>2. code \in Nat
      BY <1>1, <1>2
    <3> QED
      BY <2>1, <3>1, <3>2, Zenon
  <2>3. Bits(code) \in Nat /\ e.at + 1 <= Size
    <3>1. code \in Nat /\ e.at \in 0..Size - 1
      BY <1>1, <1>2 DEF Indices
    <3>2. Bits(code) \in Nat
      BY <3>1, BitsIs
    <3> QED
      BY <1>2, <3>1, <3>2
  <2> QED
    BY <1>3, <2>1, <2>2, <2>3
<1>5. CASE NonzeroStep(m, e, chunk, f)
  <2> DEFINE side == Sign(ResidualAt(e.at, Pred(m, e.at)))
             flag == Put("nz", ctx, 0, 0, 1)
             rest == Sample(ctx, code - 1)
  <2>1. chunk = <<flag>> \o rest /\ f = Ahead(e, 1, Bits(code), side, chunk) /\ code # 0
    BY <1>5 DEF NonzeroStep, ctx, code
  <2>2. code - 1 \in 0..maxv /\ code \in Nat
    BY <1>1, <1>2, <2>1
  <2>3. rest \in Seq(Entry)
    BY <1>1, <2>2, SampleFits
  <2>4. flag \in Entry
    BY <1>1, FlagsAre
  <2>5. chunk \in Seq(Entry)
    <3> HIDE DEF flag, rest
    <3> QED
      BY <2>1, <2>3, <2>4
  <2>6. Bits(code) \in Nat /\ e.at + 1 <= Size
    BY <1>1, <1>2, <2>2, BitsIs
  <2>7. side \in {-1, 0, 1}
    BY DEF Sign
  <2> HIDE DEF side, flag, rest
  <2> QED
    BY <1>3, <2>1, <2>5, <2>6, <2>7
<1>6. CASE RunStep(m, e, chunk, f)
  <2> DEFINE run == RunFrom(m, e.at)
             p == Put("nz", ctx, 0, 0, 0)
             q == Put("zr", ctx, 0, 0, 0)
             r == Put("zr", ctx, 0, 0, 1)
             rest == Run(ctx, run - 2)
  <2>1. /\ code = 0 /\ f = Ahead(e, run, 0, 0, chunk)
        /\ \/ run = 1 /\ chunk = <<p, q>>
           \/ run # 1 /\ Bits(run - 2) <= RunBits /\ chunk = <<p, r>> \o rest
    BY <1>6, Zenon DEF RunStep, ctx, code
  <2>2. run \in Nat \ {0} /\ e.at + run <= Size
    BY <1>1, <2>1, RunIs DEF code
  <2>3. p \in Entry /\ q \in Entry /\ r \in Entry
    BY <1>1, FlagsAre
  <2>4. run # 1 /\ Bits(run - 2) <= RunBits => rest \in Seq(Entry)
    <3> HIDE DEF run
    <3>1. run # 1 => run - 2 \in Nat
      BY <2>2
    <3> QED
      BY <1>1, <3>1, RunFits
  <2> HIDE DEF p, q, r, rest, run
  <2>5. chunk \in Seq(Entry)
    <3>1. <<p, q>> \in Seq(Entry) /\ <<p, r>> \in Seq(Entry)
      BY <2>3
    <3>2. rest \in Seq(Entry) => <<p, r>> \o rest \in Seq(Entry)
      BY <3>1
    <3> QED
      BY <2>1, <2>4, <3>1, <3>2, Zenon
  <2> QED
    BY <1>3, <2>1, <2>2, <2>5
<1> QED
  BY <1>4, <1>5, <1>6 DEF Step

LEMMA StepCounts ==
  ASSUME NEW m, NEW e, NEW chunk, NEW f, Step(m, e, chunk, f)
  PROVE  f.bits = e.bits + Len(chunk)
<1>1. \A n, k, s : Ahead(e, n, k, s, chunk).bits = e.bits + Len(chunk)
  BY DEF Ahead
<1> QED
  BY <1>1, Zenon DEF Step, BaseStep, NonzeroStep, RunStep

\* What was sent is sent still when more is written.
LEMMA SentStill ==
  ASSUME UNCHANGED input, NEW w \in Seq(Entry), NEW v \in Seq(Entry), wire = w, wire' = w \o v,
         NEW m, NEW E, NEW D, E \subseteq D, NEW e \in Stops, Passed(m, E, e)
  PROVE  Passed(m, D, e)'
<1>1. PICK chunk \in Seq(Entry), f \in E : Stands(e.bits, chunk) /\ Step(m, e, chunk, f)
  BY DEF Passed
<1>2. e.bits \in Nat /\ Len(chunk) \in Nat
  BY <1>1 DEF Stops
<1>3. Stands(e.bits, chunk)'
  BY <1>1, <1>2, StandsStill
<1>4. Step(m, e, chunk, f)'
  BY <1>1, StepStays, Zenon
<1>5. (e.at < Size)'
  BY SizesStay DEF Passed
<1>6. f \in D
  BY <1>1
<1> QED
  BY <1>1, <1>3, <1>4, <1>5, <1>6, Zenon DEF Passed

\* And when nothing is.
LEMMA SentStays ==
  ASSUME UNCHANGED input, wire' = wire, NEW m, NEW E, NEW e
  PROVE  Passed(m, E, e)' <=> Passed(m, E, e)
<1>1. \A chunk, f : Step(m, e, chunk, f)' <=> Step(m, e, chunk, f)
  BY StepStays
<1>2. \A r, chunk : Stands(r, chunk)' <=> Stands(r, chunk)
  BY Zenon DEF Stands
<1> QED
  BY <1>1, <1>2, SizesStay, Zenon DEF Passed

LEMMA TrailStays ==
  ASSUME UNCHANGED input, wire' = wire, NEW m, NEW E
  PROVE  /\ Trail(m, E)' <=> Trail(m, E)
         /\ Complete(m, E)' <=> Complete(m, E)
<1>1. \A r, chunk : Stands(r, chunk)' <=> Stands(r, chunk)
  BY Zenon DEF Stands
<1>2. Stands(0, MapWire(m))' <=> Stands(0, MapWire(m))
  <2>1. MapWire(m)' = MapWire(m)
    BY MapStays
  <2> QED
    BY <2>1, Zenon DEF Stands
<1>3. Trail(m, E)' <=> Trail(m, E)
  BY <1>2, PlacesStay, Zenon DEF Trail
<1>4. \A e : Passed(m, E, e)' <=> Passed(m, E, e)
  BY SentStays
<1>5. Complete(m, E)' <=> Complete(m, E)
  BY <1>4, SizesStay, Zenon DEF Complete
<1> QED
  BY <1>3, <1>5

LEMMA WireGrows ==
  ASSUME GoodInput, UNCHANGED input, wire \in Seq(Entry), NEW m \in [Tiles -> Predictors], NEW E, NEW e,
         Writing(m, E, e), at < Size, NEW chunk, NEW f, Step(m, e, chunk, f),
         wire' = wire \o chunk, tp' = tp, read' = read,
         f.at = at', f.k = prevk', f.s = prevs'
  PROVE  Writing(m, E \cup {f}, f)' /\ wire' \in Seq(Entry)
<1> DEFINE D == E \cup {f}
<1>1. /\ E \in SUBSET Stops /\ First \in E /\ Stands(0, MapWire(m)) /\ e \in E
      /\ \A d \in E : d = e \/ Passed(m, E, d)
      /\ e.at = at /\ e.bits = Len(wire)
  BY DEF Writing, Trail, UpTo, Now
<1>2. e \in Stops /\ e.at < Size
  BY <1>1
<1>3. chunk \in Seq(Entry) /\ f \in Stops
  BY <1>2, StepLands
<1>4. PICK w \in Seq(Entry) : wire = w
  OBVIOUS
<1>5. wire' = w \o chunk /\ wire' \in Seq(Entry) /\ Len(wire') = Len(w) + Len(chunk)
  BY <1>3, <1>4
<1>6. f.bits = Len(wire')
  <2>1. f.bits = e.bits + Len(chunk)
    BY StepCounts
  <2> QED
    BY <1>1, <1>4, <1>5, <2>1
<1>7. MapWire(m) \in Seq(Entry)
  BY MapShape
<1>8. Stands(0, MapWire(m))'
  <2> DEFINE bits == MapWire(m)
  <2>1. PICK c : c = bits
    OBVIOUS
  <2>2. c \in Seq(Entry) /\ Stands(0, c)
    BY <1>1, <1>7, <2>1
  <2>3. Len(c) \in Nat
    BY <2>2
  <2>4. Stands(0, c)'
    BY <1>3, <1>4, <1>5, <2>2, <2>3, StandsStill
  <2>5. MapWire(m)' = c
    BY <2>1, MapStays
  <2> QED
    BY <2>4, <2>5, Zenon DEF Stands
<1>9. D \in SUBSET Stops /\ First \in D /\ E \subseteq D /\ f \in D
  BY <1>1, <1>3
<1>10. Trail(m, D)'
  BY <1>8, <1>9, PlacesStay, Zenon DEF Trail
<1>11. Stands(Len(w), chunk)'
  BY <1>3, <1>4, <1>5, StandsLast
<1>12. Passed(m, D, e)'
  <2>1. (e.at < Size)'
    BY <1>2, SizesStay
  <2>2. Step(m, e, chunk, f)'
    BY StepStays, Zenon
  <2>3. e.bits = Len(w)
    BY <1>1, <1>4
  <2>4. Stands(e.bits, chunk)'
    BY <1>11, <2>3, Zenon
  <2> QED
    BY <1>3, <1>9, <2>1, <2>2, <2>4, Zenon DEF Passed
<1>13. ASSUME NEW d \in E, d # e PROVE Passed(m, D, d)'
  <2>1. d \in Stops /\ Passed(m, E, d)
    BY <1>1, <1>13
  <2> QED
    BY <1>3, <1>4, <1>5, <1>9, <2>1, SentStill
<1>14. UpTo(m, D, f)'
  BY <1>9, <1>12, <1>13 DEF UpTo
<1>15. Now(f, Len(wire))'
  BY <1>6 DEF Now
<1>16. tp' = m /\ read' = 0
  BY DEF Writing
<1> HIDE DEF D
<1>17. Writing(m, D, f)'
  BY <1>10, <1>14, <1>15, <1>16, Zenon DEF Writing
<1> QED
  BY <1>5, <1>17 DEF D

LEMMA HereIs ==
  ASSUME NEW m, tp = m, NEW e, NEW bits, Now(e, bits)
  PROVE  /\ Here = Code(m, e.at) /\ Context(plane, at) = ContextAt(e) /\ ZeroRun = RunFrom(m, e.at)
         /\ \A i : PredictorAt(i) = Pred(m, i)
<1>1. \A i : PredictorAt(i) = Pred(m, i)
  BY Zenon DEF PredictorAt, Pred
<1>2. e.at = at /\ e.k = prevk /\ e.s = prevs
  BY DEF Now
<1>3. Here = Code(m, e.at)
  BY <1>1, <1>2, Zenon DEF Here, Code
<1>4. Context(plane, at) = ContextAt(e)
  BY <1>2, ContextNow, Zenon DEF ContextAt
<1>5. ZeroRun = RunFrom(m, e.at)
  BY <1>1, <1>2, Zenon DEF ZeroRun, RunFrom, Zeros, Code
<1> QED
  BY <1>1, <1>3, <1>4, <1>5

LEMMA AheadIs ==
  ASSUME NEW e, NEW bits, Now(e, bits), NEW n, NEW k, NEW s, NEW chunk, Advance(n, k, s)
  PROVE  /\ Ahead(e, n, k, s, chunk).at = at' /\ Ahead(e, n, k, s, chunk).k = prevk'
         /\ Ahead(e, n, k, s, chunk).s = prevs' /\ Ahead(e, n, k, s, chunk).bits = e.bits + Len(chunk)
BY DEF Now, Advance, Ahead

\* What the three actions of the encoder have in common.
LEMMA StepKeeps ==
  ASSUME StreamInv, UNCHANGED input, stage = "encode", NEW m \in [Tiles -> Predictors], NEW E, NEW e,
         Writing(m, E, e), at < Size, NEW chunk, NEW n, NEW k, NEW s,
         Step(m, e, chunk, Ahead(e, n, k, s, chunk)), Advance(n, k, s),
         wire' = wire \o chunk, stage' = stage, tp' = tp, read' = read
  PROVE  StreamInv'
<1>1. GoodInput /\ wire \in Seq(Entry)
  BY DEF StreamInv
<1>2. PICK f : f = Ahead(e, n, k, s, chunk)
  OBVIOUS
<1>3. f.at = at' /\ f.k = prevk' /\ f.s = prevs'
  <2>1. Now(e, Len(wire))
    BY DEF Writing
  <2> QED
    BY <1>2, <2>1, AheadIs
<1>4. Step(m, e, chunk, f)
  BY <1>2
<1>5. PICK D : D = E \cup {f}
  OBVIOUS
<1>6. Writing(m, D, f)' /\ wire' \in Seq(Entry)
  <2>1. Writing(m, E \cup {f}, f)' /\ wire' \in Seq(Entry)
    BY <1>1, <1>3, <1>4, WireGrows
  <2> QED
    BY <1>5, <2>1
<1>7. m \in [Tiles -> Predictors]'
  BY TilesStay, Zenon
<1>8. GoodInput' /\ stage' = "encode"
  BY <1>1, GoodStays
<1> QED
  BY <1>6, <1>7, <1>8, Zenon DEF StreamInv

LEMMA WritingFits ==
  ASSUME StreamInv, stage = "encode"
  PROVE  \E m, E, e : m \in [Tiles -> Predictors] /\ Writing(m, E, e)
BY DEF StreamInv

LEMMA BaseKeeps ==
  ASSUME StreamInv, EncodeBase
  PROVE  StreamInv'
<1>1. /\ stage = "encode" /\ method = "base" /\ at < Size
      /\ wire' = wire \o Sample(Context(plane, at), Here)
      /\ Advance(1, Bits(Here), 0)
      /\ UNCHANGED input /\ stage' = stage /\ tp' = tp /\ read' = read
  BY DEF EncodeBase
<1>2. PICK m, E, e : m \in [Tiles -> Predictors] /\ Writing(m, E, e)
  BY <1>1, WritingFits
<1>3. Here = Code(m, e.at) /\ Context(plane, at) = ContextAt(e)
  BY <1>2, HereIs, Zenon DEF Writing
<1> DEFINE code == Code(m, e.at)
           chunk == Sample(ContextAt(e), code)
<1>4. BaseStep(m, e, chunk, Ahead(e, 1, Bits(code), 0, chunk))
  BY <1>1, Zenon DEF BaseStep
<1>5. Step(m, e, chunk, Ahead(e, 1, Bits(code), 0, chunk))
  BY <1>4, Zenon DEF Step
<1>6. wire' = wire \o chunk /\ Advance(1, Bits(code), 0)
  BY <1>1, <1>3, Zenon
<1> HIDE DEF code, chunk
<1> QED
  BY <1>1, <1>2, <1>5, <1>6, StepKeeps, Zenon

LEMMA NonzeroKeeps ==
  ASSUME StreamInv, EncodeNonzero
  PROVE  StreamInv'
<1>1. /\ stage = "encode" /\ method = "xzr" /\ at < Size /\ Here # 0
      /\ wire' = wire \o <<Put("nz", Context(plane, at), 0, 0, 1)>> \o Sample(Context(plane, at), Here - 1)
      /\ Advance(1, Bits(Here), Sign(ResidualAt(at, PredictorAt(at))))
      /\ UNCHANGED input /\ stage' = stage /\ tp' = tp /\ read' = read
  BY DEF EncodeNonzero
<1>2. PICK m, E, e : m \in [Tiles -> Predictors] /\ Writing(m, E, e)
  BY <1>1, WritingFits
<1>m. m \in [Tiles -> Predictors]
  BY <1>2
<1>3. /\ Here = Code(m, e.at) /\ Context(plane, at) = ContextAt(e) /\ PredictorAt(at) = Pred(m, at)
      /\ at = e.at /\ e \in Stops /\ GoodInput /\ wire \in Seq(Entry)
  <2>1. Here = Code(m, e.at) /\ Context(plane, at) = ContextAt(e) /\ PredictorAt(at) = Pred(m, at)
    BY <1>2, HereIs, Zenon DEF Writing
  <2>2. at = e.at /\ e \in Stops
    BY <1>2 DEF Writing, Now, UpTo, Trail
  <2>3. GoodInput /\ wire \in Seq(Entry)
    BY DEF StreamInv
  <2> QED
    BY <2>1, <2>2, <2>3
<1> DEFINE code == Code(m, e.at)
           ctx == ContextAt(e)
           flag == <<Put("nz", ctx, 0, 0, 1)>>
           rest == Sample(ctx, code - 1)
           chunk == flag \o rest
           side == Sign(ResidualAt(e.at, Pred(m, e.at)))
<1>4. NonzeroStep(m, e, chunk, Ahead(e, 1, Bits(code), side, chunk))
  BY <1>1, <1>3, Zenon DEF NonzeroStep
<1>5. Step(m, e, chunk, Ahead(e, 1, Bits(code), side, chunk))
  BY <1>4, Zenon DEF Step
<1>6. wire' = (wire \o flag) \o rest
  BY <1>1, <1>3, Zenon
<1>7. Advance(1, Bits(code), side)
  BY <1>1, <1>3, Zenon
<1>8. flag \in Seq(Entry) /\ rest \in Seq(Entry)
  <2>1. ctx \in Nat /\ code \in 0..maxv /\ code # 0
    BY <1>m, <1>1, <1>3, PlaceHere
  <2>2. maxv \in Nat
    <3>1. Power[shape.depth] \in Nat \ {0}
      BY <1>3, ShapeIs, PowersPositive DEF GoodInput
    <3> QED
      BY <3>1 DEF maxv, M
  <2> HIDE DEF ctx, code
  <2>3. code - 1 \in 0..maxv
    BY <2>1, <2>2
  <2>4. rest \in Seq(Entry)
    BY <1>3, <2>1, <2>3, SampleFits
  <2>5. Put("nz", ctx, 0, 0, 1) \in Entry
    BY <2>1, FlagsAre
  <2> QED
    BY <2>4, <2>5
<1> HIDE DEF flag, rest
<1>9. wire' = wire \o chunk
  <2>1. (wire \o flag) \o rest = wire \o (flag \o rest)
    BY <1>3, <1>8, ConcatAssociative
  <2> QED
    BY <1>6, <2>1, Zenon
<1> HIDE DEF code, ctx, chunk, side
<1> QED
  BY <1>1, <1>2, <1>5, <1>7, <1>9, StepKeeps, Zenon

LEMMA RunKeeps ==
  ASSUME StreamInv, EncodeRun
  PROVE  StreamInv'
<1> DEFINE old == Context(plane, at)
           flag == Put("nz", old, 0, 0, 0)
<1>1. /\ stage = "encode" /\ method = "xzr" /\ at < Size /\ Here = 0
      /\ Advance(ZeroRun, 0, 0)
      /\ UNCHANGED input /\ tp' = tp /\ read' = read
      /\ IF ZeroRun = 1
         THEN wire' = wire \o <<flag, Put("zr", old, 0, 0, 0)>> /\ stage' = stage
         ELSE IF Bits(ZeroRun - 2) > RunBits
         THEN wire' = wire \o <<flag, Put("zr", old, 0, 0, 1)>> /\ stage' = "cut"
         ELSE wire' = wire \o <<flag, Put("zr", old, 0, 0, 1)>> \o Run(old, ZeroRun - 2) /\ stage' = stage
  BY Zenon DEF EncodeRun, input
<1>2. PICK m, E, e : m \in [Tiles -> Predictors] /\ Writing(m, E, e)
  BY <1>1, WritingFits
<1>m. m \in [Tiles -> Predictors]
  BY <1>2
<1>3. /\ Here = Code(m, e.at) /\ old = ContextAt(e) /\ ZeroRun = RunFrom(m, e.at)
      /\ at = e.at /\ e \in Stops /\ GoodInput /\ wire \in Seq(Entry)
  <2>1. Here = Code(m, e.at) /\ old = ContextAt(e) /\ ZeroRun = RunFrom(m, e.at)
    BY <1>2, HereIs, Zenon DEF Writing
  <2>2. at = e.at /\ e \in Stops
    BY <1>2 DEF Writing, Now, UpTo, Trail
  <2>3. GoodInput /\ wire \in Seq(Entry)
    BY DEF StreamInv
  <2> QED
    BY <2>1, <2>2, <2>3
<1> DEFINE run == RunFrom(m, e.at)
           ctx == ContextAt(e)
           zero == Put("nz", ctx, 0, 0, 0)
           one == <<zero, Put("zr", ctx, 0, 0, 0)>>
           more == <<zero, Put("zr", ctx, 0, 0, 1)>>
           rest == Run(ctx, run - 2)
           chunk == more \o rest
<1>4. ctx \in Nat /\ run \in Nat \ {0}
  <2>1. e.at \in Indices /\ ctx \in Nat /\ Code(m, e.at) = 0
    BY <1>m, <1>1, <1>3, PlaceHere
  <2> QED
    BY <1>3, <2>1, RunIs
<1>5. one \in Seq(Entry) /\ more \in Seq(Entry)
  <2> DEFINE p == Put("zr", ctx, 0, 0, 0)
             q == Put("zr", ctx, 0, 0, 1)
  <2>1. zero \in Entry /\ p \in Entry /\ q \in Entry
    BY <1>4, FlagsAre
  <2>2. one = <<zero, p>> /\ more = <<zero, q>>
    OBVIOUS
  <2> HIDE DEF zero, p, q, one, more
  <2> QED
    BY <2>1, <2>2
<1>6. CASE run = 1
  <2>1. RunStep(m, e, one, Ahead(e, run, 0, 0, one))
    BY <1>1, <1>3, <1>6, Zenon DEF RunStep
  <2>2. Step(m, e, one, Ahead(e, run, 0, 0, one))
    BY <2>1, Zenon DEF Step
  <2>3. wire' = wire \o one /\ stage' = stage /\ Advance(run, 0, 0)
    BY <1>1, <1>3, <1>6, Zenon
  <2> HIDE DEF run, one
  <2> QED
    BY <1>1, <1>2, <2>2, <2>3, StepKeeps, Zenon
<1>7. CASE run # 1 /\ Bits(run - 2) > RunBits
  <2>1. wire' = wire \o more /\ stage' = "cut"
    BY <1>1, <1>3, <1>7, Zenon
  <2>2. wire' \in Seq(Entry)
    BY <1>3, <1>5, <2>1
  <2>3. GoodInput'
    BY <1>1, <1>3, GoodStays
  <2> QED
    BY <2>1, <2>2, <2>3, Zenon DEF StreamInv
<1>8. CASE run # 1 /\ ~ (Bits(run - 2) > RunBits)
  <2>1. run - 2 \in Nat /\ Bits(run - 2) <= RunBits
    <3> HIDE DEF run
    <3>1. run - 2 \in Nat
      BY <1>4, <1>8
    <3>2. Bits(run - 2) \in Nat /\ RunBits \in Nat
      BY <3>1, BitsIs, RunAssumption
    <3> QED
      BY <1>8, <3>1, <3>2
  <2>2. RunStep(m, e, chunk, Ahead(e, run, 0, 0, chunk))
    BY <1>1, <1>3, <1>8, <2>1, Zenon DEF RunStep
  <2>3. Step(m, e, chunk, Ahead(e, run, 0, 0, chunk))
    BY <2>2, Zenon DEF Step
  <2>4. wire' = (wire \o more) \o rest /\ stage' = stage /\ Advance(run, 0, 0)
    BY <1>1, <1>3, <1>8, Zenon
  <2>5. rest \in Seq(Entry)
    <3> HIDE DEF run, ctx
    <3> QED
      BY <1>4, <2>1, RunFits
  <2> HIDE DEF more, rest
  <2>6. wire' = wire \o chunk
    <3>1. (wire \o more) \o rest = wire \o (more \o rest)
      BY <1>3, <1>5, <2>5, ConcatAssociative
    <3> QED
      BY <2>4, <3>1, Zenon
  <2> HIDE DEF run, chunk
  <2> QED
    BY <1>1, <1>2, <2>3, <2>4, <2>6, StepKeeps, Zenon
<1> QED
  BY <1>6, <1>7, <1>8

LEMMA MapKeeps ==
  ASSUME StreamInv, SendMap
  PROVE  StreamInv'
<1>1. GoodInput /\ AtStart /\ stage = "map"
  BY DEF StreamInv, SendMap
<1>2. PICK m : m \in Maps /\ tp' = m
  BY DEF SendMap
<1>3. m \in [Tiles -> Predictors]
  BY <1>1, <1>2, MapsAre
<1>4. /\ wire' = FlattenSeq([n \in 1..TileCount |-> Tree(TreeBits, tp'[n - 1])]) /\ stage' = "encode"
      /\ UNCHANGED input /\ at' = at /\ prevk' = prevk /\ prevs' = prevs /\ read' = read
  BY DEF SendMap
<1>5. wire' = MapWire(m)
  BY <1>2, <1>4, Zenon DEF MapWire
<1>6. MapWire(m) \in Seq(Entry) /\ Len(MapWire(m)) = TreeBits * TileCount /\ TileCount \in Nat /\ TreeBits \in Nat
  BY <1>1, <1>3, MapShape
<1>7. PICK e : e = First
  OBVIOUS
<1>8. e \in Stops
  <2>1. TreeBits * TileCount \in Nat
    BY <1>6
  <2>2. Size \in Nat
    <3>1. shape.w * shape.h \in Nat
      BY <1>1, ShapeIs DEF GoodInput
    <3> QED
      BY <3>1 DEF Size
  <2> QED
    BY <1>7, <2>1, <2>2 DEF First, Stops
<1>9. Stands(0, MapWire(m))'
  <2>1. MapWire(m)' = MapWire(m)
    BY <1>4, MapStays
  <2> DEFINE bits == MapWire(m)
  <2>2. bits \in Seq(Entry) /\ wire' = bits
    BY <1>5, <1>6
  <2> HIDE DEF bits
  <2>3. 0 + Len(bits) <= Len(wire') /\ \A i \in 1..Len(bits) : wire'[0 + i] = bits[i]
    BY <2>2
  <2> QED
    BY <2>1, <2>3, Zenon DEF Stands, bits
<1>10. Trail(m, {e})'
  <2>1. {e} \in SUBSET Stops /\ First \in {e}
    BY <1>7, <1>8
  <2> QED
    BY <1>4, <1>9, <2>1, PlacesStay, Zenon DEF Trail
<1>11. UpTo(m, {e}, e)'
  BY DEF UpTo
<1>12. Now(e, Len(wire))'
  BY <1>1, <1>4, <1>5, <1>6, <1>7 DEF Now, First, AtStart
<1>13. tp' = m /\ read' = 0
  BY <1>1, <1>2, <1>4 DEF AtStart
<1>14. Writing(m, {e}, e)'
  BY <1>10, <1>11, <1>12, <1>13, Zenon DEF Writing
<1>15. m \in [Tiles -> Predictors]'
  BY <1>3, <1>4, TilesStay, Zenon
<1>16. GoodInput' /\ wire' \in Seq(Entry)
  BY <1>1, <1>4, <1>5, <1>6, GoodStays
<1> QED
  BY <1>4, <1>14, <1>15, <1>16, Zenon DEF StreamInv

LEMMA DeliverKeeps ==
  ASSUME StreamInv, Deliver
  PROVE  StreamInv'
<1>1. /\ stage = "encode" /\ at = Size /\ stage' = "start" /\ at' = 0 /\ prevk' = 0 /\ prevs' = 0
      /\ UNCHANGED input /\ wire' = wire /\ read' = read
  BY DEF Deliver
<1>2. PICK m, E, e : m \in [Tiles -> Predictors] /\ Writing(m, E, e)
  BY <1>1, WritingFits
<1>m. m \in [Tiles -> Predictors]
  BY <1>2
<1>3. Trail(m, E) /\ UpTo(m, E, e) /\ Now(e, Len(wire)) /\ read = 0
  BY <1>2 DEF Writing
<1>4. Complete(m, E)
  BY <1>1, <1>3, Zenon DEF Complete, UpTo, Now
<1>5. Trail(m, E)' /\ Complete(m, E)'
  BY <1>1, <1>3, <1>4, TrailStays, Zenon
<1>6. AtStart'
  BY <1>1, <1>3 DEF AtStart
<1>7. m \in [Tiles -> Predictors]'
  BY <1>m, <1>1, TilesStay, Zenon
<1>8. GoodInput' /\ wire' \in Seq(Entry)
  BY <1>1, GoodStays DEF StreamInv
<1> QED
  BY <1>1, <1>5, <1>6, <1>7, <1>8, Zenon DEF StreamInv

-----------------------------------------------------------------------------
(* The decoder.                                                             *)

LEMMA ReadMapKeeps ==
  ASSUME StreamInv, ReadMap
  PROVE  StreamInv'
<1>1. stage = "start" /\ AtStart /\ GoodInput /\ wire \in Seq(Entry)
  BY DEF StreamInv, ReadMap
<1>2. PICK m, E : m \in [Tiles -> Predictors] /\ Trail(m, E) /\ Complete(m, E)
  BY <1>1 DEF StreamInv
<1>m. m \in [Tiles -> Predictors]
  BY <1>2
<1>3. Agrees(0, TreeSlots) /\ Len(TreeSlots) = TreeBits * TileCount /\ [tile \in Tiles |-> Trees[tile + 1].value] = m
  <2>1. Len(wire) \in Nat /\ Stands(0, MapWire(m))
    BY <1>1, <1>2 DEF Trail
  <2> QED
    BY <1>m, <1>1, <2>1, MapComesBack
<1>4. Asking(TreeSlots,
           /\ tp' = [tile \in Tiles |-> Trees[tile + 1].value]
           /\ stage' = "decode"
           /\ UNCHANGED <<input, wire, at, prevk, prevs, out>>)
  BY Zenon DEF ReadMap, TreeSlots, Trees, TreeAt
<1>5. PICK slots : slots = TreeSlots
  OBVIOUS
<1>6. Agrees(0, slots) /\ Len(slots) = TreeBits * TileCount
  BY <1>3, <1>5
<1>7. /\ read' = 0 + Len(slots) /\ tp' = m /\ stage' = "decode"
      /\ UNCHANGED input /\ wire' = wire /\ at' = at /\ prevk' = prevk /\ prevs' = prevs
  <2>1. read = 0
    BY <1>1 DEF AtStart
  <2>2. read' = read + Len(TreeSlots) /\ tp' = [tile \in Tiles |-> Trees[tile + 1].value] /\ stage' = "decode"
        /\ UNCHANGED <<input, wire, at, prevk, prevs, out>>
    BY <1>3, <1>4, <2>1, Zenon DEF Asking
  <2> QED
    BY <1>3, <1>5, <2>1, <2>2, Zenon
<1>8. PICK e : e = First
  OBVIOUS
<1>9. Trail(m, E)' /\ Complete(m, E)' /\ e \in E
  BY <1>2, <1>7, <1>8, TrailStays, Zenon DEF Trail
<1>10. Now(e, read)'
  <2>1. TreeBits * TileCount \in Nat
    BY <1>1, <1>2, MapShape
  <2> QED
    BY <1>1, <1>6, <1>7, <1>8, <2>1 DEF Now, First, AtStart
<1>11. Same'
  BY <1>1, <1>7 DEF Same, AtStart
<1>12. Reading(m, E, e)'
  BY <1>7, <1>9, <1>10, <1>11, Zenon DEF Reading
<1>13. m \in [Tiles -> Predictors]'
  BY <1>m, <1>7, TilesStay, Zenon
<1>14. GoodInput' /\ wire' \in Seq(Entry)
  BY <1>1, <1>7, GoodStays
<1> QED
  BY <1>7, <1>12, <1>13, <1>14, Zenon DEF StreamInv

\* What the three actions of the decoder have in common.
LEMMA ReadKeeps ==
  ASSUME StreamInv, UNCHANGED input, stage = "decode", NEW m \in [Tiles -> Predictors], NEW E, NEW e,
         Reading(m, E, e), NEW chunk, NEW n, NEW k, NEW s,
         NEW f \in E, f = Ahead(e, n, k, s, chunk), Advance(n, k, s), read' = read + Len(chunk),
         wire' = wire, stage' = stage, tp' = tp, \A i \in 0..(at + n) - 1 : out'[i] = plane[i]
  PROVE  StreamInv'
<1>1. Trail(m, E) /\ Complete(m, E) /\ Now(e, read) /\ tp = m
  BY DEF Reading
<1>2. Trail(m, E)' /\ Complete(m, E)'
  BY <1>1, TrailStays, Zenon
<1>3. f.at = at' /\ f.k = prevk' /\ f.s = prevs' /\ f.bits = e.bits + Len(chunk)
  BY <1>1, AheadIs
<1>4. Now(f, read)'
  BY <1>1, <1>3 DEF Now
<1>5. Same'
  <2>1. at' = at + n /\ plane' = plane
    BY SizesStay DEF Advance
  <2> QED
    BY <2>1, Zenon DEF Same
<1>6. Reading(m, E, f)'
  BY <1>1, <1>2, <1>4, <1>5, Zenon DEF Reading
<1>7. m \in [Tiles -> Predictors]'
  BY TilesStay, Zenon
<1>8. GoodInput' /\ wire' \in Seq(Entry) /\ stage' = "decode"
  BY GoodStays DEF StreamInv
<1> QED
  BY <1>6, <1>7, <1>8, Zenon DEF StreamInv

LEMMA FinishKeeps ==
  ASSUME StreamInv, Finish
  PROVE  StreamInv'
<1>1. /\ stage = "decode" /\ at = Size /\ stage' = "done" /\ UNCHANGED input
      /\ wire' = wire /\ at' = at /\ read' = read /\ out' = out
  BY DEF Finish
<1>2. PICK m, E, e : m \in [Tiles -> Predictors] /\ Reading(m, E, e)
  BY <1>1 DEF StreamInv
<1>3. Same /\ Complete(m, E) /\ e \in E /\ e.at = at /\ e.bits = read
  BY <1>2 DEF Reading, Now
<1>4. Size \in Nat /\ GoodInput
  <2>1. GoodInput
    BY DEF StreamInv
  <2>2. shape.w * shape.h \in Nat
    BY <2>1, ShapeIs DEF GoodInput
  <2> QED
    BY <2>1, <2>2 DEF Size
<1>5. read = Len(wire)
  <2>1. ~ (e.at < Size)
    BY <1>1, <1>3, <1>4
  <2> QED
    BY <1>3, <2>1 DEF Complete, Passed
<1>6. Size' = Size /\ plane' = plane /\ GoodInput'
  BY <1>1, <1>4, SizesStay, GoodStays
<1>7. Same'
  BY <1>1, <1>3, <1>6, Zenon DEF Same
<1>8. at' = Size' /\ read' = Len(wire') /\ wire' \in Seq(Entry)
  BY <1>1, <1>5, <1>6 DEF StreamInv
<1> QED
  BY <1>1, <1>6, <1>7, <1>8, Zenon DEF StreamInv

LEMMA ReadingFits ==
  ASSUME StreamInv, stage = "decode", at < Size
  PROVE  \E m, E, e :
           /\ m \in [Tiles -> Predictors]
           /\ Reading(m, E, e) /\ e \in Stops /\ e.at < Size
           /\ \E chunk \in Seq(Entry), f \in E : Stands(read, chunk) /\ Step(m, e, chunk, f)
<1>1. PICK m, E, e : m \in [Tiles -> Predictors] /\ Reading(m, E, e)
  BY DEF StreamInv
<1>2. e \in E /\ E \subseteq Stops /\ Complete(m, E) /\ e.at = at /\ e.bits = read
  BY <1>1 DEF Reading, Trail, Now
<1>3. e \in Stops /\ e.at < Size /\ e.at \in 0..Size
  BY <1>2 DEF Stops
<1>4. Size \in Nat
  <2>1. shape.w * shape.h \in Nat
    BY ShapeIs DEF StreamInv, GoodInput
  <2> QED
    BY <2>1 DEF Size
<1>5. Passed(m, E, e)
  BY <1>2, <1>3, <1>4 DEF Complete
<1>6. \E chunk \in Seq(Entry), f \in E : Stands(read, chunk) /\ Step(m, e, chunk, f)
  BY <1>2, <1>5, Zenon DEF Passed
<1> QED
  BY <1>1, <1>3, <1>6, Zenon

\* Both sides take the same context, and the decoder restores the sample.
LEMMA InContext ==
  ASSUME GoodInput, NEW m \in [Tiles -> Predictors], NEW E, NEW e \in Stops, Reading(m, E, e), e.at < Size
  PROVE  /\ Context(out, at) = ContextAt(e) /\ at = e.at /\ at \in Indices /\ at \in Nat
         /\ \A i : PredictorAt(i) = Pred(m, i)
         /\ Decoded(out, at, UnmapRes(Code(m, at))) = plane[at]
         /\ UnmapRes(Code(m, at)) = ResidualAt(at, Pred(m, at))
         /\ read \in Nat /\ e.bits = read
<1>1. Now(e, read) /\ tp = m /\ Same
  BY DEF Reading
<1>2. e.at = at /\ e.k = prevk /\ e.s = prevs /\ e.bits = read
  BY <1>1 DEF Now
<1>3. e.at \in Indices /\ e.at \in Nat /\ e.bits \in Nat /\ Pred(m, e.at) \in 0..15
  BY PlaceHere
<1>4. at \in Indices /\ at \in Nat /\ Pred(m, at) \in 0..15 /\ read \in Nat
  BY <1>2, <1>3
<1>5. \A j \in 0..at - 1 : out[j] = plane[j]
  BY <1>1 DEF Same
<1>6. shape \in Shapes
  BY DEF GoodInput
<1>7. Context(out, at) = ContextOf(out, at, prevk, prevs)
  BY ContextNow
<1>8. ContextOf(out, at, prevk, prevs) = ContextOf(plane, at, prevk, prevs)
  BY <1>4, <1>5, <1>6, ContextSame
<1>9. Context(out, at) = ContextAt(e)
  BY <1>2, <1>7, <1>8, Zenon DEF ContextAt
<1>10. \A i : PredictorAt(i) = Pred(m, i)
  BY <1>1, HereIs, Zenon
<1> DEFINE id == Pred(m, at)
<1>11. UnmapRes(CodeAt(at, id)) = ResidualAt(at, id)
  BY <1>4, CodeIs
<1>12. Restored(Predict(id, Neighbours(out, at)), ResidualAt(at, id)) = plane[at]
  BY <1>4, <1>5, PredictedAt
<1>13. Decoded(out, at, ResidualAt(at, id)) = plane[at]
  BY <1>10, <1>12, Zenon DEF Decoded
<1>14. UnmapRes(Code(m, at)) = ResidualAt(at, id)
  BY <1>11, Zenon DEF Code
<1> QED
  BY <1>2, <1>4, <1>9, <1>10, <1>13, <1>14, Zenon

\* One sample more.
LEMMA OneMore ==
  ASSUME at \in Nat, Same, NEW x, x = plane[at], out' = [i \in 0..at |-> IF i = at THEN x ELSE out[i]]
  PROVE  \A i \in 0..(at + 1) - 1 : out'[i] = plane[i]
BY DEF Same

LEMMA DecodeBaseKeeps ==
  ASSUME StreamInv, DecodeBase
  PROVE  StreamInv'
<1>1. stage = "decode" /\ method = "base" /\ at < Size /\ GoodInput /\ wire \in Seq(Entry) /\ Len(wire) \in Nat
  BY DEF StreamInv, DecodeBase
<1>2. PICK m, E, e :
        /\ m \in [Tiles -> Predictors]
        /\ Reading(m, E, e) /\ e \in Stops /\ e.at < Size
        /\ \E chunk \in Seq(Entry), f \in E : Stands(read, chunk) /\ Step(m, e, chunk, f)
  BY <1>1, ReadingFits
<1>3. PICK chunk \in Seq(Entry), f \in E : Stands(read, chunk) /\ Step(m, e, chunk, f)
  BY <1>2
<1>4. BaseStep(m, e, chunk, f)
  BY <1>1, <1>3 DEF Step, NonzeroStep, RunStep
<1>5. /\ Context(out, at) = ContextAt(e) /\ at = e.at /\ at \in Nat /\ read \in Nat
      /\ Decoded(out, at, UnmapRes(Code(m, at))) = plane[at]
  BY <1>1, <1>2, InContext
<1> DEFINE ctx == ContextAt(e)
           v == Code(m, at)
           code == SampleRead(ctx, read)
<1>6. ctx \in Nat /\ v \in 0..maxv
  <2>1. ContextAt(e) \in Nat /\ Code(m, e.at) \in 0..maxv
    BY <1>1, <1>2, PlaceHere
  <2> QED
    BY <1>5, <2>1
<1>7. chunk = Sample(ctx, v) /\ f = Ahead(e, 1, Bits(v), 0, chunk)
  BY <1>4, <1>5, Zenon DEF BaseStep
<1>8. code.size = Bits(v) /\ code.value = v /\ AsWritten(code.slots, chunk)
  <2> HIDE DEF ctx, v
  <2>1. Stands(read, Sample(ctx, v))
    BY <1>3, <1>7, Zenon
  <2>2. /\ SampleRead(ctx, read).size = Bits(v) /\ SampleRead(ctx, read).value = v
        /\ AsWritten(SampleRead(ctx, read).slots, Sample(ctx, v))
    BY <1>1, <1>5, <1>6, <2>1, SampleComesBack
  <2> QED
    BY <1>7, <2>2, Zenon
<1>9. Agrees(read, code.slots) /\ Len(code.slots) = Len(chunk)
  <2> HIDE DEF code
  <2>1. Agrees(read, code.slots)
    BY <1>1, <1>3, <1>5, <1>8, StandsAgrees, Zenon
  <2> QED
    BY <1>8, <2>1 DEF AsWritten
<1>10. Asking(code.slots,
           /\ out' = [i \in 0..at |-> IF i = at THEN Decoded(out, at, UnmapRes(code.value)) ELSE out[i]]
           /\ Advance(1, code.size, 0)
           /\ UNCHANGED <<input, stage, wire, tp>>)
  BY <1>5, Zenon DEF DecodeBase
<1> HIDE DEF code, ctx
<1>11. /\ read' = read + Len(chunk) /\ Advance(1, Bits(v), 0)
       /\ UNCHANGED input /\ stage' = stage /\ wire' = wire /\ tp' = tp
       /\ out' = [i \in 0..at |-> IF i = at THEN Decoded(out, at, UnmapRes(v)) ELSE out[i]]
  <2> HIDE DEF v
  <2> QED
    BY <1>8, <1>9, <1>10 DEF Asking
<1>12. \A i \in 0..(at + 1) - 1 : out'[i] = plane[i]
  <2>1. PICK x : x = Decoded(out, at, UnmapRes(v))
    OBVIOUS
  <2>2. out' = [i \in 0..at |-> IF i = at THEN x ELSE out[i]] /\ x = plane[at]
    BY <1>5, <1>11, <2>1, Zenon
  <2>3. Same
    BY <1>2 DEF Reading
  <2> QED
    BY <1>5, <2>2, <2>3, OneMore
<1> HIDE DEF v
<1> QED
  BY <1>1, <1>2, <1>7, <1>11, <1>12, ReadKeeps, Zenon

\* The first bit of a step of encode_plane_xzr tells which it is.
LEMMA FirstBit ==
  ASSUME GoodInput, wire \in Seq(Entry), NEW r \in Nat, NEW m \in [Tiles -> Predictors], NEW e \in Stops,
         e.at < Size, NEW chunk \in Seq(Entry), NEW f, Stands(r, chunk), Step(m, e, chunk, f)
  PROVE  /\ NonzeroStep(m, e, chunk, f) => BitAt(r + 1) = 1
         /\ RunStep(m, e, chunk, f) => BitAt(r + 1) = 0
<1> DEFINE ctx == ContextAt(e)
<1>1. ctx \in Nat
  BY PlaceHere
<1>2. ASSUME 1 \in 1..Len(chunk), NEW bit, chunk[1] = Put("nz", ctx, 0, 0, bit) PROVE BitAt(r + 1) = bit
  <2>1. r + 1 <= Len(wire) /\ wire[r + 1] = chunk[1]
    BY <1>2 DEF Stands
  <2>2. Put("nz", ctx, 0, 0, bit).bit = bit
    BY DEF Put
  <2> QED
    BY <1>2, <2>1, <2>2, Zenon DEF BitAt
<1>3. ASSUME NonzeroStep(m, e, chunk, f) PROVE BitAt(r + 1) = 1
  <2> DEFINE p == Put("nz", ctx, 0, 0, 1)
             rest == Sample(ctx, Code(m, e.at) - 1)
  <2>1. chunk = <<p>> \o rest
    BY <1>3, Zenon DEF NonzeroStep
  <2>2. p \in Entry /\ rest \in Seq(Entry)
    <3>1. Code(m, e.at) \in 0..maxv /\ Code(m, e.at) # 0
      BY <1>3, PlaceHere, Zenon DEF NonzeroStep
    <3>2. maxv \in Nat
      <4>1. Power[shape.depth] \in Nat \ {0}
        BY ShapeIs, PowersPositive DEF GoodInput
      <4> QED
        BY <4>1 DEF maxv, M
    <3>3. Code(m, e.at) - 1 \in 0..maxv
      BY <3>1, <3>2
    <3> HIDE DEF ctx
    <3> QED
      BY <1>1, <3>3, SampleFits, FlagsAre
  <2> HIDE DEF p, rest
  <2>3. 1 \in 1..Len(chunk) /\ chunk[1] = p
    BY <2>1, <2>2
  <2> QED
    BY <1>2, <2>3 DEF p
<1>4. ASSUME RunStep(m, e, chunk, f) PROVE BitAt(r + 1) = 0
  <2> DEFINE p == Put("nz", ctx, 0, 0, 0)
             a == Put("zr", ctx, 0, 0, 0)
             b == Put("zr", ctx, 0, 0, 1)
             run == RunFrom(m, e.at)
             rest == Run(ctx, run - 2)
  <2>1. (run = 1 /\ chunk = <<p, a>>) \/ (run # 1 /\ Bits(run - 2) <= RunBits /\ chunk = <<p, b>> \o rest)
    BY <1>4, Zenon DEF RunStep
  <2>2. p \in Entry /\ a \in Entry /\ b \in Entry
    BY <1>1, FlagsAre
  <2>3. run \in Nat \ {0}
    <3>1. Code(m, e.at) = 0 /\ e.at \in Indices
      BY <1>4, PlaceHere DEF RunStep
    <3> QED
      BY <3>1, RunIs
  <2>4. run # 1 /\ Bits(run - 2) <= RunBits => rest \in Seq(Entry)
    <3> HIDE DEF run, ctx
    <3>1. run # 1 => run - 2 \in Nat
      BY <2>3
    <3> QED
      BY <1>1, <3>1, RunFits
  <2> HIDE DEF p, a, b, rest, run
  <2>5. 1 \in 1..Len(chunk) /\ chunk[1] = p
    <3>1. CASE chunk = <<p, a>>
      BY <2>2, <3>1
    <3>2. CASE rest \in Seq(Entry) /\ chunk = <<p, b>> \o rest
      <4>1. <<p, b>> \in Seq(Entry) /\ Len(<<p, b>>) = 2 /\ <<p, b>>[1] = p
        BY <2>2
      <4> QED
        BY <3>2, <4>1
    <3> QED
      BY <2>1, <2>4, <3>1, <3>2
  <2> QED
    BY <1>2, <2>5 DEF p
<1> QED
  BY <1>3, <1>4

LEMMA DecodeNonzeroKeeps ==
  ASSUME StreamInv, DecodeNonzero
  PROVE  StreamInv'
<1>1. /\ stage = "decode" /\ method = "xzr" /\ at < Size /\ BitAt(read + 1) = 1
      /\ GoodInput /\ wire \in Seq(Entry) /\ Len(wire) \in Nat
  BY DEF StreamInv, DecodeNonzero
<1>2. PICK m, E, e :
        /\ m \in [Tiles -> Predictors]
        /\ Reading(m, E, e) /\ e \in Stops /\ e.at < Size
        /\ \E chunk \in Seq(Entry), f \in E : Stands(read, chunk) /\ Step(m, e, chunk, f)
  BY <1>1, ReadingFits
<1>3. PICK chunk \in Seq(Entry), f \in E : Stands(read, chunk) /\ Step(m, e, chunk, f)
  BY <1>2
<1>4. /\ Context(out, at) = ContextAt(e) /\ at = e.at /\ at \in Nat /\ read \in Nat /\ e.bits = read
      /\ Decoded(out, at, UnmapRes(Code(m, at))) = plane[at]
      /\ UnmapRes(Code(m, at)) = ResidualAt(at, Pred(m, at))
  BY <1>1, <1>2, InContext
<1>5. NonzeroStep(m, e, chunk, f)
  <2>1. ~ BaseStep(m, e, chunk, f)
    BY <1>1 DEF BaseStep
  <2>2. RunStep(m, e, chunk, f) => BitAt(read + 1) = 0
    BY <1>1, <1>2, <1>3, <1>4, FirstBit
  <2> QED
    BY <1>1, <1>3, <2>1, <2>2 DEF Step
<1> DEFINE ctx == ContextAt(e)
           v == Code(m, at)
           code == SampleRead(ctx, read + 1)
           side == Sign(ResidualAt(at, Pred(m, at)))
           p == Put("nz", ctx, 0, 0, 1)
           x == <<"nz", ctx, 0, 0>>
           rest == Sample(ctx, v - 1)
<1>6. /\ v # 0 /\ chunk = <<p>> \o rest /\ f = Ahead(e, 1, Bits(v), side, chunk)
  BY <1>4, <1>5, Zenon DEF NonzeroStep
<1>7. maxv \in Nat /\ M - 1 = maxv
  <2>1. Power[shape.depth] \in Nat \ {0}
    BY <1>1, ShapeIs, PowersPositive DEF GoodInput
  <2> QED
    BY <2>1 DEF maxv, M
<1>8. ctx \in Nat /\ v \in 0..maxv
  <2>1. ContextAt(e) \in Nat /\ Code(m, e.at) \in 0..maxv
    BY <1>1, <1>2, PlaceHere
  <2> QED
    BY <1>4, <2>1
<1> HIDE DEF ctx, v, code, side, p, x, rest
<1>9. v - 1 \in 0..maxv /\ v \in Nat /\ v - 1 + 1 = v /\ ~ (v - 1 >= M - 1)
  BY <1>6, <1>7, <1>8
<1>10. rest \in Seq(Entry) /\ p \in Entry /\ AsWritten(<<x>>, <<p>>)
  BY <1>1, <1>8, <1>9, SampleFits, FlagsAre DEF rest, p, x
<1>11. Stands(read + 1, rest)
  <2>1. <<p>> \in Seq(Entry) /\ Len(<<p>>) = 1
    BY <1>10
  <2>2. Stands(read, <<p>> \o rest)
    BY <1>3, <1>6, Zenon
  <2> DEFINE q == <<p>>
  <2>3. q \in Seq(Entry) /\ Len(q) = 1 /\ Stands(read, q \o rest)
    BY <2>1, <2>2
  <2> HIDE DEF q
  <2>4. Stands(read + Len(q), rest)
    BY <1>1, <1>4, <1>10, <2>3, StandsSplit
  <2> QED
    BY <2>3, <2>4
<1>12. code.value = v - 1 /\ AsWritten(code.slots, rest)
  <2> DEFINE u == v - 1
             r == read + 1
  <2>1. u \in 0..maxv /\ r \in Nat
    BY <1>4, <1>9
  <2>2. Stands(r, Sample(ctx, u))
    BY <1>11, Zenon DEF rest
  <2> HIDE DEF u, r
  <2>3. SampleRead(ctx, r).value = u /\ AsWritten(SampleRead(ctx, r).slots, Sample(ctx, u))
    BY <1>1, <1>8, <2>1, <2>2, SampleComesBack
  <2> QED
    BY <2>3, Zenon DEF u, r, code, rest
<1> DEFINE slots == <<x>> \o code.slots
<1>13. AsWritten(slots, chunk)
  <2>1. AsWritten(<<x>> \o code.slots, <<p>> \o rest)
    BY <1>10, <1>12, Prefixed, Zenon
  <2> QED
    BY <1>6, <2>1, Zenon
<1>14. /\ v - 1 + 1 = v
       /\ Asking(slots,
           IF code.value >= M - 1
           THEN stage' = "corrupt" /\ UNCHANGED <<input, wire, tp, at, prevk, prevs, out>>
           ELSE /\ out' = [i \in 0..at |-> IF i = at THEN Decoded(out, at, UnmapRes(code.value + 1)) ELSE out[i]]
                /\ Advance(1, Bits(code.value + 1), Sign(UnmapRes(code.value + 1)))
                /\ UNCHANGED <<input, stage, wire, tp>>)
  <2>1. Context(out, at) = ctx
    BY <1>4 DEF ctx
  <2> QED
    BY <1>9, <2>1, Zenon DEF DecodeNonzero, x, code
<1> HIDE DEF slots
<1>15. Agrees(read, slots) /\ Len(slots) = Len(chunk)
  <2>1. Agrees(read, slots)
    BY <1>1, <1>3, <1>4, <1>13, StandsAgrees, Zenon
  <2> QED
    BY <1>13, <2>1 DEF AsWritten
<1>16. /\ read' = read + Len(chunk) /\ Advance(1, Bits(v), side)
       /\ UNCHANGED input /\ stage' = stage /\ wire' = wire /\ tp' = tp
       /\ out' = [i \in 0..at |-> IF i = at THEN Decoded(out, at, UnmapRes(v)) ELSE out[i]]
  <2>1. code.value + 1 = v /\ ~ (code.value >= M - 1) /\ Sign(UnmapRes(v)) = side
    BY <1>4, <1>9, <1>12 DEF side, v
  <2>2. /\ read' = read + Len(slots)
        /\ out' = [i \in 0..at |-> IF i = at THEN Decoded(out, at, UnmapRes(code.value + 1)) ELSE out[i]]
        /\ Advance(1, Bits(code.value + 1), Sign(UnmapRes(code.value + 1)))
        /\ UNCHANGED <<input, stage, wire, tp>>
    BY <1>14, <1>15, <2>1, Zenon DEF Asking
  <2> QED
    BY <1>15, <2>1, <2>2, Zenon
<1>17. \A i \in 0..(at + 1) - 1 : out'[i] = plane[i]
  <2>1. PICK y : y = Decoded(out, at, UnmapRes(v))
    OBVIOUS
  <2>2. out' = [i \in 0..at |-> IF i = at THEN y ELSE out[i]] /\ y = plane[at]
    BY <1>4, <1>16, <2>1, Zenon DEF v
  <2>3. Same
    BY <1>2 DEF Reading
  <2> QED
    BY <1>4, <2>2, <2>3, OneMore
<1> QED
  BY <1>1, <1>2, <1>6, <1>16, <1>17, ReadKeeps, Zenon

\* A run is filled with the samples of the plane.
LEMMA FilledIs ==
  ASSUME GoodInput, NEW m \in [Tiles -> Predictors], tp = m, Same, at \in Nat,
         NEW n \in Nat, \A i \in at..at + n - 1 : i \in Indices /\ Code(m, i) = 0
  PROVE  \A i \in 0..(at + n) - 1 : Filled(n)[i] = plane[i]
<1> DEFINE from(f) == [i \in 0..at + n - 1 |-> IF i < at THEN out[i] ELSE Predict(PredictorAt(i), Neighbours(f, i))]
           f == CHOOSE f : f = from(f)
           g == [i \in 0..at + n - 1 |-> plane[i]]
<1>1. Filled(n) = f
  BY Zenon DEF Filled
<1>2. \A i : PredictorAt(i) = Pred(m, i)
  BY Zenon DEF PredictorAt, Pred
<1>3. ASSUME NEW h, NEW i \in at..at + n - 1, \A j \in 0..i - 1 : h[j] = plane[j]
      PROVE  Predict(PredictorAt(i), Neighbours(h, i)) = plane[i]
  <2>1. i \in Indices /\ Code(m, i) = 0
    OBVIOUS
  <2>2. Pred(m, i) \in 0..15
    BY <2>1, PredIs
  <2>3. CodeAt(i, Pred(m, i)) = 0
    BY <2>1 DEF Code
  <2>4. Predict(Pred(m, i), Neighbours(h, i)) = plane[i]
    BY <1>3, <2>1, <2>2, <2>3, PredictedAt
  <2> QED
    BY <1>2, <2>4, Zenon
<1>4. \A i \in 0..at - 1 : out[i] = plane[i]
  BY DEF Same
<1>5. g = from(g)
  <2>1. ASSUME NEW i \in 0..at + n - 1
        PROVE  plane[i] = IF i < at THEN out[i] ELSE Predict(PredictorAt(i), Neighbours(g, i))
    <3>1. CASE i < at
      <4>1. i \in 0..at - 1
        BY <3>1
      <4> QED
        BY <1>4, <3>1, <4>1
    <3>2. CASE ~ (i < at)
      <4>1. i \in at..at + n - 1 /\ \A j \in 0..i - 1 : g[j] = plane[j]
        BY <3>2
      <4> HIDE DEF g
      <4>2. Predict(PredictorAt(i), Neighbours(g, i)) = plane[i]
        BY <1>3, <4>1
      <4> QED
        BY <3>2, <4>2
    <3> QED
      BY <3>1, <3>2
  <2>2. PICK h : h = g
    OBVIOUS
  <2>3. \A i \in 0..at + n - 1 : plane[i] = IF i < at THEN out[i] ELSE Predict(PredictorAt(i), Neighbours(h, i))
    BY <2>1, <2>2, Zenon
  <2>4. g = from(h)
    BY <2>3, Zenon
  <2> QED
    BY <2>2, <2>4, Zenon
<1>6. f = from(f)
  <2>1. \E h : h = from(h)
    BY <1>5
  <2> HIDE DEF from
  <2> QED
    BY <2>1, Zenon
<1> HIDE DEF f
<1>7. PICK h : h = f
  OBVIOUS
<1>8. h = [i \in 0..at + n - 1 |-> IF i < at THEN out[i] ELSE Predict(PredictorAt(i), Neighbours(h, i))]
  BY <1>6, <1>7, Zenon
<1>9. \A i \in 0..at + n - 1 : h[i] = IF i < at THEN out[i] ELSE Predict(PredictorAt(i), Neighbours(h, i))
  BY <1>8
<1> DEFINE Right == {k \in Nat : \A i \in 0..at + n - 1 : i < k => h[i] = plane[i]}
<1>10. 0 \in Right
  OBVIOUS
<1>11. ASSUME NEW k \in Nat, k \in Right PROVE k + 1 \in Right
  <2> SUFFICES ASSUME NEW i \in 0..at + n - 1, i < k + 1 PROVE h[i] = plane[i]
    OBVIOUS
  <2>1. CASE i < at
    <3>1. i \in 0..at - 1 /\ h[i] = out[i]
      BY <1>9, <2>1
    <3> QED
      BY <1>4, <3>1
  <2>2. CASE ~ (i < at)
    <3>1. i \in at..at + n - 1
      BY <2>2
    <3>2. ASSUME NEW j \in 0..i - 1 PROVE h[j] = plane[j]
      <4>1. j \in 0..at + n - 1 /\ j < k
        BY <3>2
      <4> QED
        BY <1>11, <4>1
    <3>3. Predict(PredictorAt(i), Neighbours(h, i)) = plane[i]
      BY <1>3, <3>1, <3>2
    <3> QED
      BY <1>9, <2>2, <3>3
  <2> QED
    BY <2>1, <2>2
<1>12. \A k \in Nat : k \in Right
  <2> HIDE DEF Right
  <2> QED
    BY <1>10, <1>11, Induction
<1>13. at + n \in Nat /\ at + n \in Right
  BY <1>12
<1>14. \A i \in 0..at + n - 1 : h[i] = plane[i]
  BY <1>13
<1> QED
  BY <1>1, <1>7, <1>14

LEMMA DecodeRunKeeps ==
  ASSUME StreamInv, DecodeRun
  PROVE  StreamInv'
<1>1. /\ stage = "decode" /\ method = "xzr" /\ at < Size /\ BitAt(read + 1) = 0
      /\ GoodInput /\ wire \in Seq(Entry) /\ Len(wire) \in Nat
  BY DEF StreamInv, DecodeRun
<1>2. PICK m, E, e :
        /\ m \in [Tiles -> Predictors]
        /\ Reading(m, E, e) /\ e \in Stops /\ e.at < Size
        /\ \E chunk \in Seq(Entry), f \in E : Stands(read, chunk) /\ Step(m, e, chunk, f)
  BY <1>1, ReadingFits
<1>m. m \in [Tiles -> Predictors]
  BY <1>2
<1>3. PICK chunk \in Seq(Entry), f \in E : Stands(read, chunk) /\ Step(m, e, chunk, f)
  BY <1>2
<1>4. /\ Context(out, at) = ContextAt(e) /\ at = e.at /\ at \in Indices /\ at \in Nat /\ read \in Nat
  BY <1>1, <1>2, InContext
<1>5. RunStep(m, e, chunk, f)
  <2>1. ~ BaseStep(m, e, chunk, f)
    BY <1>1 DEF BaseStep
  <2>2. NonzeroStep(m, e, chunk, f) => BitAt(read + 1) = 1
    BY <1>1, <1>2, <1>3, <1>4, FirstBit
  <2> QED
    BY <1>1, <1>3, <2>1, <2>2 DEF Step
<1> DEFINE ctx == ContextAt(e)
           run == RunFrom(m, at)
           p == Put("nz", ctx, 0, 0, 0)
           a == Put("zr", ctx, 0, 0, 0)
           b == Put("zr", ctx, 0, 0, 1)
           x == <<"nz", ctx, 0, 0>>
           y == <<"zr", ctx, 0, 0>>
           rest == Run(ctx, run - 2)
           code == RunRead(ctx, read + 2)
           long == BitAt(read + 2) = 1
           slots == <<x, y>> \o IF long THEN code.slots ELSE <<>>
           found == IF long THEN code.value + 2 ELSE 1
<1>6. /\ Code(m, at) = 0 /\ f = Ahead(e, run, 0, 0, chunk)
      /\ (run = 1 /\ chunk = <<p, a>>) \/ (run # 1 /\ Bits(run - 2) <= RunBits /\ chunk = <<p, b>> \o rest)
  BY <1>4, <1>5, Zenon DEF RunStep
<1>7. ctx \in Nat
  BY <1>1, <1>2, PlaceHere
<1>8. /\ run \in Nat \ {0} /\ run <= W - X(at)
      /\ \A i \in at..at + run - 1 : i \in Indices /\ Code(m, i) = 0
  BY <1>1, <1>4, <1>6, RunIs
<1>9. /\ p \in Entry /\ a \in Entry /\ b \in Entry /\ a.bit = 0 /\ b.bit = 1
      /\ AsWritten(<<x, y>>, <<p, a>>) /\ AsWritten(<<x, y>>, <<p, b>>)
  <2>1. a.bit = 0 /\ b.bit = 1
    BY DEF Put
  <2> HIDE DEF ctx
  <2>2. /\ p \in Entry /\ a \in Entry /\ b \in Entry
        /\ AsWritten(<<x, y>>, <<p, a>>) /\ AsWritten(<<x, y>>, <<p, b>>)
    BY <1>7, FlagsAre
  <2> QED
    BY <2>1, <2>2
<1>10. Asking(slots,
           IF found > W - X(at)
           THEN stage' = "corrupt" /\ UNCHANGED <<input, wire, tp, at, prevk, prevs, out>>
           ELSE /\ out' = Filled(found)
                /\ Advance(found, 0, 0)
                /\ UNCHANGED <<input, stage, wire, tp>>)
  BY <1>4, Zenon DEF DecodeRun
<1> HIDE DEF ctx, run, p, a, b, x, y, rest, code, slots, found
<1>11. found = run /\ AsWritten(slots, chunk)
  <2>1. CASE run = 1 /\ chunk = <<p, a>>
    <3>1. Len(chunk) = 2 /\ chunk[2] = a
      BY <2>1
    <3>2. read + 2 <= Len(wire) /\ wire[read + 2] = a
      BY <1>3, <3>1 DEF Stands
    <3>3. BitAt(read + 2) = 0
      BY <1>9, <3>2, Zenon DEF BitAt
    <3>4. found = 1 /\ slots = <<x, y>> \o <<>>
      <4>1. ~ long
        BY <3>3
      <4> HIDE DEF long
      <4> QED
        BY <4>1, Zenon DEF found, slots
    <3>5. AsWritten(<<x, y>>, <<p, a>>) /\ <<x, y>> \in Seq(Slot)
      BY <1>9, Zenon DEF AsWritten
    <3>6. <<x, y>> \o <<>> = <<x, y>>
      <4> DEFINE z == <<x, y>>
      <4>1. z \in Seq(Slot)
        BY <3>5
      <4> HIDE DEF z
      <4>2. z \o <<>> = z
        BY <4>1, ConcatEmptySeq
      <4> QED
        BY <4>2 DEF z
    <3> QED
      BY <2>1, <3>4, <3>5, <3>6, Zenon
  <2>2. CASE run # 1 /\ Bits(run - 2) <= RunBits /\ chunk = <<p, b>> \o rest
    <3> DEFINE v == run - 2
               r == read + 2
    <3>1. v \in Nat /\ r \in Nat /\ v + 2 = run
      BY <1>4, <1>8, <2>2
    <3>2. rest \in Seq(Entry)
      <4> HIDE DEF v, r
      <4>1. Run(ctx, v) \in Seq(Entry)
        <5>1. Bits(v) <= RunBits
          BY <2>2 DEF v
        <5> QED
          BY <1>7, <3>1, <5>1, RunFits
      <4> QED
        BY <4>1, Zenon DEF rest, v
    <3> DEFINE q == <<p, b>>
    <3>3. q \in Seq(Entry) /\ Len(q) = 2 /\ q[2] = b /\ Stands(read, q \o rest)
      <4>1. q \in Seq(Entry) /\ Len(q) = 2 /\ q[2] = b
        BY <1>9
      <4>2. Stands(read, q \o rest)
        BY <1>3, <2>2, Zenon
      <4> QED
        BY <4>1, <4>2
    <3>4. AsWritten(<<x, y>>, q)
      BY <1>9
    <3>5. chunk = q \o rest
      BY <2>2
    <3> HIDE DEF q
    <3>6. Stands(read, q) /\ Stands(read + Len(q), rest)
      BY <1>1, <1>4, <3>2, <3>3, StandsSplit
    <3>7. read + 2 <= Len(wire) /\ wire[read + 2] = b
      BY <3>3, <3>6 DEF Stands
    <3>8. BitAt(read + 2) = 1
      BY <1>9, <3>7, Zenon DEF BitAt
    <3>9. Stands(r, Run(ctx, v))
      <4>1. read + Len(q) = r /\ rest = Run(ctx, v)
        BY <3>3 DEF rest
      <4> QED
        BY <3>6, <4>1, Zenon
    <3>10. code.value = v /\ AsWritten(code.slots, rest)
      <4>1. Bits(v) <= RunBits /\ rest = Run(ctx, v) /\ code = RunRead(ctx, r)
        BY <2>2 DEF rest, code
      <4> HIDE DEF v, r
      <4>2. RunRead(ctx, r).value = v /\ AsWritten(RunRead(ctx, r).slots, Run(ctx, v))
        BY <1>1, <1>7, <3>1, <3>9, <4>1, RunComesBack
      <4> QED
        BY <4>1, <4>2, Zenon
    <3>11. found = run /\ slots = <<x, y>> \o code.slots
      BY <3>1, <3>8, <3>10 DEF found, slots
    <3>12. AsWritten(<<x, y>> \o code.slots, q \o rest)
      BY <3>4, <3>10, Prefixed, Zenon
    <3> QED
      BY <3>5, <3>11, <3>12, Zenon
  <2> QED
    BY <1>6, <2>1, <2>2
<1>12. Agrees(read, slots) /\ Len(slots) = Len(chunk)
  <2>1. Agrees(read, slots)
    BY <1>1, <1>3, <1>4, <1>11, StandsAgrees, Zenon
  <2> QED
    BY <1>11, <2>1 DEF AsWritten
<1>13. ~ (found > W - X(at))
  <2>1. W \in Nat /\ X(at) \in Int
    BY <1>1, <1>4, CellIs DEF GoodInput
  <2> QED
    BY <1>8, <1>11, <2>1
<1>14. /\ read' = read + Len(chunk) /\ Advance(run, 0, 0) /\ out' = Filled(run)
       /\ UNCHANGED input /\ stage' = stage /\ wire' = wire /\ tp' = tp
  <2>1. /\ read' = read + Len(slots) /\ out' = Filled(found) /\ Advance(found, 0, 0)
        /\ UNCHANGED <<input, stage, wire, tp>>
    BY <1>10, <1>12, <1>13, Zenon DEF Asking
  <2> QED
    BY <1>11, <1>12, <2>1, Zenon
<1>15. \A i \in 0..(at + run) - 1 : out'[i] = plane[i]
  <2>1. tp = m /\ Same
    BY <1>2 DEF Reading
  <2>2. \A i \in 0..(at + run) - 1 : Filled(run)[i] = plane[i]
    BY <1>m, <1>1, <1>4, <1>8, <2>1, FilledIs
  <2> QED
    BY <1>14, <2>2
<1> QED
  BY <1>1, <1>2, <1>6, <1>14, <1>15, ReadKeeps, Zenon

-----------------------------------------------------------------------------
LEMMA StreamStarts == Init => StreamInv
<1> SUFFICES ASSUME Init PROVE StreamInv
  OBVIOUS
<1>1. GoodInput
  BY DEF Init, GoodInput
<1>2. wire \in Seq(Entry) /\ AtStart /\ stage = "map"
  BY DEF Init, AtStart
<1> QED
  BY <1>1, <1>2 DEF StreamInv

LEMMA StreamStays ==
  ASSUME StreamInv, UNCHANGED vars
  PROVE  StreamInv'
<1>1. UNCHANGED input /\ wire' = wire /\ stage' = stage /\ tp' = tp /\ at' = at /\ prevk' = prevk
      /\ prevs' = prevs /\ read' = read /\ out' = out
  BY DEF vars, input
<1>2. GoodInput' /\ (wire \in Seq(Entry))'
  BY <1>1, GoodStays DEF StreamInv
<1>3. /\ Size' = Size /\ plane' = plane /\ [Tiles -> Predictors]' = [Tiles -> Predictors]
      /\ \A m, E : (Trail(m, E)' <=> Trail(m, E)) /\ (Complete(m, E)' <=> Complete(m, E))
      /\ \A m, E, e : Passed(m, E, e)' <=> Passed(m, E, e)
  BY <1>1, SizesStay, TilesStay, TrailStays, SentStays, Zenon
<1>4. AtStart' <=> AtStart
  BY <1>1 DEF AtStart
<1>5. Same' <=> Same
  BY <1>1, <1>3, Zenon DEF Same
<1>6. \A e : (Now(e, Len(wire))' <=> Now(e, Len(wire))) /\ (Now(e, read)' <=> Now(e, read))
  BY <1>1, Zenon DEF Now
<1>7. \A m, E, e : UpTo(m, E, e)' <=> UpTo(m, E, e)
  BY <1>3, Zenon DEF UpTo
<1>8. \A m, E, e : Writing(m, E, e)' <=> Writing(m, E, e)
  BY <1>1, <1>3, <1>6, <1>7, Zenon DEF Writing
<1>9. \A m, E, e : Reading(m, E, e)' <=> Reading(m, E, e)
  BY <1>1, <1>3, <1>5, <1>6, Zenon DEF Reading
<1> QED
  BY <1>1, <1>2, <1>3, <1>4, <1>5, <1>8, <1>9, Zenon DEF StreamInv

LEMMA StreamStep ==
  ASSUME StreamInv, [Next]_vars
  PROVE  StreamInv'
<1>1. CASE SendMap
  BY <1>1, MapKeeps
<1>2. CASE EncodeBase
  BY <1>2, BaseKeeps
<1>3. CASE EncodeNonzero
  BY <1>3, NonzeroKeeps
<1>4. CASE EncodeRun
  BY <1>4, RunKeeps
<1>5. CASE Deliver
  BY <1>5, DeliverKeeps
<1>6. CASE ReadMap
  BY <1>6, ReadMapKeeps
<1>7. CASE DecodeBase
  BY <1>7, DecodeBaseKeeps
<1>8. CASE DecodeNonzero
  BY <1>8, DecodeNonzeroKeeps
<1>9. CASE DecodeRun
  BY <1>9, DecodeRunKeeps
<1>10. CASE Finish
  BY <1>10, FinishKeeps
<1>11. CASE UNCHANGED vars
  BY <1>11, StreamStays
<1> QED
  BY <1>1, <1>2, <1>3, <1>4, <1>5, <1>6, <1>7, <1>8, <1>9, <1>10, <1>11 DEF Next, Stopped

LEMMA StreamInvariant == Spec => []StreamInv
BY StreamStarts, StreamStep, PTL DEF Spec

\* decode_plane and decode_plane_xzr undo encode_plane and encode_plane_xzr:
\* for planes of every size and depth, maps of every tiling and runs of every
\* number of bits, the samples decoded are those of the plane, and at its end
\* every bit is read and none of the next plane.
THEOREM PlaneComesBack == Spec => []RoundTrip
<1>1. StreamInv => RoundTrip
  BY Zenon DEF StreamInv, Reading, Same, RoundTrip
<1> QED
  BY <1>1, StreamInvariant, PTL

\* The decoder reads each bit in the slot the encoder wrote it in, and refuses
\* no stream the encoder completed.
THEOREM SidesInStep == Spec => []InStep
<1>1. StreamInv => InStep
  BY DEF StreamInv, InStep
<1> QED
  BY <1>1, StreamInvariant, PTL

-----------------------------------------------------------------------------
(* The description of a wide image.  First, numbers of two bytes and of     *)
(* four, and the description in the chunks that carry it.                   *)

LEMMA ByteIs ==
  ASSUME NEW v \in Nat
  PROVE  v % 256 \in Byte /\ v \div 256 \in Nat /\ v = 256 * (v \div 256) + (v % 256)
BY DEF Byte

LEMMA Little16Is ==
  ASSUME NEW v \in Nat
  PROVE  /\ Little16(v) \in Seq(Byte) /\ Len(Little16(v)) = 2
         /\ v \in Short => Little16(v)[1] + 256 * Little16(v)[2] = v
<1> DEFINE low == v % 256
           q == v \div 256
           high == q % 256
<1>1. low \in Byte /\ q \in Nat /\ v = 256 * q + low
  BY ByteIs
<1>2. high \in Byte /\ q = 256 * (q \div 256) + high /\ q \div 256 \in Nat
  BY <1>1, ByteIs
<1>3. Little16(v) = <<low, high>>
  BY DEF Little16
<1> HIDE DEF low, high, q
<1>4. v \in Short => high = q
  <2>1. v \in Short => q \in Byte
    BY DEF Short, q
  <2> QED
    BY <1>2, <2>1 DEF Byte
<1>5. low \in Nat /\ q \in Nat
  BY <1>1 DEF Byte
<1>8. low \in Byte /\ high \in Byte
  BY <1>1, <1>2
<1>6. Little16(v)[1] = low /\ Little16(v)[2] = high /\ Len(Little16(v)) = 2 /\ Little16(v) \in Seq(Byte)
  BY <1>3, <1>8
<1>7. v \in Short => low + 256 * high = v
  BY <1>1, <1>4, <1>5
<1> QED
  BY <1>6, <1>7

LEMMA Rd16Is ==
  ASSUME NEW v \in Short, NEW s, NEW k \in Int, s[k] = Little16(v)[1], s[k + 1] = Little16(v)[2]
  PROVE  rd16(s, k) = v
<1>1. v \in Nat
  BY DEF Short
<1> QED
  BY <1>1, Little16Is DEF rd16

LEMMA Little32Is ==
  ASSUME NEW v \in Long
  PROVE  /\ Little32(v) \in Seq(Byte) /\ Len(Little32(v)) = 4
         /\ \A s : \A k \in Int : (\A i \in 1..4 : s[k + i - 1] = Little32(v)[i]) => rd32(s, k) = v
<1> DEFINE low == Little16(v)
           q == v \div 256
           p == q \div 256
           high == Little16(p)
<1>1. v \in Nat /\ p \in Short
  BY DEF Long
<1>2. p \in Nat
  BY <1>1 DEF Short
<1>3. v % 256 \in Byte /\ q \in Nat /\ v = 256 * q + (v % 256)
  BY <1>1, ByteIs
<1>4. q % 256 \in Byte /\ q = 256 * p + (q % 256)
  BY <1>3, ByteIs
<1>5. low = <<v % 256, q % 256>>
  BY DEF Little16
<1>6. low \in Seq(Byte) /\ Len(low) = 2 /\ high \in Seq(Byte) /\ Len(high) = 2
  BY <1>1, <1>2, Little16Is
<1>7. Little32(v) = low \o high
  BY DEF Little32
<1> HIDE DEF p, q, low, high
<1>8. /\ Little32(v) \in Seq(Byte) /\ Len(Little32(v)) = 4
      /\ Little32(v)[1] = low[1] /\ Little32(v)[2] = low[2]
      /\ Little32(v)[3] = high[1] /\ Little32(v)[4] = high[2]
  <2>1. low \o high \in Seq(Byte) /\ Len(low \o high) = Len(low) + Len(high)
        /\ \A i \in 1..Len(low) + Len(high) :
              (low \o high)[i] = IF i <= Len(low) THEN low[i] ELSE high[i - Len(low)]
    BY <1>6, ConcatProperties, Zenon
  <2> QED
    BY <1>6, <1>7, <2>1
<1>9. ASSUME NEW s, NEW k \in Int, \A i \in 1..4 : s[k + i - 1] = Little32(v)[i]
      PROVE  rd32(s, k) = v
  <2>1. s[k] = low[1] /\ s[k + 1] = low[2] /\ s[k + 2] = high[1] /\ s[(k + 2) + 1] = high[2]
    <3>1. s[k + 1 - 1] = low[1] /\ s[k + 2 - 1] = low[2] /\ s[k + 3 - 1] = high[1] /\ s[k + 4 - 1] = high[2]
      BY <1>8, <1>9
    <3>2. k + 1 - 1 = k /\ k + 2 - 1 = k + 1 /\ k + 3 - 1 = k + 2 /\ k + 4 - 1 = (k + 2) + 1
      OBVIOUS
    <3> QED
      BY <3>1, <3>2
  <2>2. low[1] = v % 256 /\ low[2] = q % 256
    BY <1>5
  <2>3. rd16(s, k) = (v % 256) + 256 * (q % 256)
    BY <2>1, <2>2 DEF rd16
  <2>4. rd16(s, k + 2) = p
    BY <1>1, <2>1, Rd16Is DEF high
  <2> DEFINE a == v % 256
             b == q % 256
  <2>5. a \in Nat /\ b \in Nat /\ v = 256 * q + a /\ q = 256 * p + b
    BY <1>3, <1>4 DEF Byte
  <2>6. rd32(s, k) = (a + 256 * b) + 256 * (256 * p)
    BY <2>3, <2>4 DEF rd32
  <2> HIDE DEF a, b
  <2> QED
    BY <1>2, <1>3, <2>5, <2>6
<1> QED
  BY <1>8, <1>9

\* Numbers of two bytes one behind the other, where they stand in a sequence.
LEMMA ShortsAre ==
  ASSUME NEW n \in Nat, NEW values, values = [k \in 1..n |-> values[k]], \A k \in 1..n : values[k] \in Short
  PROVE  /\ Shorts(values) \in Seq(Byte) /\ Len(Shorts(values)) = 2 * n
         /\ \A s : (\A i \in 1..2 * n : s[i] = Shorts(values)[i]) => ReadShorts(s, n) = values
<1> DEFINE parts == [k \in 1..n |-> Little16(values[k])]
           bytes == FlattenSeq(parts)
<1>1. \A k \in 1..n : parts[k] \in Seq(Byte) /\ Len(parts[k]) = 2
  BY Little16Is DEF Short
<1>2. Shorts(values) = bytes
  BY DEF Shorts
<1>3. \A k \in 1..n : parts[k] = Little16(values[k])
  OBVIOUS
<1>4. parts = [k \in 1..n |-> parts[k]]
  OBVIOUS
<1> HIDE DEF parts
<1>5. Flat(Byte, 2, n, parts, bytes)
  <2>1. 2 \in Nat \ {0}
    OBVIOUS
  <2> QED
    BY <1>1, <1>4, <2>1, FlatIs, Zenon
<1>6. /\ bytes \in Seq(Byte) /\ Len(bytes) = 2 * n
      /\ \A k \in 1..n : \A i \in 1..2 : bytes[2 * (k - 1) + i] = parts[k][i]
  BY <1>5, Zenon DEF Flat
<1> HIDE DEF bytes
<1>7. ASSUME NEW s, \A i \in 1..2 * n : s[i] = bytes[i]
      PROVE  ReadShorts(s, n) = values
  <2>1. ASSUME NEW k \in 1..n PROVE rd16(s, 2 * k - 1) = values[k]
    <3>1. 2 * k - 1 \in 1..2 * n /\ (2 * k - 1) + 1 \in 1..2 * n
          /\ 2 * k - 1 = 2 * (k - 1) + 1 /\ (2 * k - 1) + 1 = 2 * (k - 1) + 2
      OBVIOUS
    <3>2. bytes[2 * (k - 1) + 1] = parts[k][1] /\ bytes[2 * (k - 1) + 2] = parts[k][2]
      BY <1>6
    <3>3. s[2 * k - 1] = Little16(values[k])[1] /\ s[(2 * k - 1) + 1] = Little16(values[k])[2]
      BY <1>3, <1>7, <3>1, <3>2
    <3> QED
      BY <3>1, <3>3, Rd16Is
  <2> QED
    BY <2>1 DEF ReadShorts
<1> QED
  BY <1>2, <1>6, <1>7
OwnTags == {"ICCP", "CICP", "MDCV", "CLLI"}
Chunk == [tag : STRING \cup OwnTags, data : Seq(Byte)]

\* The bytes of a chunk with a tag of the format, read, are a field of m.
Tells(tag, data, m) ==
  /\ data \in Seq(Byte)
  /\ tag = "ICCP" => data = m.icc /\ Len(data) > 0
  /\ tag = "CICP" => ReadShorts(data, 3) \o <<data[7]>> = m.cicp /\ Len(data) = 8 /\ data[8] = 0
  /\ tag = "MDCV" => ReadMdcv(data) = m.mdcv /\ Len(data) = 24
  /\ tag = "CLLI" => ReadShorts(data, 2) = m.clli /\ Len(data) = 4

\* Chunks that tell different fields of m, and the tags among them.
Core(P, m) ==
  /\ P \in Seq(Chunk) /\ \A i \in 1..Len(P) : P[i].tag \in OwnTags /\ Tells(P[i].tag, P[i].data, m)
  /\ \A i, j \in 1..Len(P) : P[i].tag = P[j].tag => i = j
Has(P, tag) == \E i \in 1..Len(P) : P[i].tag = tag

LEMMA Alone ==
  ASSUME NEW S, NEW x \in S
  PROVE  <<x>> \in Seq(S) /\ Len(<<x>>) = 1 /\ <<x>>[1] = x
OBVIOUS

LEMMA Stacked ==
  ASSUME NEW m, NEW P, Core(P, m), NEW Q, NEW none \in BOOLEAN, NEW tag \in OwnTags, NEW data,
         ~ none => Tells(tag, data, m) /\ ~ Has(P, tag), Q = IF none THEN <<>> ELSE <<DescribedBy(tag, data)>>
  PROVE  /\ Core(P \o Q, m) /\ (~ none => Has(P \o Q, tag))
         /\ \A t : (Has(P, t) => Has(P \o Q, t)) /\ (Has(P \o Q, t) => Has(P, t) \/ t = tag)
<1>1. P \in Seq(Chunk) /\ \A i \in 1..Len(P) : P[i].tag \in OwnTags /\ Tells(P[i].tag, P[i].data, m)
  BY DEF Core
<1>2. CASE none
  <2>1. P \o Q = P
    BY <1>1, <1>2
  <2> QED
    BY <1>2, <2>1
<1>3. CASE ~ none
  <2> DEFINE x == DescribedBy(tag, data)
             s == P \o Q
  <2>1. x \in Chunk /\ x.tag = tag /\ x.data = data
    <3>1. data \in Seq(Byte)
      BY <1>3 DEF Tells
    <3> QED
      BY <3>1 DEF DescribedBy, Chunk
  <2>2. Q = <<x>>
    BY <1>3
  <2> HIDE DEF x
  <2>3. Q \in Seq(Chunk) /\ Len(Q) = 1 /\ Q[1] = x
    <3>1. <<x>> \in Seq(Chunk) /\ Len(<<x>>) = 1 /\ <<x>>[1] = x
      BY <2>1, Alone, Zenon
    <3> QED
      BY <2>2, <3>1, Zenon
  <2>4. s \in Seq(Chunk) /\ Len(s) = Len(P) + Len(Q)
        /\ \A i \in 1..Len(P) + Len(Q) : s[i] = IF i <= Len(P) THEN P[i] ELSE Q[i - Len(P)]
    BY <1>1, <2>3, ConcatProperties, Zenon
  <2> HIDE DEF s
  <2>5. Len(P) \in Nat
    BY <1>1
  <2>6. \A i \in 1..Len(P) : s[i] = P[i]
    BY <2>3, <2>4, <2>5
  <2>7. Len(s) = Len(P) + 1 /\ s[Len(P) + 1] = x
    <3>1. Len(P) + 1 \in 1..Len(P) + Len(Q) /\ ~ (Len(P) + 1 <= Len(P)) /\ (Len(P) + 1) - Len(P) = 1
      BY <2>3, <2>5
    <3> QED
      BY <2>3, <2>4, <3>1
  <2>8. Core(s, m)
    <3>1. ASSUME NEW i \in 1..Len(s) PROVE s[i].tag \in OwnTags /\ Tells(s[i].tag, s[i].data, m)
      <4>1. i \in 1..Len(P) \/ i = Len(P) + 1
        BY <2>5, <2>7
      <4>2. CASE i \in 1..Len(P)
        BY <1>1, <2>6, <4>2
      <4>3. CASE i = Len(P) + 1
        BY <1>3, <2>1, <2>7, <4>3
      <4> QED
        BY <4>1, <4>2, <4>3
    <3>2. ASSUME NEW i \in 1..Len(s), NEW j \in 1..Len(s), s[i].tag = s[j].tag PROVE i = j
      <4>1. (i \in 1..Len(P) \/ i = Len(P) + 1) /\ (j \in 1..Len(P) \/ j = Len(P) + 1)
        BY <2>5, <2>7
      <4>2. \A k \in 1..Len(P) : s[k].tag # tag
        BY <1>3, <2>6 DEF Has
      <4>3. s[Len(P) + 1].tag = tag
        BY <2>1, <2>7
      <4>4. CASE i \in 1..Len(P) /\ j \in 1..Len(P)
        <5>1. P[i].tag = P[j].tag
          BY <2>6, <3>2, <4>4
        <5> QED
          BY <4>4, <5>1 DEF Core
      <4> QED
        BY <3>2, <4>1, <4>2, <4>3, <4>4
    <3> QED
      BY <2>4, <3>1, <3>2 DEF Core
  <2>9. Has(s, tag)
    <3>1. Len(P) + 1 \in 1..Len(s)
      BY <2>5, <2>7
    <3> QED
      BY <2>1, <2>7, <3>1 DEF Has
  <2>10. ASSUME NEW t, Has(P, t) PROVE Has(s, t)
    <3>1. PICK i \in 1..Len(P) : P[i].tag = t
      BY <2>10 DEF Has
    <3>2. i \in 1..Len(s) /\ s[i].tag = t
      BY <2>5, <2>6, <2>7, <3>1
    <3> QED
      BY <3>2 DEF Has
  <2>11. ASSUME NEW t, Has(s, t) PROVE Has(P, t) \/ t = tag
    <3>1. PICK i \in 1..Len(s) : s[i].tag = t
      BY <2>11 DEF Has
    <3>2. CASE i \in 1..Len(P)
      BY <2>6, <3>1, <3>2 DEF Has
    <3>3. CASE i = Len(P) + 1
      BY <2>1, <2>7, <3>1, <3>3
    <3> QED
      BY <2>5, <2>7, <3>2, <3>3
  <2> QED
    BY <2>8, <2>9, <2>10, <2>11 DEF s
<1> QED
  BY <1>2, <1>3

LEMMA CicpTells ==
  ASSUME NEW m \in Descriptions, m.cicp # <<>>
  PROVE  Tells("CICP", CicpBytes(m.cicp), m)
<1> DEFINE c == m.cicp
           three == SubSeq(c, 1, 3)
           a == Shorts(three)
           bytes == CicpBytes(c)
<1>1. c \in [1..4 -> Short] /\ c[4] \in Byte
  BY DEF Descriptions
<1> HIDE DEF c
<1>2. three = [k \in 1..3 |-> three[k]] /\ \A k \in 1..3 : three[k] = c[k] /\ three[k] \in Short
  BY <1>1
<1> HIDE DEF three
<1>3. a \in Seq(Byte) /\ Len(a) = 6 /\ \A s : (\A i \in 1..6 : s[i] = a[i]) => ReadShorts(s, 3) = three
  <2>1. 3 \in Nat /\ 2 * 3 = 6
    OBVIOUS
  <2>2. /\ a \in Seq(Byte) /\ Len(a) = 2 * 3
        /\ \A s : (\A i \in 1..2 * 3 : s[i] = a[i]) => ReadShorts(s, 3) = three
    BY <1>2, <2>1, ShortsAre, Zenon
  <2> QED
    BY <2>1, <2>2
<1>4. bytes = a \o <<c[4], 0>>
  BY DEF CicpBytes, three
<1> HIDE DEF a, bytes
<1>5. <<c[4], 0>> \in Seq(Byte) /\ Len(<<c[4], 0>>) = 2
  BY <1>1 DEF Byte
<1>6. bytes \in Seq(Byte) /\ (\A i \in 1..6 : bytes[i] = a[i]) /\ bytes[7] = c[4]
      /\ Len(bytes) = 8 /\ bytes[8] = 0
  <2> DEFINE b == <<c[4], 0>>
  <2>1. b[1] = c[4] /\ b[2] = 0
    OBVIOUS
  <2>2. a \in Seq(Byte) /\ b \in Seq(Byte) /\ Len(a) = 6 /\ Len(b) = 2
    BY <1>3, <1>5
  <2> HIDE DEF b
  <2>3. a \o b \in Seq(Byte) /\ Len(a \o b) = Len(a) + Len(b)
        /\ \A i \in 1..Len(a) + Len(b) : (a \o b)[i] = IF i <= Len(a) THEN a[i] ELSE b[i - Len(a)]
    BY <2>2, ConcatProperties, Zenon
  <2>4. bytes = a \o b
    BY <1>4 DEF b
  <2> QED
    BY <2>1, <2>2, <2>3, <2>4
<1>7. ReadShorts(bytes, 3) = three
  BY <1>3, <1>6
<1>8. three \o <<c[4]>> = c
  BY <1>1, <1>2
<1> QED
  BY <1>6, <1>7, <1>8 DEF Tells, bytes, c

LEMMA ClliTells ==
  ASSUME NEW m \in Descriptions, m.clli # <<>>
  PROVE  Tells("CLLI", Shorts(m.clli), m)
<1> DEFINE c == m.clli
<1>1. c \in [1..2 -> Short]
  BY DEF Descriptions
<1> HIDE DEF c
<1>2. c = [k \in 1..2 |-> c[k]] /\ \A k \in 1..2 : c[k] \in Short
  BY <1>1
<1>3. Shorts(c) \in Seq(Byte) /\ ReadShorts(Shorts(c), 2) = c /\ Len(Shorts(c)) = 4
  <2>1. 2 \in Nat /\ 2 * 2 = 4
    OBVIOUS
  <2> QED
    BY <1>2, <2>1, ShortsAre
<1> QED
  BY <1>3 DEF Tells, c

LEMMA MdcvTells ==
  ASSUME NEW m \in Descriptions, m.mdcv # <<>>
  PROVE  Tells("MDCV", MdcvBytes(m.mdcv), m)
<1> DEFINE c == m.mdcv
           eight == SubSeq(c, 1, 8)
           a == Shorts(eight)
           most == Little32(c[9])
           least == Little32(c[10])
           bytes == MdcvBytes(c)
<1>1. c \in [1..10 -> Long] /\ \A k \in 1..8 : c[k] \in Short
  BY DEF Descriptions
<1> HIDE DEF c
<1>2. eight = [k \in 1..8 |-> eight[k]] /\ \A k \in 1..8 : eight[k] = c[k] /\ eight[k] \in Short
  BY <1>1
<1> HIDE DEF eight
<1>3. a \in Seq(Byte) /\ Len(a) = 16 /\ \A s : (\A i \in 1..16 : s[i] = a[i]) => ReadShorts(s, 8) = eight
  <2>1. 8 \in Nat /\ 2 * 8 = 16
    OBVIOUS
  <2>2. /\ a \in Seq(Byte) /\ Len(a) = 2 * 8
        /\ \A s : (\A i \in 1..2 * 8 : s[i] = a[i]) => ReadShorts(s, 8) = eight
    BY <1>2, <2>1, ShortsAre, Zenon
  <2> QED
    BY <2>1, <2>2
<1>4. c[9] \in Long /\ c[10] \in Long
  BY <1>1
<1>5. most \in Seq(Byte) /\ Len(most) = 4 /\ least \in Seq(Byte) /\ Len(least) = 4
  BY <1>4, Little32Is
<1>6. bytes = (a \o most) \o least
  BY DEF MdcvBytes, eight
<1> HIDE DEF a, bytes, most, least
<1>7. Followed(Byte, a, most, least, bytes)
  BY <1>3, <1>5, <1>6, ThreeParts
<1>8. /\ bytes \in Seq(Byte) /\ Len(bytes) = 24
      /\ \A i \in 1..16 : bytes[i] = a[i]
      /\ \A i \in 1..4 : bytes[16 + i] = most[i]
      /\ \A i \in 1..4 : bytes[20 + i] = least[i]
  BY <1>3, <1>5, <1>7 DEF Followed
<1>9. ReadShorts(bytes, 8) = eight
  BY <1>3, <1>8
<1>10. rd32(bytes, 17) = c[9]
  <2>0. \A i \in 1..4 : 17 + i - 1 = 16 + i
    OBVIOUS
  <2>1. \A i \in 1..4 : bytes[17 + i - 1] = most[i]
    BY <1>8, <2>0
  <2>2. 17 \in Int
    OBVIOUS
  <2> QED
    BY <1>4, <2>1, <2>2, Little32Is DEF most
<1>11. rd32(bytes, 21) = c[10]
  <2>0. \A i \in 1..4 : 21 + i - 1 = 20 + i
    OBVIOUS
  <2>1. \A i \in 1..4 : bytes[21 + i - 1] = least[i]
    BY <1>8, <2>0
  <2>2. 21 \in Int
    OBVIOUS
  <2> QED
    BY <1>4, <2>1, <2>2, Little32Is DEF least
<1>12. eight \o <<c[9], c[10]>> = c
  BY <1>1, <1>2
<1>13. ReadMdcv(bytes) = c
  BY <1>9, <1>10, <1>11, <1>12 DEF ReadMdcv
<1> QED
  BY <1>8, <1>13 DEF Tells, bytes, c

\* All chunks of a description: those of the format, then the blocks.
Carries(m, chunks, c) ==
  /\ chunks \in Seq(Chunk) /\ Len(chunks) = c + Len(m.blocks)
  /\ \A i \in 1..c : chunks[i].tag \in OwnTags /\ Tells(chunks[i].tag, chunks[i].data, m)
  /\ \A i, j \in 1..c : chunks[i].tag = chunks[j].tag => i = j
  /\ \A i \in 1..Len(m.blocks) : chunks[c + i] = m.blocks[i]
  /\ m.icc # <<>> => \E i \in 1..c : chunks[i].tag = "ICCP"
  /\ m.cicp # <<>> => \E i \in 1..c : chunks[i].tag = "CICP"
  /\ m.mdcv # <<>> => \E i \in 1..c : chunks[i].tag = "MDCV"
  /\ m.clli # <<>> => \E i \in 1..c : chunks[i].tag = "CLLI"

LEMMA DescribedCarries ==
  ASSUME NEW m \in Descriptions
  PROVE  \E c \in Nat : Carries(m, Described(m), c)
<1> DEFINE icc == IF m.icc = <<>> THEN <<>> ELSE <<DescribedBy("ICCP", m.icc)>>
           cicp == IF m.cicp = <<>> THEN <<>> ELSE <<DescribedBy("CICP", CicpBytes(m.cicp))>>
           mdcv == IF m.mdcv = <<>> THEN <<>> ELSE <<DescribedBy("MDCV", MdcvBytes(m.mdcv))>>
           clli == IF m.clli = <<>> THEN <<>> ELSE <<DescribedBy("CLLI", Shorts(m.clli))>>
           p0 == <<>>
           p1 == p0 \o icc
           p2 == p1 \o cicp
           p3 == p2 \o mdcv
           p4 == p3 \o clli
           blocks == m.blocks
           all == p4 \o blocks
<1>1. "ICCP" \in OwnTags /\ "CICP" \in OwnTags /\ "MDCV" \in OwnTags /\ "CLLI" \in OwnTags
  BY DEF OwnTags
<1>2. m.icc \in Seq(Byte) /\ blocks \in Seq([tag : STRING, data : Seq(Byte)])
  BY DEF Descriptions
<1>4. p1 = icc
  <2> DEFINE x == DescribedBy("ICCP", m.icc)
  <2>1. CASE m.icc = <<>>
    BY <2>1
  <2>2. CASE m.icc # <<>>
    <3>1. icc = <<x>>
      BY <2>2
    <3> HIDE DEF x, icc
    <3> QED
      BY <3>1
  <2> QED
    BY <2>1, <2>2
<1>5. Described(m) = all
  <2>1. Described(m) = (((icc \o cicp) \o mdcv) \o clli) \o blocks
    BY DEF Described, Optional
  <2> QED
    BY <1>4, <2>1
<1>6. Core(p0, m)
  BY DEF Core
<1>21. \A t : ~ Has(p0, t)
  BY DEF Has
<1> HIDE DEF icc, cicp, mdcv, clli, p0, p1, p2, p3, p4, blocks, all
<1>7. Core(p1, m) /\ (m.icc # <<>> => Has(p1, "ICCP")) /\ \A t : Has(p1, t) => t = "ICCP"
  <2>1. m.icc # <<>> => Tells("ICCP", m.icc, m)
    <3>1. m.icc # <<>> => Len(m.icc) > 0
      BY <1>2
    <3> QED
      BY <1>2, <3>1 DEF Tells
  <2>2. /\ Core(p0 \o icc, m) /\ (~ (m.icc = <<>>) => Has(p0 \o icc, "ICCP"))
        /\ \A t : Has(p0 \o icc, t) => t = "ICCP"
    <3> DEFINE none == m.icc = <<>>
               data == m.icc
    <3>1. none \in BOOLEAN /\ icc = IF none THEN <<>> ELSE <<DescribedBy("ICCP", data)>>
      BY DEF icc
    <3>2. ~ none => Tells("ICCP", data, m)
      BY <2>1
    <3>4. ~ Has(p0, "ICCP")
      BY <1>21
    <3> HIDE DEF none, data
    <3>3. /\ Core(p0 \o icc, m) /\ (~ none => Has(p0 \o icc, "ICCP"))
          /\ \A t : (Has(p0, t) => Has(p0 \o icc, t)) /\ (Has(p0 \o icc, t) => Has(p0, t) \/ t = "ICCP")
      BY <1>1, <1>6, <3>1, <3>2, <3>4, Stacked
    <3> QED
      BY <1>21, <3>3 DEF none
  <2> QED
    BY <2>2 DEF p1
<1>8. /\ Core(p2, m) /\ (m.cicp # <<>> => Has(p2, "CICP")) /\ (\A t : Has(p1, t) => Has(p2, t))
       /\ \A t : Has(p2, t) => t = "ICCP" \/ t = "CICP"
  <2>1. ~ (m.cicp = <<>>) => Tells("CICP", CicpBytes(m.cicp), m)
    BY CicpTells
  <2>2. /\ Core(p1 \o cicp, m) /\ (~ (m.cicp = <<>>) => Has(p1 \o cicp, "CICP"))
        /\ (\A t : Has(p1, t) => Has(p1 \o cicp, t))
        /\ \A t : Has(p1 \o cicp, t) => t = "ICCP" \/ t = "CICP"
    <3> DEFINE none == m.cicp = <<>>
               data == CicpBytes(m.cicp)
    <3>1. none \in BOOLEAN /\ cicp = IF none THEN <<>> ELSE <<DescribedBy("CICP", data)>>
      BY DEF cicp
    <3>2. ~ none => Tells("CICP", data, m)
      BY <2>1
    <3>4. ~ Has(p1, "CICP")
      BY <1>7
    <3> HIDE DEF none, data
    <3>3. /\ Core(p1 \o cicp, m) /\ (~ none => Has(p1 \o cicp, "CICP"))
          /\ \A t : (Has(p1, t) => Has(p1 \o cicp, t)) /\ (Has(p1 \o cicp, t) => Has(p1, t) \/ t = "CICP")
      BY <1>1, <1>7, <3>1, <3>2, <3>4, Stacked
    <3> QED
      BY <1>7, <3>3 DEF none
  <2> QED
    BY <2>2 DEF p2
<1>9. /\ Core(p3, m) /\ (m.mdcv # <<>> => Has(p3, "MDCV")) /\ (\A t : Has(p2, t) => Has(p3, t))
       /\ \A t : Has(p3, t) => t = "ICCP" \/ t = "CICP" \/ t = "MDCV"
  <2>1. ~ (m.mdcv = <<>>) => Tells("MDCV", MdcvBytes(m.mdcv), m)
    BY MdcvTells
  <2>2. /\ Core(p2 \o mdcv, m) /\ (~ (m.mdcv = <<>>) => Has(p2 \o mdcv, "MDCV"))
        /\ (\A t : Has(p2, t) => Has(p2 \o mdcv, t))
        /\ \A t : Has(p2 \o mdcv, t) => t = "ICCP" \/ t = "CICP" \/ t = "MDCV"
    <3> DEFINE none == m.mdcv = <<>>
               data == MdcvBytes(m.mdcv)
    <3>1. none \in BOOLEAN /\ mdcv = IF none THEN <<>> ELSE <<DescribedBy("MDCV", data)>>
      BY DEF mdcv
    <3>2. ~ none => Tells("MDCV", data, m)
      BY <2>1
    <3>4. ~ Has(p2, "MDCV")
      BY <1>8
    <3> HIDE DEF none, data
    <3>3. /\ Core(p2 \o mdcv, m) /\ (~ none => Has(p2 \o mdcv, "MDCV"))
          /\ \A t : (Has(p2, t) => Has(p2 \o mdcv, t)) /\ (Has(p2 \o mdcv, t) => Has(p2, t) \/ t = "MDCV")
      BY <1>1, <1>8, <3>1, <3>2, <3>4, Stacked
    <3> QED
      BY <1>8, <3>3 DEF none
  <2> QED
    BY <2>2 DEF p3
<1>10. /\ Core(p4, m) /\ (m.clli # <<>> => Has(p4, "CLLI")) /\ (\A t : Has(p3, t) => Has(p4, t))
       /\ \A t : Has(p4, t) => t = "ICCP" \/ t = "CICP" \/ t = "MDCV" \/ t = "CLLI"
  <2>1. ~ (m.clli = <<>>) => Tells("CLLI", Shorts(m.clli), m)
    BY ClliTells
  <2>2. /\ Core(p3 \o clli, m) /\ (~ (m.clli = <<>>) => Has(p3 \o clli, "CLLI"))
        /\ (\A t : Has(p3, t) => Has(p3 \o clli, t))
        /\ \A t : Has(p3 \o clli, t) => t = "ICCP" \/ t = "CICP" \/ t = "MDCV" \/ t = "CLLI"
    <3> DEFINE none == m.clli = <<>>
               data == Shorts(m.clli)
    <3>1. none \in BOOLEAN /\ clli = IF none THEN <<>> ELSE <<DescribedBy("CLLI", data)>>
      BY DEF clli
    <3>2. ~ none => Tells("CLLI", data, m)
      BY <2>1
    <3>4. ~ Has(p3, "CLLI")
      BY <1>9
    <3> HIDE DEF none, data
    <3>3. /\ Core(p3 \o clli, m) /\ (~ none => Has(p3 \o clli, "CLLI"))
          /\ \A t : (Has(p3, t) => Has(p3 \o clli, t)) /\ (Has(p3 \o clli, t) => Has(p3, t) \/ t = "CLLI")
      BY <1>1, <1>9, <3>1, <3>2, <3>4, Stacked
    <3> QED
      BY <1>9, <3>3 DEF none
  <2> QED
    BY <2>2 DEF p4
<1>11. /\ m.icc # <<>> => Has(p4, "ICCP")
       /\ m.cicp # <<>> => Has(p4, "CICP")
       /\ m.mdcv # <<>> => Has(p4, "MDCV")
       /\ m.clli # <<>> => Has(p4, "CLLI")
  BY <1>7, <1>8, <1>9, <1>10, Zenon
<1>12. p4 \in Seq(Chunk) /\ \A i \in 1..Len(p4) : p4[i].tag \in OwnTags /\ Tells(p4[i].tag, p4[i].data, m)
  BY <1>10 DEF Core
<1>13. blocks \in Seq(Chunk)
  <2> DEFINE n == Len(blocks)
  <2>1. [tag : STRING, data : Seq(Byte)] \subseteq Chunk
    BY DEF Chunk
  <2>2. n \in Nat /\ blocks = [i \in 1..n |-> blocks[i]]
    BY <1>2
  <2>3. \A i \in 1..n : blocks[i] \in Chunk
    <3> DEFINE R == [tag : STRING, data : Seq(Byte)]
    <3>1. blocks \in Seq(R) /\ R \subseteq Chunk
      BY <1>2, <2>1
    <3> HIDE DEF R
    <3>2. \A i \in 1..n : blocks[i] \in R
      BY <3>1
    <3> QED
      BY <3>1, <3>2
  <2> HIDE DEF n
  <2> QED
    BY <2>2, <2>3, SeqMade
<1>14. all \in Seq(Chunk) /\ Len(all) = Len(p4) + Len(blocks)
       /\ \A i \in 1..Len(p4) + Len(blocks) : all[i] = IF i <= Len(p4) THEN p4[i] ELSE blocks[i - Len(p4)]
  BY <1>12, <1>13, ConcatProperties, Zenon DEF all
<1> DEFINE c == Len(p4)
<1>15. c \in Nat /\ Len(blocks) \in Nat
  BY <1>12, <1>13
<1> HIDE DEF c
<1>16. \A i \in 1..c : all[i] = p4[i]
  BY <1>14, <1>15 DEF c
<1>17. \A i \in 1..Len(blocks) : all[c + i] = blocks[i]
  <2> TAKE i \in 1..Len(blocks)
  <2>1. c + i \in 1..c + Len(blocks) /\ ~ (c + i <= c) /\ (c + i) - c = i
    BY <1>15
  <2> QED
    BY <1>14, <2>1 DEF c
<1>18. \A i \in 1..c : all[i].tag \in OwnTags /\ Tells(all[i].tag, all[i].data, m)
  BY <1>12, <1>16 DEF c
<1>22. \A i, j \in 1..c : all[i].tag = all[j].tag => i = j
  <2>1. \A i, j \in 1..Len(p4) : p4[i].tag = p4[j].tag => i = j
    BY <1>10, Zenon DEF Core
  <2> QED
    BY <1>16, <2>1 DEF c
<1>19. \A t : Has(p4, t) => \E i \in 1..c : all[i].tag = t
  BY <1>16 DEF Has, c
<1>20. Carries(m, all, c)
  BY <1>11, <1>14, <1>15, <1>17, <1>18, <1>19, <1>22, Zenon DEF Carries, c, blocks
<1> QED
  BY <1>5, <1>15, <1>20, Zenon

\* Parts of any lengths, one behind the other; f[k] has the first k of them.
Heaped(S, n, parts, f) ==
  f \in [0..n -> Seq(S)] /\ f[0] = <<>> /\ \A k \in 1..n : f[k] = f[k - 1] \o parts[k]

LEMMA HeapsExist ==
  ASSUME NEW S, NEW n \in Nat, NEW parts, \A k \in 1..n : parts[k] \in Seq(S)
  PROVE  \E f : Heaped(S, n, parts, f)
<1> DEFINE Done == {k \in Nat : k <= n => \E f : Heaped(S, k, parts, f)}
<1>1. 0 \in Done
  <2>1. Heaped(S, 0, parts, [k \in 0..0 |-> <<>>])
    <3>1. [k \in 0..0 |-> <<>>] \in [0..0 -> Seq(S)]
      OBVIOUS
    <3> QED
      BY <3>1 DEF Heaped
  <2> QED
    BY <2>1
<1>2. ASSUME NEW k \in Nat, k \in Done, k + 1 <= n PROVE \E f : Heaped(S, k + 1, parts, f)
  <2>1. PICK f : Heaped(S, k, parts, f)
    BY <1>2
  <2>2. f \in [0..k -> Seq(S)] /\ f[0] = <<>> /\ \A i \in 1..k : f[i] = f[i - 1] \o parts[i]
    BY <2>1 DEF Heaped
  <2> DEFINE next == f[k] \o parts[k + 1]
             g == [i \in 0..k + 1 |-> IF i <= k THEN f[i] ELSE next]
  <2>3. next \in Seq(S)
    <3>1. f[k] \in Seq(S)
      BY <2>2
    <3>2. parts[k + 1] \in Seq(S)
      BY <1>2
    <3> QED
      BY <3>1, <3>2, ConcatProperties, Zenon
  <2>4. g[k + 1] = next /\ \A i \in 0..k : g[i] = f[i]
    OBVIOUS
  <2>5. g \in [0..k + 1 -> Seq(S)]
    <3> HIDE DEF next
    <3> QED
      BY <2>2, <2>3
  <2> HIDE DEF g
  <2>6. ASSUME NEW i \in 1..k + 1 PROVE g[i] = g[i - 1] \o parts[i]
    <3>1. CASE i <= k
      <4>1. i \in 1..k /\ i \in 0..k /\ i - 1 \in 0..k
        BY <3>1
      <4> QED
        BY <2>2, <2>4, <4>1
    <3>2. CASE ~ (i <= k)
      <4>1. i = k + 1 /\ i - 1 = k /\ k \in 0..k
        BY <3>2
      <4> QED
        BY <2>4, <4>1
    <3> QED
      BY <3>1, <3>2
  <2>7. g[0] = <<>>
    BY <2>2, <2>4
  <2>8. Heaped(S, k + 1, parts, g)
    BY <2>5, <2>6, <2>7 DEF Heaped
  <2> QED
    BY <2>8
<1>3. \A k \in Nat : k \in Done
  <2>1. \A k \in Nat : k \in Done => k + 1 \in Done
    BY <1>2
  <2> HIDE DEF Done
  <2> QED
    BY <1>1, <2>1, Induction, Zenon
<1> QED
  BY <1>3

LEMMA FlattenIs ==
  ASSUME NEW S, NEW n \in Nat, NEW parts, NEW f, parts = [k \in 1..n |-> parts[k]],
         \A k \in 1..n : parts[k] \in Seq(S), Heaped(S, n, parts, f)
  PROVE  FlattenSeq(parts) = f[n]
<1>1. parts \in Seq(Seq(S)) /\ Len(parts) = n
  BY SeqMade
<1>2. f \in [0..n -> Seq(S)] /\ f[0] = <<>> /\ \A k \in 1..n : f[k] = f[k - 1] \o parts[k]
  BY DEF Heaped
<1>3. CASE n = 0
  <2>1. FlattenSeq(parts) = parts /\ parts = <<>>
    BY <1>1, <1>3 DEF FlattenSeq
  <2> QED
    BY <1>2, <1>3, <2>1
<1>4. CASE n # 0
  <2> DEFINE from(h) == [k \in 1..n |-> IF k = 1 THEN parts[k] ELSE h[k - 1] \o parts[k]]
             flat == CHOOSE h : h = from(h)
             told == [k \in 1..n |-> f[k]]
  <2>1. FlattenSeq(parts) = flat[n]
    BY <1>1, <1>4 DEF FlattenSeq
  <2>2. ASSUME NEW k \in 1..n PROVE told[k] = IF k = 1 THEN parts[k] ELSE told[k - 1] \o parts[k]
    <3>1. told[k] = f[k] /\ f[k] = f[k - 1] \o parts[k]
      BY <1>2
    <3>2. CASE k = 1
      <4>1. f[0] \o parts[1] = parts[1]
        <5>1. parts[1] \in Seq(S)
          BY <3>2
        <5> QED
          BY <1>2, <5>1
      <4>2. k - 1 = 0
        BY <3>2
      <4>3. told[k] = f[0] \o parts[1]
        BY <3>1, <3>2, <4>2
      <4> HIDE DEF told
      <4> QED
        BY <3>2, <4>1, <4>3, Zenon
    <3>3. CASE k # 1
      <4>1. k - 1 \in 1..n
        BY <3>3
      <4>2. told[k - 1] = f[k - 1]
        BY <4>1
      <4> QED
        BY <3>1, <3>3, <4>2
    <3> QED
      BY <3>2, <3>3
  <2>3. told = from(told)
    BY <2>2
  <2> HIDE DEF told
  <2>4. flat = from(flat)
    BY <2>3
  <2> HIDE DEF flat
  <2>5. \A k \in 1..n : flat[k] = IF k = 1 THEN parts[k] ELSE flat[k - 1] \o parts[k]
    BY <2>4
  <2> DEFINE Same1 == {k \in Nat : k + 1 <= n => flat[k + 1] = f[k + 1]}
  <2>6. 0 \in Same1
    <3>1. 1 \in 1..n
      BY <1>4
    <3>2. f[1] = parts[1]
      <4>1. parts[1] \in Seq(S)
        BY <3>1
      <4>2. \A j \in 1..n : j - 1 = 0 => f[j] = f[0] \o parts[j]
        BY <1>2
      <4>3. f[1] = f[0] \o parts[1]
        BY <3>1, <4>2
      <4> QED
        BY <1>2, <4>1, <4>3
    <3>3. flat[1] = parts[1]
      BY <2>5, <3>1
    <3> QED
      BY <3>2, <3>3
  <2>7. ASSUME NEW k \in Nat, k \in Same1 PROVE k + 1 \in Same1
    <3> SUFFICES ASSUME (k + 1) + 1 <= n PROVE flat[(k + 1) + 1] = f[(k + 1) + 1]
      OBVIOUS
    <3> DEFINE j == k + 1
    <3>1. j + 1 \in 1..n /\ j + 1 # 1 /\ (j + 1) - 1 = j /\ j <= n
      OBVIOUS
    <3>2. flat[j] = f[j]
      BY <2>7, <3>1
    <3> HIDE DEF j
    <3>3. flat[j + 1] = flat[j] \o parts[j + 1]
      BY <2>5, <3>1
    <3>4. f[j + 1] = f[j] \o parts[j + 1]
      BY <1>2, <3>1
    <3> QED
      BY <3>2, <3>3, <3>4 DEF j
  <2>8. \A k \in Nat : k \in Same1
    <3>1. \A k \in Nat : k \in Same1 => k + 1 \in Same1
      BY <2>7
    <3> HIDE DEF Same1
    <3> QED
      BY <2>6, <3>1, Induction, Zenon
  <2>9. flat[(n - 1) + 1] = f[(n - 1) + 1] /\ (n - 1) + 1 = n
    <3>1. n - 1 \in Nat /\ (n - 1) + 1 = n
      BY <1>4
    <3> QED
      BY <2>8, <3>1
  <2> QED
    BY <2>1, <2>9
<1> QED
  BY <1>3, <1>4

\* Where a part stands in the whole.
Placed(f, parts, s, k) ==
  /\ Len(f[k - 1]) \in Nat /\ Len(f[k]) = Len(f[k - 1]) + Len(parts[k]) /\ Len(f[k]) <= Len(s)
  /\ \A i \in 1..Len(parts[k]) : s[Len(f[k - 1]) + i] = parts[k][i]

LEMMA PartInPlace ==
  ASSUME NEW S, NEW n \in Nat, NEW parts, NEW f, NEW k \in 1..n,
         \A i \in 1..n : parts[i] \in Seq(S), Heaped(S, n, parts, f)
  PROVE  Placed(f, parts, f[n], k)
<1>1. f \in [0..n -> Seq(S)] /\ \A j \in 1..n : f[j] = f[j - 1] \o parts[j]
  BY DEF Heaped
<1>2. ASSUME NEW j \in 1..n
      PROVE  /\ Len(f[j - 1]) \in Nat /\ Len(f[j]) = Len(f[j - 1]) + Len(parts[j]) /\ Len(parts[j]) \in Nat
             /\ \A i \in 1..Len(f[j - 1]) : f[j][i] = f[j - 1][i]
             /\ \A i \in 1..Len(parts[j]) : f[j][Len(f[j - 1]) + i] = parts[j][i]
  <2> DEFINE a == f[j - 1]
             b == parts[j]
  <2>1. a \in Seq(S) /\ b \in Seq(S) /\ f[j] = a \o b
    <3>1. j - 1 \in 0..n
      OBVIOUS
    <3>2. f[j - 1] \in Seq(S)
      BY <1>1, <3>1
    <3>3. parts[j] \in Seq(S)
      OBVIOUS
    <3>4. f[j] = f[j - 1] \o parts[j]
      BY <1>1
    <3> QED
      BY <3>2, <3>3, <3>4
  <2> HIDE DEF a, b
  <2>2. a \o b \in Seq(S) /\ Len(a \o b) = Len(a) + Len(b)
        /\ \A i \in 1..Len(a) + Len(b) : (a \o b)[i] = IF i <= Len(a) THEN a[i] ELSE b[i - Len(a)]
    BY <2>1, ConcatProperties, Zenon
  <2>3. Len(a) \in Nat /\ Len(b) \in Nat
    BY <2>1
  <2>4. \A i \in 1..Len(a) : f[j][i] = a[i]
    BY <2>1, <2>2, <2>3
  <2>5. \A i \in 1..Len(b) : f[j][Len(a) + i] = b[i]
    <3> TAKE i \in 1..Len(b)
    <3>1. Len(a) + i \in 1..Len(a) + Len(b) /\ ~ (Len(a) + i <= Len(a)) /\ (Len(a) + i) - Len(a) = i
      BY <2>3
    <3> QED
      BY <2>1, <2>2, <3>1
  <2> QED
    BY <2>1, <2>2, <2>3, <2>4, <2>5 DEF a, b
<1> DEFINE Kept1 == {j \in Nat : k + j <= n => /\ Len(f[k]) <= Len(f[k + j])
                                              /\ \A i \in 1..Len(f[k]) : f[k + j][i] = f[k][i]}
<1>3. Len(f[k]) \in Nat
  BY <1>1
<1>4. 0 \in Kept1
  BY <1>3
<1>5. ASSUME NEW j \in Nat, j \in Kept1 PROVE j + 1 \in Kept1
  <2> SUFFICES ASSUME k + (j + 1) <= n
               PROVE  /\ Len(f[k]) <= Len(f[k + (j + 1)])
                      /\ \A i \in 1..Len(f[k]) : f[k + (j + 1)][i] = f[k][i]
    OBVIOUS
  <2> DEFINE h == k + (j + 1)
  <2>1. h \in 1..n /\ h - 1 = k + j /\ k + j <= n
    OBVIOUS
  <2>2. Len(f[k]) <= Len(f[k + j]) /\ \A i \in 1..Len(f[k]) : f[k + j][i] = f[k][i]
    BY <1>5, <2>1
  <2> HIDE DEF h
  <2>3. /\ Len(f[h - 1]) \in Nat /\ Len(f[h]) = Len(f[h - 1]) + Len(parts[h]) /\ Len(parts[h]) \in Nat
        /\ \A i \in 1..Len(f[h - 1]) : f[h][i] = f[h - 1][i]
    BY <1>2, <2>1
  <2>4. Len(f[k]) <= Len(f[h]) /\ \A i \in 1..Len(f[k]) : f[h][i] = f[k][i]
    <3> DEFINE p == f[k]
               q == f[k + j]
               r == f[h]
    <3>1. Len(q) \in Nat /\ Len(r) = Len(q) + Len(parts[h]) /\ \A i \in 1..Len(q) : r[i] = q[i]
      BY <2>1, <2>3
    <3>2. Len(p) <= Len(q) /\ \A i \in 1..Len(p) : q[i] = p[i]
      BY <2>2
    <3>3. Len(p) \in Nat /\ Len(parts[h]) \in Nat
      BY <1>3, <2>3
    <3> HIDE DEF p, q, r
    <3>4. Len(p) <= Len(r) /\ \A i \in 1..Len(p) : r[i] = p[i]
      BY <3>1, <3>2, <3>3
    <3> QED
      BY <3>4 DEF p, r
  <2> QED
    BY <2>4 DEF h
<1>6. \A j \in Nat : j \in Kept1
  <2>1. \A j \in Nat : j \in Kept1 => j + 1 \in Kept1
    BY <1>5
  <2> HIDE DEF Kept1
  <2> QED
    BY <1>4, <2>1, Induction, Zenon
<1>7. Len(f[k]) <= Len(f[n]) /\ \A i \in 1..Len(f[k]) : f[n][i] = f[k][i]
  <2>1. n - k \in Nat /\ k + (n - k) = n
    OBVIOUS
  <2>2. n - k \in Kept1
    BY <1>6, <2>1
  <2> QED
    BY <2>1, <2>2
<1>8. /\ Len(f[k - 1]) \in Nat /\ Len(f[k]) = Len(f[k - 1]) + Len(parts[k]) /\ Len(parts[k]) \in Nat
      /\ \A i \in 1..Len(parts[k]) : f[k][Len(f[k - 1]) + i] = parts[k][i]
  BY <1>2
<1> HIDE DEF Kept1
<1>9. ASSUME NEW i \in 1..Len(parts[k]) PROVE f[n][Len(f[k - 1]) + i] = parts[k][i]
  <2>1. Len(f[k - 1]) + i \in 1..Len(f[k])
    <3> DEFINE a == Len(f[k - 1])
               b == Len(parts[k])
               c == Len(f[k])
    <3>1. a \in Nat /\ b \in Nat /\ c = a + b /\ i \in 1..b
      BY <1>8
    <3> HIDE DEF a, b, c
    <3>2. a + i \in 1..c
      BY <3>1
    <3> QED
      BY <3>2 DEF a, c
  <2> QED
    BY <1>7, <1>8, <2>1
<1> QED
  BY <1>7, <1>8, <1>9 DEF Placed

\* The parts of a flattened sequence, each in its place.
InPlace(S, n, parts, f, s) ==
  /\ f \in [0..n -> Seq(S)] /\ f[0] = <<>> /\ s = f[n]
  /\ \A k \in 1..n : Placed(f, parts, s, k)

LEMMA AllInPlace ==
  ASSUME NEW S, NEW n \in Nat, NEW parts, parts = [k \in 1..n |-> parts[k]],
         \A k \in 1..n : parts[k] \in Seq(S)
  PROVE  \E f : InPlace(S, n, parts, f, FlattenSeq(parts))
<1>1. PICK f : Heaped(S, n, parts, f)
  BY HeapsExist
<1> DEFINE s == FlattenSeq(parts)
<1>2. s = f[n]
  BY <1>1, FlattenIs, Zenon
<1>3. f \in [0..n -> Seq(S)] /\ f[0] = <<>>
  BY <1>1, Zenon DEF Heaped
<1> HIDE DEF s
<1>4. ASSUME NEW k \in 1..n
      PROVE  Placed(f, parts, s, k)
  <2>1. Placed(f, parts, f[n], k)
    BY <1>1, PartInPlace, Zenon
  <2> QED
    BY <1>2, <2>1, Zenon
<1> QED
  BY <1>2, <1>3, <1>4, Zenon DEF InPlace, s

\* What the parser has when it has read some chunks, and one more.
Names == {"ok", "next", "size", "pixels", "alpha", "authority", "icc", "cicp", "mdcv", "clli", "blocks"}
View(v) == v = [x \in Names |-> v[x]] /\ v.ok \in BOOLEAN

ChunkTaken(v, tag, length, data, w) ==
  /\ w.next = v.next + 3 + length /\ w.alpha = v.alpha /\ w.authority = v.authority
  /\ w.icc = IF tag = "ICCP" THEN data ELSE v.icc
  /\ w.cicp = IF tag = "CICP" THEN ReadShorts(data, 3) \o <<data[7]>> ELSE v.cicp
  /\ w.mdcv = IF tag = "MDCV" THEN ReadMdcv(data) ELSE v.mdcv
  /\ w.clli = IF tag = "CLLI" THEN ReadShorts(data, 2) ELSE v.clli
  /\ w.blocks = IF tag \in CoreTags THEN v.blocks ELSE Append(v.blocks, DescribedBy(tag, data))

LEMMA Judged ==
  ASSUME NEW v, View(v), NEW b \in BOOLEAN
  PROVE  /\ View([v EXCEPT !.ok = b]) /\ [v EXCEPT !.ok = b].ok = b
         /\ \A x \in Names \ {"ok"} : [v EXCEPT !.ok = b][x] = v[x]
BY DEF View, Names

LEMMA CoreChunkIs ==
  ASSUME NEW v, View(v), NEW tag \in OwnTags, NEW flags, NEW data
  PROVE  LET w == CoreChunk(v, tag, flags, data)
         IN  View(w) /\ (w.ok => v.ok) /\ w.next = v.next /\ w.alpha = v.alpha /\ w.authority = v.authority
             /\ w.icc = (IF tag = "ICCP" THEN data ELSE v.icc)
             /\ w.cicp = (IF tag = "CICP" THEN ReadShorts(data, 3) \o <<data[7]>> ELSE v.cicp)
             /\ w.mdcv = (IF tag = "MDCV" THEN ReadMdcv(data) ELSE v.mdcv)
             /\ w.clli = (IF tag = "CLLI" THEN ReadShorts(data, 2) ELSE v.clli)
             /\ w.blocks = v.blocks
<1> DEFINE n == Len(data)
           w == CoreChunk(v, tag, flags, data)
<1>1. CASE tag = "ICCP"
  <2> DEFINE b == v.ok /\ v.icc = <<>> /\ flags = 0 /\ n > 0
  <2>1. w = [v EXCEPT !.ok = b, !.icc = data]
    BY <1>1 DEF CoreChunk
  <2>2. b \in BOOLEAN /\ (b => v.ok)
    BY DEF View
  <2> HIDE DEF b, w
  <2> QED
    BY <1>1, <2>1, <2>2 DEF View, Names, w
<1>2. CASE tag = "CICP"
  <2> DEFINE b == v.ok /\ v.cicp = <<>> /\ flags = 0 /\ n = 8 /\ data[8] = 0 /\ data[7] <= 1
             y == ReadShorts(data, 3) \o <<data[7]>>
  <2>1. w = [v EXCEPT !.ok = b, !.cicp = y]
    BY <1>2 DEF CoreChunk
  <2>2. b \in BOOLEAN /\ (b => v.ok)
    BY DEF View
  <2> HIDE DEF b, w, y
  <2>3. /\ View(w) /\ (w.ok => v.ok) /\ w.next = v.next /\ w.alpha = v.alpha /\ w.authority = v.authority
        /\ w.icc = v.icc /\ w.cicp = y /\ w.mdcv = v.mdcv /\ w.clli = v.clli /\ w.blocks = v.blocks
    BY <2>1, <2>2 DEF View, Names
  <2> QED
    BY <1>2, <2>3 DEF w, y
<1>3. CASE tag = "MDCV"
  <2> DEFINE b == v.ok /\ v.mdcv = <<>> /\ flags = 0 /\ n = 24 /\ rd32(data, 17) >= rd32(data, 21)
             y == ReadMdcv(data)
  <2>1. w = [v EXCEPT !.ok = b, !.mdcv = y]
    BY <1>3 DEF CoreChunk
  <2>2. b \in BOOLEAN /\ (b => v.ok)
    BY DEF View
  <2> HIDE DEF b, w, y
  <2>3. /\ View(w) /\ (w.ok => v.ok) /\ w.next = v.next /\ w.alpha = v.alpha /\ w.authority = v.authority
        /\ w.icc = v.icc /\ w.cicp = v.cicp /\ w.mdcv = y /\ w.clli = v.clli /\ w.blocks = v.blocks
    BY <2>1, <2>2 DEF View, Names
  <2> QED
    BY <1>3, <2>3 DEF w, y
<1>4. CASE tag = "CLLI"
  <2> DEFINE b == v.ok /\ v.clli = <<>> /\ flags = 0 /\ n = 4 /\ rd16(data, 1) >= rd16(data, 3)
             y == ReadShorts(data, 2)
  <2>1. w = [v EXCEPT !.ok = b, !.clli = y]
    BY <1>4 DEF CoreChunk
  <2>2. b \in BOOLEAN /\ (b => v.ok)
    BY DEF View
  <2> HIDE DEF b, w, y
  <2>3. /\ View(w) /\ (w.ok => v.ok) /\ w.next = v.next /\ w.alpha = v.alpha /\ w.authority = v.authority
        /\ w.icc = v.icc /\ w.cicp = v.cicp /\ w.mdcv = v.mdcv /\ w.clli = y /\ w.blocks = v.blocks
    BY <2>1, <2>2 DEF View, Names
  <2> QED
    BY <1>4, <2>3 DEF w, y
<1> QED
  BY <1>1, <1>2, <1>3, <1>4 DEF OwnTags

LEMMA ReadChunkIs ==
  ASSUME NEW s, NEW v, View(v)
  PROVE  /\ View(ReadChunk(s, v))
         /\ ReadChunk(s, v).ok =>
              /\ v.ok
              /\ ChunkTaken(v, s[v.next], s[v.next + 2], Slice(s, v.next + 3, s[v.next + 2]), ReadChunk(s, v))
<1> DEFINE tag == s[v.next]
           flags == s[v.next + 1]
           length == s[v.next + 2]
           data == Slice(s, v.next + 3, length)
           next == v.next + 3 + length
           after == [v EXCEPT !.next = next]
           size == v.size + length
           fits == size <= MaxMetadata
           counted == [after EXCEPT !.size = size, !.ok = fits]
           cut == [v EXCEPT !.ok = FALSE]
           last == v.pixels = <<>> /\ flags = 1 /\ length = s[11]
           pixels == [after EXCEPT !.ok = last, !.pixels = data]
           blocks == Append(v.blocks, DescribedBy(tag, data))
           plain == fits /\ flags = 0
           block == [counted EXCEPT !.ok = plain, !.blocks = blocks]
           w == ReadChunk(s, v)
<1>1. after.size = v.size /\ counted.ok = fits /\ counted.blocks = v.blocks
  BY DEF View, Names
<1>2. \/ w = v /\ ~ v.ok
      \/ w = cut
      \/ v.ok /\ tag = "PIXL" /\ w = pixels
      \/ v.ok /\ tag # "PIXL" /\ tag \in CoreTags /\ w = CoreChunk(counted, tag, flags, data)
      \/ v.ok /\ tag # "PIXL" /\ tag \notin CoreTags /\ w = block
  BY <1>1, Zenon DEF ReadChunk
<1>3. fits \in BOOLEAN /\ last \in BOOLEAN /\ plain \in BOOLEAN /\ v.ok \in BOOLEAN
  BY DEF View
<1> HIDE DEF tag, flags, length, data, next, size, fits, last, blocks, plain, w
<1>4. View(cut) /\ ~ cut.ok
  BY Judged
<1>5. View(after) /\ after.ok = v.ok /\ after.next = next /\ \A x \in Names \ {"next"} : after[x] = v[x]
  BY DEF View, Names
<1>6. View(counted) /\ counted.next = next /\ \A x \in Names \ {"next", "size", "ok"} : counted[x] = v[x]
  BY <1>3 DEF View, Names
<1>7. View(pixels) /\ pixels.next = next /\ \A x \in Names \ {"next", "pixels", "ok"} : pixels[x] = v[x]
  BY <1>3 DEF View, Names
<1>8. View(block) /\ block.next = next /\ block.blocks = blocks
      /\ \A x \in Names \ {"next", "size", "ok", "blocks"} : block[x] = v[x]
  BY <1>3 DEF View, Names
<1> HIDE DEF cut, after, counted, pixels, block
<1>9. CASE v.ok /\ tag = "PIXL" /\ w = pixels
  <2>1. ChunkTaken(v, tag, length, data, w)
    BY <1>7, <1>9 DEF ChunkTaken, Names, CoreTags, next
  <2> QED
    BY <1>7, <1>9, <2>1 DEF w, tag, length, data
<1>10. CASE v.ok /\ tag # "PIXL" /\ tag \in CoreTags /\ w = CoreChunk(counted, tag, flags, data)
  <2>1. tag \in OwnTags
    BY <1>10 DEF CoreTags, OwnTags
  <2>2. /\ View(w) /\ w.next = next /\ w.alpha = counted.alpha /\ w.authority = counted.authority
        /\ w.icc = (IF tag = "ICCP" THEN data ELSE counted.icc)
        /\ w.cicp = (IF tag = "CICP" THEN ReadShorts(data, 3) \o <<data[7]>> ELSE counted.cicp)
        /\ w.mdcv = (IF tag = "MDCV" THEN ReadMdcv(data) ELSE counted.mdcv)
        /\ w.clli = (IF tag = "CLLI" THEN ReadShorts(data, 2) ELSE counted.clli)
        /\ w.blocks = counted.blocks
    BY <1>6, <1>10, <2>1, CoreChunkIs
  <2>3. /\ counted.alpha = v.alpha /\ counted.authority = v.authority /\ counted.icc = v.icc
        /\ counted.cicp = v.cicp /\ counted.mdcv = v.mdcv /\ counted.clli = v.clli /\ counted.blocks = v.blocks
    BY <1>6 DEF Names
  <2>4. ChunkTaken(v, tag, length, data, w)
    BY <1>10, <2>2, <2>3 DEF ChunkTaken, next
  <2> QED
    BY <1>10, <2>2, <2>4 DEF w, tag, length, data
<1>11. CASE v.ok /\ tag # "PIXL" /\ tag \notin CoreTags /\ w = block
  <2>1. tag # "ICCP" /\ tag # "CICP" /\ tag # "MDCV" /\ tag # "CLLI"
    BY <1>11 DEF CoreTags
  <2>2. ChunkTaken(v, tag, length, data, w)
    BY <1>8, <1>11, <2>1 DEF ChunkTaken, Names, next, blocks
  <2> QED
    BY <1>8, <1>11, <2>2 DEF w, tag, length, data
<1> QED
  BY <1>2, <1>4, <1>9, <1>10, <1>11 DEF w

\* The views of the parser, one for each number of chunks read.
Views(s, n, start, g) == g = [k \in 0..n |-> IF k = 0 THEN start ELSE ReadChunk(s, g[k - 1])]

LEMMA ViewsExist ==
  ASSUME NEW s, NEW n \in Nat, NEW start
  PROVE  \E g : Views(s, n, start, g)
<1> DEFINE Done == {k \in Nat : \E g : Views(s, k, start, g)}
<1>1. 0 \in Done
  <2> DEFINE g == [k \in 0..0 |-> start]
  <2>1. g = [k \in 0..0 |-> IF k = 0 THEN start ELSE ReadChunk(s, g[k - 1])]
    OBVIOUS
  <2> QED
    BY <2>1 DEF Views
<1>2. ASSUME NEW k \in Nat, k \in Done PROVE k + 1 \in Done
  <2>1. PICK g : g = [i \in 0..k |-> IF i = 0 THEN start ELSE ReadChunk(s, g[i - 1])]
    BY <1>2 DEF Views
  <2> DEFINE last == ReadChunk(s, g[k])
             h == [i \in 0..k + 1 |-> IF i <= k THEN g[i] ELSE last]
  <2>2. \A i \in 0..k : g[i] = IF i = 0 THEN start ELSE ReadChunk(s, g[i - 1])
    BY <2>1
  <2>3. h = [i \in 0..k + 1 |-> h[i]] /\ h[k + 1] = last /\ \A i \in 0..k : h[i] = g[i]
    OBVIOUS
  <2> HIDE DEF h
  <2>4. ASSUME NEW i \in 0..k + 1 PROVE h[i] = IF i = 0 THEN start ELSE ReadChunk(s, h[i - 1])
    <3>1. CASE i = 0
      <4>1. 0 \in 0..k
        OBVIOUS
      <4> QED
        BY <2>2, <2>3, <3>1, <4>1
    <3>2. CASE i # 0 /\ i <= k
      <4>1. i \in 0..k /\ i - 1 \in 0..k
        BY <3>2
      <4> QED
        BY <2>2, <2>3, <3>2, <4>1
    <3>3. CASE i > k
      <4>1. i = k + 1 /\ i - 1 = k /\ k \in 0..k /\ i # 0
        BY <3>3
      <4> QED
        BY <2>3, <4>1
    <3> QED
      BY <3>1, <3>2, <3>3
  <2>5. h = [i \in 0..k + 1 |-> IF i = 0 THEN start ELSE ReadChunk(s, h[i - 1])]
    BY <2>3, <2>4
  <2> QED
    BY <2>5 DEF Views
<1>3. \A k \in Nat : k \in Done
  <2>1. \A k \in Nat : k \in Done => k + 1 \in Done
    BY <1>2
  <2> HIDE DEF Done
  <2> QED
    BY <1>1, <2>1, Induction, Zenon
<1> QED
  BY <1>3

\* A field of the description, once a chunk with its tag is read.
Told(chunks, k, t, x) == IF \E i \in 1..k : chunks[i].tag = t THEN x ELSE <<>>

\* What a view knows of m when it has read k chunks: c of them are the
\* format's, and it stands at a.
Knows(v, m, chunks, c, k, a) ==
  /\ v.next = a /\ v.alpha = m.alpha /\ v.authority = m.authority
  /\ v.icc = Told(chunks, k, "ICCP", m.icc)
  /\ v.cicp = Told(chunks, k, "CICP", m.cicp)
  /\ v.mdcv = Told(chunks, k, "MDCV", m.mdcv)
  /\ v.clli = Told(chunks, k, "CLLI", m.clli)
  /\ v.blocks \in Seq(Chunk) /\ Len(v.blocks) = IF k <= c THEN 0 ELSE k - c
  /\ \A i \in 1..Len(v.blocks) : v.blocks[i] = m.blocks[i]

\* The blocks have other tags than the format.
Foreign(m) == \A i \in 1..Len(m.blocks) : m.blocks[i].tag \notin CoreTags

LEMMA ToldMore ==
  ASSUME NEW k \in Nat \ {0}, NEW chunks, NEW t, NEW x
  PROVE  Told(chunks, k, t, x) = IF chunks[k].tag = t THEN x ELSE Told(chunks, k - 1, t, x)
<1>1. \A i : i \in 1..k <=> i = k \/ i \in 1..k - 1
  OBVIOUS
<1>2. CASE chunks[k].tag = t
  BY <1>1, <1>2 DEF Told
<1>3. CASE chunks[k].tag # t
  <2>1. \A i \in 1..k : chunks[i].tag = t => i \in 1..k - 1
    BY <1>1, <1>3
  <2>2. \A i \in 1..k - 1 : i \in 1..k
    BY <1>1
  <2> QED
    BY <1>3, <2>1, <2>2 DEF Told
<1> QED
  BY <1>2, <1>3

LEMMA KnowsMore ==
  ASSUME NEW m \in Descriptions, NEW chunks, NEW c \in Nat, Carries(m, chunks, c), Foreign(m),
         NEW k \in 1..Len(chunks), NEW a, NEW b, NEW v, NEW w, Knows(v, m, chunks, c, k - 1, a),
         ChunkTaken(v, chunks[k].tag, Len(chunks[k].data), chunks[k].data, w),
         b = a + 3 + Len(chunks[k].data)
  PROVE  Knows(w, m, chunks, c, k, b)
<1> DEFINE tag == chunks[k].tag
           data == chunks[k].data
           n == Len(chunks)
           u == Len(m.blocks)
<1>1. /\ chunks \in Seq(Chunk) /\ n = c + u
      /\ \A i \in 1..c : chunks[i].tag \in OwnTags /\ Tells(chunks[i].tag, chunks[i].data, m)
      /\ \A i \in 1..u : chunks[c + i] = m.blocks[i]
  BY DEF Carries
<1>2. k \in 1..n /\ m.blocks \in Seq([tag : STRING, data : Seq(Byte)]) /\ u \in Nat
  BY DEF Descriptions
<1>3. CASE k <= c
  <2>1. tag \in OwnTags /\ Tells(tag, data, m)
    BY <1>1, <1>2, <1>3
  <2>2. /\ tag = "ICCP" => data = m.icc
        /\ tag = "CICP" => ReadShorts(data, 3) \o <<data[7]>> = m.cicp
        /\ tag = "MDCV" => ReadMdcv(data) = m.mdcv
        /\ tag = "CLLI" => ReadShorts(data, 2) = m.clli
    BY <2>1, Zenon DEF Tells
  <2>3. tag \in CoreTags
    BY <2>1 DEF OwnTags, CoreTags
  <2>4. /\ w.next = b /\ w.alpha = m.alpha /\ w.authority = m.authority /\ w.blocks = v.blocks
        /\ w.icc = Told(chunks, k, "ICCP", m.icc)
        /\ w.cicp = Told(chunks, k, "CICP", m.cicp)
        /\ w.mdcv = Told(chunks, k, "MDCV", m.mdcv)
        /\ w.clli = Told(chunks, k, "CLLI", m.clli)
    <3>1. k \in Nat \ {0}
      OBVIOUS
    <3>2. /\ v.icc = Told(chunks, k - 1, "ICCP", m.icc)
          /\ v.cicp = Told(chunks, k - 1, "CICP", m.cicp)
          /\ v.mdcv = Told(chunks, k - 1, "MDCV", m.mdcv)
          /\ v.clli = Told(chunks, k - 1, "CLLI", m.clli)
      BY Zenon DEF Knows
    <3>3. /\ w.icc = IF tag = "ICCP" THEN data ELSE v.icc
          /\ w.cicp = IF tag = "CICP" THEN ReadShorts(data, 3) \o <<data[7]>> ELSE v.cicp
          /\ w.mdcv = IF tag = "MDCV" THEN ReadMdcv(data) ELSE v.mdcv
          /\ w.clli = IF tag = "CLLI" THEN ReadShorts(data, 2) ELSE v.clli
      BY Zenon DEF ChunkTaken
    <3>4. w.icc = Told(chunks, k, "ICCP", m.icc)
      BY <2>2, <3>1, <3>2, <3>3, ToldMore
    <3>5. w.cicp = Told(chunks, k, "CICP", m.cicp)
      <4> DEFINE y == ReadShorts(data, 3) \o <<data[7]>>
      <4>1. (w.cicp = IF tag = "CICP" THEN y ELSE v.cicp) /\ (tag = "CICP" => y = m.cicp)
        BY <2>2, <3>3
      <4>2. Told(chunks, k, "CICP", m.cicp) = IF tag = "CICP" THEN m.cicp ELSE v.cicp
        BY <3>1, <3>2, ToldMore
      <4> HIDE DEF y
      <4> QED
        BY <4>1, <4>2
    <3>6. w.mdcv = Told(chunks, k, "MDCV", m.mdcv)
      BY <2>2, <3>1, <3>2, <3>3, ToldMore
    <3>7. w.clli = Told(chunks, k, "CLLI", m.clli)
      BY <2>2, <3>1, <3>2, <3>3, ToldMore
    <3>8. v.next = a /\ v.alpha = m.alpha /\ v.authority = m.authority
      BY Zenon DEF Knows
    <3>9. w.next = v.next + 3 + Len(data) /\ w.alpha = v.alpha /\ w.authority = v.authority /\ w.blocks = v.blocks
      BY <2>3, Zenon DEF ChunkTaken
    <3> QED
      BY <3>4, <3>5, <3>6, <3>7, <3>8, <3>9, Zenon
  <2>5. k - 1 <= c /\ (IF k - 1 <= c THEN 0 ELSE (k - 1) - c) = (IF k <= c THEN 0 ELSE k - c)
    BY <1>3
  <2> QED
    BY <2>4, <2>5, Zenon DEF Knows
<1>4. CASE ~ (k <= c)
  <2> DEFINE j == k - c
  <2>1. j \in 1..u /\ c + j = k
    BY <1>1, <1>2, <1>4
  <2>2. chunks[k] = m.blocks[j] /\ tag \notin CoreTags /\ chunks[k] \in Chunk
    <3>1. chunks[c + j] = m.blocks[j] /\ m.blocks[j].tag \notin CoreTags
      BY <1>1, <2>1, Zenon DEF Foreign
    <3>2. chunks[k] \in Chunk
      BY <1>1, <1>2
    <3> QED
      BY <2>1, <3>1, <3>2, Zenon
  <2>3. tag # "ICCP" /\ tag # "CICP" /\ tag # "MDCV" /\ tag # "CLLI"
    BY <2>2 DEF CoreTags
  <2>4. /\ w.next = b /\ w.alpha = m.alpha /\ w.authority = m.authority
        /\ w.icc = Told(chunks, k, "ICCP", m.icc)
        /\ w.cicp = Told(chunks, k, "CICP", m.cicp)
        /\ w.mdcv = Told(chunks, k, "MDCV", m.mdcv)
        /\ w.clli = Told(chunks, k, "CLLI", m.clli)
    <3>1. k \in Nat \ {0}
      OBVIOUS
    <3>2. /\ v.icc = Told(chunks, k - 1, "ICCP", m.icc)
          /\ v.cicp = Told(chunks, k - 1, "CICP", m.cicp)
          /\ v.mdcv = Told(chunks, k - 1, "MDCV", m.mdcv)
          /\ v.clli = Told(chunks, k - 1, "CLLI", m.clli)
      BY Zenon DEF Knows
    <3>3. /\ w.icc = IF tag = "ICCP" THEN data ELSE v.icc
          /\ w.cicp = IF tag = "CICP" THEN ReadShorts(data, 3) \o <<data[7]>> ELSE v.cicp
          /\ w.mdcv = IF tag = "MDCV" THEN ReadMdcv(data) ELSE v.mdcv
          /\ w.clli = IF tag = "CLLI" THEN ReadShorts(data, 2) ELSE v.clli
      BY Zenon DEF ChunkTaken
    <3>4. w.icc = Told(chunks, k, "ICCP", m.icc)
      BY <2>3, <3>1, <3>2, <3>3, ToldMore
    <3>5. w.cicp = Told(chunks, k, "CICP", m.cicp)
      BY <2>3, <3>1, <3>2, <3>3, ToldMore
    <3>6. w.mdcv = Told(chunks, k, "MDCV", m.mdcv)
      BY <2>3, <3>1, <3>2, <3>3, ToldMore
    <3>7. w.clli = Told(chunks, k, "CLLI", m.clli)
      BY <2>3, <3>1, <3>2, <3>3, ToldMore
    <3>8. v.next = a /\ v.alpha = m.alpha /\ v.authority = m.authority
      BY Zenon DEF Knows
    <3>9. w.next = v.next + 3 + Len(data) /\ w.alpha = v.alpha /\ w.authority = v.authority
      BY Zenon DEF ChunkTaken
    <3> QED
      BY <3>4, <3>5, <3>6, <3>7, <3>8, <3>9, Zenon
  <2>5. DescribedBy(tag, data) = chunks[k]
    BY <2>2 DEF DescribedBy, Chunk
  <2>6. w.blocks = Append(v.blocks, chunks[k])
    BY <2>2, <2>5, Zenon DEF ChunkTaken
  <2>7. v.blocks \in Seq(Chunk) /\ Len(v.blocks) = j - 1 /\ \A i \in 1..j - 1 : v.blocks[i] = m.blocks[i]
    <3>1. (IF k - 1 <= c THEN 0 ELSE (k - 1) - c) = j - 1
      BY <1>4, <2>1
    <3>2. /\ v.blocks \in Seq(Chunk) /\ Len(v.blocks) = IF k - 1 <= c THEN 0 ELSE (k - 1) - c
          /\ \A i \in 1..Len(v.blocks) : v.blocks[i] = m.blocks[i]
      BY Zenon DEF Knows
    <3>3. Len(v.blocks) = j - 1
      BY <3>1, <3>2
    <3> QED
      BY <3>2, <3>3, Zenon
  <2> HIDE DEF j
  <2>8. w.blocks \in Seq(Chunk) /\ Len(w.blocks) = j /\ \A i \in 1..j : w.blocks[i] = m.blocks[i]
    <3> DEFINE old == v.blocks
               new == w.blocks
               x == chunks[k]
    <3>1. old \in Seq(Chunk) /\ x \in Chunk /\ new = Append(old, x) /\ Len(old) = j - 1 /\ x = m.blocks[j]
      BY <2>2, <2>6, <2>7
    <3> HIDE DEF old, new, x
    <3>2. new \in Seq(Chunk) /\ Len(new) = j /\ new[j] = x /\ \A i \in 1..j - 1 : new[i] = old[i]
      BY <2>1, <3>1
    <3>3. \A i \in 1..j : i = j \/ i \in 1..j - 1
      BY <2>1
    <3> QED
      BY <2>7, <3>1, <3>2, <3>3 DEF old, new
  <2>9. Len(w.blocks) = IF k <= c THEN 0 ELSE k - c
    BY <1>4, <2>8 DEF j
  <2> QED
    BY <2>4, <2>8, <2>9, Zenon DEF Knows
<1> QED
  BY <1>3, <1>4

\* Chunks as they lie in s, and behind them the samples: spot[k] is where the
\* one after the first k begins.
Laid(s, n, chunks, spot) ==
  /\ spot[0] = 12 /\ s[spot[n]] = "PIXL"
  /\ \A k \in 1..n :
       /\ s[spot[k - 1]] = chunks[k].tag /\ s[spot[k - 1] + 2] = Len(chunks[k].data)
       /\ Slice(s, spot[k - 1] + 3, Len(chunks[k].data)) = chunks[k].data
       /\ spot[k] = spot[k - 1] + 3 + Len(chunks[k].data)

LEMMA KnowsAll ==
  ASSUME NEW m \in Descriptions, NEW chunks, NEW c \in Nat, Carries(m, chunks, c),
         NEW v, Knows(v, m, chunks, c, Len(chunks), v.next), NEW w, NEW length, NEW data,
         ChunkTaken(v, "PIXL", length, data, w)
  PROVE  Description(w) = m
<1> DEFINE n == Len(chunks)
           u == Len(m.blocks)
           R == [tag : STRING, data : Seq(Byte)]
<1>1. m.blocks \in Seq(R)
  BY DEF Descriptions
<1>2. u \in Nat /\ chunks \in Seq(Chunk) /\ n = c + u
  BY <1>1 DEF Carries
<1> HIDE DEF n, u, R
<1>3. n \in Nat /\ c \in 0..n
  BY <1>2
<1>4. /\ m.icc # <<>> => \E i \in 1..c : chunks[i].tag = "ICCP"
      /\ m.cicp # <<>> => \E i \in 1..c : chunks[i].tag = "CICP"
      /\ m.mdcv # <<>> => \E i \in 1..c : chunks[i].tag = "MDCV"
      /\ m.clli # <<>> => \E i \in 1..c : chunks[i].tag = "CLLI"
  BY Zenon DEF Carries
<1>5. v.icc = m.icc /\ v.cicp = m.cicp /\ v.mdcv = m.mdcv /\ v.clli = m.clli
  <2>1. /\ Told(chunks, n, "ICCP", m.icc) = m.icc /\ Told(chunks, n, "CICP", m.cicp) = m.cicp
        /\ Told(chunks, n, "MDCV", m.mdcv) = m.mdcv /\ Told(chunks, n, "CLLI", m.clli) = m.clli
    <3>0. \A i \in 1..c : i \in 1..n
      BY <1>3
    <3>1. Told(chunks, n, "ICCP", m.icc) = m.icc
      BY <1>4, <3>0 DEF Told
    <3>2. Told(chunks, n, "CICP", m.cicp) = m.cicp
      BY <1>4, <3>0 DEF Told
    <3>3. Told(chunks, n, "MDCV", m.mdcv) = m.mdcv
      BY <1>4, <3>0 DEF Told
    <3>4. Told(chunks, n, "CLLI", m.clli) = m.clli
      BY <1>4, <3>0 DEF Told
    <3> QED
      BY <3>1, <3>2, <3>3, <3>4
  <2> QED
    BY <2>1 DEF Knows, n
<1>6. v.blocks = m.blocks
  <2> DEFINE a == v.blocks
             b == m.blocks
  <2>1. /\ a \in Seq(Chunk) /\ Len(a) = IF n <= c THEN 0 ELSE n - c
        /\ \A i \in 1..Len(a) : a[i] = b[i]
    BY Zenon DEF Knows, n
  <2>2. Len(a) = u
    BY <1>2, <1>3, <2>1
  <2>3. b \in Seq(R) /\ Len(b) = u
    BY <1>1 DEF u
  <2> HIDE DEF a, b
  <2>4. a = [i \in 1..u |-> a[i]] /\ b = [i \in 1..u |-> b[i]]
    BY <2>1, <2>2, <2>3
  <2>5. a = b
    BY <2>1, <2>2, <2>4
  <2> QED
    BY <2>5 DEF a, b
<1>7. /\ w.alpha = v.alpha /\ w.authority = v.authority /\ w.icc = v.icc /\ w.cicp = v.cicp
      /\ w.mdcv = v.mdcv /\ w.clli = v.clli /\ w.blocks = v.blocks
  BY DEF ChunkTaken, CoreTags
<1>8. v.alpha = m.alpha /\ v.authority = m.authority
  BY Zenon DEF Knows
<1>9. m = [alpha |-> m.alpha, authority |-> m.authority, icc |-> m.icc, cicp |-> m.cicp, mdcv |-> m.mdcv,
           clli |-> m.clli, blocks |-> m.blocks]
  BY DEF Descriptions
<1> QED
  BY <1>5, <1>6, <1>7, <1>8, <1>9, Zenon DEF Description

\* The description of m, or nothing.
Faithful(m, v) == View(v) /\ (v.ok => Description(v) = m)

LEMMA EachKnows ==
  ASSUME NEW m \in Descriptions, NEW chunks, NEW c \in Nat, Carries(m, chunks, c), Foreign(m),
         NEW s, NEW spot, Laid(s, Len(chunks), chunks, spot),
         NEW start, View(start), Knows(start, m, chunks, c, 0, 12),
         NEW g, Views(s, Len(chunks) + 1, start, g)
  PROVE  /\ \A k \in 0..Len(chunks) :
              View(g[k]) /\ (g[k].ok => Knows(g[k], m, chunks, c, k, spot[k])) /\ g[k + 1] = ReadChunk(s, g[k])
         /\ g[0] = start
<1> DEFINE n == Len(chunks)
           Done == {k \in Nat : k <= n => View(g[k]) /\ (g[k].ok => Knows(g[k], m, chunks, c, k, spot[k]))}
<1>1. n \in Nat
  BY DEF Carries
<1> HIDE DEF n
<1>2. g[0] = start /\ \A k \in 0..n : g[k + 1] = ReadChunk(s, g[k])
  <2>1. \A k \in 0..n + 1 : g[k] = IF k = 0 THEN start ELSE ReadChunk(s, g[k - 1])
    BY DEF Views, n
  <2>2. \A k \in 0..n : k + 1 \in 0..n + 1 /\ k + 1 # 0 /\ (k + 1) - 1 = k
    BY <1>1
  <2>3. 0 \in 0..n + 1
    BY <1>1
  <2> QED
    BY <2>1, <2>2, <2>3
<1>3. spot[0] = 12 /\ s[spot[n]] = "PIXL"
  BY DEF Laid, n
<1>4. ASSUME NEW k \in 1..n
      PROVE  /\ s[spot[k - 1]] = chunks[k].tag /\ s[spot[k - 1] + 2] = Len(chunks[k].data)
             /\ Slice(s, spot[k - 1] + 3, Len(chunks[k].data)) = chunks[k].data
             /\ spot[k] = spot[k - 1] + 3 + Len(chunks[k].data)
  BY DEF Laid, n
<1>5. 0 \in Done
  BY <1>2, <1>3
<1>6. ASSUME NEW k \in Nat, k \in Done, k + 1 <= n
      PROVE  View(g[k + 1]) /\ (g[k + 1].ok => Knows(g[k + 1], m, chunks, c, k + 1, spot[k + 1]))
  <2> DEFINE j == k + 1
             v == g[k]
             w == g[j]
             data == chunks[j].data
  <2>1. j \in 1..n /\ j - 1 = k /\ k \in 0..n /\ k <= n
    BY <1>1, <1>6
  <2>2. View(v) /\ (v.ok => Knows(v, m, chunks, c, j - 1, spot[k]))
    BY <1>6, <2>1
  <2>3. w = ReadChunk(s, v)
    BY <1>2, <2>1
  <2>4. /\ s[spot[k]] = chunks[j].tag /\ s[spot[k] + 2] = Len(data)
        /\ Slice(s, spot[k] + 3, Len(data)) = data /\ spot[j] = spot[k] + 3 + Len(data)
    BY <1>4, <2>1
  <2> HIDE DEF j, v, w, data
  <2>5. View(w) /\ (w.ok => v.ok /\ ChunkTaken(v, s[v.next], s[v.next + 2], Slice(s, v.next + 3, s[v.next + 2]), w))
    BY <2>2, <2>3, ReadChunkIs, Zenon
  <2>6. ASSUME w.ok PROVE Knows(w, m, chunks, c, j, spot[j])
    <3>1. Knows(v, m, chunks, c, j - 1, spot[k])
      BY <2>2, <2>5, <2>6
    <3>2. v.next = spot[k]
      BY <3>1, Zenon DEF Knows
    <3>3. ChunkTaken(v, s[v.next], s[v.next + 2], Slice(s, v.next + 3, s[v.next + 2]), w)
      BY <2>5, <2>6
    <3>4. ChunkTaken(v, chunks[j].tag, Len(data), data, w)
      BY <2>4, <3>2, <3>3, Zenon
    <3>5. j \in 1..Len(chunks)
      BY <2>1 DEF n
    <3> QED
      BY <2>4, <3>1, <3>4, <3>5, KnowsMore, Zenon DEF data
  <2> QED
    BY <2>5, <2>6 DEF j, w
<1>7. \A k \in Nat : k \in Done
  <2>1. \A k \in Nat : k \in Done => k + 1 \in Done
    BY <1>6
  <2> HIDE DEF Done
  <2> QED
    BY <1>5, <2>1, Induction, Zenon
<1>8. \A k \in 0..n : View(g[k]) /\ (g[k].ok => Knows(g[k], m, chunks, c, k, spot[k]))
  BY <1>1, <1>7
<1> HIDE DEF Done
<1> QED
  BY <1>2, <1>8 DEF n

LEMMA ViewsKnow ==
  ASSUME NEW m \in Descriptions, NEW chunks, NEW c \in Nat, Carries(m, chunks, c), Foreign(m),
         NEW s, NEW spot, Laid(s, Len(chunks), chunks, spot),
         NEW start, View(start), Knows(start, m, chunks, c, 0, 12),
         NEW g, Views(s, Len(chunks) + 1, start, g)
  PROVE  Faithful(m, g[Len(chunks) + 1])
<1> DEFINE n == Len(chunks)
           v == g[n]
           w == g[n + 1]
<1>1. n \in Nat
  BY DEF Carries
<1>2. s[spot[n]] = "PIXL"
  BY DEF Laid
<1>3. View(v) /\ (v.ok => Knows(v, m, chunks, c, n, spot[n])) /\ w = ReadChunk(s, v)
  <2>1. /\ \A k \in 0..n :
             View(g[k]) /\ (g[k].ok => Knows(g[k], m, chunks, c, k, spot[k])) /\ g[k + 1] = ReadChunk(s, g[k])
        /\ g[0] = start
    BY EachKnows
  <2>2. n \in 0..n
    BY <1>1
  <2> HIDE DEF n
  <2> QED
    BY <2>1, <2>2, Zenon
<1> HIDE DEF v, w, n
<1>4. View(w) /\ (w.ok => v.ok /\ ChunkTaken(v, s[v.next], s[v.next + 2], Slice(s, v.next + 3, s[v.next + 2]), w))
  BY <1>3, ReadChunkIs, Zenon
<1>5. ASSUME w.ok PROVE Description(w) = m
  <2>1. Knows(v, m, chunks, c, n, spot[n])
    BY <1>3, <1>4, <1>5
  <2>2. v.next = spot[n]
    BY <2>1, Zenon DEF Knows
  <2>3. ChunkTaken(v, "PIXL", s[v.next + 2], Slice(s, v.next + 3, s[v.next + 2]), w)
    BY <1>2, <1>4, <1>5, <2>2
  <2>4. Knows(v, m, chunks, c, Len(chunks), v.next)
    BY <2>1, <2>2 DEF n
  <2> QED
    BY <2>3, <2>4, KnowsAll, Zenon
<1> QED
  BY <1>4, <1>5 DEF Faithful, w, n

\* A chunk as it is written.
Framed(S, tag, flags, data, p) ==
  /\ p \in Seq(S) /\ Len(p) = 3 + Len(data) /\ Len(data) \in Nat
  /\ p[1] = tag /\ p[2] = flags /\ p[3] = Len(data) /\ \A i \in 1..Len(data) : p[3 + i] = data[i]

LEMMA FramedIs ==
  ASSUME NEW S, Nat \subseteq S, NEW tag \in S, NEW flags \in Nat, NEW data \in Seq(S)
  PROVE  Framed(S, tag, flags, data, qsw2_chunk(tag, flags, data))
<1> DEFINE n == Len(data)
           a == <<tag, flags, n>>
           p == qsw2_chunk(tag, flags, data)
<1>1. p = a \o data
  BY DEF qsw2_chunk
<1>2. n \in Nat
  OBVIOUS
<1>3. a \in Seq(S) /\ Len(a) = 3 /\ a[1] = tag /\ a[2] = flags /\ a[3] = n
  <2>1. n \in S /\ flags \in S
    BY <1>2
  <2> HIDE DEF n
  <2> QED
    BY <2>1
<1> HIDE DEF a, p
<1>4. a \o data \in Seq(S) /\ Len(a \o data) = Len(a) + Len(data)
      /\ \A i \in 1..Len(a) + Len(data) : (a \o data)[i] = IF i <= Len(a) THEN a[i] ELSE data[i - Len(a)]
  BY <1>3, ConcatProperties, Zenon
<1>5. p \in Seq(S) /\ Len(p) = 3 + n /\ \A i \in 1..3 + n : p[i] = IF i <= 3 THEN a[i] ELSE data[i - 3]
  BY <1>1, <1>3, <1>4 DEF n
<1> HIDE DEF n
<1>6. p[1] = tag /\ p[2] = flags /\ p[3] = n
  <2>1. 1 \in 1..3 + n /\ 2 \in 1..3 + n /\ 3 \in 1..3 + n
    BY <1>2
  <2> QED
    BY <1>3, <1>5, <2>1
<1>7. ASSUME NEW i \in 1..n PROVE p[3 + i] = data[i]
  <2>1. 3 + i \in 1..3 + n /\ ~ (3 + i <= 3) /\ (3 + i) - 3 = i
    BY <1>2
  <2> QED
    BY <1>5, <2>1
<1> QED
  BY <1>2, <1>5, <1>6, <1>7 DEF Framed, p, n

LEMMA SliceIs ==
  ASSUME NEW S, NEW s \in Seq(S), NEW first \in Nat \ {0}, NEW data \in Seq(S), first + Len(data) <= Len(s) + 1,
         \A i \in 1..Len(data) : s[first + i - 1] = data[i]
  PROVE  Slice(s, first, Len(data)) = data
<1> DEFINE n == Len(data)
           p == SubSeq(s, first, first + n - 1)
<1>1. n \in Nat /\ Len(s) \in Nat
  OBVIOUS
<1>2. data = [i \in 1..n |-> data[i]]
  OBVIOUS
<1>3. p = [i \in 1..n |-> s[first + i - 1]]
  BY <1>1
<1>4. Slice(s, first, n) = p
  BY DEF Slice
<1> HIDE DEF p, n
<1>5. \A i \in 1..n : s[first + i - 1] = data[i]
  BY DEF n
<1>6. p = data
  BY <1>2, <1>3, <1>5
<1> QED
  BY <1>4, <1>6 DEF n

LEMMA WiderSeq ==
  ASSUME NEW S, NEW U, S \subseteq U, NEW s \in Seq(S)
  PROVE  s \in Seq(U)
<1> DEFINE n == Len(s)
<1>1. n \in Nat /\ s = [i \in 1..n |-> s[i]] /\ \A i \in 1..n : s[i] \in U
  OBVIOUS
<1> HIDE DEF n
<1> QED
  BY <1>1, SeqMade

\* No chunk reaches behind the end, and the samples end the file.
Closed(s, n, spot, pixels) ==
  /\ \A k \in 0..n : spot[k] \in Nat /\ spot[k] + 2 <= Len(s)
  /\ \A k \in 1..n : s[spot[k - 1] + 1] = 0
  /\ s[spot[n] + 1] = 1 /\ s[spot[n] + 2] = Len(pixels)
  /\ Slice(s, spot[n] + 3, Len(pixels)) = pixels
  /\ spot[n] + 3 + Len(pixels) = Len(s) + 1

\* The chunks of a file: the head is any eleven values.
LEMMA ChunksLie ==
  ASSUME NEW S, Nat \subseteq S, STRING \cup OwnTags \subseteq S, "PIXL" \in S, Byte \subseteq S,
         NEW head \in Seq(S), Len(head) = 11, NEW chunks \in Seq(Chunk), NEW pixels \in Seq(S)
  PROVE  LET s == head \o FlattenSeq([k \in DOMAIN chunks |-> qsw2_chunk(chunks[k].tag, 0, chunks[k].data)])
                       \o qsw2_chunk("PIXL", 1, pixels)
         IN  /\ s \in Seq(S) /\ Len(s) >= 11 /\ \A i \in 1..11 : s[i] = head[i]
             /\ \E spot : Laid(s, Len(chunks), chunks, spot) /\ Closed(s, Len(chunks), spot, pixels)
<1> DEFINE n == Len(chunks)
           parts == [k \in DOMAIN chunks |-> qsw2_chunk(chunks[k].tag, 0, chunks[k].data)]
           F == FlattenSeq(parts)
           P == qsw2_chunk("PIXL", 1, pixels)
           s == (head \o F) \o P
<1>1. n \in Nat /\ DOMAIN chunks = 1..n
  OBVIOUS
<1>2. ASSUME NEW k \in 1..n
      PROVE  /\ parts[k] = qsw2_chunk(chunks[k].tag, 0, chunks[k].data)
             /\ parts[k] \in Seq(S) /\ chunks[k].data \in Seq(S)
             /\ Len(parts[k]) = 3 + Len(chunks[k].data) /\ Len(chunks[k].data) \in Nat
             /\ parts[k][1] = chunks[k].tag /\ parts[k][2] = 0 /\ parts[k][3] = Len(chunks[k].data)
             /\ \A i \in 1..Len(chunks[k].data) : parts[k][3 + i] = chunks[k].data[i]
  <2> DEFINE tag == chunks[k].tag
             data == chunks[k].data
             p == parts[k]
  <2>1. chunks[k] \in Chunk
    BY <1>1
  <2>2. tag \in STRING \cup OwnTags /\ data \in Seq(Byte)
    BY <2>1 DEF Chunk
  <2>3. p = qsw2_chunk(tag, 0, data)
    BY <1>1
  <2> HIDE DEF tag, data, p
  <2>4. data \in Seq(S)
    BY <2>2, WiderSeq, Zenon
  <2>5. tag \in S /\ 0 \in Nat
    BY <2>2
  <2>6. /\ p \in Seq(S) /\ Len(p) = 3 + Len(data) /\ Len(data) \in Nat
        /\ p[1] = tag /\ p[2] = 0 /\ p[3] = Len(data) /\ \A i \in 1..Len(data) : p[3 + i] = data[i]
    <3>1. Framed(S, tag, 0, data, p)
      BY <2>3, <2>4, <2>5, FramedIs, Zenon
    <3> QED
      BY <3>1, Zenon DEF Framed
  <2> QED
    BY <2>3, <2>4, <2>6 DEF tag, data, p
<1>3. parts = [k \in 1..n |-> parts[k]]
  BY <1>1
<1> HIDE DEF n, parts
<1>20. \A k \in 1..n : parts[k] \in Seq(S)
  BY <1>2
<1>4. PICK f : InPlace(S, n, parts, f, F)
  BY <1>1, <1>3, <1>20, AllInPlace
<1>5. F = f[n]
  BY <1>4, Zenon DEF InPlace
<1>6. f \in [0..n -> Seq(S)] /\ f[0] = <<>>
  BY <1>4, Zenon DEF InPlace
<1>7. /\ P \in Seq(S) /\ Len(P) = 3 + Len(pixels) /\ Len(pixels) \in Nat
      /\ P[1] = "PIXL" /\ P[2] = 1 /\ P[3] = Len(pixels)
      /\ \A i \in 1..Len(pixels) : P[3 + i] = pixels[i]
  <2>1. 1 \in Nat
    OBVIOUS
  <2>2. Framed(S, "PIXL", 1, pixels, P)
    BY <2>1, FramedIs, Zenon
  <2> QED
    BY <2>2, Zenon DEF Framed
<1>8. F \in Seq(S)
  BY <1>1, <1>5, <1>6
<1> HIDE DEF F, P
<1>9. Followed(S, head, F, P, s)
  BY <1>7, <1>8, ThreeParts
<1> HIDE DEF s
<1>10. /\ s \in Seq(S) /\ Len(s) = 11 + Len(F) + Len(P)
       /\ \A i \in 1..11 : s[i] = head[i]
       /\ \A i \in 1..Len(F) : s[11 + i] = F[i]
       /\ \A i \in 1..Len(P) : s[11 + Len(F) + i] = P[i]
  BY <1>9 DEF Followed
<1> DEFINE spot == [k \in 0..n |-> 12 + Len(f[k])]
<1>11. Len(F) \in Nat /\ Len(P) \in Nat
  BY <1>7, <1>8
<1>12. spot[0] = 12
  <2>1. Len(f[0]) = 0 /\ 0 \in 0..n
    BY <1>1, <1>6
  <2> QED
    BY <2>1
<1>13. s[spot[n]] = "PIXL"
  <2> DEFINE all == Len(F)
             e == Len(P)
             d == Len(pixels)
  <2>1. all \in Nat /\ e = 3 + d /\ d \in Nat
    BY <1>7, <1>11
  <2>2. spot[n] = 12 + all
    BY <1>1, <1>5
  <2>3. \A i \in 1..e : s[11 + all + i] = P[i]
    BY <1>10
  <2> HIDE DEF all, e, d, spot
  <2>4. spot[n] = 11 + all + 1 /\ 1 \in 1..e
    BY <2>1, <2>2
  <2>5. s[11 + all + 1] = P[1]
    BY <2>3, <2>4
  <2> QED
    BY <1>7, <2>4, <2>5
<1>14. ASSUME NEW k \in 1..n
       PROVE  /\ s[spot[k - 1]] = chunks[k].tag /\ s[spot[k - 1] + 1] = 0
              /\ s[spot[k - 1] + 2] = Len(chunks[k].data)
              /\ Slice(s, spot[k - 1] + 3, Len(chunks[k].data)) = chunks[k].data
              /\ spot[k] = spot[k - 1] + 3 + Len(chunks[k].data)
  <2> DEFINE data == chunks[k].data
             d == Len(data)
             b == Len(f[k - 1])
             a == spot[k - 1]
             p == parts[k]
  <2>1. /\ p \in Seq(S) /\ data \in Seq(S) /\ Len(p) = 3 + d /\ d \in Nat
        /\ p[1] = chunks[k].tag /\ p[2] = 0 /\ p[3] = d /\ \A i \in 1..d : p[3 + i] = data[i]
    BY <1>2
  <2>2. /\ b \in Nat /\ Len(f[k]) = b + Len(p) /\ Len(f[k]) <= Len(F)
        /\ \A i \in 1..Len(p) : F[b + i] = p[i]
    <3>1. /\ Len(f[k - 1]) \in Nat /\ Len(f[k]) = Len(f[k - 1]) + Len(parts[k]) /\ Len(f[k]) <= Len(F)
          /\ \A i \in 1..Len(parts[k]) : F[Len(f[k - 1]) + i] = parts[k][i]
      BY <1>4, Zenon DEF InPlace, Placed
    <3> QED
      BY <3>1
  <2>3. a = 12 + b /\ spot[k] = 12 + Len(f[k])
    BY <1>1
  <2> HIDE DEF data, d, b, a, p, spot
  <2>4. ASSUME NEW i \in 1..3 + d PROVE s[a + i - 1] = p[i]
    <3>1. b + i \in 1..Len(F) /\ a + i - 1 = 11 + (b + i)
      BY <1>11, <2>1, <2>2, <2>3
    <3>2. s[11 + (b + i)] = F[b + i]
      BY <1>10, <3>1
    <3>3. F[b + i] = p[i]
      BY <2>1, <2>2
    <3> QED
      BY <3>1, <3>2, <3>3
  <2>5. s[a] = p[1] /\ s[a + 1] = p[2] /\ s[a + 2] = p[3]
    <3>1. /\ 1 \in 1..3 + d /\ 2 \in 1..3 + d /\ 3 \in 1..3 + d
          /\ a + 1 - 1 = a /\ a + 2 - 1 = a + 1 /\ a + 3 - 1 = a + 2
      BY <2>1, <2>2, <2>3
    <3>2. s[a + 1 - 1] = p[1] /\ s[a + 2 - 1] = p[2] /\ s[a + 3 - 1] = p[3]
      BY <2>4, <3>1
    <3> QED
      BY <3>1, <3>2
  <2>6. Slice(s, a + 3, d) = data
    <3>1. a + 3 \in Nat \ {0} /\ (a + 3) + d <= Len(s) + 1
      <4>1. b + (3 + d) <= Len(F) /\ Len(s) = 11 + Len(F) + Len(P)
        BY <1>10, <2>1, <2>2
      <4>2. a = 12 + b /\ b \in Nat /\ d \in Nat
        BY <2>1, <2>2, <2>3
      <4> QED
        BY <1>11, <4>1, <4>2
    <3>2. ASSUME NEW i \in 1..d PROVE s[(a + 3) + i - 1] = data[i]
      <4>1. 3 + i \in 1..3 + d /\ a + (3 + i) - 1 = (a + 3) + i - 1
        BY <2>1, <2>2, <2>3
      <4>2. s[a + (3 + i) - 1] = p[3 + i] /\ p[3 + i] = data[i]
        BY <2>1, <2>4, <4>1
      <4> QED
        BY <4>1, <4>2
    <3> QED
      BY <1>10, <2>1, <3>1, <3>2, SliceIs DEF d
  <2>7. spot[k] = a + 3 + d
    BY <2>1, <2>2, <2>3
  <2> QED
    BY <2>1, <2>5, <2>6, <2>7 DEF data, d, a
<1>15. Laid(s, n, chunks, spot)
  BY <1>12, <1>13, <1>14 DEF Laid
<1>16. Closed(s, n, spot, pixels)
  <2> DEFINE e == Len(pixels)
             a == spot[n]
             all == Len(F)
             whole == Len(s)
             three == Len(P)
  <2>11. a = 12 + all
    BY <1>1, <1>5
  <2>12. all \in Nat /\ e \in Nat /\ three = 3 + e
    BY <1>7, <1>11
  <2>13. whole = 11 + all + three /\ \A i \in 1..three : s[11 + all + i] = P[i]
    BY <1>10
  <2>14. P[2] = 1 /\ P[3] = Len(pixels) /\ \A i \in 1..Len(pixels) : P[3 + i] = pixels[i]
    BY <1>7
  <2>2. \A k \in 0..n : spot[k] = 12 + Len(f[k])
    OBVIOUS
  <2>3. \A k \in 1..n : Len(f[k - 1]) \in Nat /\ Len(f[k]) \in Nat /\ Len(f[k]) <= all
    <3> TAKE k \in 1..n
    <3>1. Len(f[k - 1]) \in Nat /\ Len(f[k]) <= Len(F)
      BY <1>4, Zenon DEF InPlace, Placed
    <3>2. Len(f[k]) \in Nat
      <4>1. f[k] \in Seq(S)
        BY <1>6
      <4> QED
        BY <4>1
    <3> QED
      BY <3>1, <3>2
  <2> HIDE DEF e, a, all, whole, spot, three
  <2>1. a = 12 + all /\ all \in Nat /\ e \in Nat /\ whole = 11 + all + (3 + e)
    BY <2>11, <2>12, <2>13
  <2>15. \A i \in 1..3 + e : s[11 + all + i] = P[i]
    BY <2>12, <2>13
  <2>4. ASSUME NEW k \in 0..n PROVE spot[k] \in Nat /\ spot[k] + 2 <= whole
    <3>1. CASE k = 0
      BY <1>12, <2>1, <3>1
    <3>2. CASE k # 0
      <4> DEFINE b == Len(f[k])
                 here == spot[k]
      <4>1. k \in 1..n
        BY <3>2
      <4>2. b \in Nat /\ b <= all
        BY <2>3, <4>1
      <4>4. here = 12 + b
        BY <2>2
      <4> HIDE DEF b, here
      <4>3. here \in Nat /\ here + 2 <= whole
        BY <2>1, <4>2, <4>4
      <4> QED
        BY <4>3 DEF here
    <3> QED
      BY <3>1, <3>2
  <2>5. ASSUME NEW i \in 1..3 + e PROVE s[a + i - 1] = P[i]
    <3>1. a + i - 1 = 11 + all + i
      BY <2>1
    <3> QED
      BY <2>15, <3>1
  <2>6. s[a + 1] = 1 /\ s[a + 2] = e
    <3>1. 2 \in 1..3 + e /\ 3 \in 1..3 + e /\ a + 2 - 1 = a + 1 /\ a + 3 - 1 = a + 2
      BY <2>1
    <3>2. s[a + 2 - 1] = P[2] /\ s[a + 3 - 1] = P[3]
      BY <2>5, <3>1
    <3> QED
      BY <2>14, <3>1, <3>2 DEF e
  <2>7. a + 3 \in Nat \ {0} /\ (a + 3) + e = whole + 1
    BY <2>1
  <2>8. Slice(s, a + 3, e) = pixels
    <3>1. ASSUME NEW i \in 1..e PROVE s[(a + 3) + i - 1] = pixels[i]
      <4>1. 3 + i \in 1..3 + e /\ a + (3 + i) - 1 = (a + 3) + i - 1
        BY <2>1
      <4>2. s[a + (3 + i) - 1] = P[3 + i]
        BY <2>5, <4>1
      <4>3. P[3 + i] = pixels[i]
        BY <2>14 DEF e
      <4> QED
        BY <4>1, <4>2, <4>3
    <3>2. (a + 3) + Len(pixels) <= Len(s) + 1
      BY <2>1, <2>7 DEF e, whole
    <3>3. \A i \in 1..Len(pixels) : s[(a + 3) + i - 1] = pixels[i]
      BY <3>1 DEF e
    <3>4. s \in Seq(S) /\ pixels \in Seq(S)
      BY <1>10
    <3> QED
      BY <2>7, <3>2, <3>3, <3>4, SliceIs, Zenon DEF e
  <2> QED
    BY <1>14, <2>4, <2>6, <2>7, <2>8 DEF Closed, e, a, whole
<1>17. Len(s) >= 11
  <2> DEFINE all == Len(F)
             e == Len(P)
  <2>1. Len(s) = 11 + all + e /\ all \in Nat /\ e \in Nat
    BY <1>10, <1>11
  <2> HIDE DEF all, e
  <2> QED
    BY <2>1
<1>18. /\ s \in Seq(S) /\ Len(s) >= 11 /\ \A i \in 1..11 : s[i] = head[i]
       /\ \E x : Laid(s, n, chunks, x) /\ Closed(s, n, x, pixels)
  BY <1>10, <1>15, <1>16, <1>17, Zenon
<1> HIDE DEF spot
<1> QED
  BY <1>18, Zenon DEF s, F, P, parts, n

\* The view at the start, and the one the parser gives out.
LEMMA StartIs ==
  ASSUME NEW m, NEW chunks, NEW c \in Nat, NEW start,
         start = [ok |-> TRUE, next |-> 12, size |-> 0, pixels |-> <<>>, alpha |-> m.alpha,
                  authority |-> m.authority, icc |-> <<>>, cicp |-> <<>>, mdcv |-> <<>>, clli |-> <<>>,
                  blocks |-> <<>>]
  PROVE  View(start) /\ Knows(start, m, chunks, c, 0, 12)
<1>1. View(start)
  BY DEF View, Names
<1>2. \A t, x : Told(chunks, 0, t, x) = <<>>
  BY DEF Told
<1>3. <<>> \in Seq(Chunk) /\ Len(<<>>) = 0
  OBVIOUS
<1>4. /\ start.next = 12 /\ start.alpha = m.alpha /\ start.authority = m.authority /\ start.icc = <<>>
      /\ start.cicp = <<>> /\ start.mdcv = <<>> /\ start.clli = <<>> /\ start.blocks = <<>>
  OBVIOUS
<1>5. Len(start.blocks) = (IF 0 <= c THEN 0 ELSE 0 - c) /\ \A i \in 1..Len(start.blocks) : start.blocks[i] = m.blocks[i]
  BY <1>3, <1>4
<1> QED
  BY <1>1, <1>2, <1>3, <1>4, <1>5 DEF Knows

LEMMA LastIs ==
  ASSUME NEW v, View(v), NEW b \in BOOLEAN
  PROVE  [v EXCEPT !.ok = b].ok = b /\ Description([v EXCEPT !.ok = b]) = Description(v)
BY DEF View, Names, Description

\* What enc_hdr_mem writes, for any sequence of pixels.
HeadOfHdr(m, bits, channels, pixels) ==
  <<"QSW2", 1, "UINT", bits, channels, m.alpha, m.authority, 0, Len(Described(m)) + 1,
    DescribedSize(m), Len(pixels)>>

HdrFile(m, bits, channels, pixels) ==
  HeadOfHdr(m, bits, channels, pixels)
    \o FlattenSeq([k \in DOMAIN Described(m) |-> qsw2_chunk(Described(m)[k].tag, 0, Described(m)[k].data)])
    \o qsw2_chunk("PIXL", 1, pixels)

HdrWhole(m, bits, channels, pixels, s) ==
  /\ Len(s) \in Nat /\ Len(s) >= 11 /\ \A i \in 1..11 : s[i] = HeadOfHdr(m, bits, channels, pixels)[i]
  /\ \E spot : Laid(s, Len(Described(m)), Described(m), spot) /\ Closed(s, Len(Described(m)), spot, pixels)

HdrLies(m, s) ==
  /\ \E S : s \in Seq(S)
  /\ s[6] = m.alpha /\ s[7] = m.authority /\ s[9] = Len(Described(m)) + 1
  /\ \E spot : Laid(s, Len(Described(m)), Described(m), spot)

LEMMA HdrFileLies ==
  ASSUME NEW m \in Descriptions, NEW bits, NEW channels, NEW T, NEW pixels \in Seq(T)
  PROVE  /\ HdrLies(m, HdrFile(m, bits, channels, pixels))
         /\ HdrWhole(m, bits, channels, pixels, HdrFile(m, bits, channels, pixels))
<1> DEFINE chunks == Described(m)
           n == Len(chunks)
           size == DescribedSize(m)
           S == (T \cup Nat) \cup ((STRING \cup OwnTags) \cup
                  (Byte \cup {"PIXL", "QSW2", "UINT", bits, channels, m.alpha, m.authority, size}))
           head == <<"QSW2", 1, "UINT", bits, channels, m.alpha, m.authority, 0, n + 1, size, Len(pixels)>>
<1>1. HeadOfHdr(m, bits, channels, pixels) = head
  BY DEF HeadOfHdr
<1>2. chunks \in Seq(Chunk) /\ n \in Nat
  <2>1. PICK c \in Nat : Carries(m, chunks, c)
    BY DescribedCarries
  <2>2. chunks \in Seq(Chunk)
    BY <2>1, Zenon DEF Carries
  <2> QED
    BY <2>2
<1> HIDE DEF chunks, n, size
<1>4. head \in Seq(S) /\ Len(head) = 11
  <2>1. /\ "QSW2" \in S /\ 1 \in S /\ "UINT" \in S /\ bits \in S /\ channels \in S /\ m.alpha \in S
        /\ m.authority \in S /\ 0 \in S /\ n + 1 \in S /\ size \in S /\ Len(pixels) \in S
    <3>1. n + 1 \in Nat /\ Len(pixels) \in Nat
      BY <1>2
    <3> QED
      BY <3>1
  <2> HIDE DEF S
  <2> QED
    BY <2>1
<1>5. head[6] = m.alpha /\ head[7] = m.authority /\ head[9] = n + 1
  OBVIOUS
<1>6. Nat \subseteq S /\ STRING \cup OwnTags \subseteq S /\ "PIXL" \in S /\ Byte \subseteq S /\ T \subseteq S
  OBVIOUS
<1> HIDE DEF S, head
<1>7. pixels \in Seq(S)
  BY <1>6, WiderSeq, Zenon
<1> DEFINE r == head \o FlattenSeq([k \in DOMAIN chunks |-> qsw2_chunk(chunks[k].tag, 0, chunks[k].data)])
                     \o qsw2_chunk("PIXL", 1, pixels)
<1>8. HdrFile(m, bits, channels, pixels) = r
  BY <1>1, Zenon DEF HdrFile, chunks
<1>9. /\ r \in Seq(S) /\ Len(r) >= 11 /\ \A i \in 1..11 : r[i] = head[i]
      /\ \E spot : Laid(r, Len(chunks), chunks, spot) /\ Closed(r, Len(chunks), spot, pixels)
  BY <1>2, <1>4, <1>6, <1>7, ChunksLie, Zenon
<1> HIDE DEF r
<1>10. r[6] = m.alpha /\ r[7] = m.authority /\ r[9] = n + 1
  BY <1>5, <1>9
<1>11. HdrLies(m, r)
  BY <1>9, <1>10, Zenon DEF HdrLies, n, chunks
<1>12. HdrWhole(m, bits, channels, pixels, r)
  <2>1. Len(r) \in Nat
    BY <1>9
  <2> QED
    BY <1>1, <1>9, <2>1, Zenon DEF HdrWhole, chunks
<1> QED
  BY <1>8, <1>11, <1>12, Zenon

\* It is read as m.
LEMMA HdrComesBack ==
  ASSUME NEW m \in Descriptions, NEW bits, NEW channels, hdr_metadata_valid(m, channels), NEW s, HdrLies(m, s)
  PROVE  qsw2_payload_parse(s, bits, channels).ok => Description(qsw2_payload_parse(s, bits, channels)) = m
<1> DEFINE chunks == Described(m)
           n == Len(chunks)
           parsed == qsw2_payload_parse(s, bits, channels)
<1>1. PICK c \in Nat : Carries(m, chunks, c)
  BY DescribedCarries
<1>2. chunks \in Seq(Chunk) /\ n \in Nat
  <2>1. chunks \in Seq(Chunk)
    BY <1>1, Zenon DEF Carries
  <2> QED
    BY <2>1
<1>3. Foreign(m)
  <2>1. m.blocks \in Seq([tag : STRING, data : Seq(Byte)])
    BY DEF Descriptions
  <2>2. \A k \in DOMAIN m.blocks : m.blocks[k].tag \notin CoreTags
    BY DEF hdr_metadata_valid
  <2> QED
    BY <2>1, <2>2 DEF Foreign
<1> HIDE DEF chunks, n
<1>10. s[6] = m.alpha /\ s[7] = m.authority /\ s[9] = n + 1
  BY Zenon DEF HdrLies, n, chunks
<1>11. PICK spot : Laid(s, n, chunks, spot)
  BY Zenon DEF HdrLies, n, chunks
<1> DEFINE start == [ok |-> TRUE, next |-> 12, size |-> 0, pixels |-> <<>>, alpha |-> s[6], authority |-> s[7],
                     icc |-> <<>>, cicp |-> <<>>, mdcv |-> <<>>, clli |-> <<>>, blocks |-> <<>>]
           made(g) == [k \in 0..s[9] |-> IF k = 0 THEN start ELSE ReadChunk(s, g[k - 1])]
           view == CHOOSE g : g = made(g)
           end == view[s[9]]
           valid == /\ end.ok /\ end.next = Len(s) + 1 /\ end.size = s[10] /\ end.pixels # <<>>
                    /\ qsw2_color_valid(end) /\ qsw1_shape_valid(end.pixels, bits, channels)
<1>12. parsed = NoView \/ parsed = [end EXCEPT !.ok = valid]
  BY Zenon DEF qsw2_payload_parse
<1>13. View(start) /\ Knows(start, m, chunks, c, 0, 12)
  BY <1>10, StartIs
<1> HIDE DEF start
<1>14. Views(s, n + 1, start, view)
  <2>1. \E g : Views(s, n + 1, start, g)
    <3>1. n + 1 \in Nat
      BY <1>2
    <3> QED
      BY <3>1, ViewsExist, Zenon
  <2>2. \A g : Views(s, n + 1, start, g) <=> g = made(g)
    BY <1>10, Zenon DEF Views
  <2>3. view = made(view)
    BY <2>1, <2>2, Zenon
  <2> HIDE DEF view
  <2> QED
    BY <2>2, <2>3, Zenon
<1> HIDE DEF view
<1>15. View(end) /\ (end.ok => Description(end) = m)
  <2> DEFINE h == view[Len(chunks) + 1]
  <2>1. Laid(s, Len(chunks), chunks, spot) /\ Views(s, Len(chunks) + 1, start, view)
    BY <1>11, <1>14 DEF n
  <2>2. Faithful(m, h)
    BY <1>1, <1>3, <1>13, <2>1, ViewsKnow, Zenon
  <2>3. end = h
    BY <1>10 DEF n
  <2> HIDE DEF end, h
  <2> QED
    BY <2>2, <2>3 DEF Faithful
<1>16. valid \in BOOLEAN /\ (valid => end.ok)
  BY <1>15 DEF View
<1> HIDE DEF end, valid, parsed
<1>17. CASE parsed = NoView
  BY <1>17 DEF NoView, parsed
<1>18. CASE parsed = [end EXCEPT !.ok = valid]
  <2>1. parsed.ok = valid /\ Description(parsed) = Description(end)
    BY <1>15, <1>16, <1>18, LastIs
  <2> QED
    BY <1>15, <1>16, <2>1 DEF parsed
<1> QED
  BY <1>12, <1>17, <1>18

\* Elements one by one: f[k] has the first k of vals.
Appended(n, vals, f) == f = [k \in 0..n |-> IF k = 0 THEN <<>> ELSE Append(f[k - 1], vals[k])]

LEMMA AppendedExists ==
  ASSUME NEW n \in Nat, NEW vals
  PROVE  \E f : Appended(n, vals, f)
<1> DEFINE Done == {k \in Nat : \E f : Appended(k, vals, f)}
<1>1. 0 \in Done
  <2> DEFINE f == [k \in 0..0 |-> <<>>]
  <2>1. f = [k \in 0..0 |-> IF k = 0 THEN <<>> ELSE Append(f[k - 1], vals[k])]
    OBVIOUS
  <2> QED
    BY <2>1 DEF Appended
<1>2. ASSUME NEW k \in Nat, k \in Done PROVE k + 1 \in Done
  <2>1. PICK f : f = [i \in 0..k |-> IF i = 0 THEN <<>> ELSE Append(f[i - 1], vals[i])]
    BY <1>2 DEF Appended
  <2> DEFINE last == Append(f[k], vals[k + 1])
             h == [i \in 0..k + 1 |-> IF i <= k THEN f[i] ELSE last]
  <2>2. \A i \in 0..k : f[i] = IF i = 0 THEN <<>> ELSE Append(f[i - 1], vals[i])
    BY <2>1
  <2>3. h = [i \in 0..k + 1 |-> h[i]] /\ h[k + 1] = last /\ \A i \in 0..k : h[i] = f[i]
    OBVIOUS
  <2> HIDE DEF h
  <2>4. ASSUME NEW i \in 0..k + 1 PROVE h[i] = IF i = 0 THEN <<>> ELSE Append(h[i - 1], vals[i])
    <3>1. CASE i = 0
      <4>1. 0 \in 0..k
        OBVIOUS
      <4> QED
        BY <2>2, <2>3, <3>1, <4>1
    <3>2. CASE i # 0 /\ i <= k
      <4>1. i \in 0..k /\ i - 1 \in 0..k
        BY <3>2
      <4> QED
        BY <2>2, <2>3, <3>2, <4>1
    <3>3. CASE i > k
      <4>1. i = k + 1 /\ i - 1 = k /\ k \in 0..k /\ i # 0
        BY <3>3
      <4> QED
        BY <2>3, <4>1
    <3> QED
      BY <3>1, <3>2, <3>3
  <2>5. h = [i \in 0..k + 1 |-> IF i = 0 THEN <<>> ELSE Append(h[i - 1], vals[i])]
    BY <2>3, <2>4
  <2>6. Appended(k + 1, vals, h)
    BY <2>5, Zenon DEF Appended
  <2> QED
    BY <2>6
<1>3. \A k \in Nat : k \in Done
  <2>1. \A k \in Nat : k \in Done => k + 1 \in Done
    BY <1>2
  <2> HIDE DEF Done
  <2> QED
    BY <1>1, <2>1, Induction, Zenon
<1> QED
  BY <1>3

LEMMA AppendedIs ==
  ASSUME NEW S, NEW n \in Nat, NEW vals, NEW f, \A k \in 1..n : vals[k] \in S, Appended(n, vals, f)
  PROVE  f[n] \in Seq(S) /\ Len(f[n]) = n
<1> DEFINE Done == {k \in Nat : k <= n => f[k] \in Seq(S) /\ Len(f[k]) = k}
<1>1. \A k \in 0..n : f[k] = IF k = 0 THEN <<>> ELSE Append(f[k - 1], vals[k])
  BY DEF Appended
<1>2. 0 \in Done
  <2>1. 0 \in 0..n
    OBVIOUS
  <2>2. f[0] = <<>>
    BY <1>1, <2>1
  <2>3. <<>> \in Seq(S) /\ Len(<<>>) = 0
    OBVIOUS
  <2> QED
    BY <2>2, <2>3
<1>3. ASSUME NEW k \in Nat, k \in Done, k + 1 <= n PROVE f[k + 1] \in Seq(S) /\ Len(f[k + 1]) = k + 1
  <2>1. k + 1 \in 0..n /\ k + 1 # 0 /\ (k + 1) - 1 = k /\ k + 1 \in 1..n /\ k <= n
    BY <1>3
  <2> DEFINE a == f[k]
             x == vals[k + 1]
  <2>2. f[k + 1] = Append(a, x)
    BY <1>1, <2>1
  <2>3. a \in Seq(S) /\ Len(a) = k /\ x \in S
    BY <1>3, <2>1
  <2> HIDE DEF a, x
  <2> QED
    BY <2>2, <2>3
<1>4. \A k \in Nat : k \in Done
  <2>1. \A k \in Nat : k \in Done => k + 1 \in Done
    BY <1>3
  <2> HIDE DEF Done
  <2> QED
    BY <1>2, <2>1, Induction, Zenon
<1> QED
  BY <1>4

\* The stream of slice i, and of each.
SliceStream(channels, i) == stream_encode(W \div channels, shape.h, channels, PlaneSlice(i))
SliceStreams(count, channels) ==
  Each(count, LAMBDA i : stream_encode(W \div channels, shape.h, channels, PlaneSlice(i)))

LEMMA StreamsAre ==
  ASSUME Size \in Nat, NEW count \in Nat, NEW channels
  PROVE  \E V : SliceStreams(count, channels) \in Seq(Seq(V)) /\ Len(SliceStreams(count, channels)) = count
<1> DEFINE V == {W \div channels, shape.h, channels}
                  \cup {Part(plane[n - 1], i) : n \in Cells, i \in 1..count}
           vals == [i \in 1..count |-> SliceStream(channels, i)]
           made(g) == [k \in 0..count |->
                        IF k = 0 THEN <<>> ELSE LET before == g[k - 1] IN Append(before, SliceStream(channels, k))]
           f == CHOOSE g : g = made(g)
           s == SliceStreams(count, channels)
<1>1. s = f[count]
  BY Zenon DEF SliceStreams, Each, Grown, SliceStream
<1>2. ASSUME NEW k \in 1..count PROVE vals[k] \in Seq(V)
  <2> DEFINE a == <<W \div channels, shape.h, channels>>
             b == PlaneSlice(k)
             n == Size
  <2>1. a \in Seq(V)
    <3>1. W \div channels \in V /\ shape.h \in V /\ channels \in V
      OBVIOUS
    <3> HIDE DEF V
    <3> QED
      BY <3>1
  <2>2. b = [i \in 1..n |-> Part(plane[i - 1], k)]
    BY DEF PlaneSlice, Cells
  <2>3. \A i \in 1..n : Part(plane[i - 1], k) \in V
    BY DEF Cells
  <2>4. n \in Nat
    OBVIOUS
  <2>5. vals[k] = a \o b
    BY DEF SliceStream, stream_encode
  <2> HIDE DEF V, a, b, n, vals
  <2>6. b = [i \in 1..n |-> b[i]] /\ \A i \in 1..n : b[i] \in V
    BY <2>2, <2>3
  <2>7. b \in Seq(V)
    BY <2>4, <2>6, SeqMade
  <2>8. a \o b \in Seq(V)
    BY <2>1, <2>7, ConcatProperties, Zenon
  <2> QED
    BY <2>5, <2>8
<1>3. \A k \in 1..count : vals[k] = SliceStream(channels, k)
  OBVIOUS
<1> HIDE DEF vals, V
<1>4. ASSUME NEW g PROVE Appended(count, vals, g) <=> g = made(g)
  <2> DEFINE other == [k \in 0..count |-> IF k = 0 THEN <<>> ELSE Append(g[k - 1], vals[k])]
  <2>1. ASSUME NEW k \in 0..count
        PROVE  (IF k = 0 THEN <<>> ELSE Append(g[k - 1], vals[k]))
                 = (IF k = 0 THEN <<>> ELSE Append(g[k - 1], SliceStream(channels, k)))
    <3>1. k # 0 => k \in 1..count
      OBVIOUS
    <3> QED
      BY <1>3, <3>1
  <2>2. other = made(g)
    BY <2>1
  <2> QED
    BY <2>2 DEF Appended
<1>5. \E g : g = made(g)
  BY <1>4, AppendedExists
<1>6. f = made(f)
  BY <1>5
<1> HIDE DEF f
<1>7. Appended(count, vals, f)
  BY <1>4, <1>6
<1> HIDE DEF s
<1>8. s \in Seq(Seq(V)) /\ Len(s) = count
  BY <1>1, <1>2, <1>7, AppendedIs
<1> QED
  BY <1>8 DEF s

LEMMA PixelsAreSeq ==
  ASSUME Size \in Nat, NEW bits \in Nat, NEW channels
  PROVE  \E T : append_wide_payload(bits, channels) \in Seq(T)
<1> DEFINE count == SliceCount(bits)
           streams == SliceStreams(count, channels)
           checksum == [n \in Cells |-> plane[n - 1]]
           a == <<"QSW1", 0, bits, channels, Len(streams), checksum, 0>>
           b == [i \in DOMAIN streams |-> Len(streams[i])]
           c == FlattenSeq(streams)
           pixels == append_wide_payload(bits, channels)
<1>1. pixels = Refused \/ pixels = (a \o b) \o c
  BY Zenon DEF append_wide_payload, SliceStreams
<1>2. count \in Nat
  <2>1. SliceBits \in Nat \ {0} /\ bits + SliceBits - 1 \in Nat
    BY WideAssumption
  <2> QED
    BY <2>1, QuotientIs, Zenon DEF SliceCount
<1> HIDE DEF count
<1>3. PICK V : streams \in Seq(Seq(V)) /\ Len(streams) = count
  BY <1>2, StreamsAre, Zenon
<1> HIDE DEF streams
<1>4. /\ DOMAIN streams = 1..count /\ streams = [i \in 1..count |-> streams[i]]
      /\ \A i \in 1..count : streams[i] \in Seq(V)
  <2> DEFINE Q == Seq(V)
  <2>1. streams \in Seq(Q) /\ Len(streams) = count
    BY <1>3
  <2> HIDE DEF Q
  <2>2. /\ DOMAIN streams = 1..count /\ streams = [i \in 1..count |-> streams[i]]
        /\ \A i \in 1..count : streams[i] \in Q
    BY <2>1
  <2> QED
    BY <2>2 DEF Q
<1> DEFINE T == V \cup (Nat \cup {"QSW1", bits, channels, checksum})
<1>5. a \in Seq(T)
  <2>1. "QSW1" \in T /\ 0 \in T /\ bits \in T /\ channels \in T /\ Len(streams) \in T /\ checksum \in T
    <3>1. Len(streams) \in Nat
      BY <1>2, <1>3
    <3> QED
      BY <3>1
  <2> HIDE DEF T, checksum
  <2> QED
    BY <2>1
<1>6. b \in Seq(T)
  <2>1. b = [i \in 1..count |-> b[i]] /\ \A i \in 1..count : b[i] \in Nat
    BY <1>4
  <2>2. \A i \in 1..count : b[i] \in T
    BY <2>1
  <2> HIDE DEF b, T
  <2> QED
    BY <1>2, <2>1, <2>2, SeqMade
<1>7. c \in Seq(V)
  <2>1. PICK f : InPlace(V, count, streams, f, c)
    BY <1>2, <1>4, AllInPlace
  <2>2. f \in [0..count -> Seq(V)] /\ c = f[count]
    BY <2>1, Zenon DEF InPlace
  <2> HIDE DEF c
  <2> QED
    BY <1>2, <2>2
<1>8. c \in Seq(T)
  <2>1. V \subseteq T
    OBVIOUS
  <2> HIDE DEF T, c
  <2> QED
    BY <1>7, <2>1, WiderSeq
<1> HIDE DEF a, b, c, T, pixels
<1>9. (a \o b) \o c \in Seq(T)
  <2>1. a \o b \in Seq(T)
    BY <1>5, <1>6, ConcatProperties, Zenon
  <2> QED
    BY <1>8, <2>1, ConcatProperties, Zenon
<1>10. pixels \in Seq(T)
  <2>1. <<>> \in Seq(T)
    OBVIOUS
  <2> QED
    BY <1>1, <1>9, <2>1 DEF Refused, pixels, a, b, c
<1> QED
  BY <1>10 DEF pixels

\* What is known of an HDR image on the way.
HdrSent(s, wide) == hdr_metadata_valid(wide.description, wide.channels) /\ HdrLies(wide.description, s)

IsHdr == how.wide # Narrow /\ how.wide.kind = "HDR_WIDE"
HowFields == {"colours", "head", "frames", "wide", "given"}

HdrInv ==
  /\ how = [x \in HowFields |-> how[x]]
  /\ IsHdr =>
       /\ method = "file" /\ how.frames = 1 /\ Size \in Nat
       /\ how.wide.bits \in Nat /\ how.wide.description \in Descriptions
       /\ stage \in {"map", "start", "cut", "corrupt", "decode", "done"}
       /\ stage = "start" =>
            /\ how.head.mode = "HDR_WIDE" /\ how.head.bits = how.wide.bits /\ how.head.count = how.wide.channels
            /\ HdrSent(Received, how.wide)
       /\ stage \in {"decode", "done"} => how.given = {how.wide.description}

LEMMA HdrStart == CodecInit => HdrInv
<1> SUFFICES ASSUME CodecInit PROVE HdrInv
  OBVIOUS
<1>1. CASE \E p \in Pictures, f \in Families :
             how = [colours |-> f, head |-> NoHead, frames |-> p.frames, wide |-> Narrow, given |-> {}]
  BY <1>1 DEF HdrInv, IsHdr, HowFields
<1>2. ASSUME NEW p \in WideImages, shape = p.shape, method = "file", stage = "map",
             how = [colours |-> <<>>, head |-> NoHead, frames |-> 1, wide |-> p.wide, given |-> {}]
      PROVE  HdrInv
  <2>1. shape \in [w : Nat \ {0}, h : Nat \ {0}, depth : Nat \ {0}]
        /\ p.wide.bits \in Nat /\ p.wide.description \in Descriptions
    BY <1>2, WideImagesAssumption
  <2>2. Size \in Nat
    BY <2>1 DEF Size
  <2>3. how = [x \in HowFields |-> how[x]] /\ how.frames = 1 /\ how.wide = p.wide
    BY <1>2 DEF HowFields
  <2> QED
    BY <1>2, <2>1, <2>2, <2>3 DEF HdrInv
<1>3. CASE how = [colours |-> <<>>, head |-> NoHead, frames |-> 0, wide |-> Narrow, given |-> {}]
  BY <1>3 DEF HdrInv, IsHdr, HowFields
<1>4. CASE ContainerInit
  <2>1. CASE \E p \in Pictures, f \in Families :
               /\ shape = p.shape /\ plane = p.plane
               /\ Len(f) >= M
               /\ how = [colours |-> f, head |-> NoHead, frames |-> p.frames, wide |-> Narrow, given |-> {}]
    BY <1>1, <2>1
  <2>2. CASE \E p \in WideImages :
               /\ shape = p.shape /\ plane = p.plane
               /\ how = [colours |-> <<>>, head |-> NoHead, frames |-> 1, wide |-> p.wide, given |-> {}]
    <3>1. method = "file" /\ stage = "map"
      BY <1>4 DEF ContainerInit
    <3> QED
      BY <1>2, <2>2, <3>1
  <2> QED
    BY <1>4, <2>1, <2>2 DEF ContainerInit
<1> QED
  BY <1>3, <1>4 DEF CodecInit

\* A step that leaves what the invariant is about.
LEMMA HdrSame ==
  ASSUME HdrInv, how' = how, shape' = shape, method' = method, wire' = wire,
         IsHdr => stage' = stage \/ (stage = "decode" /\ stage' = "done") \/ stage' \in {"cut", "corrupt"}
  PROVE  HdrInv'
<1>1. IsHdr' = IsHdr
  BY DEF IsHdr, Narrow
<1>2. Size' = Size /\ Received' = Received
  BY DEF Size, Received
<1> QED
  BY <1>1, <1>2 DEF HdrInv

\* Planes of QST1 streams, and images of bytes.
LEMMA HdrElse ==
  ASSUME HdrInv, ~ IsHdr, how'.wide = how.wide, how' = [x \in HowFields |-> how'[x]]
  PROVE  HdrInv'
<1>1. ~ IsHdr'
  BY DEF IsHdr, Narrow
<1> QED
  BY <1>1 DEF HdrInv

\* The header never changes what the file is made of.
LEMMA WrittenIs ==
  ASSUME HdrInv, NEW c, Written(c)
  PROVE  /\ how' = [x \in HowFields |-> how'[x]] /\ how'.wide = how.wide /\ how'.frames = how.frames
         /\ how'.given = how.given /\ stage' = "start" /\ input' = input
         /\ how'.head.mode = c.mode /\ how'.head.bits = c.bits /\ how'.head.count = c.count
         /\ Received' = [k \in DOMAIN (c.palette \o c.payload) |-> (c.palette \o c.payload)[k]]
<1> DEFINE head == [mode |-> c.mode, transform |-> c.transform, bits |-> c.bits,
                    codec |-> c.codec, count |-> c.count, size |-> Len(c.payload)]
           bytes == c.palette \o c.payload
<1>1. how' = [how EXCEPT !.head = head] /\ stage' = "start" /\ input' = input
      /\ wire' = [k \in DOMAIN bytes |-> Put("file", 0, 0, k, bytes[k])]
  BY DEF Written
<1>2. how = [x \in HowFields |-> how[x]]
  BY DEF HdrInv
<1>3. head.mode = c.mode /\ head.bits = c.bits /\ head.count = c.count
  OBVIOUS
<1> HIDE DEF head, bytes
<1>4. /\ how' = [x \in HowFields |-> how'[x]] /\ how'.wide = how.wide /\ how'.frames = how.frames
      /\ how'.given = how.given /\ how'.head = head
  BY <1>1, <1>2 DEF HowFields
<1>5. Received' = [k \in DOMAIN bytes |-> bytes[k]]
  BY <1>1 DEF Received, Put
<1> QED
  BY <1>1, <1>3, <1>4, <1>5 DEF bytes

LEMMA HdrWritten ==
  ASSUME HdrInv, EncodeWide
  PROVE  HdrInv'
<1> DEFINE wide == how.wide
           payload == IF wide.kind = "HDR_WIDE" THEN enc_hdr_mem(wide.description, wide.bits, wide.channels)
                      ELSE IF wide.bits \in WideBits(SliceBits + 1) THEN append_wide_payload(wide.bits, wide.channels)
                      ELSE Refused
           c == [Candidate(wide.kind, "IDENTITY", wide.bits, <<>>, payload) EXCEPT !.count = wide.channels]
<1>1. /\ method = "file" /\ stage = "map" /\ wide # Narrow
      /\ IF payload = Refused THEN stage' = "cut" /\ UNCHANGED <<input, wire, tp, at, prevk, prevs, read, out, how>>
         ELSE Written(c)
  BY DEF EncodeWide
<1>2. CASE payload = Refused
  <2>1. how' = how /\ shape' = shape /\ method' = method /\ wire' = wire /\ stage' = "cut"
    BY <1>1, <1>2 DEF input
  <2> QED
    BY <2>1, HdrSame
<1>3. CASE payload # Refused
  <2>1. Written(c)
    BY <1>1, <1>3
  <2>2. c.mode = wide.kind /\ c.bits = wide.bits /\ c.count = wide.channels /\ c.payload = payload
        /\ (wide.kind = "HDR_WIDE" => c.palette = <<>>)
    BY DEF Candidate, WithPalette
  <2> HIDE DEF c
  <2>3. /\ how' = [x \in HowFields |-> how'[x]] /\ how'.wide = how.wide /\ how'.frames = how.frames
        /\ how'.given = how.given /\ stage' = "start" /\ input' = input
        /\ how'.head.mode = c.mode /\ how'.head.bits = c.bits /\ how'.head.count = c.count
        /\ Received' = [k \in DOMAIN (c.palette \o c.payload) |-> (c.palette \o c.payload)[k]]
    BY <2>1, WrittenIs, Zenon
  <2>4. CASE ~ IsHdr
    BY <2>3, <2>4, HdrElse
  <2>5. CASE IsHdr
    <3>1. wide.kind = "HDR_WIDE" /\ IsHdr'
      BY <2>3, <2>5 DEF IsHdr, Narrow
    <3>2. /\ method = "file" /\ how.frames = 1 /\ Size \in Nat
          /\ wide.bits \in Nat /\ wide.description \in Descriptions
      BY <2>5 DEF HdrInv
    <3>3. Size' = Size /\ method' = method
      BY <2>3 DEF Size, input
    <3> DEFINE pixels == append_wide_payload(wide.bits, wide.channels)
               s == HdrFile(wide.description, wide.bits, wide.channels, pixels)
    <3>4. hdr_metadata_valid(wide.description, wide.channels) /\ payload = s
      BY <1>3, <3>1, Zenon DEF enc_hdr_mem, HdrFile, HeadOfHdr
    <3>5. PICK T : pixels \in Seq(T)
      BY <3>2, PixelsAreSeq
    <3>6. HdrLies(wide.description, s) /\ HdrWhole(wide.description, wide.bits, wide.channels, pixels, s)
      <4> DEFINE m == wide.description
                 bits == wide.bits
                 channels == wide.channels
      <4>1. m \in Descriptions
        BY <3>2
      <4> HIDE DEF m, bits, channels, pixels
      <4>2. /\ HdrLies(m, HdrFile(m, bits, channels, pixels))
            /\ HdrWhole(m, bits, channels, pixels, HdrFile(m, bits, channels, pixels))
        BY <3>5, <4>1, HdrFileLies, Zenon
      <4> QED
        BY <4>2, Zenon DEF m, bits, channels
    <3>7. Received' = s
      <4>1. \E S : s \in Seq(S)
        BY <3>6, Zenon DEF HdrLies
      <4> HIDE DEF s, payload
      <4>2. c.palette \o c.payload = s
        BY <2>2, <3>1, <3>4, <4>1
      <4>3. s = [k \in DOMAIN s |-> s[k]]
        BY <4>1
      <4> QED
        BY <2>3, <4>2, <4>3
    <3>9. HdrSent(s, wide)
      BY <3>4, <3>6 DEF HdrSent
    <3> HIDE DEF s, pixels, payload
    <3>8. HdrSent(Received', how'.wide)
      BY <2>3, <3>7, <3>9
    <3> QED
      BY <2>2, <2>3, <3>1, <3>2, <3>3, <3>8 DEF HdrInv
  <2> QED
    BY <2>4, <2>5
<1> QED
  BY <1>2, <1>3

\* The decoder: nothing, or the description as it was.
LEMMA HdrTaken ==
  ASSUME HdrInv, DecodeHdr
  PROVE  HdrInv'
<1> DEFINE h == how.head
           view == IF HeaderOk(h) THEN qsw2_payload_parse(Received, h.bits, h.count) ELSE NoView
           samples == IF view.ok THEN wide_payload_decode(view.pixels, h.bits, h.count) ELSE Refused
           m == how.wide.description
<1>1. /\ method = "file" /\ stage = "start" /\ h.mode = "HDR_WIDE"
      /\ GivenSamples(samples)
      /\ how' = IF samples = Refused THEN how ELSE [how EXCEPT !.given = {Description(view)}]
  BY DEF DecodeHdr
<1> HIDE DEF samples
<1>2. input' = input /\ wire' = wire
      /\ (samples = Refused => stage' = "corrupt") /\ (samples # Refused => stage' = "decode")
  BY <1>1 DEF GivenSamples
<1>3. shape' = shape /\ method' = method
  BY <1>2 DEF input
<1>4. how = [x \in HowFields |-> how[x]]
  BY DEF HdrInv
<1>5. CASE samples = Refused
  <2>1. how' = how /\ stage' = "corrupt"
    BY <1>1, <1>2, <1>5
  <2> QED
    BY <1>2, <1>3, <2>1, HdrSame
<1>6. CASE samples # Refused
  <2> DEFINE x == {Description(view)}
  <2>1. how' = [how EXCEPT !.given = x] /\ stage' = "decode"
    BY <1>1, <1>2, <1>6
  <2>2. view.ok
    BY <1>6 DEF samples
  <2> HIDE DEF x, view
  <2>3. how' = [y \in HowFields |-> how'[y]] /\ how'.wide = how.wide /\ how'.frames = how.frames /\ how'.given = x
    BY <1>4, <2>1 DEF HowFields
  <2>4. CASE ~ IsHdr
    BY <2>3, <2>4, HdrElse
  <2>5. CASE IsHdr
    <3>1. /\ how.frames = 1 /\ Size \in Nat /\ how.wide.bits \in Nat /\ m \in Descriptions
          /\ h.bits = how.wide.bits /\ h.count = how.wide.channels /\ HdrSent(Received, how.wide)
      BY <1>1, <2>5 DEF HdrInv
    <3>2. hdr_metadata_valid(m, h.count) /\ HdrLies(m, Received)
      BY <3>1 DEF HdrSent
    <3>3. view = qsw2_payload_parse(Received, h.bits, h.count)
      BY <2>2 DEF view, NoView
    <3>4. Description(view) = m
      <4> HIDE DEF h, m
      <4> QED
        BY <2>2, <3>1, <3>2, <3>3, HdrComesBack
    <3>5. IsHdr' /\ Size' = Size
      BY <1>3, <2>3, <2>5 DEF IsHdr, Narrow, Size
    <3> QED
      BY <1>1, <1>3, <2>1, <2>3, <3>1, <3>4, <3>5 DEF HdrInv, x
  <2> QED
    BY <2>4, <2>5
<1> QED
  BY <1>5, <1>6

LEMMA HdrStep == HdrInv /\ [PageNext]_containerVars => HdrInv'
<1> SUFFICES ASSUME HdrInv, [PageNext]_containerVars PROVE HdrInv'
  OBVIOUS
<1>1. ASSUME how' = how, ~ IsHdr PROVE HdrInv'
  BY <1>1, HdrElse DEF HdrInv
<1>2. IsHdr => method = "file" /\ (stage = "start" => how.head.mode = "HDR_WIDE")
               /\ how.frames = 1 /\ how.wide # Narrow
  BY DEF HdrInv, IsHdr
<1>3. ASSUME UNCHANGED containerVars PROVE HdrInv'
  <2>1. how' = how /\ shape' = shape /\ method' = method /\ wire' = wire /\ stage' = stage
    BY <1>3 DEF containerVars, vars
  <2> QED
    BY <2>1, HdrSame
<1>4. ASSUME method \in {"base", "xzr"}, how' = how PROVE HdrInv'
  BY <1>1, <1>2, <1>4
<1>5. ASSUME ModesNext, how' = how PROVE HdrInv'
  <2>1. method # "file"
    <3>1. "file" \notin SampleModes /\ "file" \notin Modes
      BY DEF SampleModes, Modes, Added
    <3> QED
      BY <1>5, <3>1 DEF ModesNext, SendModeMap, EncodeSample, ReadModeMap, DecodeSample, SendOrder,
        EncodeEvent, ReadOrder, ReadEvent, Rebuild, SendPatterns, EncodeSquares, ReadPatterns, ReadSquares
  <2> QED
    BY <1>1, <1>2, <1>5, <2>1
<1>6. ASSUME EncodeFile \/ EncodeAnimation PROVE HdrInv'
  <2>1. ~ IsHdr
    BY <1>2, <1>6 DEF EncodeFile, EncodeAnimation
  <2>2. \E c : Written(c)
    BY <1>6, Zenon DEF EncodeFile, EncodeAnimation
  <2>3. how'.wide = how.wide /\ how' = [x \in HowFields |-> how'[x]]
    BY <2>2, WrittenIs, Zenon
  <2> QED
    BY <2>1, <2>3, HdrElse
<1>7. ASSUME EncodeWide PROVE HdrInv'
  BY <1>7, HdrWritten
<1>8. ASSUME DecodeFile \/ DecodeAnimation \/ DecodeWide \/ PageDecode \/ PageDecodeAnimation PROVE HdrInv'
  <2>1. stage = "start" /\ how.head.mode # "HDR_WIDE"
    BY <1>8, Zenon DEF DecodeFile, DecodeAnimation, DecodeWide, PageDecode, PageDecodeAnimation
  <2>2. ~ IsHdr
    BY <1>2, <2>1
  <2>3. how' = how
    BY <1>8, Zenon DEF DecodeFile, DecodeAnimation, DecodeWide, PageDecode, PageDecodeAnimation, Shown, Given
  <2> QED
    BY <1>1, <2>2, <2>3
<1>9. ASSUME DecodeHdr PROVE HdrInv'
  BY <1>9, HdrTaken
<1>10. ASSUME Finish \/ Stopped, how' = how PROVE HdrInv'
  <2>1. shape' = shape /\ method' = method /\ wire' = wire
        /\ (stage' = stage \/ (stage = "decode" /\ stage' = "done"))
    BY <1>10 DEF Finish, Stopped, input, vars
  <2> QED
    BY <1>10, <2>1, HdrSame
<1> QED
  BY <1>3, <1>4, <1>5, <1>6, <1>7, <1>8, <1>9, <1>10 DEF PageNext, ContainerNext

\* For images of every size, every number of bits and channels and every
\* description the format can carry, also with blocks nobody knows: what
\* dec_hdr_qlic_limited gives out with the samples is what enc_hdr_mem was
\* given.  The chunks are read where they were written, each field from the
\* chunk with its tag.
THEOREM DescriptionComesBack == PageSpec => []DescriptionKept
<1>1. CodecInit => HdrInv
  BY HdrStart
<1>2. HdrInv /\ [PageNext]_containerVars => HdrInv'
  BY HdrStep
<1>3. HdrInv => DescriptionKept
  BY DEF HdrInv, IsHdr, DescriptionKept
<1> QED
  BY <1>1, <1>2, <1>3, PTL DEF PageSpec

-----------------------------------------------------------------------------
(* The planes in the run that composes all coders: the methods do not       *)
(* disturb each other.                                                      *)

Planes == {"base", "xzr"}
PlanesInv == method \in Planes => StreamInv

LEMMA PlanesApart == Planes \cap (Modes \cup {"file"}) = {}
<1>1. \A m \in Planes : m # "file" /\ m # "event" /\ m # "pattern" /\ m \notin SampleModes
  BY DEF Planes, SampleModes, Added
<1> QED
  BY <1>1 DEF Modes

\* The other coders of PlaneModes work on planes of their own methods only.
LEMMA ModesApart ==
  ASSUME ModesNext
  PROVE  method \in Modes /\ method' = method
<1>1. CASE SendModeMap
  BY <1>1, Zenon DEF SendModeMap, Modes, input
<1>2. CASE EncodeSample
  BY <1>2, Zenon DEF EncodeSample, Modes, input
<1>3. CASE ReadModeMap
  BY <1>3, Zenon DEF ReadModeMap, Asking, Modes, input
<1>4. CASE DecodeSample
  BY <1>4, Zenon DEF DecodeSample, Asking, Modes, input
<1>5. CASE SendOrder
  BY <1>5, Zenon DEF SendOrder, Modes, input
<1>6. CASE EncodeEvent
  BY <1>6, Zenon DEF EncodeEvent, Modes, input
<1>7. CASE ReadOrder
  BY <1>7, Zenon DEF ReadOrder, Asking, Modes, input
<1>8. CASE ReadEvent
  BY <1>8, Zenon DEF ReadEvent, Asking, Modes, input
<1>9. CASE Rebuild
  BY <1>9, Zenon DEF Rebuild, Modes, input
<1>10. CASE SendPatterns
  BY <1>10, Zenon DEF SendPatterns, Modes, input
<1>11. CASE EncodeSquares
  BY <1>11, Zenon DEF EncodeSquares, Modes, input
<1>12. CASE ReadPatterns
  BY <1>12, Zenon DEF ReadPatterns, Asking, Modes, input
<1>13. CASE ReadSquares
  BY <1>13, Zenon DEF ReadSquares, Asking, Modes, input
<1>14. CASE method \in Modes /\ (Deliver \/ Finish \/ Stopped)
  BY <1>14, Zenon DEF Deliver, Finish, Stopped, input, vars
<1> QED
  BY <1>1, <1>2, <1>3, <1>4, <1>5, <1>6, <1>7, <1>8, <1>9, <1>10, <1>11, <1>12, <1>13, <1>14
     DEF ModesNext

\* Files are read and written by steps of their own.
LEMMA FilesApart ==
  ASSUME \/ EncodeFile \/ EncodeAnimation \/ EncodeWide
         \/ DecodeFile \/ DecodeAnimation \/ DecodeWide \/ DecodeHdr
         \/ PageDecode \/ PageDecodeAnimation
         \/ method = "file" /\ (Finish \/ Stopped)
  PROVE  method = "file" /\ method' = method
<1>1. CASE EncodeFile
  BY <1>1, Zenon DEF EncodeFile, Written, input
<1>2. CASE EncodeAnimation
  BY <1>2, Zenon DEF EncodeAnimation, Written, input
<1>3. CASE EncodeWide
  BY <1>3, Zenon DEF EncodeWide, Written, input
<1>4. CASE DecodeFile
  BY <1>4, Zenon DEF DecodeFile, Given, GivenSamples, input
<1>5. CASE DecodeAnimation
  BY <1>5, Zenon DEF DecodeAnimation, Given, GivenSamples, input
<1>6. CASE DecodeWide
  BY <1>6, Zenon DEF DecodeWide, GivenSamples, input
<1>7. CASE DecodeHdr
  BY <1>7, Zenon DEF DecodeHdr, GivenSamples, input
<1>8. CASE PageDecode
  BY <1>8, Zenon DEF PageDecode, Shown, Given, GivenSamples, input
<1>9. CASE PageDecodeAnimation
  BY <1>9, Zenon DEF PageDecodeAnimation, Shown, Given, GivenSamples, input
<1>10. CASE method = "file" /\ (Finish \/ Stopped)
  BY <1>10, Zenon DEF Finish, Stopped, input, vars
<1> QED
  BY <1>1, <1>2, <1>3, <1>4, <1>5, <1>6, <1>7, <1>8, <1>9, <1>10

LEMMA PlanesStart == CodecInit => PlanesInv
<1>1. ContainerInit => method = "file"
  BY DEF ContainerInit
<1>2. ModesInit => method \in Modes
  <2> SUFFICES ASSUME ModesInit PROVE method \in Modes
    OBVIOUS
  <2>1. PICK p \in ModePlanes : method \in p.modes
    BY DEF ModesInit
  <2> QED
    BY <2>1, ModePlanesAssumption
<1> QED
  BY <1>1, <1>2, PlanesApart, StreamStarts DEF CodecInit, PlanesInv

LEMMA PlanesStep == PlanesInv /\ [PageNext]_containerVars => PlanesInv'
<1> SUFFICES ASSUME PlanesInv, [PageNext]_containerVars, method' \in Planes PROVE StreamInv'
  BY DEF PlanesInv
<1>1. ASSUME method \in Planes, [Next]_vars PROVE StreamInv'
  BY <1>1, StreamStep DEF PlanesInv
<1>2. ASSUME UNCHANGED containerVars PROVE StreamInv'
  <2>1. UNCHANGED vars /\ method' = method
    BY <1>2 DEF containerVars, vars
  <2> QED
    BY <1>1, <2>1
<1>3. ASSUME method \in {"base", "xzr"}, Next PROVE StreamInv'
  BY <1>1, <1>3 DEF Planes
<1>4. ~ ModesNext
  BY ModesApart, PlanesApart
<1>5. ~ (\/ EncodeFile \/ EncodeAnimation \/ EncodeWide
         \/ DecodeFile \/ DecodeAnimation \/ DecodeWide \/ DecodeHdr
         \/ PageDecode \/ PageDecodeAnimation
         \/ method = "file" /\ (Finish \/ Stopped))
  BY FilesApart, PlanesApart
<1> QED
  BY <1>2, <1>3, <1>4, <1>5, Zenon DEF PageNext, ContainerNext

\* Also among the other coders and the files, decode_plane and
\* decode_plane_xzr undo encode_plane and encode_plane_xzr and read each bit in
\* the slot in which it was written.
THEOREM PlanesAmongOthers == PageSpec => [](method \in {"base", "xzr"} => RoundTrip /\ InStep)
<1>1. StreamInv => RoundTrip /\ InStep
  BY Zenon DEF StreamInv, Reading, Same, RoundTrip, InStep
<1>2. PlanesInv => (method \in {"base", "xzr"} => RoundTrip /\ InStep)
  BY <1>1 DEF PlanesInv, Planes
<1> QED
  BY <1>2, PlanesStart, PlanesStep, PTL DEF PageSpec

LEMMA FileIsNoMode == "file" \notin Modes
BY DEF SampleModes, Modes, Added

-----------------------------------------------------------------------------
(* Sums of functions to numbers.  The order of the terms does not matter.   *)

OneOf(T) == CHOOSE x \in T : TRUE
Sums(S, f, g) == g = [T \in SUBSET S |-> IF T = {} THEN 0 ELSE f[OneOf(T)] + g[T \ {OneOf(T)}]]

\* The sums over the sets of at most n indices.
SumsTo(S, f, n, g) ==
  g = [T \in {T \in SUBSET S : Cardinality(T) <= n} |->
         IF T = {} THEN 0 ELSE f[OneOf(T)] + g[T \ {OneOf(T)}]]

LEMMA OneLess ==
  ASSUME NEW S, IsFiniteSet(S), NEW T \in SUBSET S, NEW x \in T
  PROVE  /\ T \ {x} \in SUBSET S /\ Cardinality(T) \in Nat /\ Cardinality(T \ {x}) \in Nat
         /\ Cardinality(T) = Cardinality(T \ {x}) + 1
<1>1. IsFiniteSet(T)
  BY FS_Subset
<1>2. Cardinality(T \ {x}) = Cardinality(T) - 1 /\ IsFiniteSet(T \ {x})
  BY <1>1, FS_RemoveElement
<1>3. Cardinality(T) \in Nat /\ Cardinality(T \ {x}) \in Nat
  BY <1>1, <1>2, FS_CardinalityType
<1> QED
  BY <1>2, <1>3

LEMMA OneOfIs ==
  ASSUME NEW T, T # {}
  PROVE  OneOf(T) \in T
BY DEF OneOf

LEMMA SumsExist ==
  ASSUME NEW S, IsFiniteSet(S), NEW f
  PROVE  \E g : Sums(S, f, g)
<1> DEFINE Upto(n) == {T \in SUBSET S : Cardinality(T) <= n}
           Good == {n \in Nat : \E g : SumsTo(S, f, n, g)}
<1>1. 0 \in Good
  <2> DEFINE g == [T \in Upto(0) |-> 0]
  <2>1. ASSUME NEW T \in Upto(0) PROVE T = {}
    <3>1. ASSUME NEW x \in T PROVE FALSE
      <4>1. T \in SUBSET S /\ Cardinality(T) <= 0
        BY <2>1
      <4>2. Cardinality(T \ {x}) \in Nat /\ Cardinality(T) = Cardinality(T \ {x}) + 1
        BY <4>1, OneLess, Zenon
      <4> QED
        BY <4>1, <4>2
    <3> QED
      BY <3>1
  <2>2. SumsTo(S, f, 0, g)
    BY <2>1 DEF SumsTo
  <2> QED
    BY <2>2
<1>2. ASSUME NEW n \in Nat, n \in Good PROVE n + 1 \in Good
  <2>1. PICK g : SumsTo(S, f, n, g)
    BY <1>2
  <2> DEFINE more(T) == IF T = {} THEN 0 ELSE f[OneOf(T)] + g[T \ {OneOf(T)}]
             h == [T \in Upto(n + 1) |-> more(T)]
  <2>2. \A T \in Upto(n) : g[T] = more(T)
    BY <2>1, Zenon DEF SumsTo
  <2>3. ASSUME NEW T \in Upto(n) PROVE T \in Upto(n + 1)
    <3>1. Cardinality(T) \in Nat
      BY FS_Subset, FS_CardinalityType
    <3> QED
      BY <3>1
  <2>4. ASSUME NEW T \in Upto(n + 1), T # {} PROVE T \ {OneOf(T)} \in Upto(n)
    <3>1. OneOf(T) \in T
      BY <2>4, OneOfIs
    <3> QED
      BY <3>1, OneLess
  <2> HIDE DEF Upto
  <2>5. \A T \in Upto(n) : h[T] = g[T]
    BY <2>2, <2>3
  <2>6. \A T \in Upto(n + 1) : h[T] = IF T = {} THEN 0 ELSE f[OneOf(T)] + h[T \ {OneOf(T)}]
    BY <2>4, <2>5
  <2> HIDE DEF more
  <2>7. h = [T \in Upto(n + 1) |-> IF T = {} THEN 0 ELSE f[OneOf(T)] + h[T \ {OneOf(T)}]]
    <3>1. h = [T \in Upto(n + 1) |-> h[T]]
      OBVIOUS
    <3> HIDE DEF h
    <3> QED
      BY <2>6, <3>1
  <2> HIDE DEF h
  <2>8. SumsTo(S, f, n + 1, h)
    BY <2>7, Zenon DEF SumsTo, Upto
  <2> QED
    BY <2>8
<1>3. Cardinality(S) \in Good
  <2> HIDE DEF Good
  <2>1. \A n \in Nat : n \in Good
    BY <1>1, <1>2, Induction
  <2> QED
    BY <2>1, FS_CardinalityType
<1>4. SUBSET S = Upto(Cardinality(S))
  BY FS_Subset
<1>5. PICK g : SumsTo(S, f, Cardinality(S), g)
  BY <1>3
<1>6. Sums(S, f, g)
  BY <1>4, <1>5, Zenon DEF Sums, SumsTo
<1> QED
  BY <1>6

\* Any index may be the first.
AnyFirst(S, f, g) ==
  /\ \A T \in SUBSET S : g[T] \in Nat
  /\ \A T \in SUBSET S : \A x \in T : g[T] = f[x] + g[T \ {x}]

LEMMA SumsAny ==
  ASSUME NEW S, IsFiniteSet(S), NEW f, \A x \in S : f[x] \in Nat, NEW g, Sums(S, f, g)
  PROVE  AnyFirst(S, f, g)
<1>1. /\ g[{}] = 0
      /\ \A T \in SUBSET S : T # {} => g[T] = f[OneOf(T)] + g[T \ {OneOf(T)}]
  BY DEF Sums
<1> DEFINE Fine(T) == g[T] \in Nat /\ \A x \in T : g[T] = f[x] + g[T \ {x}]
           Good == {n \in Nat : \A T \in SUBSET S : Cardinality(T) <= n => Fine(T)}
<1>2. 0 \in Good
  <2>1. ASSUME NEW T \in SUBSET S, Cardinality(T) <= 0 PROVE T = {}
    <3>1. ASSUME NEW x \in T PROVE FALSE
      <4>1. T \in SUBSET S /\ Cardinality(T) <= 0
        BY <2>1
      <4>2. Cardinality(T \ {x}) \in Nat /\ Cardinality(T) = Cardinality(T \ {x}) + 1
        BY <4>1, OneLess, Zenon
      <4> QED
        BY <4>1, <4>2
    <3> QED
      BY <3>1
  <2> QED
    BY <1>1, <2>1
<1>3. ASSUME NEW n \in Nat, n \in Good PROVE n + 1 \in Good
  <2> SUFFICES ASSUME NEW T \in SUBSET S, Cardinality(T) <= n + 1, T # {} PROVE Fine(T)
    BY <1>1
  <2>1. ASSUME NEW x \in T PROVE T \ {x} \in SUBSET S /\ Cardinality(T \ {x}) <= n
    BY OneLess
  <2>2. \A x \in T : Fine(T \ {x})
    BY <1>3, <2>1
  <2> DEFINE y == OneOf(T)
  <2>4. y \in T /\ g[T] = f[y] + g[T \ {y}]
    BY <1>1, OneOfIs
  <2> HIDE DEF y
  <2>5. g[T] \in Nat
    BY <2>2, <2>4
  <2>6. ASSUME NEW x \in T PROVE g[T] = f[x] + g[T \ {x}]
    <3>1. CASE x = y
      BY <2>4, <3>1
    <3>2. CASE x # y
      <4>1. g[T \ {y}] = f[x] + g[(T \ {y}) \ {x}] /\ g[T \ {x}] = f[y] + g[(T \ {x}) \ {y}]
        BY <2>2, <2>4, <3>2
      <4>2. (T \ {y}) \ {x} = (T \ {x}) \ {y}
        OBVIOUS
      <4>3. g[(T \ {x}) \ {y}] \in Nat
        <5>1. T \ {x} \in SUBSET S /\ y \in T \ {x} /\ (T \ {x}) \ {y} \in SUBSET S
          BY <2>1, <2>4, <3>2
        <5>2. Cardinality((T \ {x}) \ {y}) <= n
          <6> DEFINE R == T \ {x}
          <6>1. R \in SUBSET S /\ y \in R /\ Cardinality(R) <= n
            BY <2>1, <5>1
          <6> HIDE DEF R
          <6>2. Cardinality(R \ {y}) \in Nat /\ Cardinality(R) = Cardinality(R \ {y}) + 1
            BY <6>1, OneLess, Zenon
          <6> QED
            BY <6>1, <6>2 DEF R
        <5> QED
          BY <1>3, <5>1, <5>2
      <4>4. f[x] \in Nat /\ f[y] \in Nat
        BY <2>4
      <4> DEFINE r == g[(T \ {x}) \ {y}]
                 a == g[T \ {y}]
                 b == g[T \ {x}]
      <4>5. g[T] = f[y] + a /\ a = f[x] + r /\ b = f[y] + r /\ r \in Nat
        BY <2>4, <4>1, <4>2, <4>3
      <4>6. g[T] = f[x] + b
        <5> HIDE DEF r, a, b
        <5> QED
          BY <4>4, <4>5
      <4> QED
        BY <4>6
    <3> QED
      BY <3>1, <3>2
  <2> QED
    BY <2>5, <2>6
<1>4. ASSUME NEW T \in SUBSET S PROVE Fine(T)
  <2>1. \A n \in Nat : n \in Good
    <3> HIDE DEF Good
    <3> QED
      BY <1>2, <1>3, Induction
  <2>2. Cardinality(T) \in Nat
    BY FS_Subset, FS_CardinalityType
  <2> QED
    BY <2>1, <2>2
<1> QED
  BY <1>4 DEF AnyFirst

\* The sum of a sequence is its last partial sum.
LEMMA SumIs ==
  ASSUME NEW n \in Nat, NEW f, f = [k \in 1..n |-> f[k]], \A k \in 1..n : f[k] \in Nat,
         NEW h, h[0] = 0, \A k \in 1..n : h[k] = h[k - 1] + f[k]
  PROVE  SumFunction(f) = h[n] /\ h[n] \in Nat
<1> DEFINE S == 1..n
           from(g) == [T \in SUBSET S |-> IF T = {} THEN 0 ELSE f[OneOf(T)] + g[T \ {OneOf(T)}]]
           sums == CHOOSE g : g = from(g)
<1>1. DOMAIN f = S /\ IsFiniteSet(S) /\ \A k \in S : f[k] \in Nat
  <2>1. 1 \in Int /\ n \in Int
    OBVIOUS
  <2>2. IsFiniteSet(1..n)
    BY <2>1, FS_Interval, Zenon
  <2>3. DOMAIN [k \in 1..n |-> f[k]] = 1..n
    OBVIOUS
  <2> QED
    BY <2>2, <2>3
<1>2. SumFunction(f) = sums[S]
  BY <1>1 DEF SumFunction, SumFunctionOnSet, FoldFunctionOnSet, MapThenFoldSet, OneOf
<1>3. \E g : g = from(g)
  <2>1. PICK g : Sums(S, f, g)
    BY <1>1, SumsExist
  <2> QED
    BY <2>1, Zenon DEF Sums
<1>4. sums = from(sums)
  BY <1>3
<1> HIDE DEF sums
<1>5. Sums(S, f, sums)
  BY <1>4 DEF Sums
<1>6. /\ \A T \in SUBSET S : sums[T] \in Nat
      /\ \A T \in SUBSET S : \A x \in T : sums[T] = f[x] + sums[T \ {x}]
  <2> HIDE DEF S
  <2>1. AnyFirst(S, f, sums)
    BY <1>1, <1>5, SumsAny, Zenon
  <2> QED
    BY <2>1 DEF AnyFirst
<1> DEFINE Agree == {k \in Nat : k <= n => sums[1..k] = h[k]}
<1>7. 0 \in Agree
  <2>1. sums[{}] = 0 /\ 1..0 = {}
    BY <1>5 DEF Sums
  <2> QED
    BY <2>1
<1>8. ASSUME NEW k \in Nat, k \in Agree PROVE k + 1 \in Agree
  <2> SUFFICES ASSUME k + 1 <= n PROVE sums[1..k + 1] = h[k + 1]
    OBVIOUS
  <2>1. 1..k + 1 \in SUBSET S /\ k + 1 \in 1..k + 1 /\ (1..k + 1) \ {k + 1} = 1..k /\ 1..k \in SUBSET S
    OBVIOUS
  <2>2. sums[1..k + 1] = f[k + 1] + sums[1..k] /\ sums[1..k] \in Nat
    BY <1>6, <2>1, Zenon
  <2>3. h[k + 1] = h[k] + f[k + 1] /\ sums[1..k] = h[k] /\ f[k + 1] \in Nat
    BY <1>8
  <2> QED
    BY <2>2, <2>3
<1>9. n \in Agree
  <2> HIDE DEF Agree
  <2> QED
    BY <1>7, <1>8, Induction
<1> QED
  BY <1>2, <1>6, <1>9

-----------------------------------------------------------------------------
(* Samples of many bits, slice by slice.                                    *)

LEMMA QuotientUnique ==
  ASSUME NEW d \in Nat \ {0}, NEW n \in Nat, NEW q \in Int, NEW r \in 0..d - 1, n = d * q + r
  PROVE  n \div d = q /\ n % d = r
<1> DEFINE a == n \div d
           b == n % d
<1>1. n = d * a + b /\ b \in 0..d - 1 /\ a \in Int
  BY QuotientIs
<1> HIDE DEF a, b
<1>2. (a < q => d * a + d <= d * q) /\ (q < a => d * q + d <= d * a)
  BY <1>1, Apart, Zenon
<1>3. a = q
  <2> DEFINE x == d * a
             y == d * q
  <2>1. x \in Int /\ y \in Int /\ n = x + b /\ n = y + r /\ (a < q => x + d <= y) /\ (q < a => y + d <= x)
    BY <1>1, <1>2
  <2> HIDE DEF x, y
  <2> QED
    BY <1>1, <2>1
<1>4. b = r
  BY <1>1, <1>3
<1> QED
  BY <1>3, <1>4 DEF a, b

LEMMA DivideTwice ==
  ASSUME NEW p \in Nat \ {0}, NEW q \in Nat \ {0}, NEW v \in Nat
  PROVE  (v \div p) \div q = v \div (p * q) /\ v % (p * q) = (v % p) + ((v \div p) % q) * p
<1> DEFINE a == v \div p
           r == v % p
           b == a \div q
           s == a % q
           x == p * s
           d == p * q
<1>1. v = p * a + r /\ r \in 0..p - 1 /\ a \in Nat
  BY QuotientIs
<1>2. a = q * b + s /\ s \in 0..q - 1 /\ b \in Nat
  <2> HIDE DEF a
  <2> QED
    BY <1>1, QuotientIs
<1> HIDE DEF a, r, b, s
<1>3. p * a = p * (q * b) + p * s
  BY <1>1, <1>2
<1>4. p * (q * b) = d * b
  BY <1>2
<1>5. x \in Nat /\ x + p <= d /\ d \in Nat \ {0}
  <2>1. s \in Int /\ q \in Int /\ s < q
    BY <1>2
  <2>2. p * s + p <= p * q
    BY <2>1, Apart, Zenon
  <2>3. p * s \in Nat /\ p * q \in Nat /\ p * q # 0
    BY <1>2
  <2> QED
    BY <2>2, <2>3
<1>6. s * p = x
  BY <1>2
<1>7. d * b \in Nat
  BY <1>2, <1>5
<1>8. p * a = d * b + x
  BY <1>3, <1>4
<1> HIDE DEF x, d
<1>9. v = d * b + (x + r) /\ x + r \in 0..d - 1
  <2> DEFINE e == d * b
             f == p * a
  <2>1. v = f + r /\ f = e + x /\ e \in Nat
    BY <1>1, <1>7, <1>8
  <2> HIDE DEF e, f
  <2>2. v = e + (x + r) /\ x + r \in 0..d - 1
    BY <1>1, <1>5, <2>1
  <2> QED
    BY <2>2 DEF e
<1>10. v \div d = b /\ v % d = x + r
  <2>1. b \in Int
    BY <1>2
  <2> QED
    BY <1>5, <1>9, <2>1, QuotientUnique, Zenon
<1>11. v % d = r + s * p
  BY <1>1, <1>5, <1>6, <1>10
<1> QED
  BY <1>10, <1>11 DEF a, r, b, s, d

LEMMA PowerSum ==
  ASSUME NEW a \in Nat, NEW b \in Nat
  PROVE  Power[a + b] = Power[a] * Power[b]
<1> DEFINE Fine == {n \in Nat : Power[a + n] = Power[a] * Power[n]}
<1>1. 0 \in Fine
  BY Powers
<1>2. ASSUME NEW n \in Nat, n \in Fine PROVE n + 1 \in Fine
  <2> DEFINE p == Power[a]
             q == Power[n]
  <2>1. p \in Nat /\ q \in Nat /\ Power[n + 1] = 2 * q
    BY Powers
  <2>2. Power[a + (n + 1)] = 2 * Power[a + n]
    <3>1. a + n \in Nat /\ a + (n + 1) = (a + n) + 1
      OBVIOUS
    <3> QED
      BY <3>1, Powers
  <2>3. Power[a + n] = p * q
    BY <1>2
  <2> HIDE DEF p, q
  <2>4. p * (2 * q) = 2 * (p * q)
    BY <2>1
  <2> QED
    BY <2>1, <2>2, <2>3, <2>4 DEF p
<1> HIDE DEF Fine
<1>3. b \in Fine
  BY <1>1, <1>2, Induction
<1> QED
  BY <1>3 DEF Fine

\* One slice more.
LEMMA PartIs ==
  ASSUME NEW v \in Nat, NEW i \in Nat \ {0}
  PROVE  /\ Part(v, i) \in Nat /\ Part(v, i) * Power[SliceBits * (i - 1)] \in Nat
         /\ v % Power[SliceBits * i]
              = (v % Power[SliceBits * (i - 1)]) + Part(v, i) * Power[SliceBits * (i - 1)]
<1>1. SliceBits \in Nat \ {0} /\ i - 1 \in Nat /\ SliceBits * (i - 1) \in Nat
      /\ SliceBits * i = SliceBits * (i - 1) + SliceBits
  BY WideAssumption
<1> DEFINE p == Power[SliceBits * (i - 1)]
           q == Power[SliceBits]
<1>2. p \in Nat \ {0} /\ q \in Nat \ {0}
  BY <1>1, PowersPositive
<1>3. Power[SliceBits * i] = p * q
  <2> DEFINE a == SliceBits * (i - 1)
  <2>1. a \in Nat /\ SliceBits * i = a + SliceBits /\ SliceBits \in Nat
    BY <1>1
  <2> HIDE DEF a
  <2>2. Power[SliceBits * i] = Power[a] * Power[SliceBits]
    BY <2>1, PowerSum
  <2> QED
    BY <2>2 DEF a
<1>4. Part(v, i) = (v \div p) % q
  BY DEF Part
<1> HIDE DEF p, q
<1>5. v % (p * q) = (v % p) + ((v \div p) % q) * p
  BY <1>2, DivideTwice, Zenon
<1>6. (v \div p) % q \in Nat
  <2>1. v \div p \in Nat
    BY <1>2, QuotientIs, Zenon
  <2>2. (v \div p) % q \in 0..q - 1
    BY <1>2, <2>1, QuotientIs, Zenon
  <2> QED
    BY <1>2, <2>2
<1>7. Part(v, i) * p \in Nat
  <2> DEFINE x == Part(v, i)
  <2>1. x \in Nat
    BY <1>4, <1>6
  <2> HIDE DEF x
  <2>2. x * p \in Nat
    BY <1>2, <2>1
  <2> QED
    BY <2>2 DEF x
<1> QED
  BY <1>3, <1>4, <1>5, <1>6, <1>7 DEF p

\* The slices of wide_layout hold every bit, and no slice is empty.
LEMMA SliceCountIs ==
  ASSUME NEW bits \in Nat \ {0}
  PROVE  /\ SliceCount(bits) \in Nat \ {0} /\ bits <= SliceBits * SliceCount(bits)
         /\ (SliceCount(bits) - 1) * SliceBits \in Nat /\ (SliceCount(bits) - 1) * SliceBits < bits
         /\ (SliceCount(bits) - 1) * SliceBits = SliceBits * (SliceCount(bits) - 1)
<1> DEFINE n == bits + SliceBits - 1
           q == n \div SliceBits
           r == n % SliceBits
<1>1. SliceBits \in Nat \ {0} /\ n \in Nat
  BY WideAssumption
<1>2. n = SliceBits * q + r /\ r \in 0..SliceBits - 1 /\ q \in Nat
  <2> HIDE DEF n
  <2> QED
    BY <1>1, QuotientIs
<1>3. SliceCount(bits) = q
  BY DEF SliceCount
<1> HIDE DEF q, r
<1> DEFINE x == SliceBits * q
<1>4. x \in Nat /\ n = x + r
  BY <1>1, <1>2
<1>5. (q - 1) * SliceBits = x - SliceBits /\ SliceBits * (q - 1) = x - SliceBits
  BY <1>1, <1>2
<1>6. q # 0
  <2>1. q = 0 => x = 0
    BY <1>1
  <2> HIDE DEF x
  <2> QED
    BY <1>1, <1>2, <1>4, <2>1
<1>7. x - SliceBits \in Nat
  <2>1. (q - 1) * SliceBits \in Nat
    BY <1>1, <1>2, <1>6
  <2> QED
    BY <1>5, <2>1
<1>8. bits <= x /\ x - SliceBits < bits
  <2> HIDE DEF x
  <2> QED
    BY <1>1, <1>2, <1>4
<1> QED
  BY <1>2, <1>3, <1>5, <1>6, <1>7, <1>8

\* A sample of so many bits is the sum of its slices, and its last slice has
\* the bits that are left.
LEMMA SlicesMakeSample ==
  ASSUME NEW bits \in Nat \ {0}, NEW v \in Nat, v < Power[bits], NEW n, n = SliceCount(bits)
  PROVE  /\ SumFunction([i \in 1..n |-> Part(v, i) * Power[SliceBits * (i - 1)]]) = v
         /\ Part(v, n) <= Power[bits - (n - 1) * SliceBits] - 1
<1>1. /\ n \in Nat \ {0} /\ bits <= SliceBits * n /\ (n - 1) * SliceBits \in Nat
      /\ (n - 1) * SliceBits < bits /\ (n - 1) * SliceBits = SliceBits * (n - 1)
      /\ SliceBits \in Nat \ {0}
  BY SliceCountIs, WideAssumption
<1>2. SumFunction([i \in 1..n |-> Part(v, i) * Power[SliceBits * (i - 1)]]) = v
  <2> DEFINE f == [i \in 1..n |-> Part(v, i) * Power[SliceBits * (i - 1)]]
             h == [i \in 0..n |-> v % Power[SliceBits * i]]
  <2>1. f = [i \in 1..n |-> f[i]] /\ \A i \in 1..n : f[i] \in Nat
    <3>1. \A i \in 1..n : Part(v, i) * Power[SliceBits * (i - 1)] \in Nat
      BY PartIs
    <3> QED
      BY <3>1
  <2>2. h[0] = 0
    <3>1. SliceBits * 0 = 0 /\ v % 1 = 0 /\ Power[0] = 1
      BY <1>1, Powers
    <3> QED
      BY <1>1, <3>1
  <2>3. ASSUME NEW i \in 1..n PROVE h[i] = h[i - 1] + f[i]
    <3>1. i \in Nat \ {0} /\ i \in 0..n /\ i - 1 \in 0..n
      BY <1>1
    <3>2. v % Power[SliceBits * i]
            = (v % Power[SliceBits * (i - 1)]) + Part(v, i) * Power[SliceBits * (i - 1)]
      BY <3>1, PartIs
    <3> QED
      BY <3>1, <3>2
  <2>4. h[n] = v
    <3>1. SliceBits * n \in Nat /\ Power[bits] <= Power[SliceBits * n] /\ Power[SliceBits * n] \in Nat \ {0}
      <4> DEFINE m == SliceBits * n
      <4>1. m \in Nat /\ bits <= m
        BY <1>1
      <4> HIDE DEF m
      <4>2. Power[bits] <= Power[m] /\ Power[m] \in Nat \ {0}
        BY <4>1, PowersGrow, PowersPositive
      <4> QED
        BY <4>1, <4>2 DEF m
    <3> DEFINE p == Power[SliceBits * n]
    <3>2. Power[bits] \in Nat
      BY PowersPositive
    <3>3. p \in Nat \ {0} /\ v \in 0..p - 1
      BY <3>1, <3>2
    <3> HIDE DEF p
    <3>4. v % p = v
      BY <3>3, ModSame, Zenon
    <3>5. n \in 0..n
      BY <1>1
    <3> QED
      BY <3>4, <3>5 DEF p
  <2>5. n \in Nat
    BY <1>1
  <2> HIDE DEF f, h
  <2>6. SumFunction(f) = h[n]
    BY <2>1, <2>2, <2>3, <2>5, SumIs
  <2> QED
    BY <2>4, <2>6 DEF f
<1>3. Part(v, n) <= Power[bits - (n - 1) * SliceBits] - 1
  <2> DEFINE low == (n - 1) * SliceBits
             t == Power[bits - low]
             p == Power[low]
             q == Power[SliceBits]
             a == v \div p
  <2>1. low \in Nat /\ bits - low \in Nat /\ (bits - low) + low = bits
    BY <1>1
  <2>2. Power[bits] = t * p
    <3> HIDE DEF low
    <3> QED
      BY <2>1, PowerSum
  <2>3. t \in Nat \ {0} /\ p \in Nat \ {0} /\ q \in Nat \ {0}
    <3> HIDE DEF low
    <3> QED
      BY <1>1, <2>1, PowersPositive
  <2>4. Part(v, n) = a % q
    BY <1>1 DEF Part
  <2> HIDE DEF low, t, p, q
  <2>5. v \in 0..t * p - 1
    <3>1. t * p \in Nat
      BY <2>3
    <3> QED
      BY <2>2, <3>1
  <2>6. a \in 0..t - 1
    BY <2>3, <2>5, QuotientBelow
  <2> HIDE DEF a
  <2>7. a % q <= a
    <3>1. a \in Nat
      BY <2>3, <2>6
    <3>2. a = q * (a \div q) + (a % q) /\ a % q \in 0..q - 1 /\ a \div q \in Nat
      BY <2>3, <3>1, QuotientIs
    <3> DEFINE b == a \div q
               c == a % q
    <3>3. a = q * b + c /\ b \in Nat /\ c \in Int
      BY <2>3, <3>2
    <3> HIDE DEF b, c
    <3>4. q * b \in Nat
      BY <2>3, <3>3
    <3>5. c <= a
      BY <3>1, <3>3, <3>4
    <3> QED
      BY <3>5 DEF c
  <2>8. a % q \in Int
    BY <2>3, <2>6
  <2>9. a % q <= t - 1
    BY <2>3, <2>6, <2>7, <2>8
  <2> QED
    BY <2>4, <2>9 DEF t, low
<1> QED
  BY <1>2, <1>3

LEMMA AppendedHas ==
  ASSUME NEW S, NEW n \in Nat, NEW vals, NEW f, \A k \in 1..n : vals[k] \in S, Appended(n, vals, f)
  PROVE  f[n] = [k \in 1..n |-> vals[k]] /\ f[n] \in Seq(S)
<1> DEFINE Done == {k \in Nat : k <= n => /\ f[k] \in Seq(S) /\ Len(f[k]) = k
                                          /\ \A i \in 1..k : f[k][i] = vals[i]}
<1>1. \A k \in 0..n : f[k] = IF k = 0 THEN <<>> ELSE Append(f[k - 1], vals[k])
  BY DEF Appended
<1>2. 0 \in Done
  <2>1. 0 \in 0..n
    OBVIOUS
  <2>2. f[0] = <<>>
    BY <1>1, <2>1
  <2>3. <<>> \in Seq(S) /\ Len(<<>>) = 0
    OBVIOUS
  <2>4. \A i \in 1..0 : f[0][i] = vals[i]
    OBVIOUS
  <2>5. f[0] \in Seq(S) /\ Len(f[0]) = 0
    BY <2>2, <2>3
  <2> QED
    BY <2>4, <2>5
<1>3. ASSUME NEW k \in Nat, k \in Done, k + 1 <= n
      PROVE  /\ f[k + 1] \in Seq(S) /\ Len(f[k + 1]) = k + 1
             /\ \A i \in 1..k + 1 : f[k + 1][i] = vals[i]
  <2>1. k + 1 \in 0..n /\ k + 1 # 0 /\ (k + 1) - 1 = k /\ k + 1 \in 1..n /\ k <= n
    BY <1>3
  <2> DEFINE a == f[k]
             x == vals[k + 1]
  <2>2. f[k + 1] = Append(a, x)
    BY <1>1, <2>1
  <2>3. a \in Seq(S) /\ Len(a) = k /\ x \in S /\ \A i \in 1..k : a[i] = vals[i]
    BY <1>3, <2>1
  <2>4. \A i \in 1..k + 1 : vals[i] = IF i = k + 1 THEN x ELSE vals[i]
    OBVIOUS
  <2>5. \A i \in 1..k + 1 : i = k + 1 \/ i \in 1..k
    OBVIOUS
  <2> HIDE DEF a, x
  <2>6. Append(a, x) \in Seq(S) /\ Len(Append(a, x)) = k + 1 /\ Append(a, x)[k + 1] = x
        /\ \A i \in 1..k : Append(a, x)[i] = a[i]
    BY <2>3
  <2> QED
    BY <2>2, <2>3, <2>4, <2>5, <2>6
<1>4. \A k \in Nat : k \in Done
  <2>1. \A k \in Nat : k \in Done => k + 1 \in Done
    BY <1>3
  <2> HIDE DEF Done
  <2> QED
    BY <1>2, <2>1, Induction, Zenon
<1>5. f[n] \in Seq(S) /\ Len(f[n]) = n /\ \A i \in 1..n : f[n][i] = vals[i]
  BY <1>4
<1> QED
  BY <1>5

-----------------------------------------------------------------------------
(* Wide samples: what append_wide_payload writes, wide_payload_decode takes *)
(* and gives back.                                                          *)

\* Rows of whole pixels.
WidePlane(channels) ==
  /\ shape.w \in Nat \ {0} /\ shape.h \in Nat \ {0} /\ channels \in Nat \ {0}
  /\ shape.w % channels = 0 /\ plane \in [Indices -> Nat]

LEMMA WidePlaneIs ==
  ASSUME NEW channels, WidePlane(channels)
  PROVE  /\ W \div channels \in Nat /\ (W \div channels) * shape.h * channels = Size /\ Size \in Nat \ {0}
         /\ \A n \in Cells : plane[n - 1] \in Nat
<1> DEFINE w == shape.w
           h == shape.h
           d == w \div channels
<1>1. w \in Nat \ {0} /\ h \in Nat \ {0} /\ channels \in Nat \ {0} /\ w % channels = 0
  BY DEF WidePlane
<1>2. W = w /\ Size = w * h
  BY DEF W, Size
<1> HIDE DEF w, h
<1>3. w = channels * d /\ d \in Nat
  <2>1. w = channels * d + (w % channels) /\ d \in Nat
    BY <1>1, QuotientIs, Zenon
  <2> HIDE DEF d
  <2>2. channels * d \in Nat
    BY <1>1, <2>1
  <2> QED
    BY <1>1, <2>1, <2>2
<1> HIDE DEF d
<1>4. d * h * channels = (channels * d) * h
  BY <1>1, <1>3
<1>5. d * h * channels = Size /\ Size \in Nat \ {0}
  <2>1. w * h \in Nat \ {0}
    BY <1>1
  <2> QED
    BY <1>2, <1>3, <1>4, <2>1
<1>6. \A n \in Cells : plane[n - 1] \in Nat
  <2>1. \A n \in Cells : n - 1 \in Indices
    BY <1>5 DEF Cells, Indices
  <2> QED
    BY <2>1 DEF WidePlane
<1> QED
  BY <1>2, <1>3, <1>5, <1>6 DEF d, h, w

LEMMA FirstThree ==
  ASSUME NEW S, NEW s \in Seq(S), Len(s) >= 3
  PROVE  SubSeq(s, 1, 3) = <<s[1], s[2], s[3]>>
<1> DEFINE p == SubSeq(s, 1, 3)
           a == s[1]
           b == s[2]
           c == s[3]
<1>1. p = [k \in 1..3 |-> p[k]] /\ p[1] = a /\ p[2] = b /\ p[3] = c
  OBVIOUS
<1> HIDE DEF p, a, b, c
<1>2. p = <<a, b, c>>
  BY <1>1
<1> QED
  BY <1>2 DEF p, a, b, c

LEMMA SliceStreamIs ==
  ASSUME NEW channels, WidePlane(channels), NEW i \in Nat \ {0}
  PROVE  /\ SliceStream(channels, i) \in Seq(Nat) /\ Len(SliceStream(channels, i)) = 3 + Size
         /\ stream_decode(SliceStream(channels, i), W \div channels, shape.h, channels) = PlaneSlice(i)
         /\ PlaneSlice(i) \in Seq(Nat)
<1> DEFINE n == Size
           d == W \div channels
           h == shape.h
           a == <<d, h, channels>>
           b == PlaneSlice(i)
           s == SliceStream(channels, i)
<1>1. n \in Nat \ {0} /\ d \in Nat /\ h \in Nat /\ channels \in Nat /\ d * h * channels = n
  BY WidePlaneIs DEF WidePlane
<1>2. s = a \o b
  BY DEF SliceStream, stream_encode
<1>3. stream_decode(s, d, h, channels) = IF Len(s) # 3 + d * h * channels \/ SubSeq(s, 1, 3) # <<d, h, channels>>
                                         THEN Refused ELSE SubSeq(s, 4, Len(s))
  BY Zenon DEF stream_decode
<1>4. b = [k \in 1..n |-> b[k]] /\ \A k \in 1..n : b[k] \in Nat
  <2>1. b = [k \in 1..n |-> Part(plane[k - 1], i)]
    BY DEF PlaneSlice, Cells
  <2>2. \A k \in 1..n : Part(plane[k - 1], i) \in Nat
    <3>1. \A k \in 1..n : plane[k - 1] \in Nat
      BY WidePlaneIs DEF Cells
    <3> HIDE DEF n
    <3> QED
      BY <3>1, PartIs
  <2> HIDE DEF b, n
  <2> QED
    BY <2>1, <2>2
<1> HIDE DEF n, d, h, b, s
<1>5. a \in Seq(Nat) /\ Len(a) = 3
  BY <1>1
<1>6. b \in Seq(Nat) /\ Len(b) = n
  BY <1>1, <1>4, SeqMade
<1>7. a[1] = d /\ a[2] = h /\ a[3] = channels
  OBVIOUS
<1> HIDE DEF a
<1>8. s \in Seq(Nat) /\ Len(s) = 3 + n /\ \A k \in 1..3 + n : s[k] = IF k <= 3 THEN a[k] ELSE b[k - 3]
  <2>1. a \o b \in Seq(Nat) /\ Len(a \o b) = Len(a) + Len(b)
        /\ \A k \in 1..Len(a) + Len(b) : (a \o b)[k] = IF k <= Len(a) THEN a[k] ELSE b[k - Len(a)]
    BY <1>5, <1>6, ConcatProperties, Zenon
  <2> QED
    BY <1>2, <1>5, <1>6, <2>1
<1>9. SubSeq(s, 1, 3) = <<d, h, channels>>
  <2>1. SubSeq(s, 1, 3) = <<s[1], s[2], s[3]>>
    <3>1. s \in Seq(Nat) /\ Len(s) >= 3
      BY <1>1, <1>8
    <3> QED
      BY <3>1, FirstThree
  <2>2. s[1] = a[1] /\ s[2] = a[2] /\ s[3] = a[3]
    <3>1. 1 \in 1..3 + n /\ 2 \in 1..3 + n /\ 3 \in 1..3 + n
      BY <1>1
    <3> QED
      BY <1>8, <3>1
  <2> QED
    BY <1>7, <2>1, <2>2
<1>10. SubSeq(s, 4, Len(s)) = b
  <2>1. SubSeq(s, 4, 3 + n) = [k \in 1..n |-> s[4 + k - 1]]
    BY <1>1, <1>8
  <2>2. \A k \in 1..n : s[4 + k - 1] = b[k]
    <3> TAKE k \in 1..n
    <3>1. 4 + k - 1 \in 1..3 + n /\ ~ (4 + k - 1 <= 3) /\ (4 + k - 1) - 3 = k
      BY <1>1
    <3> QED
      BY <1>8, <3>1
  <2> QED
    BY <1>4, <1>8, <2>1, <2>2
<1>11. stream_decode(s, d, h, channels) = b
  BY <1>1, <1>3, <1>8, <1>9, <1>10
<1> QED
  BY <1>6, <1>8, <1>11 DEF n, d, h, b, s

LEMMA SliceStreamsAre ==
  ASSUME NEW channels, WidePlane(channels), NEW count \in Nat
  PROVE  SliceStreams(count, channels) = [i \in 1..count |-> SliceStream(channels, i)]
<1> DEFINE vals == [i \in 1..count |-> SliceStream(channels, i)]
           made(g) == [k \in 0..count |->
                        IF k = 0 THEN <<>> ELSE LET before == g[k - 1] IN Append(before, SliceStream(channels, k))]
           f == CHOOSE g : g = made(g)
<1>1. SliceStreams(count, channels) = f[count]
  BY Zenon DEF SliceStreams, Each, Grown, SliceStream
<1>2. \A k \in 1..count : vals[k] \in Seq(Nat)
  BY SliceStreamIs
<1>3. \A k \in 1..count : vals[k] = SliceStream(channels, k)
  OBVIOUS
<1>4. vals = [k \in 1..count |-> vals[k]]
  OBVIOUS
<1> HIDE DEF vals
<1>5. ASSUME NEW g PROVE Appended(count, vals, g) <=> g = made(g)
  <2> DEFINE other == [k \in 0..count |-> IF k = 0 THEN <<>> ELSE Append(g[k - 1], vals[k])]
  <2>1. ASSUME NEW k \in 0..count
        PROVE  (IF k = 0 THEN <<>> ELSE Append(g[k - 1], vals[k]))
                 = (IF k = 0 THEN <<>> ELSE Append(g[k - 1], SliceStream(channels, k)))
    <3>1. k # 0 => k \in 1..count
      OBVIOUS
    <3> QED
      BY <1>3, <3>1
  <2>2. other = made(g)
    BY <2>1
  <2> QED
    BY <2>2 DEF Appended
<1>6. \E g : g = made(g)
  BY <1>5, AppendedExists
<1>7. f = made(f)
  BY <1>6
<1> HIDE DEF f
<1>8. Appended(count, vals, f)
  BY <1>5, <1>7
<1>9. f[count] = [k \in 1..count |-> vals[k]]
  <2> DEFINE Q == Seq(Nat)
  <2>1. \A k \in 1..count : vals[k] \in Q
    BY <1>2
  <2> HIDE DEF Q
  <2>2. f[count] = [k \in 1..count |-> vals[k]] /\ f[count] \in Seq(Q)
    BY <1>8, <2>1, AppendedHas
  <2> QED
    BY <2>2
<1> QED
  BY <1>1, <1>4, <1>9 DEF vals

\* Where the head, the lengths and the streams stand: f[k] is the first k
\* streams after each other.
WideLies(s, bits, channels, f) ==
  LET count == SliceCount(bits)
  IN  /\ \E T : s \in Seq(T)
      /\ s[1] = "QSW1" /\ s[2] = 0 /\ s[3] = bits /\ s[4] = channels /\ s[5] = count /\ s[7] = 0
      /\ s[6] = [n \in Cells |-> plane[n - 1]]
      /\ \A i \in 1..count : s[7 + i] = 3 + Size
      /\ f \in [0..count -> Seq(Nat)] /\ f[0] = <<>>
      /\ \A k \in 1..count : /\ Len(f[k]) = Len(f[k - 1]) + (3 + Size) /\ Len(f[k]) <= Len(f[count])
                             /\ \A i \in 1..3 + Size : f[count][Len(f[k - 1]) + i] = SliceStream(channels, k)[i]
      /\ Len(s) = 7 + count + Len(f[count])
      /\ \A j \in 1..Len(f[count]) : s[7 + count + j] = f[count][j]

LEMMA HeadOfSeven ==
  ASSUME NEW T, NEW x1 \in T, NEW x2 \in T, NEW x3 \in T, NEW x4 \in T, NEW x5 \in T, NEW x6 \in T, NEW x7 \in T,
         NEW a, a = <<x1, x2, x3, x4, x5, x6, x7>>
  PROVE  /\ a \in Seq(T) /\ Len(a) = 7 /\ a[1] = x1 /\ a[2] = x2 /\ a[3] = x3 /\ a[4] = x4 /\ a[5] = x5
         /\ a[6] = x6 /\ a[7] = x7
OBVIOUS

LEMMA WidePayloadLies ==
  ASSUME NEW bits \in Nat, NEW channels, WidePlane(channels), append_wide_payload(bits, channels) # Refused
  PROVE  /\ \E f : WideLies(append_wide_payload(bits, channels), bits, channels, f)
         /\ bits \in WideBits(SliceBits) /\ channels \in WideChannels
         /\ bits \in Nat \ {0} /\ \A n \in Cells : plane[n - 1] \in Nat /\ plane[n - 1] < Power[bits]
<1> DEFINE count == SliceCount(bits)
           streams == SliceStreams(count, channels)
           checksum == [n \in Cells |-> plane[n - 1]]
           a == <<"QSW1", 0, bits, channels, Len(streams), checksum, 0>>
           b == [i \in DOMAIN streams |-> Len(streams[i])]
           c == FlattenSeq(streams)
           s == append_wide_payload(bits, channels)
<1>1. /\ s = (a \o b) \o c
      /\ bits \in WideBits(SliceBits) /\ channels \in WideChannels /\ ~ TooWide(bits)
  BY Zenon DEF append_wide_payload, SliceStreams
<1>2. bits \in Nat \ {0}
  <2>1. SliceBits \in Nat \ {0}
    BY WideAssumption
  <2> QED
    BY <1>1, <2>1 DEF WideBits
<1>3. \A n \in Cells : plane[n - 1] \in Nat /\ plane[n - 1] < Power[bits]
  <2>1. Power[bits] \in Nat
    BY PowersPositive
  <2>2. \A n \in Cells : plane[n - 1] \in Nat
    BY WidePlaneIs, Zenon
  <2>3. \A n \in Cells : ~ (plane[n - 1] >= Power[bits])
    BY <1>1 DEF TooWide
  <2> QED
    BY <2>1, <2>2, <2>3
<1>4. count \in Nat
  BY <1>2, SliceCountIs
<1>5. Size \in Nat
  BY WidePlaneIs
<1> DEFINE parts == [i \in 1..count |-> SliceStream(channels, i)]
<1>6. streams = parts
  <2> HIDE DEF count
  <2> QED
    BY <1>4, SliceStreamsAre, Zenon
<1>7. \A i \in 1..count : parts[i] = SliceStream(channels, i) /\ parts[i] \in Seq(Nat) /\ Len(parts[i]) = 3 + Size
  <2>1. \A i \in 1..count : parts[i] = SliceStream(channels, i)
    OBVIOUS
  <2>2. \A i \in 1..count : i \in Nat \ {0}
    BY <1>4
  <2> HIDE DEF parts, count
  <2>3. \A i \in 1..count : SliceStream(channels, i) \in Seq(Nat) /\ Len(SliceStream(channels, i)) = 3 + Size
    BY <2>2, SliceStreamIs
  <2> QED
    BY <2>1, <2>3
<1>8. parts = [i \in 1..count |-> parts[i]] /\ DOMAIN parts = 1..count
  OBVIOUS
<1> HIDE DEF count, streams, parts
<1>9. Len(streams) = count
  <2>1. streams = [i \in 1..count |-> streams[i]]
    BY <1>6, <1>8
  <2> QED
    BY <1>4, <1>6, <1>7, <2>1, SeqMade
<1>10. PICK f : InPlace(Nat, count, parts, f, c)
  BY <1>4, <1>6, <1>7, <1>8, AllInPlace
<1>11. f \in [0..count -> Seq(Nat)] /\ f[0] = <<>> /\ c = f[count] /\ c \in Seq(Nat)
  <2>1. f \in [0..count -> Seq(Nat)] /\ f[0] = <<>> /\ c = f[count]
    BY <1>10, Zenon DEF InPlace
  <2> HIDE DEF c
  <2> QED
    BY <1>4, <2>1
<1>12. \A k \in 1..count : /\ Len(f[k]) = Len(f[k - 1]) + (3 + Size) /\ Len(f[k]) <= Len(f[count])
                           /\ \A i \in 1..3 + Size : f[count][Len(f[k - 1]) + i] = SliceStream(channels, k)[i]
  <2> TAKE k \in 1..count
  <2>1. Placed(f, parts, f[count], k)
    BY <1>10, <1>11, Zenon DEF InPlace
  <2>2. parts[k] = SliceStream(channels, k) /\ Len(parts[k]) = 3 + Size
    BY <1>7
  <2> QED
    BY <2>1, <2>2 DEF Placed
<1>13. /\ b = [i \in 1..count |-> 3 + Size]
  BY <1>6, <1>7, <1>8
<1> DEFINE T == Nat \cup {"QSW1", bits, channels, checksum}
<1>14. a \in Seq(T) /\ Len(a) = 7 /\ a[1] = "QSW1" /\ a[2] = 0 /\ a[3] = bits /\ a[4] = channels /\ a[5] = count
       /\ a[6] = checksum /\ a[7] = 0
  <2>1. "QSW1" \in T /\ 0 \in T /\ bits \in T /\ channels \in T /\ count \in T /\ checksum \in T
    BY <1>4
  <2>2. a = <<"QSW1", 0, bits, channels, count, checksum, 0>>
    BY <1>9, Zenon
  <2> HIDE DEF T, checksum, a
  <2> QED
    BY <2>1, <2>2, HeadOfSeven
<1>15. b \in Seq(T) /\ Len(b) = count /\ \A i \in 1..count : b[i] = 3 + Size
  <2>1. b = [i \in 1..count |-> b[i]] /\ \A i \in 1..count : b[i] = 3 + Size
    BY <1>13
  <2>2. 3 + Size \in T
    BY <1>5
  <2> HIDE DEF b, T
  <2> QED
    BY <1>4, <2>1, <2>2, SeqMade
<1>16. c \in Seq(T)
  <2>1. Nat \subseteq T
    OBVIOUS
  <2> HIDE DEF T, c
  <2> QED
    BY <1>11, <2>1, WiderSeq
<1>17. s = (a \o b) \o c
  BY <1>1
<1> HIDE DEF a, b, c, T, s
<1>18. /\ s \in Seq(T) /\ Len(s) = Len(a) + Len(b) + Len(c)
       /\ \A i \in 1..Len(a) : s[i] = a[i]
       /\ \A i \in 1..Len(b) : s[Len(a) + i] = b[i]
       /\ \A i \in 1..Len(c) : s[Len(a) + Len(b) + i] = c[i]
  <2>1. Followed(T, a, b, c, (a \o b) \o c)
    BY <1>14, <1>15, <1>16, ThreeParts
  <2> QED
    BY <1>17, <2>1, Zenon DEF Followed
<1>19. /\ s[1] = "QSW1" /\ s[2] = 0 /\ s[3] = bits /\ s[4] = channels /\ s[5] = count /\ s[7] = 0
       /\ s[6] = checksum
  <2>1. \A i \in 1..7 : s[i] = a[i]
    BY <1>14, <1>18
  <2> HIDE DEF checksum
  <2> QED
    BY <1>14, <2>1
<1>20. /\ \A i \in 1..count : s[7 + i] = 3 + Size
       /\ Len(s) = 7 + count + Len(f[count])
       /\ \A j \in 1..Len(f[count]) : s[7 + count + j] = f[count][j]
  BY <1>11, <1>14, <1>15, <1>18
<1>21. WideLies(s, bits, channels, f)
  <2> HIDE DEF checksum
  <2>1. s[6] = [n \in Cells |-> plane[n - 1]]
    BY <1>19 DEF checksum
  <2> QED
    BY <1>11, <1>12, <1>18, <1>19, <1>20, <2>1, Zenon DEF WideLies, count
<1> QED
  BY <1>1, <1>2, <1>3, <1>21 DEF s

LEMMA StreamEnds ==
  ASSUME NEW channels, WidePlane(channels), NEW bits \in Nat \ {0}, NEW s, NEW f, WideLies(s, bits, channels, f)
  PROVE  /\ SliceCount(bits) \in Nat \ {0} /\ Size \in Nat \ {0} /\ Len(f[0]) = 0
         /\ \A k \in 0..SliceCount(bits) : Len(f[k]) \in Nat
         /\ \A k \in 1..SliceCount(bits) : Len(f[k]) = Len(f[k - 1]) + (3 + Size)
<1>1. SliceCount(bits) \in Nat \ {0}
  BY SliceCountIs
<1>2. Size \in Nat \ {0}
  BY WidePlaneIs, Zenon
<1>3. f \in [0..SliceCount(bits) -> Seq(Nat)] /\ f[0] = <<>>
      /\ \A k \in 1..SliceCount(bits) : Len(f[k]) = Len(f[k - 1]) + (3 + Size)
  BY DEF WideLies
<1>4. \A k \in 0..SliceCount(bits) : Len(f[k]) \in Nat
  BY <1>3
<1> QED
  BY <1>1, <1>2, <1>3, <1>4

LEMMA PartOf ==
  ASSUME NEW S, NEW s \in Seq(S), NEW a \in Nat \ {0}, NEW n \in Nat, NEW b, b = a + n - 1, b <= Len(s)
  PROVE  SubSeq(s, a, b) = [i \in 1..n |-> s[a + i - 1]]
OBVIOUS

LEMMA LengthsAre ==
  ASSUME NEW channels, WidePlane(channels), NEW bits \in Nat \ {0}, NEW s, NEW f, WideLies(s, bits, channels, f)
  PROVE  /\ Lengths(s, bits) = [i \in 1..SliceCount(bits) |-> 3 + Size]
         /\ DOMAIN Lengths(s, bits) = 1..SliceCount(bits)
<1> DEFINE count == SliceCount(bits)
           table == Lengths(s, bits)
           p == SubSeq(s, 8, 7 + count)
<1>1. count \in Nat \ {0} /\ Len(f[count]) \in Nat
  BY StreamEnds
<1>2. table = p
  BY DEF Lengths
<1>3. Len(s) = 7 + count + Len(f[count]) /\ \A i \in 1..count : s[7 + i] = 3 + Size
  BY DEF WideLies
<1>4. PICK T : s \in Seq(T)
  BY DEF WideLies
<1> HIDE DEF count, table
<1>5. p = [i \in 1..count |-> s[8 + i - 1]]
  <2> DEFINE m == 7 + count
  <2>1. m = 8 + count - 1 /\ m <= Len(s) /\ count \in Nat /\ 8 \in Nat \ {0}
    <3> DEFINE a == Len(f[count])
               b == Len(s)
    <3>1. count \in Nat /\ a \in Nat /\ b = 7 + count + a
      BY <1>1, <1>3
    <3> HIDE DEF a, b
    <3>2. m = 8 + count - 1 /\ m <= b
      BY <3>1
    <3> QED
      BY <3>1, <3>2 DEF b
  <2> HIDE DEF m
  <2>2. SubSeq(s, 8, m) = [i \in 1..count |-> s[8 + i - 1]]
    BY <1>4, <2>1, PartOf
  <2> QED
    BY <2>2 DEF m
<1>6. \A i \in 1..count : s[8 + i - 1] = 3 + Size
  <2> TAKE i \in 1..count
  <2>1. 8 + i - 1 = 7 + i
    BY <1>1
  <2> QED
    BY <1>3, <2>1
<1>7. table = [i \in 1..count |-> 3 + Size]
  BY <1>2, <1>5, <1>6
<1> QED
  BY <1>7 DEF count, table

LEMMA StreamAtIs ==
  ASSUME NEW channels, WidePlane(channels), NEW bits \in Nat \ {0}, NEW s, NEW f, WideLies(s, bits, channels, f),
         NEW i \in 1..SliceCount(bits) + 1
  PROVE  StreamAt(s, bits, i) = 8 + SliceCount(bits) + Len(f[i - 1]) /\ Len(f[i - 1]) \in Nat
<1> DEFINE count == SliceCount(bits)
           table == Lengths(s, bits)
           n == i - 1
           v == 3 + Size
           p == SubSeq(table, 1, n)
           h == [k \in 0..n |-> Len(f[k])]
<1>1. count \in Nat \ {0} /\ v \in Nat /\ Len(f[0]) = 0
      /\ (\A k \in 0..count : Len(f[k]) \in Nat)
      /\ \A k \in 1..count : Len(f[k]) = Len(f[k - 1]) + v
  BY StreamEnds
<1>2. table = [k \in 1..count |-> v]
  BY LengthsAre
<1>3. StreamAt(s, bits, i) = 8 + count + SumFunction(p)
  BY DEF StreamAt
<1> HIDE DEF count, table, v
<1>4. n \in Nat /\ n <= count
  BY <1>1 DEF count
<1>5. p = [k \in 1..n |-> v]
  <2> HIDE DEF n
  <2>1. table \in Seq(Nat) /\ Len(table) = count
    BY <1>1, <1>2
  <2>2. p = [k \in 1..n |-> table[k]]
    BY <1>1, <1>4, <2>1
  <2>3. \A k \in 1..n : table[k] = v
    BY <1>1, <1>2, <1>4
  <2> QED
    BY <2>2, <2>3
<1> HIDE DEF p
<1>6. p = [k \in 1..n |-> p[k]] /\ \A k \in 1..n : p[k] = v /\ p[k] \in Nat
  BY <1>1, <1>5
<1>7. h[0] = 0 /\ h[n] = Len(f[n])
  BY <1>1, <1>4
<1>8. \A k \in 1..n : h[k] = h[k - 1] + p[k]
  <2> TAKE k \in 1..n
  <2>1. k \in 1..count /\ k \in 0..n /\ k - 1 \in 0..n
    BY <1>1, <1>4
  <2> HIDE DEF n
  <2>2. h[k] = Len(f[k]) /\ h[k - 1] = Len(f[k - 1])
    BY <2>1
  <2> QED
    BY <1>1, <1>6, <2>1, <2>2
<1> HIDE DEF h, n
<1>9. SumFunction(p) = h[n] /\ h[n] \in Nat
  BY <1>4, <1>6, <1>7, <1>8, SumIs
<1> QED
  BY <1>3, <1>7, <1>9 DEF count, n

LEMMA ShapeTaken ==
  ASSUME NEW channels, WidePlane(channels), NEW bits \in Nat \ {0}, NEW s, NEW f, WideLies(s, bits, channels, f)
  PROVE  qsw1_shape_valid(s, bits, channels)
<1> DEFINE count == SliceCount(bits)
           table == Lengths(s, bits)
           end == StreamAt(s, bits, count + 1)
<1>1. count \in Nat \ {0} /\ Size \in Nat /\ Len(f[count]) \in Nat
  BY StreamEnds
<1>2. Len(s) = 7 + count + Len(f[count])
      /\ s[1] = "QSW1" /\ s[2] = 0 /\ s[3] = bits /\ s[4] = channels /\ s[5] = count /\ s[7] = 0
  BY DEF WideLies
<1>3. \A k \in DOMAIN table : table[k] > 0
  <2>1. table = [i \in 1..count |-> 3 + Size]
    BY LengthsAre
  <2> HIDE DEF count, table
  <2> QED
    BY <1>1, <2>1
<1>4. end = 8 + count + Len(f[count])
  <2>1. count + 1 \in 1..count + 1 /\ (count + 1) - 1 = count
    BY <1>1
  <2> QED
    BY <2>1, StreamAtIs
<1>5. Len(s) >= 7 + count /\ end = Len(s) + 1
  <2> DEFINE a == Len(f[count])
             b == Len(s)
  <2>1. count \in Nat /\ a \in Nat /\ b = 7 + count + a /\ end = 8 + count + a
    BY <1>1, <1>2, <1>4
  <2> HIDE DEF a, b, count, end
  <2>2. b >= 7 + count /\ end = b + 1
    BY <2>1
  <2> QED
    BY <2>2 DEF b
<1> HIDE DEF count, table, end
<1> QED
  BY <1>2, <1>3, <1>5 DEF qsw1_shape_valid, count, table, end

\* A stream is read where it was written.
LEMMA SliceTaken ==
  ASSUME NEW channels, WidePlane(channels), NEW bits \in Nat \ {0}, NEW s, NEW f, WideLies(s, bits, channels, f),
         NEW i \in 1..SliceCount(bits)
  PROVE  stream_decode(Slice(s, StreamAt(s, bits, i), Lengths(s, bits)[i]), W \div channels, shape.h, channels)
           = PlaneSlice(i)
<1> DEFINE count == SliceCount(bits)
           first == StreamAt(s, bits, i)
           data == SliceStream(channels, i)
           a == Len(f[i - 1])
           v == 3 + Size
           whole == f[count]
<1>1. count \in Nat \ {0} /\ Size \in Nat \ {0} /\ Len(whole) \in Nat
  BY StreamEnds
<1>2. first = 8 + count + a /\ a \in Nat
  BY <1>1, StreamAtIs
<1>3. Lengths(s, bits)[i] = v
  BY LengthsAre
<1>4. data \in Seq(Nat) /\ Len(data) = v
      /\ stream_decode(data, W \div channels, shape.h, channels) = PlaneSlice(i)
  BY SliceStreamIs
<1>5. /\ Len(f[i]) = a + v /\ Len(f[i]) <= Len(whole)
      /\ \A j \in 1..v : whole[a + j] = data[j]
      /\ Len(s) = 7 + count + Len(whole)
      /\ \A j \in 1..Len(whole) : s[7 + count + j] = whole[j]
  BY DEF WideLies
<1>6. PICK T : s \in Seq(T)
  BY DEF WideLies
<1> HIDE DEF count, first, data, a, whole
<1>7. first + Len(data) <= Len(s) + 1 /\ first \in Nat \ {0}
  BY <1>1, <1>2, <1>4, <1>5
<1>8. \A j \in 1..Len(data) : s[first + j - 1] = data[j]
  <2> TAKE j \in 1..Len(data)
  <2>1. first + j - 1 = 7 + count + (a + j) /\ a + j \in 1..Len(whole) /\ j \in 1..v
    BY <1>1, <1>2, <1>4, <1>5
  <2>2. s[7 + count + (a + j)] = whole[a + j] /\ whole[a + j] = data[j]
    BY <1>5, <2>1
  <2> QED
    BY <2>1, <2>2
<1>9. Slice(s, first, Len(data)) = data
  <2> DEFINE U == T \cup Nat
  <2>1. T \subseteq U /\ Nat \subseteq U
    OBVIOUS
  <2> HIDE DEF U
  <2>2. s \in Seq(U) /\ data \in Seq(U)
    BY <1>4, <1>6, <2>1, WiderSeq
  <2> QED
    BY <1>7, <1>8, <2>2, SliceIs
<1> QED
  BY <1>3, <1>4, <1>9 DEF first, data

\* What wide_payload_decode makes on the way.
SliceRead(s, bits, channels, i) ==
  stream_decode(Slice(s, StreamAt(s, bits, i), Lengths(s, bits)[i]), W \div channels, shape.h, channels)
SlicesRead(s, bits, channels) ==
  Each(SliceCount(bits), LAMBDA i :
    stream_decode(Slice(s, StreamAt(s, bits, i), Lengths(s, bits)[i]), W \div channels, shape.h, channels))
Summed(slices, count, n) == SumFunction([i \in 1..count |-> slices[i][n] * Power[SliceBits * (i - 1)]])
SamplesRead(slices, count) ==
  Each(Size, LAMBDA n : SumFunction([i \in 1..count |-> slices[i][n] * Power[SliceBits * (i - 1)]]))

LEMMA SlicesReadAre ==
  ASSUME NEW channels, WidePlane(channels), NEW bits \in Nat \ {0}, NEW s, NEW f, WideLies(s, bits, channels, f)
  PROVE  SlicesRead(s, bits, channels) = [i \in 1..SliceCount(bits) |-> PlaneSlice(i)]
<1> DEFINE count == SliceCount(bits)
           read1(k) == SliceRead(s, bits, channels, k)
           vals == [i \in 1..count |-> PlaneSlice(i)]
           made(g) == [k \in 0..count |->
                        IF k = 0 THEN <<>> ELSE LET before == g[k - 1] IN Append(before, read1(k))]
           h == CHOOSE g : g = made(g)
<1>1. SlicesRead(s, bits, channels) = h[count]
  BY Zenon DEF SlicesRead, Each, Grown, SliceRead
<1>2. count \in Nat
  BY SliceCountIs
<1>3. \A k \in 1..count : vals[k] = read1(k)
  <2>1. \A k \in 1..count : read1(k) = PlaneSlice(k)
    BY SliceTaken, Zenon DEF SliceRead
  <2> HIDE DEF read1
  <2> QED
    BY <2>1
<1>4. \A k \in 1..count : vals[k] \in Seq(Nat)
  BY <1>2, SliceStreamIs
<1>5. vals = [k \in 1..count |-> vals[k]]
  OBVIOUS
<1> HIDE DEF vals, read1, count
<1>6. ASSUME NEW g PROVE Appended(count, vals, g) <=> g = made(g)
  <2> DEFINE other == [k \in 0..count |-> IF k = 0 THEN <<>> ELSE Append(g[k - 1], vals[k])]
  <2>1. ASSUME NEW k \in 0..count
        PROVE  (IF k = 0 THEN <<>> ELSE Append(g[k - 1], vals[k]))
                 = (IF k = 0 THEN <<>> ELSE Append(g[k - 1], read1(k)))
    <3>1. k # 0 => k \in 1..count
      BY <1>2
    <3> QED
      BY <1>3, <3>1
  <2>2. other = made(g)
    BY <2>1
  <2> QED
    BY <2>2 DEF Appended
<1>7. \E g : g = made(g)
  BY <1>2, <1>6, AppendedExists
<1>8. h = made(h)
  BY <1>7
<1> HIDE DEF h
<1>9. Appended(count, vals, h)
  BY <1>6, <1>8
<1>10. h[count] = [k \in 1..count |-> vals[k]]
  <2> DEFINE Q == Seq(Nat)
  <2>1. \A k \in 1..count : vals[k] \in Q
    BY <1>4
  <2> HIDE DEF Q
  <2>2. h[count] = [k \in 1..count |-> vals[k]] /\ h[count] \in Seq(Q)
    BY <1>2, <1>9, <2>1, AppendedHas
  <2> QED
    BY <2>2
<1> QED
  BY <1>1, <1>5, <1>10 DEF vals, count

LEMMA SummedIs ==
  ASSUME NEW channels, WidePlane(channels), NEW bits \in Nat \ {0}, NEW slices,
         slices = [i \in 1..SliceCount(bits) |-> PlaneSlice(i)],
         \A n \in Cells : plane[n - 1] < Power[bits], NEW n \in Cells
  PROVE  /\ Summed(slices, SliceCount(bits), n) = plane[n - 1]
         /\ slices[SliceCount(bits)][n] = Part(plane[n - 1], SliceCount(bits))
<1> DEFINE count == SliceCount(bits)
           v == plane[n - 1]
           f == [i \in 1..count |-> Part(v, i) * Power[SliceBits * (i - 1)]]
<1>1. count \in Nat \ {0}
  BY SliceCountIs
<1>2. \A i \in 1..count : slices[i][n] = Part(v, i)
  <2>1. \A i \in 1..count : PlaneSlice(i)[n] = Part(v, i)
    BY DEF PlaneSlice
  <2> QED
    BY <2>1
<1> HIDE DEF count, v
<1>3. [i \in 1..count |-> slices[i][n] * Power[SliceBits * (i - 1)]] = f
  <2> DEFINE p(i) == Power[SliceBits * (i - 1)]
             a(i) == slices[i][n] * p(i)
             b(i) == Part(v, i) * p(i)
  <2>1. \A i \in 1..count : a(i) = b(i)
    <3> HIDE DEF p
    <3> QED
      BY <1>2
  <2> HIDE DEF a, b
  <2>2. [i \in 1..count |-> a(i)] = [i \in 1..count |-> b(i)]
    BY <2>1
  <2> QED
    BY <2>2, Zenon DEF a, b, p
<1> HIDE DEF f
<1>4. SumFunction(f) = v
  <2>1. v \in Nat /\ v < Power[bits]
    BY WidePlaneIs DEF v
  <2> QED
    BY <2>1, SlicesMakeSample DEF f, count
<1>5. Summed(slices, count, n) = v
  BY <1>3, <1>4 DEF Summed
<1>6. slices[count][n] = Part(v, count)
  BY <1>1, <1>2
<1> QED
  BY <1>5, <1>6 DEF count, v

LEMMA SamplesReadAre ==
  ASSUME NEW channels, WidePlane(channels), NEW bits \in Nat \ {0}, NEW slices,
         slices = [i \in 1..SliceCount(bits) |-> PlaneSlice(i)],
         \A n \in Cells : plane[n - 1] < Power[bits]
  PROVE  SamplesRead(slices, SliceCount(bits)) = [n \in Cells |-> plane[n - 1]]
<1> DEFINE count == SliceCount(bits)
           sum(n) == Summed(slices, count, n)
           vals == [n \in 1..Size |-> plane[n - 1]]
           made(g) == [k \in 0..Size |->
                        IF k = 0 THEN <<>> ELSE LET before == g[k - 1] IN Append(before, sum(k))]
           h == CHOOSE g : g = made(g)
<1>1. SamplesRead(slices, count) = h[Size]
  BY Zenon DEF SamplesRead, Each, Grown, Summed
<1>2. Size \in Nat
  BY WidePlaneIs
<1>3. \A k \in 1..Size : vals[k] = sum(k)
  <2>1. \A k \in Cells : sum(k) = plane[k - 1]
    BY SummedIs
  <2> HIDE DEF sum
  <2> QED
    BY <2>1 DEF Cells
<1>4. \A k \in 1..Size : vals[k] \in Nat
  BY WidePlaneIs DEF Cells
<1>5. vals = [k \in 1..Size |-> vals[k]]
  OBVIOUS
<1> HIDE DEF vals, sum, count
<1>6. ASSUME NEW g PROVE Appended(Size, vals, g) <=> g = made(g)
  <2> DEFINE other == [k \in 0..Size |-> IF k = 0 THEN <<>> ELSE Append(g[k - 1], vals[k])]
  <2>1. ASSUME NEW k \in 0..Size
        PROVE  (IF k = 0 THEN <<>> ELSE Append(g[k - 1], vals[k]))
                 = (IF k = 0 THEN <<>> ELSE Append(g[k - 1], sum(k)))
    <3>1. k # 0 => k \in 1..Size
      BY <1>2
    <3> QED
      BY <1>3, <3>1
  <2>2. other = made(g)
    BY <2>1
  <2> QED
    BY <2>2 DEF Appended
<1>7. \E g : g = made(g)
  BY <1>2, <1>6, AppendedExists
<1>8. h = made(h)
  BY <1>7
<1> HIDE DEF h
<1>9. Appended(Size, vals, h)
  BY <1>6, <1>8
<1>10. h[Size] = [k \in 1..Size |-> vals[k]] /\ h[Size] \in Seq(Nat)
  BY <1>2, <1>4, <1>9, AppendedHas
<1> QED
  BY <1>1, <1>5, <1>10 DEF vals, count, Cells

\* Wide samples come back from what append_wide_payload wrote, and are never
\* refused.
LEMMA PayloadTaken ==
  ASSUME NEW bits \in Nat \ {0}, NEW channels, WidePlane(channels), NEW s, NEW f, WideLies(s, bits, channels, f),
         \A n \in Cells : plane[n - 1] \in Nat /\ plane[n - 1] < Power[bits]
  PROVE  /\ wide_payload_decode(s, bits, channels) = [n \in Cells |-> plane[n - 1]]
         /\ [n \in Cells |-> plane[n - 1]] # Refused
         /\ qsw1_shape_valid(s, bits, channels)
<1> DEFINE count == SliceCount(bits)
           slices == SlicesRead(s, bits, channels)
           samples == SamplesRead(slices, count)
           top == Power[bits - (count - 1) * SliceBits] - 1
           all == [n \in Cells |-> plane[n - 1]]
<1>1. \A n \in Cells : plane[n - 1] \in Nat /\ plane[n - 1] < Power[bits]
  OBVIOUS
<1>3. Size \in Nat \ {0}
  BY WidePlaneIs, Zenon
<1>4. wide_payload_decode(s, bits, channels) =
        IF ~ qsw1_shape_valid(s, bits, channels) THEN Refused
        ELSE IF Refused \in Range(slices) \/ \E n \in Cells : slices[count][n] > top THEN Refused
        ELSE IF samples # s[6] THEN Refused ELSE samples
  BY Zenon DEF wide_payload_decode, SlicesRead, SamplesRead
<1>5. s[6] = all
  BY Zenon DEF WideLies
<1>6. qsw1_shape_valid(s, bits, channels)
  BY ShapeTaken, Zenon
<1>7. slices = [i \in 1..count |-> PlaneSlice(i)]
  BY SlicesReadAre, Zenon
<1> HIDE DEF slices
<1>8. samples = all
  BY <1>1, <1>7, SamplesReadAre
<1>9. count \in Nat \ {0}
  BY <1>1, SliceCountIs
<1>10. Refused \notin Range(slices)
  <2>1. ASSUME NEW i \in 1..count PROVE PlaneSlice(i) # <<>>
    <3>1. DOMAIN PlaneSlice(i) = 1..Size
      BY DEF PlaneSlice, Cells
    <3>2. 1 \in 1..Size /\ DOMAIN <<>> = {}
      BY <1>3
    <3> QED
      BY <3>1, <3>2
  <2> HIDE DEF count
  <2> QED
    BY <1>7, <2>1 DEF Refused, Range
<1>11. ASSUME NEW n \in Cells PROVE ~ (slices[count][n] > top)
  <2>1. slices[count][n] = Part(plane[n - 1], count)
    BY <1>1, <1>7, SummedIs
  <2>2. Part(plane[n - 1], count) <= top
    BY <1>1, SlicesMakeSample
  <2>3. Part(plane[n - 1], count) \in Nat
    BY <1>1, <1>9, PartIs
  <2>4. top \in Int
    <3> DEFINE low == (count - 1) * SliceBits
    <3>1. low \in Nat /\ low < bits
      BY <1>1, SliceCountIs
    <3> HIDE DEF low
    <3>2. bits - low \in Nat
      BY <1>1, <3>1
    <3>3. Power[bits - low] \in Nat
      BY <3>2, PowersPositive
    <3> QED
      BY <3>3 DEF low
  <2> HIDE DEF top, count
  <2> QED
    BY <2>1, <2>2, <2>3, <2>4
<1>12. all # <<>>
  <2>1. DOMAIN all = 1..Size
    BY DEF Cells
  <2>2. 1 \in 1..Size /\ DOMAIN <<>> = {}
    BY <1>3
  <2> HIDE DEF all
  <2> QED
    BY <2>1, <2>2
<1> HIDE DEF top, samples, all
<1>13. wide_payload_decode(s, bits, channels) = all
  BY <1>4, <1>5, <1>6, <1>8, <1>10, <1>11, Zenon
<1> QED
  BY <1>6, <1>12, <1>13 DEF all, Refused

-----------------------------------------------------------------------------
(* The parser takes every chunk of a description that enc_hdr_mem takes.    *)

\* What the parser asks of a chunk of the format, and of the view before it.
Fits(tag, data) ==
  /\ tag = "ICCP" => Len(data) > 0
  /\ tag = "CICP" => Len(data) = 8 /\ data[8] = 0 /\ data[7] <= 1
  /\ tag = "MDCV" => Len(data) = 24 /\ rd32(data, 17) >= rd32(data, 21)
  /\ tag = "CLLI" => Len(data) = 4 /\ rd16(data, 1) >= rd16(data, 3)
Unread(v, tag) ==
  /\ tag = "ICCP" => v.icc = <<>>
  /\ tag = "CICP" => v.cicp = <<>>
  /\ tag = "MDCV" => v.mdcv = <<>>
  /\ tag = "CLLI" => v.clli = <<>>

LEMMA TellsFits ==
  ASSUME NEW m \in Descriptions, NEW channels, hdr_metadata_valid(m, channels),
         NEW tag, NEW data, Tells(tag, data, m)
  PROVE  Fits(tag, data)
<1>1. /\ m.cicp # <<>> => m.cicp[4] <= 1
      /\ m.mdcv # <<>> => m.mdcv[9] >= m.mdcv[10]
      /\ m.clli # <<>> => m.clli[1] >= m.clli[2]
  BY Zenon DEF hdr_metadata_valid
<1>2. /\ tag = "ICCP" => Len(data) > 0
      /\ tag = "CICP" => ReadShorts(data, 3) \o <<data[7]>> = m.cicp /\ Len(data) = 8 /\ data[8] = 0
      /\ tag = "MDCV" => ReadMdcv(data) = m.mdcv /\ Len(data) = 24
      /\ tag = "CLLI" => ReadShorts(data, 2) = m.clli /\ Len(data) = 4
  BY Zenon DEF Tells
<1>3. CASE tag = "CICP"
  <2> DEFINE three == ReadShorts(data, 3)
             x == data[7]
             r == [k \in 1..3 |-> rd16(data, 2 * k - 1)]
  <2>1. three = r
    BY DEF ReadShorts
  <2>2. (r \o <<x>>)[4] = x /\ Len(r \o <<x>>) = 4
    <3> DEFINE q(k) == rd16(data, 2 * k - 1)
    <3> HIDE DEF x, q
    <3>1. LET z == [k \in 1..3 |-> q(k)] IN (z \o <<x>>)[4] = x /\ Len(z \o <<x>>) = 4
      OBVIOUS
    <3> QED
      BY <3>1 DEF q
  <2> HIDE DEF three, x, r
  <2>3. m.cicp = r \o <<x>>
    BY <1>2, <1>3, <2>1 DEF three, x
  <2>4. m.cicp # <<>> /\ m.cicp[4] = x
    <3>1. Len(m.cicp) = 4 /\ m.cicp[4] = x
      BY <2>2, <2>3
    <3>2. Len(<<>>) = 0
      OBVIOUS
    <3> QED
      BY <3>1, <3>2
  <2> QED
    BY <1>1, <1>2, <1>3, <2>4 DEF Fits, x
<1>4. CASE tag = "MDCV"
  <2> DEFINE x == rd32(data, 17)
             y == rd32(data, 21)
             r == [k \in 1..8 |-> rd16(data, 2 * k - 1)]
  <2>1. ReadMdcv(data) = r \o <<x, y>>
    BY DEF ReadMdcv, ReadShorts
  <2>2. (r \o <<x, y>>)[9] = x /\ (r \o <<x, y>>)[10] = y /\ Len(r \o <<x, y>>) = 10
    <3> DEFINE q(k) == rd16(data, 2 * k - 1)
    <3> HIDE DEF x, y, q
    <3>1. LET z == [k \in 1..8 |-> q(k)]
          IN  (z \o <<x, y>>)[9] = x /\ (z \o <<x, y>>)[10] = y /\ Len(z \o <<x, y>>) = 10
      OBVIOUS
    <3> QED
      BY <3>1 DEF q
  <2> HIDE DEF x, y, r
  <2>3. m.mdcv = r \o <<x, y>>
    BY <1>2, <1>4, <2>1
  <2>4. m.mdcv # <<>> /\ m.mdcv[9] = x /\ m.mdcv[10] = y
    <3>1. Len(m.mdcv) = 10 /\ m.mdcv[9] = x /\ m.mdcv[10] = y
      BY <2>2, <2>3
    <3>2. Len(<<>>) = 0
      OBVIOUS
    <3> QED
      BY <3>1, <3>2
  <2> QED
    BY <1>1, <1>2, <1>4, <2>4 DEF Fits, x, y
<1>5. CASE tag = "CLLI"
  <2> DEFINE x == rd16(data, 1)
             y == rd16(data, 3)
             r == [k \in 1..2 |-> rd16(data, 2 * k - 1)]
  <2>1. ReadShorts(data, 2) = r
    BY DEF ReadShorts
  <2>2. r[1] = x /\ r[2] = y /\ r # <<>>
    <3>1. r[1] = rd16(data, 2 * 1 - 1) /\ r[2] = rd16(data, 2 * 2 - 1)
      OBVIOUS
    <3>2. 2 * 1 - 1 = 1 /\ 2 * 2 - 1 = 3
      OBVIOUS
    <3>3. DOMAIN r = 1..2 /\ 1 \in 1..2 /\ DOMAIN <<>> = {}
      OBVIOUS
    <3> HIDE DEF r
    <3> QED
      BY <3>1, <3>2, <3>3
  <2> HIDE DEF x, y, r
  <2>3. m.clli = r
    BY <1>2, <1>5, <2>1
  <2> QED
    BY <1>1, <1>2, <1>5, <2>2, <2>3 DEF Fits, x, y
<1> QED
  BY <1>2, <1>3, <1>4, <1>5 DEF Fits

LEMMA OwnTaken ==
  ASSUME NEW v, View(v), v.ok, NEW tag \in OwnTags, NEW data, Fits(tag, data), Unread(v, tag)
  PROVE  /\ CoreChunk(v, tag, 0, data).ok
         /\ CoreChunk(v, tag, 0, data).size = v.size /\ CoreChunk(v, tag, 0, data).pixels = v.pixels
<1> DEFINE w == CoreChunk(v, tag, 0, data)
           n == Len(data)
<1>0. v = [x \in Names |-> v[x]]
  BY DEF View
<1>1. CASE tag = "ICCP"
  <2> DEFINE b == v.ok /\ v.icc = <<>> /\ 0 = 0 /\ n > 0
  <2>1. w = [v EXCEPT !.ok = b, !.icc = data]
    BY <1>1 DEF CoreChunk
  <2>2. b = TRUE
    BY <1>1 DEF Fits, Unread
  <2> HIDE DEF b, w, n
  <2> QED
    BY <1>0, <2>1, <2>2 DEF Names, w
<1>2. CASE tag = "CICP"
  <2> DEFINE b == v.ok /\ v.cicp = <<>> /\ 0 = 0 /\ n = 8 /\ data[8] = 0 /\ data[7] <= 1
             y == ReadShorts(data, 3) \o <<data[7]>>
  <2>1. w = [v EXCEPT !.ok = b, !.cicp = y]
    BY <1>2 DEF CoreChunk
  <2>2. b = TRUE
    BY <1>2 DEF Fits, Unread
  <2> HIDE DEF b, w, y
  <2>3. w.ok /\ w.size = v.size /\ w.pixels = v.pixels
    BY <1>0, <2>1, <2>2 DEF Names
  <2> QED
    BY <2>3 DEF w
<1>3. CASE tag = "MDCV"
  <2> DEFINE b == v.ok /\ v.mdcv = <<>> /\ 0 = 0 /\ n = 24 /\ rd32(data, 17) >= rd32(data, 21)
             y == ReadMdcv(data)
  <2>1. w = [v EXCEPT !.ok = b, !.mdcv = y]
    BY <1>3 DEF CoreChunk
  <2>2. b = TRUE
    BY <1>3 DEF Fits, Unread
  <2> HIDE DEF b, w, y
  <2>3. w.ok /\ w.size = v.size /\ w.pixels = v.pixels
    BY <1>0, <2>1, <2>2 DEF Names
  <2> QED
    BY <2>3 DEF w
<1>4. CASE tag = "CLLI"
  <2> DEFINE b == v.ok /\ v.clli = <<>> /\ 0 = 0 /\ n = 4 /\ rd16(data, 1) >= rd16(data, 3)
             y == ReadShorts(data, 2)
  <2>1. w = [v EXCEPT !.ok = b, !.clli = y]
    BY <1>4 DEF CoreChunk
  <2>2. b = TRUE
    BY <1>4 DEF Fits, Unread
  <2> HIDE DEF b, w, y
  <2>3. w.ok /\ w.size = v.size /\ w.pixels = v.pixels
    BY <1>0, <2>1, <2>2 DEF Names
  <2> QED
    BY <2>3 DEF w
<1> QED
  BY <1>1, <1>2, <1>3, <1>4 DEF OwnTags

\* A chunk of the description, where the view stands: it has room, and its size
\* is no more than what is left.
Waits(s, v, tag, flags, data) ==
  /\ s[v.next] = tag /\ s[v.next + 1] = flags /\ s[v.next + 2] = Len(data)
  /\ Slice(s, v.next + 3, Len(data)) = data
  /\ ~ (v.next + 2 > Len(s)) /\ ~ (v.next + 3 + Len(data) > Len(s) + 1)

LEMMA ChunkRead ==
  ASSUME NEW s, NEW v, View(v), v.ok, NEW tag, tag # "PIXL", NEW data, Waits(s, v, tag, 0, data),
         v.size + Len(data) <= MaxMetadata, tag \in CoreTags => Fits(tag, data) /\ Unread(v, tag)
  PROVE  /\ ReadChunk(s, v).ok
         /\ ReadChunk(s, v).size = v.size + Len(data) /\ ReadChunk(s, v).pixels = v.pixels
<1> DEFINE seen == s[v.next]
           flags == s[v.next + 1]
           length == s[v.next + 2]
           bytes == Slice(s, v.next + 3, length)
           next == v.next + 3 + length
           after == [v EXCEPT !.next = next]
           size == v.size + length
           fits == size <= MaxMetadata
           counted == [after EXCEPT !.size = size, !.ok = fits]
           blocks == Append(v.blocks, DescribedBy(seen, bytes))
           plain == fits /\ flags = 0
           block == [counted EXCEPT !.ok = plain, !.blocks = blocks]
           w == ReadChunk(s, v)
<1>0. v = [x \in Names |-> v[x]]
  BY DEF View
<1>1. after.next = next /\ after.size = v.size /\ counted.ok = fits /\ counted.blocks = v.blocks
  BY <1>0 DEF Names
<1>2. seen = tag /\ flags = 0 /\ length = Len(data) /\ bytes = data
  BY DEF Waits
<1>3. w = IF seen \in CoreTags THEN CoreChunk(counted, seen, flags, bytes) ELSE block
  <2>3. \/ w = v /\ ~ v.ok
        \/ v.next + 2 > Len(s) \/ flags \notin {0, 1} \/ next > Len(s) + 1
        \/ seen = "PIXL"
        \/ seen \in CoreTags /\ w = CoreChunk(counted, seen, flags, bytes)
        \/ seen \notin CoreTags /\ w = block
    BY <1>1, Zenon DEF ReadChunk
  <2>1. ~ (v.next + 2 > Len(s)) /\ ~ (next > Len(s) + 1)
    BY <1>2 DEF Waits
  <2>2. ~ (flags \notin {0, 1}) /\ seen # "PIXL"
    BY <1>2
  <2> QED
    BY <2>1, <2>2, <2>3, Zenon
<1> HIDE DEF seen, flags, bytes
<1>7. fits = TRUE /\ plain = TRUE
  BY <1>2
<1> HIDE DEF length, next, size, fits, plain, blocks, w
<1>4. View(counted) /\ counted.ok /\ counted.size = size /\ \A x \in Names \ {"next", "size", "ok"} : counted[x] = v[x]
  BY <1>0, <1>7 DEF View, Names
<1>8. size = v.size + Len(data)
  BY <1>2 DEF size
<1>5. CASE tag \in CoreTags
  <2>1. tag \in OwnTags
    BY <1>5 DEF CoreTags, OwnTags
  <2>2. Unread(counted, tag)
    BY <1>4, <1>5 DEF Unread, Names
  <2>3. Fits(tag, data)
    BY <1>5
  <2>5. counted.pixels = v.pixels
    BY <1>4 DEF Names
  <2>6. w = CoreChunk(counted, tag, 0, data)
    BY <1>2, <1>3, <1>5
  <2> HIDE DEF counted
  <2>4. w.ok /\ w.size = counted.size /\ w.pixels = counted.pixels
    BY <1>4, <2>1, <2>2, <2>3, <2>6, OwnTaken
  <2> QED
    BY <1>4, <1>8, <2>4, <2>5 DEF w
<1>6. CASE tag \notin CoreTags
  <2>1. block.ok = plain /\ block.size = size /\ block.pixels = v.pixels
    BY <1>4 DEF View, Names
  <2> HIDE DEF counted
  <2> QED
    BY <1>2, <1>3, <1>6, <1>7, <1>8, <2>1 DEF w
<1> QED
  BY <1>5, <1>6

LEMMA SamplesTaken ==
  ASSUME NEW s, NEW v, View(v), v.ok, NEW data, Waits(s, v, "PIXL", 1, data),
         v.pixels = <<>>, Len(data) = s[11]
  PROVE  /\ ReadChunk(s, v).ok
         /\ ReadChunk(s, v).size = v.size /\ ReadChunk(s, v).pixels = data
<1> DEFINE seen == s[v.next]
           flags == s[v.next + 1]
           length == s[v.next + 2]
           bytes == Slice(s, v.next + 3, length)
           next == v.next + 3 + length
           after == [v EXCEPT !.next = next]
           last == v.pixels = <<>> /\ flags = 1 /\ length = s[11]
           pixels == [after EXCEPT !.ok = last, !.pixels = bytes]
           w == ReadChunk(s, v)
<1>0. v = [x \in Names |-> v[x]]
  BY DEF View
<1>1. after.next = next
  BY <1>0 DEF Names
<1>2. seen = "PIXL" /\ flags = 1 /\ length = Len(data) /\ bytes = data
  BY DEF Waits
<1>3. w = pixels
  <2>1. ~ (v.next + 2 > Len(s)) /\ ~ (next > Len(s) + 1)
    BY <1>2 DEF Waits
  <2>2. ~ (flags \notin {0, 1})
    BY <1>2
  <2> QED
    BY <1>1, <1>2, <2>1, <2>2, Zenon DEF ReadChunk
<1> HIDE DEF seen, flags, bytes, next
<1>5. last = TRUE
  BY <1>2
<1> HIDE DEF length, last, w
<1>4. pixels.ok = last /\ pixels.size = v.size /\ pixels.pixels = bytes
  BY <1>0 DEF Names
<1> QED
  BY <1>2, <1>3, <1>4, <1>5 DEF w

\* What only grows is largest at the end.
LEMMA Rising ==
  ASSUME NEW n \in Nat, NEW h, \A k \in 0..n : h[k] \in Nat, \A k \in 1..n : h[k - 1] <= h[k]
  PROVE  \A k \in 0..n : h[k] <= h[n]
<1> DEFINE Good == {j \in Nat : j <= n => h[n - j] <= h[n]}
<1>1. 0 \in Good
  <2>1. n - 0 = n /\ n \in 0..n
    OBVIOUS
  <2> QED
    BY <2>1
<1>2. ASSUME NEW j \in Nat, j \in Good, j + 1 <= n PROVE h[n - (j + 1)] <= h[n]
  <2>1. n - j \in 1..n /\ (n - j) - 1 = n - (j + 1) /\ n - j \in 0..n /\ n - (j + 1) \in 0..n /\ n \in 0..n /\ j <= n
    BY <1>2
  <2> DEFINE a == h[n - (j + 1)]
             b == h[n - j]
             c == h[n]
  <2>2. h[(n - j) - 1] <= b
    BY <2>1
  <2>3. b <= c
    BY <1>2, <2>1
  <2>4. a \in Nat /\ b \in Nat /\ c \in Nat /\ h[(n - j) - 1] = a
    BY <2>1
  <2> HIDE DEF a, b, c
  <2>5. a <= c
    BY <2>2, <2>3, <2>4
  <2> QED
    BY <2>5 DEF a, c
<1>3. \A j \in Nat : j \in Good
  <2>1. \A j \in Nat : j \in Good => j + 1 \in Good
    BY <1>2
  <2> HIDE DEF Good
  <2> QED
    BY <1>1, <2>1, Induction, Zenon
<1>4. ASSUME NEW k \in 0..n PROVE h[k] <= h[n]
  <2>1. n - k \in Nat /\ n - k <= n /\ n - (n - k) = k
    OBVIOUS
  <2>2. h[n - (n - k)] <= h[n]
    BY <1>3, <2>1
  <2> QED
    BY <2>1, <2>2
<1> QED
  BY <1>4

\* The data read so far.
Sized(m, n, chunks, h) ==
  /\ h[0] = 0 /\ h[n] = DescribedSize(m)
  /\ \A k \in 0..n : h[k] \in Nat /\ h[k] <= DescribedSize(m)
  /\ \A k \in 1..n : Len(chunks[k].data) \in Nat /\ h[k] = h[k - 1] + Len(chunks[k].data)

LEMMA SizesAre ==
  ASSUME NEW m, Described(m) \in Seq(Chunk), NEW s, NEW spot, NEW pixels,
         Laid(s, Len(Described(m)), Described(m), spot), Closed(s, Len(Described(m)), spot, pixels)
  PROVE  \E h : Sized(m, Len(Described(m)), Described(m), h)
<1> DEFINE chunks == Described(m)
           n == Len(chunks)
           h == [k \in 0..n |-> spot[k] - 12 - 3 * k]
           f == [k \in DOMAIN chunks |-> Len(chunks[k].data)]
           total == DescribedSize(m)
<1>1. n \in Nat /\ DOMAIN chunks = 1..n
  OBVIOUS
<1>2. ASSUME NEW k \in 1..n PROVE Len(chunks[k].data) \in Nat
  <2>1. chunks[k] \in Chunk
    OBVIOUS
  <2> QED
    BY <2>1 DEF Chunk
<1>3. /\ spot[0] = 12
      /\ \A k \in 0..n : spot[k] \in Nat
      /\ \A k \in 1..n : spot[k] = spot[k - 1] + 3 + Len(chunks[k].data)
  BY Zenon DEF Laid, Closed
<1>4. total = SumFunction(f)
  BY DEF DescribedSize
<1>5. f = [k \in 1..n |-> f[k]] /\ \A k \in 1..n : f[k] = Len(chunks[k].data)
  BY <1>1
<1> HIDE DEF n, total, f, chunks
<1>6. h[0] = 0
  BY <1>1, <1>3
<1>7. ASSUME NEW k \in 1..n PROVE h[k] = h[k - 1] + f[k] /\ f[k] \in Nat
  <2> DEFINE a == spot[k - 1]
             b == spot[k]
             d == f[k]
  <2>1. a \in Nat /\ b \in Nat /\ d \in Nat /\ b = a + 3 + d
    BY <1>1, <1>2, <1>3, <1>5
  <2>2. h[k] = b - 12 - 3 * k /\ h[k - 1] = a - 12 - 3 * (k - 1)
    BY <1>1
  <2> HIDE DEF a, b, d, h
  <2>3. h[k] = h[k - 1] + d
    BY <2>1, <2>2
  <2> QED
    BY <2>1, <2>3 DEF d
<1> HIDE DEF h
<1>8. \A k \in 0..n : h[k] \in Nat
  <2> DEFINE Good == {k \in Nat : k <= n => h[k] \in Nat}
  <2>1. 0 \in Good
    BY <1>6
  <2>2. ASSUME NEW k \in Nat, k \in Good PROVE k + 1 \in Good
    <3> SUFFICES ASSUME k + 1 <= n PROVE h[k + 1] \in Nat
      OBVIOUS
    <3>1. k + 1 \in 1..n /\ (k + 1) - 1 = k /\ k <= n
      BY <1>1
    <3>2. h[k] \in Nat /\ f[k + 1] \in Nat /\ h[k + 1] = h[k] + f[k + 1]
      BY <1>7, <2>2, <3>1
    <3> QED
      BY <3>2
  <2>3. \A k \in Nat : k \in Good
    <3>1. \A k \in Nat : k \in Good => k + 1 \in Good
      BY <2>2
    <3> HIDE DEF Good
    <3> QED
      BY <2>1, <3>1, Induction, Zenon
  <2> QED
    BY <1>1, <2>3
<1>9. SumFunction(f) = h[n] /\ h[n] \in Nat
  <2>1. (\A k \in 1..n : f[k] \in Nat) /\ \A k \in 1..n : h[k] = h[k - 1] + f[k]
    BY <1>7
  <2> QED
    BY <1>1, <1>5, <1>6, <2>1, SumIs
<1>10. \A k \in 0..n : h[k] <= h[n]
  <2>1. \A k \in 1..n : h[k - 1] <= h[k]
    <3> TAKE k \in 1..n
    <3>1. k - 1 \in 0..n
      BY <1>1
    <3>2. h[k - 1] \in Nat /\ f[k] \in Nat /\ h[k] = h[k - 1] + f[k]
      BY <1>7, <1>8, <3>1
    <3> QED
      BY <3>2
  <2> QED
    BY <1>1, <1>8, <2>1, Rising
<1>11. Sized(m, n, chunks, h)
  <2>1. h[n] = total /\ \A k \in 0..n : h[k] \in Nat /\ h[k] <= total
    BY <1>4, <1>8, <1>9, <1>10
  <2>2. \A k \in 1..n : Len(chunks[k].data) \in Nat /\ h[k] = h[k - 1] + Len(chunks[k].data)
    BY <1>5, <1>7
  <2> QED
    BY <1>6, <2>1, <2>2, Zenon DEF Sized, total
<1> QED
  BY <1>11 DEF n, chunks

\* Nothing was wrong with the first k chunks.
Accepted(v, k, h) == v.ok /\ v.size = h[k] /\ v.pixels = <<>>

\* Chunk k of the description is one the parser takes.
LEMMA ChunkAccepted ==
  ASSUME NEW m \in Descriptions, NEW channels, hdr_metadata_valid(m, channels),
         NEW chunks, NEW c \in Nat, Carries(m, chunks, c), Foreign(m),
         NEW k \in 1..Len(chunks), NEW v, NEW a, Knows(v, m, chunks, c, k - 1, a)
  PROVE  /\ chunks[k].tag # "PIXL"
         /\ chunks[k].tag \in CoreTags => Fits(chunks[k].tag, chunks[k].data) /\ Unread(v, chunks[k].tag)
<1> DEFINE tag == chunks[k].tag
           data == chunks[k].data
           n == Len(chunks)
           u == Len(m.blocks)
<1>1. /\ chunks \in Seq(Chunk) /\ n = c + u
      /\ \A i \in 1..c : chunks[i].tag \in OwnTags /\ Tells(chunks[i].tag, chunks[i].data, m)
      /\ \A i, j \in 1..c : chunks[i].tag = chunks[j].tag => i = j
      /\ \A i \in 1..u : chunks[c + i] = m.blocks[i]
  BY Zenon DEF Carries
<1>2. m.blocks \in Seq([tag : STRING, data : Seq(Byte)]) /\ u \in Nat /\ n \in Nat /\ k \in 1..n
  BY <1>1 DEF Descriptions
<1> HIDE DEF n, u
<1>3. CASE k <= c
  <2>1. tag \in OwnTags /\ Tells(tag, data, m) /\ k \in 1..c
    BY <1>1, <1>2, <1>3
  <2>2. tag # "PIXL"
    BY <2>1 DEF OwnTags
  <2>3. Fits(tag, data)
    BY <2>1, TellsFits, Zenon
  <2>4. \A x : Told(chunks, k - 1, tag, x) = <<>>
    <3>1. \A i \in 1..k - 1 : i \in 1..c /\ i # k
      BY <1>2, <1>3
    <3>2. \A i \in 1..k - 1 : chunks[i].tag # chunks[k].tag
      BY <1>1, <2>1, <3>1
    <3> QED
      BY <3>2 DEF Told
  <2>5. Unread(v, tag)
    <3>1. /\ v.icc = Told(chunks, k - 1, "ICCP", m.icc)
          /\ v.cicp = Told(chunks, k - 1, "CICP", m.cicp)
          /\ v.mdcv = Told(chunks, k - 1, "MDCV", m.mdcv)
          /\ v.clli = Told(chunks, k - 1, "CLLI", m.clli)
      BY Zenon DEF Knows
    <3> HIDE DEF tag
    <3> QED
      BY <2>4, <3>1 DEF Unread
  <2> QED
    BY <2>2, <2>3, <2>5
<1>4. CASE ~ (k <= c)
  <2> DEFINE j == k - c
  <2>1. j \in 1..u /\ c + j = k
    BY <1>1, <1>2, <1>4
  <2>2. chunks[k] = m.blocks[j]
    BY <1>1, <2>1
  <2>3. tag \notin CoreTags
    BY <2>1, <2>2 DEF Foreign, u
  <2> QED
    BY <2>3 DEF CoreTags
<1> QED
  BY <1>3, <1>4

LEMMA AllAccepted ==
  ASSUME NEW m \in Descriptions, NEW channels, hdr_metadata_valid(m, channels),
         NEW chunks, NEW c \in Nat, Carries(m, chunks, c), Foreign(m),
         NEW s, Len(s) \in Nat, NEW spot, NEW pixels, Laid(s, Len(chunks), chunks, spot),
         Closed(s, Len(chunks), spot, pixels), NEW h, Sized(m, Len(chunks), chunks, h),
         NEW start, View(start), Knows(start, m, chunks, c, 0, 12), start.ok, start.size = 0, start.pixels = <<>>,
         NEW g, Views(s, Len(chunks) + 1, start, g)
  PROVE  \A k \in 0..Len(chunks) : Accepted(g[k], k, h)
<1> DEFINE n == Len(chunks)
           Good == {k \in Nat : k <= n => Accepted(g[k], k, h)}
<1>1. /\ \A k \in 0..n :
           View(g[k]) /\ (g[k].ok => Knows(g[k], m, chunks, c, k, spot[k])) /\ g[k + 1] = ReadChunk(s, g[k])
      /\ g[0] = start
  BY EachKnows
<1>2. n \in Nat
  BY DEF Carries
<1>3. /\ h[0] = 0
      /\ \A k \in 0..n : h[k] \in Nat /\ h[k] <= DescribedSize(m)
      /\ \A k \in 1..n : Len(chunks[k].data) \in Nat /\ h[k] = h[k - 1] + Len(chunks[k].data)
  BY Zenon DEF Sized
<1>4. 0 \in Good
  BY <1>1, <1>3 DEF Accepted
<1>5. ASSUME NEW k \in Nat, k \in Good, k + 1 <= n PROVE Accepted(g[k + 1], k + 1, h)
  <2> DEFINE j == k + 1
             v == g[k]
             w == g[j]
             tag == chunks[j].tag
             data == chunks[j].data
             d == Len(data)
  <2>1. j \in 1..n /\ j \in 0..n /\ j - 1 = k /\ k \in 0..n /\ k <= n
    BY <1>2, <1>5
  <2>2. View(v) /\ v.ok /\ v.size = h[k] /\ v.pixels = <<>> /\ Knows(v, m, chunks, c, j - 1, spot[k])
        /\ w = ReadChunk(s, v)
    BY <1>1, <1>5, <2>1 DEF Accepted
  <2>3. v.next = spot[k]
    BY <2>2, Zenon DEF Knows
  <2>4. tag # "PIXL" /\ (tag \in CoreTags => Fits(tag, data) /\ Unread(v, tag))
    BY <2>1, <2>2, ChunkAccepted
  <2>5. d \in Nat /\ h[j] = h[k] + d /\ h[j] <= DescribedSize(m) /\ h[j] \in Nat
    BY <1>3, <2>1
  <2>6. h[k] + d <= MaxMetadata
    <3>1. DescribedSize(m) <= MaxMetadata
      BY Zenon DEF hdr_metadata_valid
    <3>2. MaxMetadata \in Nat /\ h[n] = DescribedSize(m) /\ h[n] \in Nat
      <4>1. n \in 0..n
        BY <1>2
      <4> QED
        BY <1>3, <4>1, WideAssumption DEF Sized
    <3> DEFINE size == DescribedSize(m)
    <3>3. size \in Nat /\ size <= MaxMetadata
      BY <3>1, <3>2
    <3>4. h[k] + d <= size /\ h[k] + d \in Nat
      BY <2>5
    <3> HIDE DEF size, d
    <3> QED
      BY <3>2, <3>3, <3>4
  <2>7. /\ s[spot[k]] = tag /\ s[spot[k] + 1] = 0 /\ s[spot[k] + 2] = d
        /\ Slice(s, spot[k] + 3, d) = data /\ spot[j] = spot[k] + 3 + d
    <3>1. /\ s[spot[j - 1]] = tag /\ s[spot[j - 1] + 2] = d
          /\ Slice(s, spot[j - 1] + 3, d) = data /\ spot[j] = spot[j - 1] + 3 + d
      BY <2>1 DEF Laid
    <3>2. s[spot[j - 1] + 1] = 0
      BY <2>1 DEF Closed
    <3> QED
      BY <2>1, <3>1, <3>2
  <2>8. spot[k] \in Nat /\ spot[k] + 2 <= Len(s) /\ spot[j] \in Nat /\ spot[j] + 2 <= Len(s)
    BY <2>1 DEF Closed
  <2> HIDE DEF j, v, w, tag, data
  <2>9. ~ (spot[k] + 2 > Len(s)) /\ ~ (spot[k] + 3 + Len(data) > Len(s) + 1)
    <3> DEFINE x == spot[k]
               y == spot[j]
               z == Len(s)
    <3>1. x \in Nat /\ y \in Nat /\ z \in Nat /\ x + 2 <= z /\ y + 2 <= z /\ y = x + 3 + d /\ d \in Nat
      BY <2>5, <2>7, <2>8
    <3> HIDE DEF x, y, z, d
    <3>2. ~ (x + 2 > z) /\ ~ (x + 3 + d > z + 1)
      BY <3>1
    <3> QED
      BY <3>2 DEF x, z, d
  <2>10. Waits(s, v, tag, 0, data)
    BY <2>3, <2>7, <2>9 DEF Waits, d
  <2>11. v.size + Len(data) <= MaxMetadata
    BY <2>2, <2>6 DEF d
  <2>12. ReadChunk(s, v).ok /\ ReadChunk(s, v).size = v.size + Len(data) /\ ReadChunk(s, v).pixels = v.pixels
    BY <2>2, <2>4, <2>10, <2>11, ChunkRead, Zenon
  <2>13. Accepted(w, j, h)
    BY <2>2, <2>5, <2>12 DEF Accepted, d
  <2> QED
    BY <2>13 DEF w, j
<1>6. \A k \in Nat : k \in Good
  <2>1. \A k \in Nat : k \in Good => k + 1 \in Good
    BY <1>5
  <2> HIDE DEF Good
  <2> QED
    BY <1>4, <2>1, Induction, Zenon
<1> QED
  BY <1>2, <1>6

\* What lies behind the head, read: all of it is taken.
LEMMA EndIs ==
  ASSUME NEW m \in Descriptions, NEW bits, NEW channels, hdr_metadata_valid(m, channels),
         NEW pixels, Len(pixels) \in Nat, NEW s, HdrWhole(m, bits, channels, pixels, s), s[11] = Len(pixels),
         NEW start, View(start), start.ok, start.size = 0, start.pixels = <<>>,
         \A chunks, c : c \in Nat => Knows(start, m, chunks, c, 0, 12),
         NEW g, Views(s, Len(Described(m)) + 1, start, g), NEW end, end = g[Len(Described(m)) + 1]
  PROVE  /\ View(end) /\ end.ok /\ end.next = Len(s) + 1 /\ end.size = DescribedSize(m) /\ end.pixels = pixels
         /\ Description(end) = m /\ Len(Described(m)) \in Nat /\ DescribedSize(m) \in Nat
<1> DEFINE chunks == Described(m)
           n == Len(chunks)
           v == g[n]
<1>1. PICK c \in Nat : Carries(m, chunks, c)
  BY DescribedCarries
<1>2. chunks \in Seq(Chunk) /\ n \in Nat
  <2>1. chunks \in Seq(Chunk)
    BY <1>1, Zenon DEF Carries
  <2> QED
    BY <2>1
<1>3. Foreign(m)
  <2>1. m.blocks \in Seq([tag : STRING, data : Seq(Byte)])
    BY DEF Descriptions
  <2>2. \A k \in DOMAIN m.blocks : m.blocks[k].tag \notin CoreTags
    BY DEF hdr_metadata_valid
  <2> QED
    BY <2>1, <2>2 DEF Foreign
<1>4. PICK spot : Laid(s, Len(Described(m)), Described(m), spot) /\ Closed(s, Len(Described(m)), spot, pixels)
  BY Zenon DEF HdrWhole
<1>5. PICK h : Sized(m, n, chunks, h)
  BY <1>2, <1>4, SizesAre
<1>6. Len(s) \in Nat
  BY Zenon DEF HdrWhole
<1> HIDE DEF chunks
<1>14. Laid(s, Len(chunks), chunks, spot) /\ Closed(s, Len(chunks), spot, pixels) /\ Views(s, Len(chunks) + 1, start, g)
  BY <1>4 DEF chunks
<1>15. Knows(start, m, chunks, c, 0, 12)
  OBVIOUS
<1>7. \A k \in 0..Len(chunks) : Accepted(g[k], k, h)
  BY <1>1, <1>3, <1>5, <1>6, <1>14, <1>15, AllAccepted
<1>8. /\ \A k \in 0..Len(chunks) :
           View(g[k]) /\ (g[k].ok => Knows(g[k], m, chunks, c, k, spot[k])) /\ g[k + 1] = ReadChunk(s, g[k])
      /\ g[0] = start
  BY <1>1, <1>3, <1>14, <1>15, EachKnows
<1>9. View(v) /\ v.ok /\ v.size = h[n] /\ v.pixels = <<>> /\ Knows(v, m, chunks, c, n, spot[n])
      /\ g[n + 1] = ReadChunk(s, v)
  <2>1. n \in 0..Len(chunks)
    BY <1>2
  <2>2. Accepted(v, n, h) /\ View(v) /\ (v.ok => Knows(v, m, chunks, c, n, spot[n])) /\ g[n + 1] = ReadChunk(s, v)
    BY <1>7, <1>8, <2>1
  <2> QED
    BY <2>2 DEF Accepted
<1>10. v.next = spot[n]
  BY <1>9, Zenon DEF Knows
<1>11. end = ReadChunk(s, v)
  BY <1>9 DEF chunks
<1> HIDE DEF v, n
<1>12. /\ s[spot[n]] = "PIXL" /\ s[spot[n] + 1] = 1 /\ s[spot[n] + 2] = Len(pixels)
       /\ Slice(s, spot[n] + 3, Len(pixels)) = pixels
       /\ spot[n] + 3 + Len(pixels) = Len(s) + 1
       /\ spot[n] \in Nat /\ spot[n] + 2 <= Len(s)
  <2>1. n \in 0..n
    BY <1>2
  <2> QED
    BY <1>14, <2>1, Zenon DEF Laid, Closed, n
<1>13. Waits(s, v, "PIXL", 1, pixels)
  <2>1. ~ (spot[n] + 2 > Len(s)) /\ ~ (spot[n] + 3 + Len(pixels) > Len(s) + 1)
    <3> DEFINE x == spot[n]
               z == Len(s)
               d == Len(pixels)
    <3>1. x \in Nat /\ z \in Nat /\ d \in Nat /\ x + 2 <= z /\ x + 3 + d = z + 1
      BY <1>6, <1>12
    <3> HIDE DEF x, z, d
    <3>2. ~ (x + 2 > z) /\ ~ (x + 3 + d > z + 1)
      BY <3>1
    <3> QED
      BY <3>2 DEF x, z, d
  <2> QED
    BY <1>10, <1>12, <2>1 DEF Waits
<1>16. end.ok /\ end.size = v.size /\ end.pixels = pixels
  BY <1>9, <1>11, <1>13, SamplesTaken
<1>17. View(end) /\ ChunkTaken(v, s[v.next], s[v.next + 2], Slice(s, v.next + 3, s[v.next + 2]), end)
  BY <1>9, <1>11, <1>16, ReadChunkIs
<1>18. end.next = Len(s) + 1
  <2>1. end.next = v.next + 3 + s[v.next + 2]
    BY <1>17, Zenon DEF ChunkTaken
  <2> QED
    BY <1>10, <1>12, <2>1
<1>19. Description(end) = m
  <2>1. Faithful(m, g[Len(chunks) + 1])
    BY <1>1, <1>3, <1>14, <1>15, ViewsKnow, Zenon
  <2>2. end = g[Len(chunks) + 1]
    BY DEF chunks
  <2> QED
    BY <1>16, <2>1, <2>2 DEF Faithful
<1>20. end.size = DescribedSize(m) /\ DescribedSize(m) \in Nat
  <2>1. h[n] = DescribedSize(m) /\ \A k \in 0..n : h[k] \in Nat
    BY <1>5, Zenon DEF Sized
  <2>2. n \in 0..n
    BY <1>2
  <2> QED
    BY <1>9, <1>16, <2>1, <2>2
<1> QED
  BY <1>2, <1>16, <1>17, <1>18, <1>19, <1>20 DEF n, chunks

\* The parser opens what enc_hdr_mem writes, and finds the samples in it.
LEMMA HdrOpens ==
  ASSUME NEW m \in Descriptions, NEW bits, NEW channels, hdr_metadata_valid(m, channels),
         NEW pixels, Len(pixels) \in Nat \ {0}, pixels # <<>>, qsw1_shape_valid(pixels, bits, channels),
         NEW S, NEW s \in Seq(S), HdrWhole(m, bits, channels, pixels, s)
  PROVE  qsw2_payload_parse(s, bits, channels).ok /\ qsw2_payload_parse(s, bits, channels).pixels = pixels
<1> DEFINE n == Len(Described(m))
           parsed == qsw2_payload_parse(s, bits, channels)
           size == DescribedSize(m)
           start == [ok |-> TRUE, next |-> 12, size |-> 0, pixels |-> <<>>, alpha |-> s[6], authority |-> s[7],
                     icc |-> <<>>, cicp |-> <<>>, mdcv |-> <<>>, clli |-> <<>>, blocks |-> <<>>]
           made(g) == [k \in 0..s[9] |-> IF k = 0 THEN start ELSE ReadChunk(s, g[k - 1])]
           view == CHOOSE g : g = made(g)
           end == view[s[9]]
           valid == /\ end.ok /\ end.next = Len(s) + 1 /\ end.size = s[10] /\ end.pixels # <<>>
                    /\ qsw2_color_valid(end) /\ qsw1_shape_valid(end.pixels, bits, channels)
<1>1. /\ s[1] = "QSW2" /\ s[2] = 1 /\ s[3] = "UINT" /\ s[4] = bits /\ s[5] = channels
      /\ s[6] = m.alpha /\ s[7] = m.authority /\ s[8] = 0 /\ s[9] = n + 1 /\ s[10] = size /\ s[11] = Len(pixels)
  <2> DEFINE head == HeadOfHdr(m, bits, channels, pixels)
  <2>1. \A i \in 1..11 : s[i] = head[i]
    BY Zenon DEF HdrWhole
  <2>2. /\ head[1] = "QSW2" /\ head[2] = 1 /\ head[3] = "UINT" /\ head[4] = bits /\ head[5] = channels
        /\ head[6] = m.alpha /\ head[7] = m.authority /\ head[8] = 0 /\ head[9] = n + 1 /\ head[10] = size
        /\ head[11] = Len(pixels)
    BY DEF HeadOfHdr
  <2> HIDE DEF head, n, size
  <2> QED
    BY <2>1, <2>2
<1>2. Len(s) \in Nat /\ Len(s) >= 11
  BY Zenon DEF HdrWhole
<1>3. View(start) /\ start.ok /\ start.size = 0 /\ start.pixels = <<>>
      /\ \A chunks, c : c \in Nat => Knows(start, m, chunks, c, 0, 12)
  <2>1. start.ok /\ start.size = 0 /\ start.pixels = <<>>
    OBVIOUS
  <2>2. \A chunks, c : c \in Nat => View(start) /\ Knows(start, m, chunks, c, 0, 12)
    BY <1>1, StartIs
  <2>3. View(start)
    <3>1. 0 \in Nat
      OBVIOUS
    <3> QED
      BY <2>2, <3>1
  <2> QED
    BY <2>1, <2>2, <2>3
<1> HIDE DEF start
<1>4. n \in Nat
  <2>1. PICK c \in Nat : Carries(m, Described(m), c)
    BY DescribedCarries
  <2>2. Described(m) \in Seq(Chunk)
    BY <2>1, Zenon DEF Carries
  <2> QED
    BY <2>2
<1>5. Views(s, n + 1, start, view)
  <2>1. \E g : Views(s, n + 1, start, g)
    <3>1. n + 1 \in Nat
      BY <1>4
    <3> QED
      BY <3>1, ViewsExist, Zenon
  <2>2. \A g : Views(s, n + 1, start, g) <=> g = made(g)
    BY <1>1, Zenon DEF Views
  <2>3. view = made(view)
    BY <2>1, <2>2, Zenon
  <2> HIDE DEF view
  <2> QED
    BY <2>2, <2>3, Zenon
<1>6. parsed = IF Len(s) < 11 THEN NoView
               ELSE IF SubSeq(s, 1, 5) # <<"QSW2", 1, "UINT", bits, channels>> \/ s[8] # 0 THEN NoView
               ELSE IF s[9] \notin 1..MaxChunks \/ s[10] > MaxMetadata \/ s[11] = 0 \/ ~ AlphaOk(s[6], channels)
                    THEN NoView
               ELSE [end EXCEPT !.ok = valid]
  BY Zenon DEF qsw2_payload_parse, start
<1> HIDE DEF view
<1>7. end = view[n + 1]
  BY <1>1
<1> HIDE DEF end
<1>8. /\ View(end) /\ end.ok /\ end.next = Len(s) + 1 /\ end.size = size /\ end.pixels = pixels
      /\ Description(end) = m /\ size \in Nat
  <2>1. Len(pixels) \in Nat /\ s[11] = Len(pixels)
    BY <1>1
  <2> QED
    BY <1>3, <1>5, <1>7, <2>1, EndIs
<1>9. hdr_metadata_valid(m, channels) => AlphaOk(m.alpha, channels) /\ qsw2_color_valid(m)
        /\ size <= MaxMetadata /\ n + 1 <= MaxChunks
  BY Zenon DEF hdr_metadata_valid
<1>10. qsw2_color_valid(end)
  <2>1. m = [alpha |-> end.alpha, authority |-> end.authority, icc |-> end.icc, cicp |-> end.cicp,
             mdcv |-> end.mdcv, clli |-> end.clli, blocks |-> end.blocks]
    BY <1>8 DEF Description
  <2>2. m.authority = end.authority /\ m.icc = end.icc /\ m.cicp = end.cicp
    BY <2>1
  <2>3. qsw2_color_valid(m)
    BY <1>9
  <2> HIDE DEF end
  <2> QED
    BY <2>2, <2>3 DEF qsw2_color_valid
<1>11. valid = TRUE
  BY <1>1, <1>8, <1>10
<1>12. SubSeq(s, 1, 5) = <<"QSW2", 1, "UINT", bits, channels>>
  <2> DEFINE p == SubSeq(s, 1, 5)
  <2>1. p = [i \in 1..5 |-> s[1 + i - 1]]
    <3>1. 1 \in Nat \ {0} /\ 5 \in Nat /\ 5 = 1 + 5 - 1
      OBVIOUS
    <3>2. 5 <= Len(s)
      BY <1>2
    <3> QED
      BY <3>1, <3>2, PartOf
  <2>2. \A i \in 1..5 : 1 + i - 1 = i
    OBVIOUS
  <2>3. p = [i \in 1..5 |-> s[i]]
    BY <2>1, <2>2
  <2> HIDE DEF p
  <2>4. p = <<s[1], s[2], s[3], s[4], s[5]>>
    BY <2>3
  <2> QED
    BY <1>1, <2>4 DEF p
<1>13. ~ (Len(s) < 11)
  BY <1>2
<1>14. s[9] \in 1..MaxChunks /\ ~ (s[10] > MaxMetadata) /\ s[11] # 0
  <2>1. MaxChunks \in Nat /\ MaxMetadata \in Nat
    BY WideAssumption
  <2>2. n + 1 <= MaxChunks /\ size <= MaxMetadata
    BY <1>9
  <2> HIDE DEF n, size
  <2>3. n + 1 \in 1..MaxChunks /\ ~ (size > MaxMetadata)
    BY <1>4, <1>8, <2>1, <2>2
  <2> QED
    BY <1>1, <2>3
<1>15. AlphaOk(s[6], channels) /\ s[8] = 0
  BY <1>1, <1>9
<1>16. parsed = [end EXCEPT !.ok = valid]
  BY <1>6, <1>12, <1>13, <1>14, <1>15, Zenon
<1> HIDE DEF parsed, valid
<1>17. parsed.ok /\ parsed.pixels = end.pixels
  <2>1. end = [x \in Names |-> end[x]]
    BY <1>8, Zenon DEF View
  <2> QED
    BY <1>11, <1>16, <2>1 DEF Names
<1> QED
  BY <1>8, <1>17 DEF parsed

-----------------------------------------------------------------------------
(* Wide samples, from the caller to the caller.                             *)

\* WideLies with the plane as a parameter, and what else the encoder has
\* looked at.
SlicesAt(sh, pl, s, bits, channels, f) ==
  LET count == SliceCount(bits)
      n == sh.w * sh.h
      part(k) == <<sh.w \div channels, sh.h, channels>> \o [c \in 1..n |-> Part(pl[c - 1], k)]
  IN  /\ \E T : s \in Seq(T)
      /\ s[1] = "QSW1" /\ s[2] = 0 /\ s[3] = bits /\ s[4] = channels /\ s[5] = count /\ s[7] = 0
      /\ s[6] = [c \in 1..n |-> pl[c - 1]]
      /\ \A i \in 1..count : s[7 + i] = 3 + n
      /\ f \in [0..count -> Seq(Nat)] /\ f[0] = <<>>
      /\ \A k \in 1..count : /\ Len(f[k]) = Len(f[k - 1]) + (3 + n) /\ Len(f[k]) <= Len(f[count])
                             /\ \A i \in 1..3 + n : f[count][Len(f[k - 1]) + i] = part(k)[i]
      /\ Len(s) = 7 + count + Len(f[count])
      /\ \A j \in 1..Len(f[count]) : s[7 + count + j] = f[count][j]

Made(sh, pl, s, bits, channels) ==
  /\ bits \in Nat \ {0} /\ bits \in WideBits(SliceBits) /\ channels \in WideChannels
  /\ \A n \in 1..sh.w * sh.h : pl[n - 1] \in Nat /\ pl[n - 1] < Power[bits]
  /\ \E f : SlicesAt(sh, pl, s, bits, channels, f)

LEMMA MadeLies ==
  ASSUME NEW s, NEW bits, NEW channels, NEW f
  PROVE  SlicesAt(shape, plane, s, bits, channels, f) <=> WideLies(s, bits, channels, f)
BY Zenon DEF SlicesAt, WideLies, SliceStream, stream_encode, PlaneSlice, Cells, Size, W

LEMMA MadeIs ==
  ASSUME NEW bits \in Nat, NEW channels, WidePlane(channels), append_wide_payload(bits, channels) # Refused
  PROVE  Made(shape, plane, append_wide_payload(bits, channels), bits, channels)
<1> DEFINE s == append_wide_payload(bits, channels)
<1>1. /\ \E f : WideLies(s, bits, channels, f)
      /\ bits \in WideBits(SliceBits) /\ channels \in WideChannels
      /\ bits \in Nat \ {0} /\ \A n \in Cells : plane[n - 1] \in Nat /\ plane[n - 1] < Power[bits]
  BY WidePayloadLies, Zenon
<1> HIDE DEF s
<1>2. \E f : SlicesAt(shape, plane, s, bits, channels, f)
  BY <1>1, MadeLies, Zenon
<1>3. Cells = 1..shape.w * shape.h
  BY DEF Cells, Size
<1> QED
  BY <1>1, <1>2, <1>3, Zenon DEF Made, s

LEMMA MadeTaken ==
  ASSUME NEW bits, NEW channels, WidePlane(channels), NEW s, Made(shape, plane, s, bits, channels)
  PROVE  /\ wide_payload_decode(s, bits, channels) = [n \in Cells |-> plane[n - 1]]
         /\ [n \in Cells |-> plane[n - 1]] # Refused
         /\ qsw1_shape_valid(s, bits, channels)
<1>1. bits \in Nat \ {0} /\ \A n \in 1..shape.w * shape.h : plane[n - 1] \in Nat /\ plane[n - 1] < Power[bits]
  BY Zenon DEF Made
<1>2. PICK f : SlicesAt(shape, plane, s, bits, channels, f)
  BY Zenon DEF Made
<1>3. WideLies(s, bits, channels, f)
  BY <1>2, MadeLies, Zenon
<1>4. \A n \in Cells : plane[n - 1] \in Nat /\ plane[n - 1] < Power[bits]
  BY <1>1, Zenon DEF Cells, Size
<1> QED
  BY <1>1, <1>3, <1>4, PayloadTaken, Zenon

\* What the wire holds behind the header.
HdrMade(sh, pl, wide, s) ==
  /\ hdr_metadata_valid(wide.description, wide.channels)
  /\ \E S : s \in Seq(S)
  /\ \E pixels : /\ Len(pixels) \in Nat \ {0} /\ pixels # <<>>
                 /\ HdrWhole(wide.description, wide.bits, wide.channels, pixels, s)
                 /\ Made(sh, pl, pixels, wide.bits, wide.channels)

Whole(sh, pl, wide, s) ==
  IF wide.kind = "HDR_WIDE" THEN HdrMade(sh, pl, wide, s)
  ELSE Made(sh, pl, s, wide.bits, wide.channels)

\* What both kinds of decoder give.
LEMMA WholeTaken ==
  ASSUME NEW wide, WidePlane(wide.channels), wide.description \in Descriptions, NEW s,
         Whole(shape, plane, wide, s)
  PROVE  /\ wide.kind # "HDR_WIDE" =>
              wide_payload_decode(s, wide.bits, wide.channels) = [n \in Cells |-> plane[n - 1]]
         /\ wide.kind = "HDR_WIDE" =>
              /\ qsw2_payload_parse(s, wide.bits, wide.channels).ok
              /\ wide_payload_decode(qsw2_payload_parse(s, wide.bits, wide.channels).pixels, wide.bits, wide.channels)
                   = [n \in Cells |-> plane[n - 1]]
         /\ [n \in Cells |-> plane[n - 1]] # Refused
<1> DEFINE m == wide.description
           bits == wide.bits
           channels == wide.channels
<1>1. CASE wide.kind # "HDR_WIDE"
  <2>1. Made(shape, plane, s, bits, channels)
    BY <1>1, Zenon DEF Whole
  <2> QED
    BY <1>1, <2>1, MadeTaken, Zenon
<1>2. CASE wide.kind = "HDR_WIDE"
  <2>1. HdrMade(shape, plane, wide, s)
    BY <1>2, Zenon DEF Whole
  <2>2. hdr_metadata_valid(m, channels)
    BY <2>1, Zenon DEF HdrMade
  <2>3. PICK S : s \in Seq(S)
    BY <2>1, Zenon DEF HdrMade
  <2>4. PICK pixels : /\ Len(pixels) \in Nat \ {0} /\ pixels # <<>>
                      /\ HdrWhole(m, bits, channels, pixels, s)
                      /\ Made(shape, plane, pixels, bits, channels)
    BY <2>1, Zenon DEF HdrMade
  <2>5. /\ wide_payload_decode(pixels, bits, channels) = [n \in Cells |-> plane[n - 1]]
        /\ [n \in Cells |-> plane[n - 1]] # Refused
        /\ qsw1_shape_valid(pixels, bits, channels)
    BY <2>4, MadeTaken, Zenon
  <2>6. m \in Descriptions
    OBVIOUS
  <2> HIDE DEF m, bits, channels
  <2>7. /\ qsw2_payload_parse(s, bits, channels).ok
        /\ qsw2_payload_parse(s, bits, channels).pixels = pixels
    BY <2>2, <2>3, <2>4, <2>5, <2>6, HdrOpens
  <2> QED
    BY <1>2, <2>5, <2>7, Zenon DEF m, bits, channels
<1> QED
  BY <1>1, <1>2

WideInv ==
  /\ how = [x \in HowFields |-> how[x]]
  /\ how.wide # Narrow =>
       /\ method = "file" /\ how.frames = 1
       /\ how.wide.kind \in {"NATIVE_WIDE", "HDR_WIDE"}
       /\ how.wide.bits \in Nat /\ how.wide.description \in Descriptions /\ WidePlane(how.wide.channels)
       /\ stage \in {"map", "start", "cut", "decode", "done"}
       /\ stage = "start" =>
            /\ how.head.mode = how.wide.kind /\ how.head.bits = how.wide.bits
            /\ how.head.count = how.wide.channels /\ HeaderOk(how.head)
            /\ Whole(shape, plane, how.wide, Received)
       /\ stage \in {"decode", "done"} =>
            at = Size /\ read = Len(wire) /\ \A i \in Indices : out[i] = plane[i]

\* An image or an animation of bytes, or a plane, stays one.
LEMMA NarrowKeeps ==
  ASSUME how.wide = Narrow, how'.wide = how.wide, how' = [x \in HowFields |-> how'[x]]
  PROVE  WideInv'
<1>1. how'.wide = Narrow
  OBVIOUS
<1> QED
  BY <1>1 DEF WideInv, Narrow

\* The end of a wide file, and what changes nothing.
LEMMA WideStays ==
  ASSUME WideInv, how' = how, shape' = shape, plane' = plane, method' = method, wire' = wire,
         at' = at, read' = read, out' = out,
         stage' = stage \/ (stage = "decode" /\ stage' = "done") \/ stage' = "cut"
  PROVE  WideInv'
<1>1. CASE how.wide = Narrow
  BY <1>1, NarrowKeeps DEF WideInv
<1>2. CASE how.wide # Narrow
  <2>1. how'.wide # Narrow'
    BY <1>2 DEF Narrow
  <2>2. Size' = Size /\ Indices' = Indices
    BY DEF Size, Indices
  <2>3. Received' = Received
    BY DEF Received
  <2>4. WidePlane(how.wide.channels) => WidePlane(how.wide.channels)'
    BY <2>2 DEF WidePlane
  <2> QED
    BY <1>2, <2>1, <2>2, <2>3, <2>4 DEF WideInv
<1> QED
  BY <1>1, <1>2

LEMMA WideStart == CodecInit => WideInv
<1> SUFFICES ASSUME CodecInit PROVE WideInv
  OBVIOUS
<1>1. CASE \E p \in Pictures, f \in Families :
             how = [colours |-> f, head |-> NoHead, frames |-> p.frames, wide |-> Narrow, given |-> {}]
  BY <1>1 DEF WideInv, HowFields
<1>2. ASSUME NEW p \in WideImages, shape = p.shape, plane = p.plane, method = "file", stage = "map",
             how = [colours |-> <<>>, head |-> NoHead, frames |-> 1, wide |-> p.wide, given |-> {}]
      PROVE  WideInv
  <2>1. /\ p.shape \in [w : Nat \ {0}, h : Nat \ {0}, depth : Nat \ {0}]
        /\ p.plane \in [0..p.shape.w * p.shape.h - 1 -> Nat]
        /\ p.wide.kind \in {"NATIVE_WIDE", "HDR_WIDE"} /\ p.wide.bits \in Nat /\ p.wide.description \in Descriptions
        /\ p.wide.channels \in Nat \ {0} /\ p.shape.w % p.wide.channels = 0
    BY <1>2, WideImagesAssumption
  <2>2. shape.w \in Nat \ {0} /\ shape.h \in Nat \ {0} /\ plane \in [Indices -> Nat]
    BY <1>2, <2>1 DEF Indices, Size
  <2>3. how = [x \in HowFields |-> how[x]] /\ how.frames = 1 /\ how.wide = p.wide
    BY <1>2 DEF HowFields
  <2>4. WidePlane(p.wide.channels)
    BY <1>2, <2>1, <2>2 DEF WidePlane
  <2> QED
    BY <1>2, <2>1, <2>3, <2>4 DEF WideInv
<1>3. CASE how = [colours |-> <<>>, head |-> NoHead, frames |-> 0, wide |-> Narrow, given |-> {}]
  BY <1>3 DEF WideInv, HowFields
<1>4. CASE ContainerInit
  <2>1. CASE \E p \in Pictures, f \in Families :
               /\ shape = p.shape /\ plane = p.plane
               /\ Len(f) >= M
               /\ how = [colours |-> f, head |-> NoHead, frames |-> p.frames, wide |-> Narrow, given |-> {}]
    BY <1>1, <2>1
  <2>2. CASE \E p \in WideImages :
               /\ shape = p.shape /\ plane = p.plane
               /\ how = [colours |-> <<>>, head |-> NoHead, frames |-> 1, wide |-> p.wide, given |-> {}]
    <3>1. method = "file" /\ stage = "map"
      BY <1>4 DEF ContainerInit
    <3> QED
      BY <1>2, <2>2, <3>1
  <2> QED
    BY <1>4, <2>1, <2>2 DEF ContainerInit
<1> QED
  BY <1>3, <1>4 DEF CodecInit

\* The header that a wide file gets, whole, and that its reader takes.
LEMMA HeadIs ==
  ASSUME WideInv, NEW c, Written(c)
  PROVE  /\ how' = [x \in HowFields |-> how'[x]] /\ how'.wide = how.wide /\ how'.frames = how.frames
         /\ how'.head = [mode |-> c.mode, transform |-> c.transform, bits |-> c.bits,
                         codec |-> c.codec, count |-> c.count, size |-> Len(c.payload)]
         /\ stage' = "start" /\ input' = input
         /\ Received' = [k \in DOMAIN (c.palette \o c.payload) |-> (c.palette \o c.payload)[k]]
<1> DEFINE head == [mode |-> c.mode, transform |-> c.transform, bits |-> c.bits,
                    codec |-> c.codec, count |-> c.count, size |-> Len(c.payload)]
           bytes == c.palette \o c.payload
<1>1. how' = [how EXCEPT !.head = head] /\ stage' = "start" /\ input' = input
      /\ wire' = [k \in DOMAIN bytes |-> Put("file", 0, 0, k, bytes[k])]
  BY DEF Written
<1>2. how = [x \in HowFields |-> how[x]]
  BY DEF WideInv
<1> HIDE DEF head, bytes
<1>4. how' = [x \in HowFields |-> how'[x]] /\ how'.wide = how.wide /\ how'.frames = how.frames /\ how'.head = head
  BY <1>1, <1>2 DEF HowFields
<1>5. Received' = [k \in DOMAIN bytes |-> bytes[k]]
  BY <1>1 DEF Received, Put
<1> QED
  BY <1>1, <1>4, <1>5 DEF bytes, head

LEMMA WideHeader ==
  ASSUME NEW h, h.mode \in {"NATIVE_WIDE", "HDR_WIDE"}, h.transform = "IDENTITY", h.codec = "STORE",
         h.count \in WideChannels,
         h.bits \in WideBits(IF h.mode = "HDR_WIDE" THEN SliceBits ELSE SliceBits + 1)
  PROVE  HeaderOk(h)
BY DEF HeaderOk

\* What the encoder writes is whole, or nothing.
LEMMA WholeMade ==
  ASSUME NEW wide, wide.kind \in {"NATIVE_WIDE", "HDR_WIDE"}, wide.bits \in Nat, wide.description \in Descriptions,
         WidePlane(wide.channels), NEW payload, payload # Refused,
         payload = IF wide.kind = "HDR_WIDE" THEN enc_hdr_mem(wide.description, wide.bits, wide.channels)
                   ELSE IF wide.bits \in WideBits(SliceBits + 1) THEN append_wide_payload(wide.bits, wide.channels)
                   ELSE Refused
  PROVE  /\ Whole(shape, plane, wide, payload) /\ \E S : payload \in Seq(S)
         /\ wide.channels \in WideChannels
         /\ wide.bits \in WideBits(IF wide.kind = "HDR_WIDE" THEN SliceBits ELSE SliceBits + 1)
<1> DEFINE m == wide.description
           bits == wide.bits
           channels == wide.channels
           pixels == append_wide_payload(bits, channels)
<1>1. Size \in Nat /\ bits \in Nat /\ m \in Descriptions
  BY WidePlaneIs
<1>2. PICK T : pixels \in Seq(T)
  BY <1>1, PixelsAreSeq
<1>3. pixels # Refused => Made(shape, plane, pixels, bits, channels)
  BY MadeIs, Zenon
<1>4. pixels # Refused => bits \in WideBits(SliceBits) /\ channels \in WideChannels
  BY <1>3, Zenon DEF Made
<1>5. CASE wide.kind = "HDR_WIDE"
  <2> DEFINE s == HdrFile(m, bits, channels, pixels)
  <2>1. hdr_metadata_valid(m, channels) /\ pixels # Refused /\ payload = s
    BY <1>5, Zenon DEF enc_hdr_mem, HdrFile, HeadOfHdr
  <2>2. Len(pixels) \in Nat \ {0} /\ pixels # <<>>
    <3> HIDE DEF pixels
    <3>1. pixels # <<>>
      BY <2>1 DEF Refused
    <3> QED
      BY <1>2, <3>1
  <2> HIDE DEF pixels, m, bits, channels
  <2>3. /\ HdrLies(m, HdrFile(m, bits, channels, pixels))
        /\ HdrWhole(m, bits, channels, pixels, HdrFile(m, bits, channels, pixels))
    BY <1>1, <1>2, HdrFileLies, Zenon
  <2>4. \E S : s \in Seq(S)
    BY <2>3, Zenon DEF HdrLies
  <2>5. HdrMade(shape, plane, wide, s)
    BY <1>3, <2>1, <2>2, <2>3, <2>4, Zenon DEF HdrMade, m, bits, channels
  <2> HIDE DEF s
  <2> QED
    BY <1>4, <1>5, <2>1, <2>4, <2>5 DEF Whole, bits, channels
<1>6. CASE wide.kind # "HDR_WIDE"
  <2>1. payload = pixels /\ bits \in WideBits(SliceBits + 1)
    BY <1>6, Zenon
  <2> HIDE DEF pixels
  <2> QED
    BY <1>2, <1>3, <1>4, <1>6, <2>1 DEF Whole
<1> QED
  BY <1>5, <1>6

LEMMA WideWritten ==
  ASSUME WideInv, EncodeWide
  PROVE  WideInv'
<1> DEFINE wide == how.wide
           payload == IF wide.kind = "HDR_WIDE" THEN enc_hdr_mem(wide.description, wide.bits, wide.channels)
                      ELSE IF wide.bits \in WideBits(SliceBits + 1) THEN append_wide_payload(wide.bits, wide.channels)
                      ELSE Refused
           c == [Candidate(wide.kind, "IDENTITY", wide.bits, <<>>, payload) EXCEPT !.count = wide.channels]
<1>1. /\ method = "file" /\ stage = "map" /\ wide # Narrow
      /\ IF payload = Refused THEN stage' = "cut" /\ UNCHANGED <<input, wire, tp, at, prevk, prevs, read, out, how>>
         ELSE Written(c)
  BY DEF EncodeWide
<1>2. CASE payload = Refused
  <2>1. /\ how' = how /\ shape' = shape /\ plane' = plane /\ method' = method /\ wire' = wire /\ at' = at
        /\ read' = read /\ out' = out /\ stage' = "cut"
    BY <1>1, <1>2 DEF input
  <2> QED
    BY <2>1, WideStays
<1>3. CASE payload # Refused
  <2>1. Written(c)
    BY <1>1, <1>3
  <2>2. /\ wide.kind \in {"NATIVE_WIDE", "HDR_WIDE"} /\ wide.bits \in Nat /\ wide.description \in Descriptions
        /\ WidePlane(wide.channels) /\ how.frames = 1
    BY <1>1 DEF WideInv
  <2>3. /\ c.mode = wide.kind /\ c.bits = wide.bits /\ c.count = wide.channels /\ c.payload = payload
        /\ c.palette = <<>> /\ c.transform = "IDENTITY" /\ c.codec = "STORE"
    BY <2>2 DEF Candidate, WithPalette
  <2> HIDE DEF c
  <2>4. /\ how' = [x \in HowFields |-> how'[x]] /\ how'.wide = wide /\ how'.frames = how.frames
        /\ how'.head = [mode |-> c.mode, transform |-> c.transform, bits |-> c.bits,
                        codec |-> c.codec, count |-> c.count, size |-> Len(c.payload)]
        /\ stage' = "start" /\ input' = input
        /\ Received' = [k \in DOMAIN (c.palette \o c.payload) |-> (c.palette \o c.payload)[k]]
    BY <2>1, HeadIs, Zenon
  <2>5. /\ Whole(shape, plane, wide, payload) /\ \E S : payload \in Seq(S)
        /\ wide.channels \in WideChannels
        /\ wide.bits \in WideBits(IF wide.kind = "HDR_WIDE" THEN SliceBits ELSE SliceBits + 1)
    <3> DEFINE given == payload
    <3>1. given = IF wide.kind = "HDR_WIDE" THEN enc_hdr_mem(wide.description, wide.bits, wide.channels)
                  ELSE IF wide.bits \in WideBits(SliceBits + 1) THEN append_wide_payload(wide.bits, wide.channels)
                  ELSE Refused
      OBVIOUS
    <3> HIDE DEF given
    <3>2. /\ Whole(shape, plane, wide, given) /\ \E S : given \in Seq(S)
          /\ wide.channels \in WideChannels
          /\ wide.bits \in WideBits(IF wide.kind = "HDR_WIDE" THEN SliceBits ELSE SliceBits + 1)
      <4>1. given # Refused
        BY <1>3 DEF given
      <4> HIDE DEF wide, payload
      <4> QED
        BY <2>2, <3>1, <4>1, WholeMade
    <3> QED
      BY <3>2 DEF given
  <2> HIDE DEF payload, wide
  <2>6. Received' = payload
    <3>1. payload = [k \in DOMAIN payload |-> payload[k]] /\ <<>> \o payload = payload
      BY <2>5
    <3> QED
      BY <2>3, <2>4, <3>1
  <2>7. HeaderOk(how'.head)
    <3> DEFINE h == how'.head
    <3>1. /\ h.mode = wide.kind /\ h.transform = "IDENTITY" /\ h.codec = "STORE" /\ h.count = wide.channels
          /\ h.bits = wide.bits
      BY <2>3, <2>4
    <3> HIDE DEF h
    <3>2. HeaderOk(h)
      BY <2>2, <2>5, <3>1, WideHeader
    <3> QED
      BY <3>2 DEF h
  <2>8. how'.head.mode = wide.kind /\ how'.head.bits = wide.bits /\ how'.head.count = wide.channels
    BY <2>3, <2>4
  <2>9. shape' = shape /\ plane' = plane /\ method' = method
    BY <2>4 DEF input
  <2>10. WidePlane(wide.channels)'
    <3>1. Indices' = Indices
      BY <2>9 DEF Indices, Size
    <3>2. WidePlane(how.wide.channels)
      BY <2>2 DEF wide
    <3> QED
      BY <2>4, <2>9, <3>1, <3>2 DEF WidePlane, wide
  <2>11. Whole(shape', plane', how'.wide, Received')
    BY <2>4, <2>5, <2>6, <2>9
  <2>12. WidePlane(how.wide.channels)'
    BY <2>4, <2>10 DEF wide
  <2> QED
    BY <1>1, <2>2, <2>4, <2>7, <2>8, <2>9, <2>11, <2>12 DEF WideInv, wide
<1> QED
  BY <1>2, <1>3

\* The reader of a wide file has every sample.
LEMMA WideGiven ==
  ASSUME WideInv, how.wide # Narrow, stage = "start", NEW samples,
         samples = [n \in Cells |-> plane[n - 1]], samples # Refused, GivenSamples(samples),
         how' = [x \in HowFields |-> how'[x]], how'.wide = how.wide, how'.frames = how.frames
  PROVE  WideInv'
<1>1. /\ input' = input /\ wire' = wire /\ out' = [i \in Indices |-> samples[i + 1]]
      /\ at' = Size /\ read' = Len(wire) /\ stage' = "decode"
  BY DEF GivenSamples
<1>2. shape' = shape /\ plane' = plane /\ method' = method
  BY <1>1 DEF input
<1>3. Size' = Size /\ Indices' = Indices
  BY <1>2 DEF Size, Indices
<1>4. /\ method = "file" /\ how.frames = 1 /\ how.wide.kind \in {"NATIVE_WIDE", "HDR_WIDE"}
      /\ how.wide.bits \in Nat /\ how.wide.description \in Descriptions /\ WidePlane(how.wide.channels)
  BY DEF WideInv
<1>5. Size \in Nat
  BY <1>4, WidePlaneIs
<1>6. \A i \in Indices : out'[i] = plane[i]
  <2> TAKE i \in Indices
  <2>1. i + 1 \in Cells /\ (i + 1) - 1 = i
    BY <1>5 DEF Indices, Cells
  <2>2. samples[i + 1] = plane[i]
    BY <2>1
  <2> QED
    BY <1>1, <2>2
<1>7. WidePlane(how.wide.channels)'
  BY <1>2, <1>3, <1>4 DEF WidePlane
<1>8. how'.wide # Narrow'
  BY DEF Narrow
<1> QED
  BY <1>1, <1>2, <1>3, <1>4, <1>6, <1>7, <1>8 DEF WideInv

LEMMA WideTaken ==
  ASSUME WideInv, DecodeWide \/ DecodeHdr
  PROVE  WideInv'
<1> DEFINE h == how.head
           view == IF HeaderOk(h) THEN qsw2_payload_parse(Received, h.bits, h.count) ELSE NoView
           all == [n \in Cells |-> plane[n - 1]]
<1>1. /\ method = "file" /\ stage = "start" /\ how = [x \in HowFields |-> how[x]]
      /\ how' = [x \in HowFields |-> how'[x]] /\ how'.wide = how.wide /\ how'.frames = how.frames
  <2>1. method = "file" /\ stage = "start" /\ how = [x \in HowFields |-> how[x]]
    BY DEF DecodeWide, DecodeHdr, WideInv
  <2>2. how' = how \/ \E x : how' = [how EXCEPT !.given = x]
    BY Zenon DEF DecodeWide, DecodeHdr
  <2> QED
    BY <2>1, <2>2 DEF HowFields
<1>2. CASE how.wide = Narrow
  BY <1>1, <1>2, NarrowKeeps
<1>3. CASE how.wide # Narrow
  <2>1. /\ h.mode = how.wide.kind /\ h.bits = how.wide.bits /\ h.count = how.wide.channels /\ HeaderOk(h)
        /\ Whole(shape, plane, how.wide, Received) /\ WidePlane(how.wide.channels)
        /\ how.wide.description \in Descriptions
    BY <1>1, <1>3 DEF WideInv
  <2>2. /\ how.wide.kind # "HDR_WIDE" =>
             wide_payload_decode(Received, how.wide.bits, how.wide.channels) = all
        /\ how.wide.kind = "HDR_WIDE" =>
             /\ qsw2_payload_parse(Received, how.wide.bits, how.wide.channels).ok
             /\ wide_payload_decode(qsw2_payload_parse(Received, how.wide.bits, how.wide.channels).pixels,
                                    how.wide.bits, how.wide.channels) = all
        /\ all # Refused
    <3> DEFINE wide == how.wide
               s == Received
    <3>1. /\ Whole(shape, plane, wide, s) /\ WidePlane(wide.channels) /\ wide.description \in Descriptions
      BY <2>1
    <3> HIDE DEF wide, s
    <3>2. /\ wide.kind # "HDR_WIDE" =>
               wide_payload_decode(s, wide.bits, wide.channels) = [n \in Cells |-> plane[n - 1]]
          /\ wide.kind = "HDR_WIDE" =>
               /\ qsw2_payload_parse(s, wide.bits, wide.channels).ok
               /\ wide_payload_decode(qsw2_payload_parse(s, wide.bits, wide.channels).pixels, wide.bits, wide.channels)
                    = [n \in Cells |-> plane[n - 1]]
          /\ [n \in Cells |-> plane[n - 1]] # Refused
      BY <3>1, WholeTaken, Zenon
    <3> QED
      BY <3>2, Zenon DEF wide, s
  <2>3. GivenSamples(all)
    <3>1. CASE DecodeWide
      <4>1. h.mode = "NATIVE_WIDE"
            /\ GivenSamples(IF HeaderOk(h) THEN wide_payload_decode(Received, h.bits, h.count) ELSE Refused)
        BY <3>1, Zenon DEF DecodeWide
      <4>2. how.wide.kind # "HDR_WIDE"
        BY <2>1, <4>1
      <4>3. (IF HeaderOk(h) THEN wide_payload_decode(Received, h.bits, h.count) ELSE Refused) = all
        <5> HIDE DEF all, h
        <5> QED
          BY <2>1, <2>2, <4>2
      <4> QED
        BY <4>1, <4>3, Zenon
    <3>2. CASE DecodeHdr
      <4>1. h.mode = "HDR_WIDE"
            /\ GivenSamples(IF view.ok THEN wide_payload_decode(view.pixels, h.bits, h.count) ELSE Refused)
        BY <3>2, Zenon DEF DecodeHdr
      <4>2. how.wide.kind = "HDR_WIDE"
        BY <2>1, <4>1
      <4>3. (IF view.ok THEN wide_payload_decode(view.pixels, h.bits, h.count) ELSE Refused) = all
        <5>1. view = qsw2_payload_parse(Received, how.wide.bits, how.wide.channels)
          BY <2>1
        <5> HIDE DEF all, h, view
        <5> QED
          BY <2>1, <2>2, <4>2, <5>1
      <4> QED
        BY <4>1, <4>3, Zenon
    <3> QED
      BY <3>1, <3>2
  <2> HIDE DEF all
  <2>4. all = [n \in Cells |-> plane[n - 1]] /\ all # Refused
    BY <2>2 DEF all
  <2> QED
    BY <1>1, <1>3, <2>3, <2>4, WideGiven, Zenon
<1> QED
  BY <1>2, <1>3

LEMMA WideStep == WideInv /\ [PageNext]_containerVars => WideInv'
<1> SUFFICES ASSUME WideInv, [PageNext]_containerVars PROVE WideInv'
  OBVIOUS
<1>1. how = [x \in HowFields |-> how[x]]
  BY DEF WideInv
<1>2. how.wide # Narrow =>
        method = "file" /\ how.frames = 1 /\ (stage = "start" => how.head.mode \in {"NATIVE_WIDE", "HDR_WIDE"})
  BY DEF WideInv
<1>3. ASSUME UNCHANGED containerVars PROVE WideInv'
  <2>1. /\ how' = how /\ shape' = shape /\ plane' = plane /\ method' = method /\ wire' = wire
        /\ at' = at /\ read' = read /\ out' = out /\ stage' = stage
    BY <1>3 DEF containerVars, vars
  <2> QED
    BY <2>1, WideStays
<1>4. ASSUME method # "file", how' = how PROVE WideInv'
  BY <1>1, <1>2, <1>4, NarrowKeeps
<1>5. ASSUME ModesNext, how' = how PROVE WideInv'
  <2>1. method # "file"
    BY <1>5, ModesApart, PlanesApart, FileIsNoMode
  <2> QED
    BY <1>4, <1>5, <2>1
<1>6. ASSUME EncodeFile \/ EncodeAnimation PROVE WideInv'
  <2>1. how.wide = Narrow
    BY <1>2, <1>6 DEF EncodeFile, EncodeAnimation
  <2>2. \E c : Written(c)
    BY <1>6, Zenon DEF EncodeFile, EncodeAnimation
  <2>3. how'.wide = how.wide /\ how' = [x \in HowFields |-> how'[x]]
    BY <2>2, HeadIs
  <2> QED
    BY <2>1, <2>3, NarrowKeeps
<1>7. ASSUME DecodeFile \/ DecodeAnimation \/ PageDecode \/ PageDecodeAnimation PROVE WideInv'
  <2>1. stage = "start" /\ how.head.mode \notin {"NATIVE_WIDE", "HDR_WIDE"} /\ how' = how
    <3>1. DecodeFile => stage = "start" /\ how.head.mode \notin {"NATIVE_WIDE", "HDR_WIDE"} /\ how' = how
      BY Zenon DEF DecodeFile, Given
    <3>2. DecodeAnimation => stage = "start" /\ how.head.mode = "ANIM" /\ how' = how
      BY Zenon DEF DecodeAnimation, Given
    <3>3. PageDecode => stage = "start" /\ how.head.mode \notin {"NATIVE_WIDE", "HDR_WIDE"} /\ how' = how
      BY Zenon DEF PageDecode, Shown, Given
    <3>4. PageDecodeAnimation => stage = "start" /\ how.head.mode = "ANIM" /\ how' = how
      BY Zenon DEF PageDecodeAnimation, Shown, Given
    <3> QED
      BY <1>7, <3>1, <3>2, <3>3, <3>4
  <2> QED
    BY <1>1, <1>2, <2>1, NarrowKeeps
<1>8. ASSUME Finish \/ Stopped, how' = how PROVE WideInv'
  <2>1. /\ shape' = shape /\ plane' = plane /\ method' = method /\ wire' = wire
        /\ at' = at /\ read' = read /\ out' = out
        /\ (stage' = stage \/ (stage = "decode" /\ stage' = "done"))
    BY <1>8 DEF Finish, Stopped, input, vars
  <2> QED
    BY <1>8, <2>1, WideStays
<1>9. ASSUME EncodeWide \/ DecodeWide \/ DecodeHdr PROVE WideInv'
  BY <1>9, WideWritten, WideTaken
<1>10. ASSUME method \in {"base", "xzr"}, how' = how PROVE WideInv'
  BY <1>4, <1>10
<1> QED
  BY <1>3, <1>5, <1>6, <1>7, <1>8, <1>9, <1>10 DEF PageNext, ContainerNext

\* For planes of every size, every number of bits, 1, 3 or 4 channels and every
\* description: what enc_wide_mem or enc_hdr_mem wrote, dec_wide_qlic_limited
\* or dec_hdr_qlic_limited does not refuse, and gives back sample by sample.
\* The slices of bytes are found where the table of lengths puts them, and
\* their sum, weighted, is the sample.
THEOREM WideSamplesComeBack == PageSpec => [](how.wide # Narrow => RoundTrip /\ InStep)
<1>1. WideInv => (how.wide # Narrow => RoundTrip /\ InStep)
  <2> SUFFICES ASSUME WideInv, how.wide # Narrow PROVE RoundTrip /\ InStep
    OBVIOUS
  <2>1. /\ stage \in {"map", "start", "cut", "decode", "done"}
        /\ stage \in {"decode", "done"} => at = Size /\ read = Len(wire) /\ \A i \in Indices : out[i] = plane[i]
    BY DEF WideInv
  <2>2. stage \in {"decode", "done"} => \A i \in 0..at - 1 : out[i] = plane[i]
    BY <2>1 DEF Indices
  <2> QED
    BY <2>1, <2>2 DEF RoundTrip, InStep
<1> QED
  BY <1>1, WideStart, WideStep, PTL DEF PageSpec
=============================================================================
