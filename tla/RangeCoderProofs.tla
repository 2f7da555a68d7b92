--------------------------- MODULE RangeCoderProofs ---------------------------
(***************************************************************************)
(* The range coder, for every radix, range width, probability width and    *)
(* adaptation rate the assumptions of RangeCoder allow (those of the code  *)
(* among them), and for messages of any length.                            *)
(*                                                                         *)
(* Precision.  It never runs out of precision, never loses a carry and     *)
(* never makes a bit impossible.  That a carry never overflows the cached  *)
(* digit is not inductive: it depends on how far the interval reaches.     *)
(* Fit adds that the interval ends below 2 * W, and that it ends at W when *)
(* the cached digit is the largest one.                                    *)
(*                                                                         *)
(* The message.  The decoder reads back what was encoded.  The invariant   *)
(* speaks of numbers: the bytes given out, the cached digit, the pending   *)
(* ones and low always make up the beginning of the interval the decisions *)
(* have narrowed to (Tracks); the flushed message is that number (FlushSays); *)
(* so it lies in every interval on the way (InsideAll), and the decoder,   *)
(* whose code is its distance from the beginning of the interval (Reads),  *)
(* compares it with the same bound as the encoder.                         *)
(***************************************************************************)
EXTENDS RangeCoder, SequenceTheorems, WellFoundedInduction, TLAPS

Registers == [low : Nat, range : Nat, cache : 0..(Base - 1), pending : Nat]

Fit(r) ==
  /\ r \in Registers
  /\ 1 <= r.range /\ r.range < W
  /\ r.low + r.range < 2 * W
  /\ r.cache = Base - 1 => r.low + r.range <= W
  /\ 1 <= r.pending

-----------------------------------------------------------------------------
(* Probabilities.                                                           *)

\* An update keeps a probability strictly between 0 and 1, at any rate.
LEMMA UpdatedInRange ==
  ASSUME NEW p \in 1..(ProbOne - 1), NEW bit \in {0, 1}, NEW rate \in 1..8
  PROVE  Updated(p, bit, rate) \in 1..(ProbOne - 1)
<1>1. Divisor[rate] \in {2, 4, 8, 16, 32, 64, 128, 256}
  BY DEF Divisor
<1>2. \A n \in Nat, d \in {2, 4, 8, 16, 32, 64, 128, 256} :
         n >= 1 => n \div d \in 0..(n - 1)
  OBVIOUS
<1>3. p \div Divisor[rate] \in 0..(p - 1)
  BY <1>1, <1>2, ProbAssumption
<1>4. (ProbOne - p) \div Divisor[rate] \in 0..(ProbOne - p - 1)
  BY <1>1, <1>2, ProbAssumption
<1> QED
  BY <1>3, <1>4, ProbAssumption DEF Updated

\* A rounded mean lies between what it is the mean of.
LEMMA MeansInRange ==
  ASSUME NEW a \in 1..(ProbOne - 1), NEW b \in 1..(ProbOne - 1)
  PROVE  /\ Half(a, b) \in 1..(ProbOne - 1)
         /\ \A w \in {4, 5, 6} : Eighths(w, a, b) \in 1..(ProbOne - 1)
         /\ Sixteenths(12, a, b) \in 1..(ProbOne - 1)
<1> USE ProbAssumption
<1>1. Half(a, b) \in 1..(ProbOne - 1)
  BY DEF Half
<1>2. Eighths(4, a, b) \in 1..(ProbOne - 1)
  BY DEF Eighths
<1>3. Eighths(5, a, b) \in 1..(ProbOne - 1)
  BY DEF Eighths
<1>4. Eighths(6, a, b) \in 1..(ProbOne - 1)
  BY DEF Eighths
<1>5. Sixteenths(12, a, b) \in 1..(ProbOne - 1)
  BY DEF Sixteenths
<1> QED
  BY <1>1, <1>2, <1>3, <1>4, <1>5

AllKindsOfDecision ==
  {"plain", "mix", "coarse", "mix3", "root", "mix4", "mix4_weight", "mix5_sign"}

LEMMA MixedInRange ==
  ASSUME NEW kind \in AllKindsOfDecision, NEW p \in Probabilities
  PROVE  Mixed(kind, p) \in 1..(ProbOne - 1)
<1>1. /\ p["child"] \in 1..(ProbOne - 1) /\ p["exact"] \in 1..(ProbOne - 1)
      /\ p["fine"] \in 1..(ProbOne - 1) /\ p["coarse"] \in 1..(ProbOne - 1)
      /\ p["root"] \in 1..(ProbOne - 1)
  BY DEF Probabilities, Contexts
<1>2. Parent(p) \in 1..(ProbOne - 1)
  BY <1>1, MeansInRange DEF Parent
<1>3. Half(p["fine"], p["coarse"]) \in 1..(ProbOne - 1)
  BY <1>1, MeansInRange
<1>4. CASE kind \in {"plain", "coarse", "root"}
  BY <1>1, <1>2, <1>3, <1>4 DEF Mixed
<1>5. CASE kind = "mix"
  BY <1>1, <1>5, MeansInRange DEF Mixed
<1>6. CASE kind = "mix3"
  BY <1>1, <1>3, <1>6, MeansInRange DEF Mixed
<1>7. CASE kind \in {"mix4", "mix4_weight"}
  BY <1>1, <1>2, <1>7, MeansInRange DEF Mixed
<1>8. CASE kind = "mix5_sign"
  BY <1>1, <1>8, MeansInRange DEF Mixed
<1> QED
  BY <1>4, <1>5, <1>6, <1>7, <1>8 DEF AllKindsOfDecision

\* Learning from a bit keeps every context in range: the rates are 1 to 8.
LEMMA LearnedInRange ==
  ASSUME NEW kind \in AllKindsOfDecision, NEW p \in Probabilities,
         NEW bit \in {0, 1}
  PROVE  Learned(kind, p, bit) \in Probabilities
<1>1. \A c \in DOMAIN Rates(kind) : Adapt + Rates(kind)[c] \in 1..8
  BY AdaptAssumption DEF AllKindsOfDecision, Rates, Contexts
<1>2. \A c \in Contexts : p[c] \in 1..(ProbOne - 1)
  BY DEF Probabilities
<1>3. \A c \in Contexts :
        c \in DOMAIN Rates(kind) =>
          Updated(p[c], bit, Adapt + Rates(kind)[c]) \in 1..(ProbOne - 1)
  BY <1>1, <1>2, UpdatedInRange
<1> QED
  BY <1>2, <1>3 DEF Learned, Probabilities

\* The decoder's copies of the functions that mix and update say the same.
LEMMA SidesAgree ==
  ASSUME NEW kind \in AllKindsOfDecision, NEW p \in Probabilities, NEW bit \in {0, 1}
  PROVE  DecMixed(kind, p) = Mixed(kind, p) /\ DecLearned(kind, p, bit) = Learned(kind, p, bit)
<1>1. /\ p["child"] \in Int /\ p["exact"] \in Int /\ p["fine"] \in Int
      /\ p["coarse"] \in Int /\ p["root"] \in Int
  BY ProbAssumption DEF Probabilities, Contexts
<1>2. p = [c \in Contexts |-> p[c]] /\ DOMAIN p = Contexts
  BY DEF Probabilities
<1>3. DecMixed(kind, p) = Mixed(kind, p)
  <2>1. /\ Half(p["coarse"], p["root"]) = (p["coarse"] + p["root"] + 1) \div 2
        /\ Half(p["fine"], p["coarse"]) = (p["fine"] + p["coarse"] + 1) \div 2
        /\ Parent(p) = (p["fine"] + ((p["coarse"] + p["root"] + 1) \div 2) + 1) \div 2
    BY DEF Half, Parent
  <2>2. /\ (p["coarse"] + p["root"] + 1) \div 2 \in Int
        /\ (p["fine"] + p["coarse"] + 1) \div 2 \in Int
        /\ Parent(p) \in Int
    BY <1>1, <2>1
  <2> QED
    BY <1>1, <2>1, <2>2 DEF DecMixed, Mixed, Eighths, Sixteenths, AllKindsOfDecision
<1>4. DecLearned(kind, p, bit) = Learned(kind, p, bit)
  <2> USE AdaptAssumption
  <2>1. CASE kind \in {"plain", "mix", "coarse", "mix3"}
    BY <1>2, <2>1 DEF DecLearned, Learned, Rates, Contexts
  <2>2. CASE kind = "root"
    BY <1>2, <2>2 DEF DecLearned, Learned, Rates, Contexts
  <2>3. CASE kind \in {"mix4", "mix4_weight"}
    BY <1>2, <2>3 DEF DecLearned, Learned, Rates, Contexts
  <2>4. CASE kind = "mix5_sign"
    BY <1>2, <2>4 DEF DecLearned, Learned, Rates, Contexts
  <2> QED
    BY <2>1, <2>2, <2>3, <2>4 DEF AllKindsOfDecision
<1> QED
  BY <1>3, <1>4
-----------------------------------------------------------------------------
(* Registers.                                                               *)

LEMMA Widths ==
  /\ Base \in Nat /\ Top \in Nat /\ W \in Nat /\ ProbOne \in Nat
  /\ Top >= 1 /\ Base >= 2
  /\ W = Base * Top
<1>1. Base \in Nat /\ Top \in Nat /\ Base >= 2 /\ Top >= 1
  BY BaseAssumption, TopAssumption, ProbAssumption
<1> QED
  BY <1>1, ProbAssumption DEF W

\* What a bit of probability p leaves of a range of at least Top, for a 0 and
\* for a 1: at least s, the part of Top a single probability unit stands for.
LEMMA BoundInside ==
  ASSUME NEW range \in Nat, range >= Top, NEW s \in 1..Top, Top = s * ProbOne,
         NEW p \in 1..(ProbOne - 1)
  PROVE  LET bound == (range \div ProbOne) * p
         IN  bound \in Nat /\ bound >= s /\ bound + s <= range
<1> DEFINE q == range \div ProbOne
           bound == q * p
<1> USE ProbAssumption, Widths
<1>1. q \in Nat /\ q * ProbOne <= range /\ range < (q + 1) * ProbOne
  OBVIOUS
<1>2. q >= s
  <2>1. s * ProbOne < (q + 1) * ProbOne
    BY <1>1
  <2>2. s < q + 1
    BY <2>1, <1>1
  <2> QED
    BY <2>2, <1>1
<1>3. bound \in Nat /\ bound >= q
  <2>1. q * p \in Nat /\ p >= 1 /\ p \in Nat
    BY <1>1
  <2>2. q * p = q * (p - 1) + q /\ q * (p - 1) \in Nat
    BY <1>1, <2>1
  <2> QED
    BY <2>1, <2>2, <1>1
<1>4. bound + q <= q * ProbOne
  <2>1. p + 1 <= ProbOne /\ p \in Nat
    OBVIOUS
  <2>2. q * (p + 1) <= q * ProbOne
    BY <2>1, <1>1
  <2>3. q * (p + 1) = q * p + q
    BY <2>1, <1>1
  <2> QED
    BY <2>2, <2>3
<1> HIDE DEF q
<1>5. bound \in Nat /\ bound >= s /\ bound + s <= range
  <2> HIDE DEF bound
  <2> QED
    BY <1>1, <1>2, <1>3, <1>4
<1> QED
  BY <1>5 DEF q

\* Narrowing never moves the end of the interval up.
LEMMA NarrowFits ==
  ASSUME NEW r \in Registers, Fit(r), r.range >= Top,
         NEW s \in 1..Top, Top = s * ProbOne,
         NEW p \in 1..(ProbOne - 1), NEW bit \in {0, 1}
  PROVE  Fit(Narrow(r, p, bit)) /\ Narrow(r, p, bit).range >= s
<1> DEFINE bound == (r.range \div ProbOne) * p
           n == Narrow(r, p, bit)
<1>1. r.range \in Nat /\ r.low \in Nat
  BY DEF Registers
<1>2. bound \in Nat /\ bound >= s /\ bound + s <= r.range
  BY <1>1, BoundInside
<1> HIDE DEF bound
<1>3. CASE bit = 1
  <2>1. n = [r EXCEPT !.low = @ + bound, !.range = @ - bound]
    BY <1>3 DEF Narrow, bound
  <2>2. /\ n.low = r.low + bound /\ n.range = r.range - bound
        /\ n.cache = r.cache /\ n.pending = r.pending
    BY <2>1, <1>1, <1>2 DEF Registers
  <2>3. r.low + bound \in Nat /\ r.range - bound \in Nat
    BY <1>1, <1>2, Widths, ProbAssumption
  <2>4. n \in Registers
    BY <2>1, <2>3 DEF Registers
  <2> QED
    BY <2>2, <2>4, <1>1, <1>2, Widths DEF Fit
<1>4. CASE bit = 0
  <2>1. n = [r EXCEPT !.range = bound]
    BY <1>4 DEF Narrow, bound
  <2>2. n.low = r.low /\ n.range = bound
        /\ n.cache = r.cache /\ n.pending = r.pending /\ n \in Registers
    BY <2>1, <1>1, <1>2 DEF Registers
  <2> QED
    BY <2>2, <1>1, <1>2, Widths DEF Fit
<1> QED
  BY <1>3, <1>4

\* low taken apart at Top, the place value of its leading digit.
LEMMA LeadingDigit ==
  ASSUME NEW low \in Nat
  PROVE  /\ low \div Top \in Nat /\ low % Top \in Nat /\ low % Top < Top
         /\ low = (low \div Top) * Top + (low % Top)
  BY Widths

\* The arithmetic of a shift, on plain numbers: t is the leading digit of low
\* with the carry, m the rest.
LEMMA ShiftArithmetic ==
  ASSUME NEW t \in Nat, NEW m \in Nat, NEW range \in Nat, NEW low \in Nat,
         m < Top, low = t * Top + m, 1 <= range, range < Top,
         low + range < 2 * W
  PROVE  /\ m * Base + range * Base < 2 * W
         /\ 1 <= range * Base /\ range * Base < W
         /\ m * Base \in Nat /\ range * Base \in Nat
         /\ t < 2 * Base
         /\ t = 2 * Base - 1 => m * Base + range * Base <= W
         /\ (t = Base - 1 /\ low + range <= W) => m * Base + range * Base <= W
<1> USE Widths
<1>1. m * Base \in Nat /\ range * Base \in Nat /\ (m + range) * Base = m * Base + range * Base
  OBVIOUS
<1>2. m * Base <= (Top - 1) * Base /\ range * Base <= (Top - 1) * Base
  OBVIOUS
<1>3. (Top - 1) * Base = W - Base
  OBVIOUS
<1>4. 1 <= range * Base
  <2>1. range * Base = (range - 1) * Base + Base /\ (range - 1) * Base \in Nat
    OBVIOUS
  <2> QED
    BY <2>1
<1>5. t < 2 * Base
  <2>1. t * Top < (2 * Base) * Top
    OBVIOUS
  <2> QED
    BY <2>1
<1>6. t = 2 * Base - 1 => m + range < Top
  <2>1. (2 * Base - 1) * Top = 2 * W - Top
    OBVIOUS
  <2> QED
    BY <2>1
<1>7. (t = Base - 1 /\ low + range <= W) => m + range <= Top
  <2>1. (Base - 1) * Top = W - Top
    OBVIOUS
  <2> QED
    BY <2>1
<1>8. m + range <= Top => (m + range) * Base <= W
  OBVIOUS
<1> QED
  BY <1>1, <1>2, <1>3, <1>4, <1>5, <1>6, <1>7, <1>8

\* A shift of a range below Top keeps the registers fit: if the digit that
\* becomes the cached one is the largest, no carry can follow it.
LEMMA ShiftFits ==
  ASSUME NEW r \in Registers, Fit(r), r.range < Top
  PROVE  LET n == Shift([r EXCEPT !.range = @ * Base])
         IN  Fit(n) /\ n.range = r.range * Base
<1> DEFINE wide == [r EXCEPT !.range = @ * Base]
           n == Shift(wide)
           t == r.low \div Top
           m == r.low % Top
<1> USE Widths
<1>1. /\ r.low \in Nat /\ r.range \in Nat /\ r.cache \in 0..(Base - 1)
      /\ r.pending \in Nat
  BY DEF Registers
<1>2. t \in Nat /\ m \in Nat /\ m < Top /\ r.low = t * Top + m
  BY <1>1, LeadingDigit
<1>3. /\ 1 <= r.range /\ r.low + r.range < 2 * W /\ 1 <= r.pending
      /\ r.cache = Base - 1 => r.low + r.range <= W
  BY DEF Fit
<1> HIDE DEF t, m
<1>4. /\ m * Base + r.range * Base < 2 * W
      /\ 1 <= r.range * Base /\ r.range * Base < W
      /\ m * Base \in Nat /\ r.range * Base \in Nat
      /\ t < 2 * Base
      /\ t = 2 * Base - 1 => m * Base + r.range * Base <= W
      /\ (t = Base - 1 /\ r.low + r.range <= W) => m * Base + r.range * Base <= W
  BY <1>1, <1>2, <1>3, ShiftArithmetic
<1>5. wide.low = r.low /\ wide.cache = r.cache /\ wide.pending = r.pending
      /\ wide.range = r.range * Base
  BY DEF Registers
<1>6. Settled(wide) <=> Settled(r)
  BY <1>5 DEF Settled
<1>7. /\ n.low = m * Base /\ n.range = r.range * Base
      /\ n.cache = IF Settled(r) THEN t % Base ELSE r.cache
      /\ n.pending = IF Settled(r) THEN 1 ELSE r.pending + 1
      /\ n = [low |-> n.low, range |-> n.range, cache |-> n.cache, pending |-> n.pending]
  BY <1>5, <1>6 DEF Shift, t, m
<1>8. t % Base \in 0..(Base - 1) /\ (t % Base = Base - 1 => t \in {Base - 1, 2 * Base - 1})
  <2>1. PICK d \in Nat, e \in 0..(Base - 1) : t = d * Base + e /\ t % Base = e
    <3> DEFINE d == t \div Base
               e == t % Base
    <3>1. d \in Nat /\ e \in 0..(Base - 1) /\ t = d * Base + e
      BY <1>2
    <3> QED
      BY <3>1
  <2>2. d < 2
    <3>1. d * Base \in Nat /\ d * Base < 2 * Base
      BY <2>1, <1>2, <1>4
    <3> QED
      BY <3>1
  <2>3. d = 0 \/ d = 1
    BY <2>2
  <2> QED
    BY <2>1, <2>3
<1>9. n \in Registers /\ 1 <= n.pending
  BY <1>1, <1>3, <1>4, <1>7, <1>8 DEF Registers
<1>10. n.cache = Base - 1 => n.low + n.range <= W
  <2>1. CASE Settled(r)
    <3> SUFFICES ASSUME n.cache = Base - 1 PROVE n.low + n.range <= W
      OBVIOUS
    <3>1. t \in {Base - 1, 2 * Base - 1}
      BY <2>1, <1>7, <1>8
    <3>2. CASE t = Base - 1
      <4>1. (Base - 1) * Top = W - Top
        OBVIOUS
      <4>2. r.low >= (Base - 1) * Top /\ r.low < W
        BY <3>2, <4>1, <1>2
      <4> QED
        BY <2>1, <4>2, <1>1 DEF Settled
    <3>3. CASE t = 2 * Base - 1
      BY <3>3, <1>4, <1>7
    <3> QED
      BY <3>1, <3>2, <3>3
  <2>2. CASE ~Settled(r)
    <3>1. (Base - 1) * Top <= r.low /\ r.low < W
      BY <2>2, <1>1 DEF Settled
    <3>2. t = Base - 1
      <4>1. t * Top < Base * Top
        BY <3>1, <1>2
      <4>2. t < Base
        BY <4>1, <1>2
      <4>3. (Base - 1) * Top < (t + 1) * Top
        BY <3>1, <1>2
      <4>4. Base - 1 < t + 1
        BY <4>3, <1>2
      <4> QED
        BY <4>2, <4>4, <1>2
    <3> QED
      BY <2>2, <3>2, <1>3, <1>4, <1>7
  <2> QED
    BY <2>1, <2>2
<1>11. 1 <= n.range /\ n.range < W /\ n.low + n.range < 2 * W
  BY <1>4, <1>7
<1> HIDE DEF n
<1>12. Fit(n) /\ n.range = r.range * Base
  BY <1>7, <1>9, <1>10, <1>11 DEF Fit
<1> QED
  BY <1>12 DEF n

\* Coding a bit leaves the registers fit and the range at Top or above.
LEMMA EncBitFits ==
  ASSUME NEW r \in Registers, Fit(r), r.range >= Top,
         NEW p \in 1..(ProbOne - 1), NEW bit \in {0, 1}
  PROVE  Fit(EncBit(r, p, bit).reg) /\ EncBit(r, p, bit).reg.range >= Top
<1>1. PICK s \in 1..Top : Top = s * ProbOne
  BY TopAssumption
<1> DEFINE s0 == [reg |-> Narrow(r, p, bit), bytes |-> <<>>]
           s1 == Renorm(s0)
           s2 == Renorm(s1)
<1>2. Fit(s0.reg) /\ s0.reg.range >= s
  BY <1>1, NarrowFits
<1>3. \A x : Fit(x) => x \in Registers /\ x.range \in Nat
  BY DEF Fit, Registers
<1>4. Fit(s1.reg) /\ (s1.reg.range >= Top \/ s1.reg.range >= s * Base)
  <2>1. CASE s0.reg.range < Top
    <3>1. s1.reg = Shift([s0.reg EXCEPT !.range = @ * Base])
      BY <2>1 DEF Renorm
    <3>2. Fit(s1.reg) /\ s1.reg.range = s0.reg.range * Base
      BY <3>1, <2>1, <1>2, <1>3, ShiftFits
    <3>3. s0.reg.range * Base >= s * Base
      BY <1>2, <1>3, Widths
    <3> QED
      BY <3>2, <3>3
  <2>2. CASE ~(s0.reg.range < Top)
    <3>1. s1 = s0
      BY <2>2 DEF Renorm
    <3> QED
      BY <3>1, <2>2, <1>2, <1>3, Widths
  <2> QED
    BY <2>1, <2>2
<1> HIDE DEF s0, s1
<1>5. Fit(s2.reg) /\ s2.reg.range >= Top
  <2>1. CASE s1.reg.range < Top
    <3>1. s2.reg = Shift([s1.reg EXCEPT !.range = @ * Base])
      BY <2>1 DEF Renorm
    <3>2. Fit(s2.reg) /\ s2.reg.range = s1.reg.range * Base
      BY <3>1, <2>1, <1>4, <1>3, ShiftFits
    <3>3. s1.reg.range >= s * Base
      BY <2>1, <1>3, <1>4, Widths
    <3>4. s1.reg.range * Base >= (s * Base) * Base
      BY <3>3, <1>3, <1>4, Widths
    <3>5. (s * Base) * Base >= s * ProbOne
      <4>1. s * (Base * Base - ProbOne) \in Nat
        BY TopAssumption, Widths
      <4>2. (s * Base) * Base = s * ProbOne + s * (Base * Base - ProbOne)
        BY Widths
      <4>3. s * ProbOne \in Nat /\ (s * Base) * Base \in Nat
        BY Widths
      <4> QED
        BY <4>1, <4>2, <4>3
    <3>6. s1.reg.range * Base \in Nat /\ (s * Base) * Base \in Nat
      BY <1>3, <1>4, Widths
    <3> QED
      BY <3>2, <3>4, <3>5, <3>6, <1>1, Widths
  <2>2. CASE ~(s1.reg.range < Top)
    <3>1. s2 = s1
      BY <2>2 DEF Renorm
    <3> QED
      BY <3>1, <2>2, <1>4, <1>3, Widths
  <2> QED
    BY <2>1, <2>2
<1> QED
  BY <1>5 DEF EncBit, s0, s1
-----------------------------------------------------------------------------
(* The coder as a state machine.                                            *)

CoderInv ==
  /\ phase = "encode" => Fit(reg) /\ reg.range >= Top
  /\ prob \in Probabilities /\ dprob \in Probabilities
  /\ hist \in Seq([kind : AllKindsOfDecision, bit : {0, 1}])
  /\ Len(got) \in Nat

LEMMA InitCoder == Init => CoderInv
<1> SUFFICES ASSUME Init PROVE CoderInv
  OBVIOUS
<1> USE Widths
<1>1. W - 1 \in Nat /\ W - 1 >= Top /\ W - 1 >= 1
  <2>1. W >= 2 * Top
    <3>1. (Base - 2) * Top \in Nat /\ Base * Top = (Base - 2) * Top + 2 * Top
      OBVIOUS
    <3> QED
      BY <3>1
  <2> QED
    BY <2>1
<1>2. /\ reg = [low |-> 0, range |-> W - 1, cache |-> 0, pending |-> 1]
      /\ reg \in Registers
  BY <1>1 DEF Init, Registers
<1>3. Fit(reg) /\ reg.range >= Top
  BY <1>1, <1>2 DEF Fit
<1>4. prob \in Probabilities /\ dprob \in Probabilities
  BY StartsAssumption DEF Init, Probabilities
<1>5. hist = <<>> /\ got = <<>>
  BY DEF Init
<1> QED
  BY <1>3, <1>4, <1>5 DEF CoderInv

LEMMA EncodeKeepsCoder ==
  ASSUME CoderInv, NEW kind \in Kinds, NEW bit \in {0, 1}, Encode(kind, bit)
  PROVE  CoderInv'
<1>1. kind \in AllKindsOfDecision
  BY KindsAssumption DEF AllKindsOfDecision
<1>2. /\ phase = "encode" /\ phase' = "encode" /\ UNCHANGED <<dprob, got>>
      /\ reg' = EncBit(reg, Mixed(kind, prob), bit).reg
      /\ prob' = Learned(kind, prob, bit)
      /\ hist' = Append(hist, [kind |-> kind, bit |-> bit])
  BY DEF Encode, decVars, CoderInv
<1>3. Fit(reg') /\ reg'.range >= Top
  <2>1. reg \in Registers /\ Fit(reg) /\ reg.range >= Top
    BY <1>2 DEF CoderInv, Fit
  <2>2. Mixed(kind, prob) \in 1..(ProbOne - 1)
    BY <1>1, MixedInRange DEF CoderInv
  <2> QED
    BY <1>2, <2>1, <2>2, EncBitFits
<1>4. prob' \in Probabilities
  BY <1>1, <1>2, LearnedInRange DEF CoderInv
<1>5. hist' \in Seq([kind : AllKindsOfDecision, bit : {0, 1}])
  BY <1>1, <1>2 DEF CoderInv
<1> QED
  BY <1>2, <1>3, <1>4, <1>5 DEF CoderInv

LEMMA DecodeKeepsCoder ==
  ASSUME CoderInv, Decode
  PROVE  CoderInv'
<1> DEFINE kind == hist[Len(got) + 1].kind
           bit == DecodedBit(dec, DecMixed(kind, dprob))
<1>1. kind \in AllKindsOfDecision
  <2>1. Len(got) + 1 \in 1..Len(hist)
    BY DEF CoderInv, Decode
  <2>2. hist[Len(got) + 1] \in [kind : AllKindsOfDecision, bit : {0, 1}]
    BY <2>1, ElementOfSeq DEF CoderInv
  <2> QED
    BY <2>2
<1>2. bit \in {0, 1}
  BY DEF DecodedBit
<1>3. /\ dprob' = DecLearned(kind, dprob, bit)
      /\ got' = Append(got, bit)
      /\ UNCHANGED <<phase, reg, prob, hist>>
  BY DEF Decode, encVars
<1> HIDE DEF kind, bit
<1>4. dprob' \in Probabilities
  BY <1>1, <1>2, <1>3, LearnedInRange, SidesAgree DEF CoderInv
<1>5. Len(got') \in Nat
  BY <1>3 DEF CoderInv
<1> QED
  BY <1>3, <1>4, <1>5 DEF CoderInv

LEMMA CoderInvariance == Spec => []CoderInv
<1>1. CoderInv /\ [Next]_vars => CoderInv'
  <2> SUFFICES ASSUME CoderInv, [Next]_vars PROVE CoderInv'
    OBVIOUS
  <2>1. CASE \E kind \in Kinds, bit \in {0, 1} : Encode(kind, bit)
    BY <2>1, EncodeKeepsCoder
  <2>2. CASE Flush
    BY <2>2 DEF Flush, decVars, CoderInv
  <2>3. CASE \E n \in 0..Len(out) : Deliver(n)
    BY <2>3 DEF Deliver, encVars, CoderInv
  <2>4. CASE Open
    BY <2>4 DEF Open, encVars, CoderInv
  <2>5. CASE Decode
    BY <2>5, DecodeKeepsCoder
  <2>6. CASE UNCHANGED vars
    BY <2>6 DEF vars, CoderInv
  <2> QED
    BY <2>1, <2>2, <2>3, <2>4, <2>5, <2>6 DEF Next
<1> QED
  BY <1>1, InitCoder, PTL DEF Spec

\* Two renormalisations are always enough and no carry overflows the cached
\* digit, for messages of any length (stream.c:344-380).
THEOREM PrecisionAlwaysKept == Spec => []PrecisionKept
<1>1. CoderInv => PrecisionKept
  BY Widths DEF CoderInv, PrecisionKept, Fit, Registers
<1> QED
  BY <1>1, CoderInvariance, PTL

\* Neither side ever assigns a bit probability 0 or 1, whatever contexts are
\* mixed and in whatever state they are (stream.c:354-359, 463-637).
THEOREM EveryBitAlwaysPossible == Spec => []EveryBitPossible
<1>1. CoderInv => EveryBitPossible
  BY DEF CoderInv, EveryBitPossible
<1> QED
  BY <1>1, CoderInvariance, PTL

-----------------------------------------------------------------------------
(* Counting.  A set that holds 0 and each successor holds every number: a   *)
(* smallest number outside it would follow one inside.                      *)

LEMMA Induction ==
  ASSUME NEW S, 0 \in S, \A n \in Nat : n \in S => n + 1 \in S
  PROVE  \A n \in Nat : n \in S
<1> SUFFICES ASSUME ~ \A n \in Nat : n \in S PROVE FALSE
  OBVIOUS
<1> DEFINE Missing == Nat \ S
<1>1. Missing # {} /\ Missing \subseteq Nat
  OBVIOUS
<1>2. \E n \in Missing : \A m \in Missing : ~ (<<m, n>> \in OpToRel(<, Nat))
  <2> HIDE DEF Missing
  <2> QED
    BY <1>1, NatLessThanWellFounded, WFMin
<1>3. PICK n \in Missing : \A m \in Missing : ~ (m < n)
  BY <1>2 DEF OpToRel
<1>4. n # 0 /\ n - 1 \in Nat /\ n - 1 \notin Missing
  BY <1>3
<1> QED
  BY <1>4

\* The first n steps of next from start.
Steps(n, D, start, next) ==
  {q \in [0..n -> D] : q[0] = start /\ \A i \in 1..n : q[i] = next[q[i - 1]]}

LEMMA OneStepMore ==
  ASSUME NEW D, NEW start \in D, NEW next \in [D -> D],
         NEW n \in Nat, NEW q \in Steps(n, D, start, next)
  PROVE  [i \in 0..(n + 1) |-> IF i <= n THEN q[i] ELSE next[q[n]]]
           \in Steps(n + 1, D, start, next)
<1> DEFINE r == [i \in 0..(n + 1) |-> IF i <= n THEN q[i] ELSE next[q[n]]]
<1>1. q \in [0..n -> D] /\ q[0] = start /\ \A i \in 1..n : q[i] = next[q[i - 1]]
  BY DEF Steps
<1>2. r \in [0..(n + 1) -> D]
  BY <1>1
<1>3. r[0] = start
  BY <1>1
<1>4. ASSUME NEW i \in 1..(n + 1) PROVE r[i] = next[r[i - 1]]
  BY <1>1
<1> HIDE DEF r
<1>5. r \in Steps(n + 1, D, start, next)
  BY <1>2, <1>3, <1>4 DEF Steps
<1> QED
  BY <1>5 DEF r

LEMMA StepsAgree ==
  ASSUME NEW D, NEW start \in D, NEW next \in [D -> D],
         NEW m \in Nat, NEW n \in Nat,
         NEW q \in Steps(m, D, start, next), NEW r \in Steps(n, D, start, next)
  PROVE  \A i \in Nat : i <= m /\ i <= n => q[i] = r[i]
<1> DEFINE Same == {i \in Nat : i <= m /\ i <= n => q[i] = r[i]}
<1>1. 0 \in Same
  BY DEF Steps
<1>2. ASSUME NEW i \in Nat, i \in Same PROVE i + 1 \in Same
  <2> SUFFICES ASSUME i + 1 <= m, i + 1 <= n PROVE q[i + 1] = r[i + 1]
    OBVIOUS
  <2>1. i + 1 \in 1..m /\ i + 1 \in 1..n /\ (i + 1) - 1 = i
    OBVIOUS
  <2>2. q[i + 1] = next[q[i]] /\ r[i + 1] = next[r[i]]
    BY <2>1 DEF Steps
  <2> QED
    BY <1>2, <2>2
<1>3. \A i \in Nat : i \in Same
  <2> HIDE DEF Same
  <2> QED
    BY <1>1, <1>2, Induction
<1> QED
  BY <1>3

LEMMA StepsExist ==
  ASSUME NEW D, NEW start \in D, NEW next \in [D -> D]
  PROVE  \A n \in Nat : Steps(n, D, start, next) # {}
<1> DEFINE Some == {k \in Nat : Steps(k, D, start, next) # {}}
<1>1. 0 \in Some
  <2>1. [i \in 0..0 |-> start] \in Steps(0, D, start, next)
    BY DEF Steps
  <2> QED
    BY <2>1
<1>2. ASSUME NEW k \in Nat, k \in Some PROVE k + 1 \in Some
  <2>1. PICK q : q \in Steps(k, D, start, next)
    BY <1>2
  <2>2. Steps(k + 1, D, start, next) # {}
    BY <2>1, OneStepMore
  <2> QED
    BY <2>2
<1>3. \A n \in Nat : n \in Some
  <2> HIDE DEF Some
  <2> QED
    BY <1>1, <1>2, Induction
<1> QED
  BY <1>3

\* Any step can be repeated any number of times.
LEMMA Iteration ==
  ASSUME NEW D, NEW start \in D, NEW next \in [D -> D]
  PROVE  \E f \in [Nat -> D] :
           f[0] = start /\ \A i \in Nat : f[i + 1] = next[f[i]]
<1> DEFINE first(n) == CHOOSE q \in Steps(n, D, start, next) : TRUE
           f == [n \in Nat |-> first(n)[n]]
<1>1. ASSUME NEW n \in Nat PROVE first(n) \in Steps(n, D, start, next)
  BY StepsExist
<1> HIDE DEF first
<1>2. f \in [Nat -> D]
  <2>1. ASSUME NEW n \in Nat PROVE first(n)[n] \in D
    BY <1>1 DEF Steps
  <2> QED
    BY <2>1
<1>3. f[0] = start
  BY <1>1 DEF Steps
<1>4. ASSUME NEW i \in Nat PROVE f[i + 1] = next[f[i]]
  <2>1. first(i + 1)[i + 1] = next[first(i + 1)[i]]
    <3>1. i + 1 \in 1..(i + 1) /\ (i + 1) - 1 = i /\ i + 1 \in Nat
      OBVIOUS
    <3> QED
      BY <3>1, <1>1 DEF Steps
  <2>2. first(i + 1)[i] = first(i)[i]
    BY <1>1, StepsAgree
  <2> QED
    BY <2>1, <2>2
<1> HIDE DEF f
<1> QED
  BY <1>2, <1>3, <1>4

\* f is what comes of it.
Iterates(f, D, start, next) ==
  f \in [Nat -> D] /\ f[0] = start /\ \A i \in Nat : f[i + 1] = next[f[i]]

LEMMA IterationExists ==
  ASSUME NEW D, NEW start \in D, NEW next \in [D -> D]
  PROVE  \E f : Iterates(f, D, start, next)
  BY Iteration DEF Iterates

LEMMA Powers ==
  /\ Power \in [Nat -> Nat] /\ Power[0] = 1
  /\ \A n \in Nat : Power[n + 1] = Base * Power[n]
<1>1. PICK f \in [Nat -> Nat] : f[0] = 1 /\ \A n \in Nat : f[n + 1] = Base * f[n]
  <2> DEFINE next == [x \in Nat |-> Base * x]
  <2>1. next \in [Nat -> Nat] /\ 1 \in Nat
    BY Widths
  <2>2. \E f \in [Nat -> Nat] : f[0] = 1 /\ \A i \in Nat : f[i + 1] = next[f[i]]
    <3> DEFINE D == Nat
               start == 1
    <3>1. start \in D /\ next \in [D -> D]
      BY <2>1
    <3> HIDE DEF next, D, start
    <3>2. \E f \in [Nat -> D] : f[0] = start /\ \A i \in Nat : f[i + 1] = next[f[i]]
      BY <3>1, Iteration
    <3> QED
      BY <3>2 DEF D, start
  <2> QED
    BY <2>2
<1>2. ASSUME NEW n \in Nat PROVE f[n] = IF n = 0 THEN 1 ELSE Base * f[n - 1]
  <2>1. n # 0 => n - 1 \in Nat /\ (n - 1) + 1 = n
    OBVIOUS
  <2> QED
    BY <1>1, <2>1
<1>3. f = [n \in Nat |-> IF n = 0 THEN 1 ELSE Base * f[n - 1]]
  BY <1>1, <1>2
<1>4. Power = [n \in Nat |-> IF n = 0 THEN 1 ELSE Base * Power[n - 1]]
  BY <1>3 DEF Power
<1>5. Power[0] = 1
  BY <1>4
<1>6. ASSUME NEW n \in Nat PROVE Power[n + 1] = Base * Power[n]
  <2>1. n + 1 \in Nat /\ n + 1 # 0 /\ (n + 1) - 1 = n
    OBVIOUS
  <2> QED
    BY <1>4, <2>1
<1>7. \A n \in Nat : Power[n] \in Nat
  <2> DEFINE Natural == {n \in Nat : Power[n] \in Nat}
  <2>1. 0 \in Natural /\ \A n \in Nat : n \in Natural => n + 1 \in Natural
    BY <1>5, <1>6, Widths
  <2>2. \A n \in Nat : n \in Natural
    <3> HIDE DEF Natural
    <3> QED
      BY <2>1, Induction
  <2> QED
    BY <2>2
<1> QED
  BY <1>4, <1>5, <1>6, <1>7

LEMMA ProductPositive ==
  ASSUME NEW a \in Nat, NEW b \in Nat, a >= 1, b >= 1
  PROVE  a * b \in Nat /\ a * b >= 1
<1>1. a * b = a * (b - 1) + a /\ a * (b - 1) \in Nat
  OBVIOUS
<1> QED
  BY <1>1

\* What Widths says, without the product.
LEMMA Sizes ==
  /\ Base \in Nat /\ Top \in Nat /\ W \in Nat
  /\ Base >= 2 /\ Top >= 1 /\ W >= 1
  BY Widths, ProductPositive

LEMMA PowersPositive == \A n \in Nat : Power[n] \in Nat /\ Power[n] >= 1
<1> DEFINE Positive == {n \in Nat : Power[n] >= 1}
<1>1. 0 \in Positive
  BY Powers
<1>2. ASSUME NEW n \in Nat, n \in Positive PROVE n + 1 \in Positive
  <2>1. Power[n] \in Nat /\ Power[n] >= 1 /\ Power[n + 1] = Base * Power[n]
    BY <1>2, Powers
  <2> QED
    BY <2>1, ProductPositive, Widths
<1>3. \A n \in Nat : n \in Positive
  <2> HIDE DEF Positive
  <2> QED
    BY <1>1, <1>2, Induction
<1> QED
  BY <1>3, Powers

-----------------------------------------------------------------------------
(* What the encoder has said.  The bytes it has given out are the digits of  *)
(* a number; the cached digit and the Base - 1 pending ones behind it are    *)
(* the next digits of it, and low is what lies below them.                   *)

Digit == 0..(Base - 1)
Bytes == Seq(Digit)

\* v[i] is the number that the first i digits of s stand for.
Values(s) ==
  {v \in [0..Len(s) -> Nat] :
     v[0] = 0 /\ \A i \in 1..Len(s) : v[i] = Base * v[i - 1] + s[i]}

\* With n for the digits that are out, cached and pending, the encoder stands at a.
Coded(s, r, a) ==
  \E v \in Values(s), n \in Nat :
    /\ n + 1 = (Base * v[Len(s)] + r.cache + 1) * Power[r.pending - 1]
    /\ a = n * W + r.low

\* A carry finds a cached digit that takes it.
Safe(r) ==
  /\ r \in Registers
  /\ r.pending >= 1
  /\ r.low < 2 * W
  /\ r.cache = Base - 1 => r.low < W

\* A digit and m equal ones behind it.
Run(c, d, m) == <<c>> \o [i \in 1..m |-> d]

\* A run of Base - 1 lacks one unit of the next power, a run of 0 nothing.
Filler(d, e) == d = IF e = 1 THEN Base - 1 ELSE 0

\* The value of a message that had the value x, with the run.
Extended(x, c, e, m) == (Base * x + c + e) * Power[m] - e

LEMMA BytesAreDigits ==
  ASSUME NEW s \in Bytes
  PROVE  Len(s) \in Nat /\ \A i \in 1..Len(s) : s[i] \in Digit
  BY ElementOfSeq, LenProperties DEF Bytes

LEMMA Joined ==
  ASSUME NEW a \in Bytes, NEW b \in Bytes
  PROVE  /\ a \o b \in Bytes /\ Len(a \o b) = Len(a) + Len(b)
         /\ \A i \in 1..Len(a) : (a \o b)[i] = a[i]
         /\ \A i \in 1..Len(b) : (a \o b)[Len(a) + i] = b[i]
  BY ConcatProperties DEF Bytes

LEMMA RunIsDigits ==
  ASSUME NEW c \in Digit, NEW d \in Digit, NEW m \in Nat
  PROVE  /\ Run(c, d, m) \in Bytes /\ Len(Run(c, d, m)) = m + 1
         /\ Run(c, d, m)[1] = c
         /\ \A i \in 1..m : Run(c, d, m)[i + 1] = d
<1> DEFINE equal == [i \in 1..m |-> d]
<1>1. equal \in Bytes /\ Len(equal) = m /\ \A i \in 1..m : equal[i] = d
  BY DEF Bytes
<1>2. <<c>> \in Bytes /\ Len(<<c>>) = 1 /\ <<c>>[1] = c
  BY DEF Bytes
<1> HIDE DEF equal
<1>3. \A i \in 1..m : 1 + i = i + 1
  OBVIOUS
<1> QED
  BY <1>1, <1>2, <1>3, Joined DEF Run, equal

LEMMA RunJoined ==
  ASSUME NEW s \in Bytes, NEW c \in Digit, NEW d \in Digit, NEW m \in Nat
  PROVE  LET all == s \o Run(c, d, m)
             l == Len(s)
         IN  /\ all \in Bytes /\ Len(all) = l + m + 1
             /\ \A i \in 1..l : all[i] = s[i]
             /\ all[l + 1] = c
             /\ \A i \in (l + 2)..(l + m + 1) : all[i] = d
<1> DEFINE all == s \o Run(c, d, m)
           l == Len(s)
<1>1. /\ Run(c, d, m) \in Bytes /\ Len(Run(c, d, m)) = m + 1
      /\ Run(c, d, m)[1] = c
      /\ \A i \in 1..m : Run(c, d, m)[i + 1] = d
  BY RunIsDigits
<1>2. /\ all \in Bytes /\ Len(all) = l + (m + 1)
      /\ \A i \in 1..l : all[i] = s[i]
      /\ \A i \in 1..(m + 1) : all[l + i] = Run(c, d, m)[i]
  BY <1>1, Joined
<1>3. l \in Nat
  BY BytesAreDigits
<1> HIDE DEF all, l
<1>4. 1 \in 1..(m + 1) /\ l + (m + 1) = l + m + 1
  BY <1>3
<1>5. ASSUME NEW i \in (l + 2)..(l + m + 1) PROVE all[i] = d
  <2>1. i - l - 1 \in 1..m /\ (i - l - 1) + 1 \in 1..(m + 1)
        /\ l + ((i - l - 1) + 1) = i
    BY <1>3
  <2> QED
    BY <2>1, <1>1, <1>2
<1>6. /\ all \in Bytes /\ Len(all) = l + m + 1
      /\ \A i \in 1..l : all[i] = s[i]
      /\ all[l + 1] = c
      /\ \A i \in (l + 2)..(l + m + 1) : all[i] = d
  BY <1>1, <1>2, <1>4, <1>5
<1> QED
  BY <1>6 DEF all, l

\* The value of a message grows by a run of digits as by one carry-free product.
LEMMA ValuesRun ==
  ASSUME NEW s \in Bytes, NEW v \in Values(s),
         NEW c \in Digit, NEW d \in Digit, NEW e \in {0, 1}, Filler(d, e),
         NEW m \in Nat
  PROVE  \E w \in Values(s \o Run(c, d, m)) :
           w[Len(s) + m + 1] = Extended(v[Len(s)], c, e, m)
<1> DEFINE l == Len(s)
           x == Base * v[l] + c + e
           all == s \o Run(c, d, m)
           tail(i) == x * Power[i - l - 1] - e
           w == [i \in 0..(l + m + 1) |-> IF i <= l THEN v[i] ELSE tail(i)]
<1>1. /\ v \in [0..l -> Nat] /\ v[0] = 0
      /\ \A i \in 1..l : v[i] = Base * v[i - 1] + s[i]
  BY DEF Values
<1>2. l \in Nat /\ v[l] \in Nat /\ x \in Nat /\ x >= e
  <2>1. l \in Nat /\ v[l] \in Nat
    BY <1>1, BytesAreDigits
  <2>2. Base * v[l] \in Nat
    BY <2>1, Widths
  <2> QED
    BY <2>1, <2>2 DEF Digit
<1>3. /\ all \in Bytes /\ Len(all) = l + m + 1
      /\ \A i \in 1..l : all[i] = s[i]
      /\ all[l + 1] = c
      /\ \A i \in (l + 2)..(l + m + 1) : all[i] = d
  BY RunJoined
<1> HIDE DEF all, x
<1>4. \A j \in Nat : x * Power[j] - e \in Nat
  <2> SUFFICES ASSUME NEW j \in Nat PROVE x * Power[j] - e \in Nat
    OBVIOUS
  <2>1. Power[j] \in Nat /\ Power[j] >= 1
    BY PowersPositive
  <2>2. \A a, b \in Nat : b >= 1 => a * b = a * (b - 1) + a /\ a * (b - 1) \in Nat
    OBVIOUS
  <2>3. x * Power[j] = x * (Power[j] - 1) + x /\ x * (Power[j] - 1) \in Nat
    BY <2>1, <2>2, <1>2
  <2> QED
    BY <2>3, <1>2
<1>5. w \in [0..(l + m + 1) -> Nat]
  <2>1. ASSUME NEW i \in 0..(l + m + 1), ~(i <= l) PROVE tail(i) \in Nat
    <3>1. i - l - 1 \in Nat
      BY <2>1, <1>2
    <3> QED
      BY <3>1, <1>4
  <2> QED
    BY <2>1, <1>1, <1>2
<1>6. w[0] = 0
  BY <1>1, <1>2
<1>7. ASSUME NEW i \in 1..(l + m + 1) PROVE w[i] = Base * w[i - 1] + all[i]
  <2>1. CASE i <= l
    <3>1. i \in 1..l /\ i - 1 <= l /\ i - 1 \in 0..(l + m + 1)
      BY <2>1, <1>2
    <3> QED
      BY <3>1, <2>1, <1>1, <1>3
  <2>2. CASE i = l + 1
    <3>1. w[i] = tail(i) /\ w[i - 1] = v[l]
      BY <2>2, <1>2
    <3>2. tail(i) = x - e
      <4>1. i - l - 1 = 0
        BY <2>2, <1>2
      <4> QED
        BY <4>1, <1>2, Powers
    <3>3. x - e = Base * v[l] + c
      <4>1. Base * v[l] \in Nat /\ c \in Nat
        BY <1>2, Widths DEF Digit
      <4> QED
        BY <4>1 DEF x
    <3> HIDE DEF w
    <3> QED
      BY <3>1, <3>2, <3>3, <2>2, <1>3
  <2>3. CASE i > l + 1
    <3> DEFINE j == i - l - 2
    <3>1. j \in Nat /\ i - l - 1 = j + 1 /\ (i - 1) - l - 1 = j
          /\ i - 1 \in 0..(l + m + 1) /\ ~(i <= l) /\ ~(i - 1 <= l)
          /\ i \in (l + 2)..(l + m + 1)
      BY <2>3, <1>2
    <3>2. w[i] = x * Power[j + 1] - e /\ w[i - 1] = x * Power[j] - e
      BY <3>1
    <3>3. Power[j + 1] = Base * Power[j] /\ Power[j] \in Nat
      BY <3>1, Powers
    <3> HIDE DEF j
    <3>4. x * (Base * Power[j]) = Base * (x * Power[j])
      BY <3>3, <1>2, Widths
    <3>5. Base * (x * Power[j] - e) = Base * (x * Power[j]) - Base * e
      BY <3>3, <1>2, Widths
    <3>6. x * Power[j] \in Nat /\ Base * (x * Power[j]) \in Nat
      BY <3>3, <1>2, Widths
    <3>7. d = Base * e - e /\ Base * e \in Nat
      BY Widths DEF Filler
    <3>8. all[i] = d
      BY <3>1, <1>3
    <3> HIDE DEF w
    <3> QED
      BY <3>2, <3>3, <3>4, <3>5, <3>6, <3>7, <3>8
  <2>4. i <= l \/ i = l + 1 \/ i > l + 1
    BY <1>2
  <2> QED
    BY <2>1, <2>2, <2>3, <2>4
<1>8. w[l + m + 1] = x * Power[m] - e
  <2>1. (l + m + 1) - l - 1 = m /\ ~(l + m + 1 <= l) /\ l + m + 1 \in 0..(l + m + 1)
    BY <1>2
  <2> QED
    BY <2>1
<1> HIDE DEF w
<1>9. w \in Values(all)
  BY <1>3, <1>5, <1>6, <1>7 DEF Values
<1> QED
  BY <1>8, <1>9 DEF all, x, Extended

\* What a shift takes apart, on plain numbers: the leading digit t and the carry.
LEMMA LeadingNumber ==
  ASSUME NEW low \in Nat, low < 2 * W, NEW t \in Nat, NEW u \in Nat,
         u < Top, low = t * Top + u
  PROVE  /\ low < W => t \in Digit /\ t % Base = t /\ low \div W = 0
         /\ low >= W => t - Base \in Digit /\ t % Base = t - Base /\ low \div W = 1
         /\ (low >= (Base - 1) * Top /\ low < W) => t = Base - 1
<1> USE Widths
<1>1. low < W => t < Base
  <2>1. low < W => t * Top < Base * Top
    OBVIOUS
  <2> QED
    BY <2>1
<1>2. low >= W => t >= Base
  <2>1. low >= W => Base * Top < (t + 1) * Top
    OBVIOUS
  <2>2. low >= W => Base < t + 1
    BY <2>1
  <2> QED
    BY <2>2
<1>3. t < 2 * Base
  <2>1. t * Top < (2 * Base) * Top
    OBVIOUS
  <2> QED
    BY <2>1
<1>4. t < Base => t % Base = t
  OBVIOUS
<1>5. t >= Base => t % Base = t - Base
  BY <1>3
<1>6. (low < W => low \div W = 0) /\ (low >= W => low \div W = 1)
  <2>1. \A x, y \in Nat : (x < y => x \div y = 0)
                           /\ (y >= 1 /\ x >= y /\ x < 2 * y => x \div y = 1)
    OBVIOUS
  <2> QED
    BY <2>1
<1>7. low >= (Base - 1) * Top => Base - 1 <= t
  <2>1. low >= (Base - 1) * Top => (Base - 1) * Top < (t + 1) * Top
    OBVIOUS
  <2>2. low >= (Base - 1) * Top => Base - 1 < t + 1
    BY <2>1
  <2> QED
    BY <2>2
<1> QED
  BY <1>1, <1>2, <1>3, <1>4, <1>5, <1>6, <1>7 DEF Digit

\* What a settled register gives out, as a run.
LEMMA SettlingIsRun ==
  ASSUME NEW r, Safe(r), Settled(r)
  PROVE  \E c \in Digit, d \in Digit, e \in {0, 1} :
           /\ Settling(r) = Run(c, d, r.pending - 1)
           /\ Filler(d, e)
           /\ c + e = r.cache + 1
           /\ e = 1 - (r.low \div W)
<1> DEFINE carry == r.low \div W
<1> USE Widths
<1>1. r.low \in Nat /\ r.cache \in 0..(Base - 1) /\ r.low < 2 * W
  BY DEF Safe, Registers
<1>2. /\ r.low < W => carry = 0
      /\ r.low >= W => carry = 1 /\ r.cache < Base - 1
  <2>1. \A x, y \in Nat : (x < y => x \div y = 0)
                           /\ (y >= 1 /\ x >= y /\ x < 2 * y => x \div y = 1)
    OBVIOUS
  <2>2. W >= 1
    BY ProductPositive
  <2> QED
    BY <1>1, <2>1, <2>2 DEF Safe
<1>3. Settling(r) = <<(r.cache + carry) % Base>>
                      \o [i \in 1..(r.pending - 1) |-> (Base - 1 + carry) % Base]
  BY DEF Settling
<1> HIDE DEF carry
<1>4. carry \in {0, 1} /\ r.cache + carry \in Digit
      /\ (r.cache + carry) % Base = r.cache + carry
  BY <1>1, <1>2 DEF Digit
<1>5. PICK d \in Digit : d = (Base - 1 + carry) % Base
  BY <1>4 DEF Digit
<1>6. Filler(d, 1 - carry)
  <2>1. carry = 0 => (Base - 1 + carry) % Base = Base - 1
    OBVIOUS
  <2>2. carry = 1 => (Base - 1 + carry) % Base = 0
    OBVIOUS
  <2> QED
    BY <1>4, <1>5, <2>1, <2>2 DEF Filler
<1>7. Settling(r) = Run(r.cache + carry, d, r.pending - 1)
  BY <1>3, <1>4, <1>5 DEF Run
<1>8. (r.cache + carry) + (1 - carry) = r.cache + 1 /\ 1 - carry \in {0, 1}
  BY <1>1, <1>4
<1>9. 1 - carry = 1 - (r.low \div W)
  BY DEF carry
<1> HIDE DEF carry
<1> QED
  BY <1>4, <1>6, <1>7, <1>8, <1>9

LEMMA ShiftedNumber ==
  ASSUME NEW n \in Nat, NEW t \in Nat, NEW u \in Nat
  PROVE  /\ Base * (n * W + (t * Top + u)) = (Base * n + t) * W + u * Base
         /\ n * W + (t * Top + u) \in Nat /\ Base * n + t \in Nat
         /\ u < Top => u * Base \in Nat /\ u * Base < W
<1> USE Widths
<1>1. n * W \in Nat /\ Base * n \in Nat /\ t * Top \in Nat /\ u * Base \in Nat
  OBVIOUS
<1>2. Base * (n * W + (t * Top + u)) = Base * (n * W) + Base * (t * Top) + Base * u
  BY <1>1
<1>3. Base * (t * Top) = t * W
  OBVIOUS
<1>4. (Base * n + t) * W = Base * (n * W) + t * W
  BY <1>1
<1>5. u < Top => u * Base <= (Top - 1) * Base
  OBVIOUS
<1>6. (Top - 1) * Base = W - Base
  OBVIOUS
<1> QED
  BY <1>1, <1>2, <1>3, <1>4, <1>5, <1>6

LEMMA ShiftSafe ==
  ASSUME NEW r, Safe(r)
  PROVE  Safe(Shift(r)) /\ Shift(r).low < W
<1> DEFINE t == r.low \div Top
           u == r.low % Top
           q == Shift(r)
<1> USE Sizes
<1>1. /\ r \in Registers /\ r.low \in Nat /\ r.cache \in Digit /\ r.pending \in Nat
      /\ r.pending >= 1 /\ r.low < 2 * W /\ r.range \in Nat
  BY DEF Safe, Registers, Digit
<1>2. t \in Nat /\ u \in Nat /\ u < Top /\ r.low = t * Top + u
  BY <1>1, LeadingDigit
<1>3. /\ q.low = u * Base /\ q.range = r.range
      /\ q.cache = IF Settled(r) THEN t % Base ELSE r.cache
      /\ q.pending = IF Settled(r) THEN 1 ELSE r.pending + 1
      /\ q = [low |-> q.low, range |-> q.range, cache |-> q.cache,
              pending |-> q.pending]
  BY DEF Shift
<1> HIDE DEF t, u, q
<1>4. t % Base \in Digit
  <2>1. /\ r.low < W => t \in Digit /\ t % Base = t
        /\ r.low >= W => t - Base \in Digit /\ t % Base = t - Base
    BY <1>1, <1>2, LeadingNumber
  <2> QED
    BY <1>1, <2>1
<1>5. q.low \in Nat /\ q.low < W
  BY <1>2, <1>3, ShiftedNumber
<1>6. q.cache \in 0..(Base - 1) /\ q.pending \in Nat /\ q.pending >= 1
  BY <1>1, <1>3, <1>4 DEF Digit
<1>7. q \in Registers
  BY <1>1, <1>3, <1>5, <1>6 DEF Registers
<1>8. Safe(q)
  BY <1>5, <1>6, <1>7 DEF Safe
<1> QED
  BY <1>5, <1>8 DEF q

\* A shift moves what the encoder stands at up by one digit, and holds back one
\* digit more or gives out all but one.
LEMMA ShiftCoded ==
  ASSUME NEW s \in Bytes, NEW r, Safe(r), NEW a, Coded(s, r, a)
  PROVE  /\ s \o Settling(r) \in Bytes
         /\ Coded(s \o Settling(r), Shift(r), Base * a)
         /\ Safe(Shift(r)) /\ Shift(r).low < W
         /\ Len(s \o Settling(r)) + Shift(r).pending = Len(s) + r.pending + 1
         /\ a \in Nat
<1> DEFINE t == r.low \div Top
           u == r.low % Top
           q == Shift(r)
           all == s \o Settling(r)
           carry == r.low \div W
<1> USE Sizes
<1>1. /\ r \in Registers /\ r.low \in Nat /\ r.cache \in Digit /\ r.pending \in Nat
      /\ r.pending >= 1 /\ r.low < 2 * W /\ r.pending - 1 \in Nat
      /\ r.range \in Nat
  BY DEF Safe, Registers, Digit
<1>2. t \in Nat /\ u \in Nat /\ u < Top /\ r.low = t * Top + u
  BY <1>1, LeadingDigit
<1>3. /\ q.low = u * Base /\ q.range = r.range
      /\ q.cache = IF Settled(r) THEN t % Base ELSE r.cache
      /\ q.pending = IF Settled(r) THEN 1 ELSE r.pending + 1
      /\ q = [low |-> q.low, range |-> q.range, cache |-> q.cache,
              pending |-> q.pending]
  BY DEF Shift
<1> HIDE DEF t, u, q
<1>4. PICK v \in Values(s), n \in Nat :
        /\ n + 1 = (Base * v[Len(s)] + r.cache + 1) * Power[r.pending - 1]
        /\ a = n * W + r.low
  BY DEF Coded
<1>5. v[Len(s)] \in Nat /\ Len(s) \in Nat /\ Base * v[Len(s)] \in Nat
  BY BytesAreDigits DEF Values
<1>6. /\ r.low < W => t \in Digit /\ t % Base = t /\ carry = 0
      /\ r.low >= W => t - Base \in Digit /\ t % Base = t - Base /\ carry = 1
      /\ (r.low >= (Base - 1) * Top /\ r.low < W) => t = Base - 1
  BY <1>1, <1>2, LeadingNumber
<1>7. t % Base \in Digit
  BY <1>1, <1>6
<1>8. Safe(q) /\ q.low < W
  BY ShiftSafe DEF q
<1>9. /\ Base * a = (Base * n + t) * W + q.low
      /\ Base * n + t \in Nat /\ a \in Nat
  BY <1>2, <1>3, <1>4, ShiftedNumber
<1>10. CASE Settled(r)
  <2>1. PICK c \in Digit, d \in Digit, e \in {0, 1} :
          /\ Settling(r) = Run(c, d, r.pending - 1)
          /\ Filler(d, e)
          /\ c + e = r.cache + 1
          /\ e = 1 - carry
    BY <1>10, SettlingIsRun
  <2> HIDE DEF carry
  <2>2. PICK m \in Nat : m = r.pending - 1
    BY <1>1
  <2>3. all = s \o Run(c, d, m)
    BY <2>1, <2>2
  <2>4. all \in Bytes /\ Len(all) = Len(s) + m + 1
    <3>1. /\ s \o Run(c, d, m) \in Bytes
          /\ Len(s \o Run(c, d, m)) = Len(s) + m + 1
      BY RunJoined
    <3> HIDE DEF all
    <3> QED
      BY <2>3, <3>1
  <2> HIDE DEF all
  <2>5. PICK w \in Values(s \o Run(c, d, m)) :
          w[Len(s) + m + 1] = Extended(v[Len(s)], c, e, m)
    <3>1. Filler(d, e)
      BY <2>1
    <3> QED
      BY <3>1, ValuesRun
  <2>6. Base * v[Len(s)] + c + e = Base * v[Len(s)] + r.cache + 1
    <3>1. r.cache \in Nat /\ c \in Nat
      BY <1>1 DEF Digit
    <3>2. \A x \in Nat : x + c + e = x + r.cache + 1
      BY <2>1, <3>1
    <3> QED
      BY <1>5, <3>2
  <2>7. w[Len(all)] = (n + 1) - e /\ carry \in {0, 1} /\ w[Len(all)] = n + carry
    <3>1. w[Len(all)] = (n + 1) - e
      BY <1>4, <2>2, <2>4, <2>5, <2>6 DEF Extended
    <3>2. carry = 1 - e
      BY <1>1, <1>6, <2>1
    <3> QED
      BY <3>1, <3>2
  <2>8. q.pending = 1 /\ q.cache = t - Base * carry
    <3>1. q.cache = t % Base /\ q.pending = 1
      BY <1>3, <1>10
    <3> QED
      BY <3>1, <1>1, <1>2, <1>6
  <2>9. (Base * n + t) + 1 = (Base * w[Len(all)] + q.cache + 1) * Power[q.pending - 1]
    <3>1. Power[q.pending - 1] = 1
      BY <2>8, Powers
    <3>2. Base * (n + carry) = Base * n + Base * carry /\ Base * n \in Nat
          /\ Base * carry \in Nat
      BY <2>7, Widths
    <3> QED
      BY <1>2, <1>7, <2>3, <2>7, <2>8, <3>1, <3>2
  <2>10. Coded(all, q, Base * a)
    <3>1. w \in Values(all)
      BY <2>3
    <3> QED
      BY <1>9, <2>9, <3>1 DEF Coded
  <2>11. Len(all) + q.pending = Len(s) + r.pending + 1
    BY <1>1, <1>5, <2>2, <2>4, <2>8, SMTT(40)
  <2> QED
    BY <1>8, <1>9, <2>4, <2>10, <2>11 DEF q, all
<1>11. CASE ~Settled(r)
  <2>1. all = s
    <3>1. Settling(r) = <<>>
      BY <1>11 DEF Settling
    <3> QED
      BY <3>1 DEF Bytes
  <2>2. t = Base - 1
    BY <1>1, <1>6, <1>11 DEF Settled
  <2>3. q.cache = r.cache /\ q.pending = r.pending + 1
    BY <1>3, <1>11
  <2>4. (Base * n + t) + 1 = (Base * v[Len(s)] + q.cache + 1) * Power[q.pending - 1]
    <3> DEFINE x == Base * v[Len(s)] + r.cache + 1
               p == Power[r.pending - 1]
    <3>1. x \in Nat /\ p \in Nat
      <4>1. r.cache \in Nat /\ Base * v[Len(s)] + r.cache + 1 \in Nat
        BY <1>1, <1>5, SMTT(40) DEF Digit
      <4>2. Power[r.pending - 1] \in Nat
        BY <1>1, Powers
      <4> QED
        BY <4>1, <4>2
    <3>2. q.pending - 1 = (r.pending - 1) + 1
      BY <1>1, <2>3
    <3>3. Power[q.pending - 1] = Base * p
      BY <1>1, <3>2, Powers
    <3>4. n + 1 = x * p
      BY <1>4
    <3> HIDE DEF x, p
    <3>5. (Base * n + t) + 1 = Base * (n + 1)
      BY <2>2
    <3>6. x * (Base * p) = Base * (x * p)
      BY <3>1
    <3>7. (Base * n + t) + 1 = x * Power[q.pending - 1]
      BY <3>3, <3>4, <3>5, <3>6
    <3> QED
      BY <3>7, <2>3 DEF x
  <2>5. Coded(all, q, Base * a)
    BY <1>9, <2>1, <2>4 DEF Coded
  <2>6. Len(all) + q.pending = Len(s) + r.pending + 1
    BY <1>1, <1>5, <2>1, <2>3
  <2> QED
    BY <1>8, <1>9, <2>1, <2>5, <2>6 DEF q
<1> QED
  BY <1>10, <1>11

\* The range takes no part in it.
LEMMA RangeAside ==
  ASSUME NEW r \in Registers, NEW x \in Nat
  PROVE  /\ Shift([r EXCEPT !.range = x]) = [Shift(r) EXCEPT !.range = x]
         /\ \A s, a : Coded(s, [r EXCEPT !.range = x], a) <=> Coded(s, r, a)
         /\ Safe(r) <=> Safe([r EXCEPT !.range = x])
<1> DEFINE q == [r EXCEPT !.range = x]
<1>1. /\ q.low = r.low /\ q.cache = r.cache /\ q.pending = r.pending
      /\ q.range = x /\ q \in Registers
  BY DEF Registers
<1> HIDE DEF q
<1>2. Shift(q) = [Shift(r) EXCEPT !.range = x]
  BY <1>1 DEF Shift, Settled
<1>3. \A s, a : Coded(s, q, a) <=> Coded(s, r, a)
  BY <1>1 DEF Coded
<1>4. Safe(r) <=> Safe(q)
  BY <1>1 DEF Safe
<1> QED
  BY <1>2, <1>3, <1>4 DEF q

LEMMA BytesJoin ==
  /\ <<>> \in Bytes
  /\ \A s \in Bytes : s \o <<>> = s /\ <<>> \o s = s
  BY ConcatEmptySeq, EmptySeq DEF Bytes

LEMMA BytesAssociate ==
  ASSUME NEW s \in Bytes, NEW b \in Bytes, NEW t \in Bytes
  PROVE  s \o (b \o t) = (s \o b) \o t
<1>1. s \in Seq(Digit) /\ b \in Seq(Digit) /\ t \in Seq(Digit)
  BY DEF Bytes
<1> DEFINE D == Digit
<1>2. s \in Seq(D) /\ b \in Seq(D) /\ t \in Seq(D)
  BY <1>1
<1> HIDE DEF D
<1>3. (s \o b) \o t = s \o (b \o t)
  BY <1>2, ConcatAssociative
<1> QED
  BY <1>3

LEMMA SettlingBytes ==
  ASSUME NEW r, Safe(r)
  PROVE  Settling(r) \in Bytes
<1>1. r.pending - 1 \in Nat
  BY DEF Safe, Registers
<1>2. CASE Settled(r)
  <2>1. PICK c \in Digit, d \in Digit : Settling(r) = Run(c, d, r.pending - 1)
    BY <1>2, SettlingIsRun
  <2>2. PICK m \in Nat : m = r.pending - 1
    BY <1>1
  <2>3. Run(c, d, m) \in Bytes
    BY RunIsDigits
  <2> QED
    BY <2>1, <2>2, <2>3
<1>3. CASE ~Settled(r)
  BY <1>3, BytesJoin DEF Settling
<1> QED
  BY <1>2, <1>3

\* The registers and the bytes after each shift of enc_flush.
Flushing(r, q, b) ==
  /\ q[0] = r /\ b[0] = <<>>
  /\ \A i \in 0..FlushShifts :
       q[i] \in Registers /\ Safe(q[i]) /\ b[i] \in Bytes
  /\ \A i \in 0..(FlushShifts - 1) :
       q[i + 1] = Shift(q[i]) /\ b[i + 1] = b[i] \o Settling(q[i])

LEMMA FlushedStepByStep ==
  ASSUME NEW r, Safe(r)
  PROVE  \E q, b : /\ Flushing(r, q, b)
                   /\ Flushed(r) = [reg |-> q[FlushShifts], bytes |-> b[FlushShifts]]
<1> DEFINE D == [reg : {q \in Registers : Safe(q)}, bytes : Bytes]
           start == [reg |-> r, bytes |-> <<>>]
           stepped(x) == [reg |-> Shift(x.reg), bytes |-> x.bytes \o Settling(x.reg)]
           next == [x \in D |-> stepped(x)]
           from(g) == [i \in 0..FlushShifts |-> IF i = 0 THEN start ELSE stepped(g[i - 1])]
           after == CHOOSE g : g = from(g)
<1>1. Flushed(r) = after[FlushShifts]
  BY DEF Flushed
<1>2. start \in D
  BY BytesJoin DEF Safe
<1>3. next \in [D -> D]
  <2>1. ASSUME NEW x \in D PROVE stepped(x) \in D
    <3>1. Safe(x.reg) /\ x.bytes \in Bytes
      OBVIOUS
    <3>2. Safe(Shift(x.reg)) /\ Shift(x.reg) \in Registers
      BY <3>1, ShiftSafe DEF Safe
    <3>3. x.bytes \o Settling(x.reg) \in Bytes
      BY <3>1, SettlingBytes, Joined
    <3> QED
      BY <3>2, <3>3
  <2> HIDE DEF stepped, D
  <2> QED
    BY <2>1
<1>4. PICK f \in [Nat -> D] : f[0] = start /\ \A i \in Nat : f[i + 1] = next[f[i]]
  <2> HIDE DEF D, start, next
  <2> QED
    BY <1>2, <1>3, Iteration
<1>5. FlushShifts \in Nat
  BY FlushAssumption
<1> DEFINE h == [i \in 0..FlushShifts |-> f[i]]
<1>6. \A i \in Nat : f[i + 1] = stepped(f[i])
  BY <1>4
<1> HIDE DEF start, stepped, D, next
<1>7. h = from(h)
  <2>1. ASSUME NEW i \in 0..FlushShifts
        PROVE  h[i] = IF i = 0 THEN start ELSE stepped(h[i - 1])
    <3>1. CASE i = 0
      BY <3>1, <1>4, <1>5
    <3>2. CASE i # 0
      <4>1. i - 1 \in Nat /\ (i - 1) + 1 = i /\ i - 1 \in 0..FlushShifts
        BY <3>2, <1>5
      <4> QED
        BY <4>1, <3>2, <1>6
    <3> QED
      BY <3>1, <3>2
  <2> QED
    BY <2>1
<1>8. after = from(after)
  <2>1. \E g : g = from(g)
    BY <1>7
  <2> HIDE DEF from
  <2> QED
    BY <2>1

<1>9. after[0] = start /\ \A i \in 0..(FlushShifts - 1) : after[i + 1] = stepped(after[i])
  <2> DEFINE a == after
  <2>1. a = from(a)
    BY <1>8
  <2> HIDE DEF a
  <2>2. \A i \in 0..FlushShifts : a[i] = IF i = 0 THEN start ELSE stepped(a[i - 1])
    BY <2>1
  <2>3. a[0] = start
    BY <2>2, <1>5
  <2>4. ASSUME NEW i \in 0..(FlushShifts - 1) PROVE a[i + 1] = stepped(a[i])
    <3>1. i + 1 \in 0..FlushShifts /\ i + 1 # 0 /\ (i + 1) - 1 = i
      BY <1>5
    <3> QED
      BY <3>1, <2>2
  <2> QED
    BY <2>3, <2>4 DEF a
<1>10. after = [i \in 0..FlushShifts |-> after[i]]
  <2> DEFINE a == after
  <2>1. a = from(a)
    BY <1>8
  <2> HIDE DEF a
  <2>2. a = [i \in 0..FlushShifts |-> a[i]]
    BY <2>1
  <2> QED
    BY <2>2 DEF a
<1> HIDE DEF after
<1>11. \A i \in Nat : i <= FlushShifts => after[i] \in D
  <2> DEFINE Inside == {i \in Nat : i <= FlushShifts => after[i] \in D}
  <2>1. 0 \in Inside
    BY <1>2, <1>9
  <2>2. ASSUME NEW i \in Nat, i \in Inside PROVE i + 1 \in Inside
    <3> SUFFICES ASSUME i + 1 <= FlushShifts PROVE after[i + 1] \in D
      OBVIOUS
    <3>1. i \in 0..(FlushShifts - 1) /\ after[i] \in D
      BY <2>2, <1>5
    <3>2. after[i + 1] = next[after[i]]
      BY <3>1, <1>9 DEF next
    <3> QED
      BY <3>1, <3>2, <1>3
  <2>3. \A i \in Nat : i \in Inside
    <3> HIDE DEF Inside
    <3> QED
      BY <2>1, <2>2, Induction
  <2> QED
    BY <2>3
<1>12. after \in [0..FlushShifts -> D]
  BY <1>5, <1>10, <1>11
<1> DEFINE q == [i \in 0..FlushShifts |-> after[i].reg]
           b == [i \in 0..FlushShifts |-> after[i].bytes]
<1>13. \A i \in 0..FlushShifts :
         q[i] \in Registers /\ Safe(q[i]) /\ b[i] \in Bytes
         /\ after[i] = [reg |-> q[i], bytes |-> b[i]]
  BY <1>12 DEF D
<1>14. q[0] = r /\ b[0] = <<>>
  BY <1>5, <1>9 DEF start
<1>15. ASSUME NEW i \in 0..(FlushShifts - 1)
       PROVE  q[i + 1] = Shift(q[i]) /\ b[i + 1] = b[i] \o Settling(q[i])
  <2>1. i \in 0..FlushShifts /\ i + 1 \in 0..FlushShifts
    BY <1>5
  <2>2. after[i + 1] = stepped(after[i])
    BY <1>9
  <2>3. \A z : /\ stepped(z).reg = Shift(z.reg)
               /\ stepped(z).bytes = z.bytes \o Settling(z.reg)
    BY DEF stepped
  <2>4. /\ after[i + 1].reg = Shift(after[i].reg)
        /\ after[i + 1].bytes = after[i].bytes \o Settling(after[i].reg)
    BY <2>2, <2>3
  <2> QED
    BY <2>1, <2>4
<1>16. Flushed(r) = [reg |-> q[FlushShifts], bytes |-> b[FlushShifts]]
  BY <1>1, <1>5, <1>13
<1> HIDE DEF q, b
<1>17. Flushing(r, q, b)
  BY <1>13, <1>14, <1>15 DEF Flushing
<1> QED
  BY <1>16, <1>17

\* The radix has more than one digit left: W takes at least one shift.
LEMMA FlushLength ==
  /\ FlushShifts \in Nat /\ FlushShifts - 2 \in Nat
  /\ Power[FlushShifts - 1] = W
<1>1. FlushShifts \in Nat /\ FlushShifts # 0 /\ W = Power[FlushShifts - 1]
  BY FlushAssumption
<1>2. W >= 2
  <2>1. (Base - 1) * Top \in Nat /\ (Base - 1) * Top >= 1
    BY Sizes, ProductPositive
  <2>2. W = (Base - 1) * Top + Top
    BY Widths
  <2> QED
    BY <2>1, <2>2, Sizes
<1>3. FlushShifts # 1
  BY <1>1, <1>2, Powers
<1> QED
  BY <1>1, <1>3

\* After all shifts the bytes stand for exactly what the encoder stood at.
LEMMA FlushSays ==
  ASSUME NEW s \in Bytes, NEW r, Safe(r), NEW a, Coded(s, r, a)
  PROVE  /\ s \o Flushed(r).bytes \in Bytes
         /\ Flushed(r).bytes \in Bytes
         /\ Len(s \o Flushed(r).bytes) + 1 = Len(s) + r.pending + FlushShifts
         /\ \E v \in Values(s \o Flushed(r).bytes) :
              v[Len(s \o Flushed(r).bytes)] = a
<1> USE Sizes
<1>1. PICK f, b :
        /\ Flushing(r, f, b)
        /\ Flushed(r) = [reg |-> f[FlushShifts], bytes |-> b[FlushShifts]]
  BY FlushedStepByStep
<1> DEFINE Kept(i) == /\ s \o b[i] \in Bytes
                      /\ Coded(s \o b[i], f[i], Power[i] * a)
                      /\ Len(s \o b[i]) + f[i].pending = Len(s) + r.pending + i
                      /\ i >= 1 => f[i].low < W
           Good == {i \in Nat : i <= FlushShifts => Kept(i)}
<1>2. FlushShifts \in Nat /\ FlushShifts - 2 \in Nat
  BY FlushLength
<1>3. /\ f[0] = r /\ b[0] = <<>>
      /\ \A i \in 0..FlushShifts : f[i] \in Registers /\ Safe(f[i]) /\ b[i] \in Bytes
      /\ \A i \in 0..(FlushShifts - 1) :
           f[i + 1] = Shift(f[i]) /\ b[i + 1] = b[i] \o Settling(f[i])
  BY <1>1 DEF Flushing
<1>4. a \in Nat /\ r.pending \in Nat /\ Len(s) \in Nat
  BY ShiftCoded, BytesAreDigits DEF Safe, Registers
<1>5. 0 \in Good
  <2>1. s \o b[0] = s
    BY <1>3, BytesJoin
  <2>2. Power[0] * a = a
    BY <1>4, Powers
  <2>3. Kept(0)
    BY <1>3, <1>4, <2>1, <2>2
  <2> QED
    BY <2>3
<1>6. ASSUME NEW i \in Nat, i \in Good PROVE i + 1 \in Good
  <2> SUFFICES ASSUME i + 1 <= FlushShifts PROVE Kept(i + 1)
    OBVIOUS
  <2>1. Kept(i) /\ i \in 0..(FlushShifts - 1) /\ i \in 0..FlushShifts
        /\ i + 1 \in 0..FlushShifts
    BY <1>2, <1>6
  <2> DEFINE x == f[i]
             y == f[i + 1]
             said == s \o b[i]
             next == s \o b[i + 1]
             p == Power[i] * a
  <2>2. Safe(x) /\ y = Shift(x) /\ b[i] \in Bytes /\ b[i + 1] = b[i] \o Settling(x)
    BY <1>3, <2>1
  <2>3. next = said \o Settling(x)
    <3>1. Settling(x) \in Bytes
      BY <2>2, SettlingBytes
    <3>2. s \o (b[i] \o Settling(x)) = (s \o b[i]) \o Settling(x)
      <4> HIDE DEF x
      <4> QED
        BY <2>2, <3>1, BytesAssociate
    <3> QED
      BY <2>2, <3>2
  <2>4. said \in Bytes /\ Coded(said, x, p)
        /\ Len(said) + x.pending = Len(s) + r.pending + i
    BY <2>1
  <2>5. Power[i + 1] * a = Base * p
    <3>1. Power[i + 1] = Base * Power[i] /\ Power[i] \in Nat
      BY Powers
    <3>2. \A z \in Nat : Base * (z * a) = (Base * z) * a
      BY <1>4
    <3> QED
      BY <3>1, <3>2
  <2> HIDE DEF x, y, said, next, p
  <2>6. /\ said \o Settling(x) \in Bytes
        /\ Coded(said \o Settling(x), Shift(x), Base * p)
        /\ Shift(x).low < W
        /\ Len(said \o Settling(x)) + Shift(x).pending = Len(said) + x.pending + 1
    BY <2>2, <2>4, ShiftCoded
  <2>7. Len(said) + x.pending + 1 = Len(s) + r.pending + (i + 1)
    BY <1>4, <2>4
  <2>8. /\ next \in Bytes /\ Coded(next, y, Power[i + 1] * a)
        /\ Len(next) + y.pending = Len(s) + r.pending + (i + 1)
        /\ y.low < W
    BY <2>2, <2>3, <2>5, <2>6, <2>7
  <2> QED
    BY <2>8 DEF next, y
<1>7. \A i \in Nat : i <= FlushShifts => Kept(i)
  <2>1. \A i \in Nat : i \in Good
    <3> HIDE DEF Good
    <3> QED
      BY <1>5, <1>6, Induction
  <2> QED
    BY <2>1
<1> HIDE DEF Good, Kept
<1> DEFINE k == FlushShifts - 1
           x == f[k]
           q == f[FlushShifts]
           whole == s \o b[FlushShifts]
<1>8. /\ k \in Nat /\ k >= 1 /\ k + 1 = FlushShifts
      /\ k \in 0..FlushShifts /\ k \in 0..(FlushShifts - 1)
  BY <1>2
<1>9. x.low = 0
  <2>1. Coded(s \o b[k], x, W * a) /\ x.low < W /\ x.low \in Nat
    <3>1. Kept(k)
      BY <1>2, <1>7, <1>8
    <3>2. x \in Registers
      BY <1>3, <1>8
    <3> HIDE DEF k, x
    <3>3. k <= FlushShifts /\ Power[k] = W
      BY <1>2, <1>8, FlushLength DEF k
    <3> QED
      BY <1>8, <3>1, <3>2, <3>3 DEF Kept, x, Registers
  <2>2. PICK n \in Nat : W * a = n * W + x.low
    BY <2>1 DEF Coded
  <2>3. W * a = a * W /\ (a - n) * W = a * W - n * W
    BY <1>4
  <2>4. (a - n) * W = x.low
    BY <1>4, <2>1, <2>2, <2>3
  <2>5. a - n < 1
    <3>1. (a - n) * W < 1 * W
      BY <2>1, <2>4
    <3> QED
      BY <3>1, <1>4
  <2>6. a - n >= 0
    <3>1. a - n < 0 => (a - n) * W < 0
      BY <1>4
    <3> QED
      BY <3>1, <1>4, <2>1, <2>4
  <2>7. a - n = 0
    BY <1>4, <2>5, <2>6
  <2> QED
    BY <2>4, <2>7
<1>10. q.low = 0 /\ q.cache = 0 /\ q.pending = 1
  <2>1. q = Shift(x)
    <3> HIDE DEF k
    <3>1. f[k + 1] = Shift(f[k])
      BY <1>3, <1>8
    <3> QED
      BY <1>8, <3>1
  <2>2. Settled(x)
    <3>1. (Base - 1) * Top >= 1 /\ (Base - 1) * Top \in Nat
      BY ProductPositive
    <3> QED
      BY <1>9, <3>1 DEF Settled
  <2>3. 0 % Top = 0 /\ 0 * Base = 0 /\ 0 \div Top = 0 /\ 0 % Base = 0
    OBVIOUS
  <2> HIDE DEF x
  <2> QED
    BY <1>9, <2>1, <2>2, <2>3 DEF Shift
<1>11. /\ whole \in Bytes /\ Coded(whole, q, Power[FlushShifts] * a)
       /\ Len(whole) + q.pending = Len(s) + r.pending + FlushShifts
  BY <1>2, <1>7 DEF Kept
<1> HIDE DEF whole, q
<1>12. PICK v \in Values(whole), n \in Nat :
         /\ n + 1 = (Base * v[Len(whole)] + q.cache + 1) * Power[q.pending - 1]
         /\ Power[FlushShifts] * a = n * W + q.low
  BY <1>11 DEF Coded
<1>13. v[Len(whole)] = a
  <2> DEFINE y == v[Len(whole)]
  <2>1. y \in Nat
    <3>1. Len(whole) \in Nat
      BY <1>11, BytesAreDigits
    <3> QED
      BY <3>1 DEF Values
  <2> HIDE DEF y
  <2>2. Base * y \in Nat
    BY <2>1
  <2>3. Power[q.pending - 1] = 1
    BY <1>10, Powers
  <2>4. n + 1 = (Base * y + 0 + 1) * 1
    BY <1>10, <1>12, <2>3 DEF y
  <2>5. n = Base * y
    BY <2>2, <2>4
  <2>6. Power[FlushShifts] = Base * W
    BY <1>8, Powers, FlushLength
  <2>7. (Base * W) * a = (Base * y) * W
    BY <1>10, <1>12, <2>2, <2>5, <2>6
  <2>8. (Base * W) * a = (Base * W) * y
    <3>1. (Base * y) * W = (Base * W) * y
      BY <2>1
    <3> QED
      BY <2>7, <3>1
  <2>9. Base * W \in Nat /\ Base * W >= 1
    BY ProductPositive
  <2>10. \A k1, k2, k3 \in Nat : k1 >= 1 /\ k1 * k2 = k1 * k3 => k2 = k3
    OBVIOUS
  <2> QED
    BY <1>4, <2>1, <2>8, <2>9, <2>10 DEF y
<1>14. Len(whole) + 1 = Len(s) + r.pending + FlushShifts
  BY <1>10, <1>11, BytesAreDigits
<1>15. Flushed(r).bytes = b[FlushShifts] /\ b[FlushShifts] \in Bytes
       /\ whole = s \o Flushed(r).bytes
  BY <1>1, <1>2, <1>3 DEF whole
<1> QED
  BY <1>11, <1>13, <1>14, <1>15

-----------------------------------------------------------------------------
(* The interval the message has narrowed to, without registers: where it    *)
(* begins, how long it is, after how many bytes of the stream, and what the *)
(* contexts have learned.                                                   *)

Intervals == [low : Nat, range : Nat, pos : Nat, prob : Probabilities]

Grown(g) ==
  IF g.range < Top
  THEN [g EXCEPT !.low = @ * Base, !.range = @ * Base, !.pos = @ + 1]
  ELSE g

Chosen(g, p, bit) == Grown(Grown(Narrow(g, p, bit)))

After(g, d) ==
  [Chosen(g, Mixed(d.kind, g.prob), d.bit)
     EXCEPT !.prob = Learned(d.kind, g.prob, d.bit)]

\* The encoder that has given out s stands at the beginning of g, and has as
\* many bytes to come as g is ahead of s.
Tracks(s, r, g) ==
  /\ s \in Bytes /\ Fit(r) /\ g \in Intervals
  /\ Coded(s, r, g.low)
  /\ r.range = g.range
  /\ g.pos + 1 = Len(s) + r.pending + FlushShifts

LEMMA FitIsSafe ==
  ASSUME NEW r, Fit(r)
  PROVE  Safe(r) /\ r \in Registers /\ r.low \in Nat /\ r.range \in Nat
         /\ r.pending \in Nat /\ 1 <= r.range /\ r.range < W
  BY Sizes DEF Fit, Safe, Registers

\* The parts of Top a probability unit stands for.
LEMMA Unit == \E s \in 1..Top : Top = s * ProbOne
  BY TopAssumption

LEMMA NarrowTracks ==
  ASSUME NEW s, NEW r, NEW g, Tracks(s, r, g), r.range >= Top,
         NEW p \in 1..(ProbOne - 1), NEW bit \in {0, 1}
  PROVE  Tracks(s, Narrow(r, p, bit), Narrow(g, p, bit))
<1> DEFINE bound == (r.range \div ProbOne) * p
           x == Narrow(r, p, bit)
           h == Narrow(g, p, bit)
<1> USE Sizes
<1>1. /\ s \in Bytes /\ Fit(r) /\ g \in Intervals /\ Coded(s, r, g.low)
      /\ r.range = g.range /\ g.pos + 1 = Len(s) + r.pending + FlushShifts
      /\ r \in Registers /\ r.low \in Nat /\ r.range \in Nat
  BY FitIsSafe DEF Tracks
<1>2. Fit(x)
  BY <1>1, Unit, NarrowFits
<1>3. bound \in Nat /\ bound <= r.range
  <2>1. PICK u \in 1..Top : Top = u * ProbOne
    BY Unit
  <2>2. bound \in Nat /\ bound >= u /\ bound + u <= r.range
    BY <1>1, <2>1, BoundInside
  <2> HIDE DEF bound
  <2> QED
    BY <1>1, <2>2
<1>4. g.low \in Nat /\ g.range \in Nat /\ g.pos \in Nat /\ g.prob \in Probabilities
      /\ g = [low |-> g.low, range |-> g.range, pos |-> g.pos, prob |-> g.prob]
      /\ r = [low |-> r.low, range |-> r.range, cache |-> r.cache, pending |-> r.pending]
  BY <1>1 DEF Intervals, Registers
<1>5. /\ bit = 1 => /\ x = [r EXCEPT !.low = @ + bound, !.range = @ - bound]
                    /\ h = [g EXCEPT !.low = @ + bound, !.range = @ - bound]
      /\ bit = 0 => x = [r EXCEPT !.range = bound] /\ h = [g EXCEPT !.range = bound]
  BY <1>1 DEF Narrow
<1> HIDE DEF bound, x, h
<1>6. PICK m \in Nat : /\ x.low = r.low + m /\ h.low = g.low + m
                       /\ x.cache = r.cache /\ x.pending = r.pending
                       /\ h.pos = g.pos /\ h.prob = g.prob /\ x.range = h.range
                       /\ h.range \in Nat /\ h.low \in Nat
                       /\ h = [low |-> h.low, range |-> h.range, pos |-> h.pos,
                               prob |-> h.prob]
  <2>1. CASE bit = 1
    <3>1. /\ x.low = r.low + bound /\ h.low = g.low + bound
          /\ x.cache = r.cache /\ x.pending = r.pending
          /\ h.pos = g.pos /\ h.prob = g.prob
          /\ x.range = r.range - bound /\ h.range = g.range - bound
          /\ h = [low |-> h.low, range |-> h.range, pos |-> h.pos, prob |-> h.prob]
      BY <1>4, <1>5, <2>1
    <3>2. r.range - bound \in Nat /\ g.low + bound \in Nat
      BY <1>1, <1>3, <1>4
    <3> QED
      BY <1>1, <1>3, <3>1, <3>2
  <2>2. CASE bit = 0
    <3>1. /\ x.low = r.low /\ h.low = g.low
          /\ x.cache = r.cache /\ x.pending = r.pending
          /\ h.pos = g.pos /\ h.prob = g.prob
          /\ x.range = bound /\ h.range = bound
          /\ h = [low |-> h.low, range |-> h.range, pos |-> h.pos, prob |-> h.prob]
      BY <1>4, <1>5, <2>2
    <3>2. r.low = r.low + 0 /\ g.low = g.low + 0
      BY <1>1, <1>4
    <3> QED
      BY <1>3, <1>4, <3>1, <3>2
  <2> QED
    BY <2>1, <2>2
<1>7. Coded(s, x, h.low)
  <2>1. PICK v \in Values(s), n \in Nat :
          /\ n + 1 = (Base * v[Len(s)] + r.cache + 1) * Power[r.pending - 1]
          /\ g.low = n * W + r.low
    BY <1>1 DEF Coded
  <2>2. n * W \in Nat
    OBVIOUS
  <2>3. h.low = n * W + x.low
    BY <1>1, <1>4, <1>6, <2>1, <2>2
  <2>4. n + 1 = (Base * v[Len(s)] + x.cache + 1) * Power[x.pending - 1]
    BY <1>6, <2>1
  <2> QED
    BY <2>3, <2>4 DEF Coded
<1>8. h \in Intervals
  BY <1>4, <1>6 DEF Intervals
<1> QED
  BY <1>1, <1>2, <1>6, <1>7, <1>8 DEF Tracks, x, h

LEMMA RenormTracks ==
  ASSUME NEW s \in Bytes, NEW x, x.bytes \in Bytes, NEW g, Tracks(s \o x.bytes, x.reg, g)
  PROVE  /\ Renorm(x).bytes \in Bytes
         /\ Tracks(s \o Renorm(x).bytes, Renorm(x).reg, Grown(g))
<1> DEFINE r == x.reg
           all == s \o x.bytes
<1> USE Sizes
<1>1. /\ all \in Bytes /\ Fit(r) /\ g \in Intervals /\ Coded(all, r, g.low)
      /\ r.range = g.range /\ g.pos + 1 = Len(all) + r.pending + FlushShifts
      /\ r \in Registers /\ r.low \in Nat /\ r.range \in Nat /\ Safe(r)
      /\ r.pending \in Nat
  BY FitIsSafe DEF Tracks
<1>2. CASE ~(r.range < Top)
  <2>1. Renorm(x) = x /\ Grown(g) = g
    BY <1>1, <1>2 DEF Renorm, Grown
  <2> QED
    BY <2>1
<1>3. CASE r.range < Top
  <2> DEFINE wide == [r EXCEPT !.range = @ * Base]
             q == Shift(wide)
             b == Settling(r)
             h == Grown(g)
  <2>1. Renorm(x) = [reg |-> q, bytes |-> x.bytes \o b]
    BY <1>3 DEF Renorm
  <2>2. b \in Bytes
    BY <1>1, SettlingBytes
  <2>3. s \o (x.bytes \o b) = all \o b /\ x.bytes \o b \in Bytes
    <3> DEFINE y == x.bytes
    <3>1. y \in Bytes
      OBVIOUS
    <3> HIDE DEF b, y
    <3>2. s \o (y \o b) = (s \o y) \o b
      BY <2>2, <3>1, BytesAssociate
    <3>3. y \o b \in Bytes
      BY <2>2, <3>1, Joined
    <3> QED
      BY <3>2, <3>3 DEF y
  <2>4. Fit(q) /\ q.range = r.range * Base
    BY <1>1, <1>3, ShiftFits
  <2>5. q = [Shift(r) EXCEPT !.range = r.range * Base]
    <3>1. r.range * Base \in Nat
      BY <1>1
    <3>2. wide = [r EXCEPT !.range = r.range * Base]
      OBVIOUS
    <3> QED
      BY <1>1, <3>1, <3>2, RangeAside
  <2>6. /\ all \o b \in Bytes
        /\ Coded(all \o b, Shift(r), Base * g.low)
        /\ Safe(Shift(r))
        /\ Len(all \o b) + Shift(r).pending = Len(all) + r.pending + 1
        /\ g.low \in Nat
    <3> HIDE DEF all, r
    <3> QED
      BY <1>1, ShiftCoded DEF b
  <2>7. Shift(r) \in Registers
    BY <2>6 DEF Safe
  <2>8. Coded(all \o b, q, Base * g.low)
    <3>1. r.range * Base \in Nat
      BY <1>1
    <3> HIDE DEF all, b, q, r
    <3> QED
      BY <2>5, <2>6, <2>7, <3>1, RangeAside
  <2>9. q.pending = Shift(r).pending
    <3> HIDE DEF q
    <3> QED
      BY <2>5, <2>7 DEF Registers
  <2>10. g.range \in Nat /\ g.pos \in Nat /\ g.prob \in Probabilities
         /\ g = [low |-> g.low, range |-> g.range, pos |-> g.pos, prob |-> g.prob]
    BY <1>1 DEF Intervals
  <2>11. /\ h.low = g.low * Base /\ h.range = g.range * Base
         /\ h.pos = g.pos + 1 /\ h.prob = g.prob
         /\ h = [low |-> h.low, range |-> h.range, pos |-> h.pos, prob |-> h.prob]
    BY <1>1, <1>3, <2>10 DEF Grown
  <2>12. h \in Intervals
    <3>1. g.low * Base \in Nat /\ g.range * Base \in Nat /\ g.pos + 1 \in Nat
      BY <2>6, <2>10
    <3> HIDE DEF h
    <3> QED
      BY <2>10, <2>11, <3>1 DEF Intervals
  <2>13. h.low = Base * g.low
    <3> HIDE DEF h
    <3> QED
      BY <2>6, <2>11
  <2> HIDE DEF all, q, b, h, r
  <2>14. h.pos + 1 = Len(all \o b) + q.pending + FlushShifts
    <3>1. Len(all) \in Nat /\ FlushShifts \in Nat
      BY <1>1, BytesAreDigits, FlushLength
    <3>2. h.pos + 1 = (Len(all) + r.pending + 1) + FlushShifts
      BY <1>1, <2>10, <2>11, <3>1, SMTT(40)
    <3> QED
      BY <2>6, <2>9, <3>2
  <2>15. q.range = h.range
    BY <1>1, <2>4, <2>11
  <2>16. Tracks(all \o b, q, h)
    BY <2>4, <2>6, <2>8, <2>12, <2>13, <2>14, <2>15 DEF Tracks
  <2> QED
    <3>1. Renorm(x).bytes = x.bytes \o b /\ Renorm(x).reg = q
      BY <2>1
    <3> QED
      BY <2>3, <2>16, <3>1 DEF h
<1> QED
  BY <1>2, <1>3

LEMMA EncBitTracks ==
  ASSUME NEW s, NEW r, NEW g, Tracks(s, r, g), r.range >= Top,
         NEW p \in 1..(ProbOne - 1), NEW bit \in {0, 1}
  PROVE  LET e == EncBit(r, p, bit)
         IN  /\ e.bytes \in Bytes
             /\ Tracks(s \o e.bytes, e.reg, Chosen(g, p, bit))
<1> DEFINE s0 == [reg |-> Narrow(r, p, bit), bytes |-> <<>>]
           s1 == Renorm(s0)
           s2 == Renorm(s1)
           g0 == Narrow(g, p, bit)
<1>1. s \in Bytes
  BY DEF Tracks
<1>2. s0.bytes \in Bytes /\ Tracks(s \o s0.bytes, s0.reg, g0)
  BY <1>1, NarrowTracks, BytesJoin
<1> HIDE DEF s0, g0
<1>3. s1.bytes \in Bytes /\ Tracks(s \o s1.bytes, s1.reg, Grown(g0))
  BY <1>1, <1>2, RenormTracks
<1> HIDE DEF s1
<1>4. s2.bytes \in Bytes /\ Tracks(s \o s2.bytes, s2.reg, Grown(Grown(g0)))
  BY <1>1, <1>3, RenormTracks
<1> QED
  BY <1>4 DEF EncBit, Chosen, s0, s1, g0

-----------------------------------------------------------------------------
(* The buffer.                                                              *)

LEMMA FirstBytes ==
  ASSUME NEW s \in Bytes, NEW n \in 0..Len(s)
  PROVE  /\ SubSeq(s, 1, n) \in Bytes /\ Len(SubSeq(s, 1, n)) = n
         /\ \A i \in 1..n : SubSeq(s, 1, n)[i] = s[i]
<1>1. Len(s) \in Nat /\ s \in Seq(Digit)
  BY BytesAreDigits DEF Bytes
<1>2. n \in Int /\ 1 \in Int /\ \A i \in 1..n : s[i] \in Digit
  BY <1>1, BytesAreDigits
<1>3. /\ SubSeq(s, 1, n) \in Seq(Digit)
      /\ Len(SubSeq(s, 1, n)) = IF 1 <= n THEN n - 1 + 1 ELSE 0
      /\ \A i \in 1..(n - 1 + 1) : SubSeq(s, 1, n)[i] = s[1 + i - 1]
  BY <1>2, SubSeqProperties
<1>4. n - 1 + 1 = n /\ (IF 1 <= n THEN n - 1 + 1 ELSE 0) = n
      /\ \A i \in 1..n : 1 + i - 1 = i
  BY <1>1
<1> QED
  BY <1>3, <1>4 DEF Bytes

LEMMA SameBytes ==
  ASSUME NEW a \in Bytes, NEW b \in Bytes, Len(a) = Len(b),
         \A i \in 1..Len(a) : a[i] = b[i]
  PROVE  a = b
  BY SeqEqual DEF Bytes

LEMMA AllBytes ==
  ASSUME NEW s \in Bytes
  PROVE  SubSeq(s, 1, Len(s)) = s
<1>1. Len(s) \in 0..Len(s)
  BY BytesAreDigits
<1>2. SubSeq(s, 1, Len(s)) \in Bytes /\ Len(SubSeq(s, 1, Len(s))) = Len(s)
      /\ \A i \in 1..Len(s) : SubSeq(s, 1, Len(s))[i] = s[i]
  BY <1>1, FirstBytes
<1> QED
  BY <1>2, SameBytes

\* What follows does not change the first bytes.
LEMMA FirstBytesOfJoin ==
  ASSUME NEW s \in Bytes, NEW b \in Bytes, NEW n \in 0..Len(s)
  PROVE  SubSeq(s \o b, 1, n) = SubSeq(s, 1, n)
<1>1. s \o b \in Bytes /\ Len(s \o b) = Len(s) + Len(b)
      /\ \A i \in 1..Len(s) : (s \o b)[i] = s[i]
  BY Joined
<1>2. Len(s) \in Nat /\ Len(b) \in Nat
  BY BytesAreDigits
<1>3. n \in 0..Len(s \o b) /\ \A i \in 1..n : i \in 1..Len(s)
  BY <1>1, <1>2
<1>4. /\ SubSeq(s \o b, 1, n) \in Bytes /\ Len(SubSeq(s \o b, 1, n)) = n
      /\ \A i \in 1..n : SubSeq(s \o b, 1, n)[i] = s[i]
  BY <1>1, <1>3, FirstBytes
<1>5. /\ SubSeq(s, 1, n) \in Bytes /\ Len(SubSeq(s, 1, n)) = n
      /\ \A i \in 1..n : SubSeq(s, 1, n)[i] = s[i]
  BY FirstBytes
<1> QED
  BY <1>4, <1>5, SameBytes

BufferInv ==
  /\ ideal \in Bytes /\ max \in Nat /\ room \in Nat
  /\ cut \in BOOLEAN /\ oom \in BOOLEAN
  /\ ~(cut \/ oom) => out = ideal /\ Len(ideal) <= Smaller(max, room)
  /\ (cut \/ oom) => /\ Len(ideal) > Smaller(max, room)
                     /\ out = SubSeq(ideal, 1, Smaller(max, room))
  /\ cut => max <= room

LEMMA LongerStays ==
  ASSUME NEW s \in Bytes, NEW b \in Bytes, NEW n \in Nat, Len(s) > n
  PROVE  Len(s \o b) > n /\ SubSeq(s \o b, 1, n) = SubSeq(s, 1, n)
<1>1. Len(s \o b) = Len(s) + Len(b) /\ Len(s) \in Nat /\ Len(b) \in Nat
  BY Joined, BytesAreDigits
<1>2. n \in 0..Len(s)
  BY <1>1
<1> QED
  BY <1>1, <1>2, FirstBytesOfJoin

LEMMA PutKeepsBuffer ==
  ASSUME BufferInv, NEW b \in Bytes, Put(b), UNCHANGED <<max, room>>
  PROVE  BufferInv' /\ ideal' = ideal \o b
<1> DEFINE n == Smaller(max, room)
           full == cut \/ oom
<1>1. /\ ideal \in Bytes /\ n \in Nat /\ full \in BOOLEAN /\ max \in Nat /\ room \in Nat
      /\ ~full => out = ideal /\ Len(ideal) <= n
      /\ full => Len(ideal) > n /\ out = SubSeq(ideal, 1, n)
      /\ cut => max <= room
      /\ cut \in BOOLEAN /\ oom \in BOOLEAN
  BY DEF BufferInv, Smaller
<1>2. /\ ideal' = ideal \o b
      /\ IF full \/ Len(out \o b) <= n
         THEN /\ out' = IF full THEN out ELSE out \o b
              /\ cut' = cut /\ oom' = oom
         ELSE /\ out' = SubSeq(out \o b, 1, n)
              /\ cut' = (max <= room)
              /\ oom' = (room < max)
  BY DEF Put
<1>3. max' = max /\ room' = room /\ Smaller(max', room') = n
  OBVIOUS
<1> HIDE DEF n
<1>4. /\ ideal' \in Bytes
      /\ full => Len(ideal') > n /\ out = SubSeq(ideal', 1, n)
      /\ ~full /\ Len(out \o b) <= n => out \o b = ideal' /\ Len(ideal') <= n
      /\ ~full /\ ~(Len(out \o b) <= n) =>
           Len(ideal') > n /\ SubSeq(out \o b, 1, n) = SubSeq(ideal', 1, n)
  <2>1. ideal \o b \in Bytes /\ Len(ideal \o b) \in Nat
    BY <1>1, Joined, BytesAreDigits
  <2>2. full => Len(ideal \o b) > n /\ out = SubSeq(ideal \o b, 1, n)
    BY <1>1, LongerStays
  <2>3. ~full => out = ideal
    BY <1>1
  <2>4. ~(Len(ideal \o b) <= n) => Len(ideal \o b) > n
    BY <1>1, <2>1
  <2>5. ideal' = ideal \o b
    BY <1>2
  <2> HIDE DEF full
  <2> QED
    BY <2>1, <2>2, <2>3, <2>4, <2>5, Zenon
<1>5. /\ cut' \in BOOLEAN /\ oom' \in BOOLEAN /\ (cut' => max <= room)
      /\ (cut' \/ oom') <=> ~(~full /\ Len(out \o b) <= n)
  <2>1. /\ (max <= room) \in BOOLEAN /\ (room < max) \in BOOLEAN
        /\ max <= room \/ room < max
    BY <1>1
  <2> DEFINE fits == Len(out \o b) <= n
             most == max <= room
             least == room < max
  <2>2. IF full \/ fits THEN cut' = cut /\ oom' = oom
                        ELSE cut' = most /\ oom' = least
    BY <1>2
  <2>3. /\ most \in BOOLEAN /\ least \in BOOLEAN /\ (most \/ least)
        /\ cut \in BOOLEAN /\ oom \in BOOLEAN /\ (cut => most)
    BY <1>1, <2>1
  <2> HIDE DEF fits, most, least
  <2>4. /\ cut' \in BOOLEAN /\ oom' \in BOOLEAN /\ (cut' => most)
        /\ (cut' \/ oom') <=> ~(~full /\ fits)
    BY <2>2, <2>3, Zenon
  <2> QED
    BY <2>4 DEF fits, most
<1>6. /\ ~(cut' \/ oom') => out' = ideal' /\ Len(ideal') <= n
      /\ (cut' \/ oom') => Len(ideal') > n /\ out' = SubSeq(ideal', 1, n)
  BY <1>2, <1>4, <1>5
<1> QED
  <2>1. ideal' \in Bytes /\ max' \in Nat /\ room' \in Nat
    BY <1>1, <1>3, <1>4
  <2>2. Smaller(max', room') = n /\ (cut' => max' <= room')
    BY <1>3, <1>5
  <2>3. Smaller(max, room)' = n
    BY <2>2
  <2> QED
    BY <1>2, <1>5, <1>6, <2>1, <2>2, <2>3, Zenon DEF BufferInv

LEMMA InitBuffer == Init => BufferInv
<1> SUFFICES ASSUME Init PROVE BufferInv
  OBVIOUS
<1>1. /\ ideal = <<>> /\ out = <<>> /\ cut = FALSE /\ oom = FALSE
      /\ max \in Nat /\ room \in Nat
  BY BoundsAssumption DEF Init
<1>2. Smaller(max, room) >= 0 /\ Len(<<>>) = 0
  BY <1>1 DEF Smaller
<1> QED
  BY <1>1, <1>2, BytesJoin DEF BufferInv

LEMMA BufferIsHonest == BufferInv => CutIsHonest
<1> SUFFICES ASSUME BufferInv PROVE CutIsHonest
  OBVIOUS
<1> DEFINE n == Smaller(max, room)
<1>1. /\ ideal \in Bytes /\ n \in Nat /\ Len(ideal) \in Nat
      /\ max <= room => n = max
      /\ cut \in BOOLEAN /\ oom \in BOOLEAN
  BY BytesAreDigits DEF BufferInv, Smaller
<1>2. CASE ~(cut \/ oom)
  <2>1. out = ideal /\ SubSeq(ideal, 1, Len(ideal)) = ideal
    BY <1>1, <1>2, AllBytes DEF BufferInv
  <2> QED
    BY <1>1, <1>2, <2>1 DEF CutIsHonest
<1>3. CASE cut \/ oom
  <2>1. Len(ideal) > n /\ out = SubSeq(ideal, 1, n) /\ (cut => max <= room)
    BY <1>3 DEF BufferInv
  <2>2. n \in 0..Len(ideal)
    BY <1>1, <2>1
  <2>3. Len(out) = n
    BY <1>1, <2>1, <2>2, FirstBytes
  <2> HIDE DEF n
  <2> QED
    BY <1>1, <1>3, <2>1, <2>3 DEF CutIsHonest
<1> QED
  BY <1>2, <1>3

-----------------------------------------------------------------------------
(* The decoder reads a number that lies in every interval the encoder went   *)
(* through: from the last one, which begins with it, back to the first.      *)

LEMMA NarrowFields ==
  ASSUME NEW g \in Intervals, g.range >= Top,
         NEW p \in 1..(ProbOne - 1), NEW bit \in {0, 1}
  PROVE  LET bound == (g.range \div ProbOne) * p
             h == Narrow(g, p, bit)
         IN  /\ bound \in Nat /\ 1 <= bound /\ bound < g.range
             /\ h \in Intervals /\ h.pos = g.pos /\ h.prob = g.prob
             /\ bit = 1 => h.low = g.low + bound /\ h.range = g.range - bound
             /\ bit = 0 => h.low = g.low /\ h.range = bound
<1> DEFINE bound == (g.range \div ProbOne) * p
           h == Narrow(g, p, bit)
<1> USE Sizes
<1>1. /\ g.low \in Nat /\ g.range \in Nat /\ g.pos \in Nat /\ g.prob \in Probabilities
      /\ g = [low |-> g.low, range |-> g.range, pos |-> g.pos, prob |-> g.prob]
  BY DEF Intervals
<1>2. bound \in Nat /\ 1 <= bound /\ bound < g.range
  <2>1. PICK u \in 1..Top : Top = u * ProbOne
    BY Unit
  <2>2. bound \in Nat /\ bound >= u /\ bound + u <= g.range
    BY <1>1, <2>1, BoundInside
  <2> HIDE DEF bound
  <2> QED
    BY <1>1, <2>2
<1>3. /\ bit = 1 => h = [g EXCEPT !.low = @ + bound, !.range = @ - bound]
      /\ bit = 0 => h = [g EXCEPT !.range = bound]
  BY DEF Narrow
<1> HIDE DEF bound, h
<1>4. /\ h.pos = g.pos /\ h.prob = g.prob
      /\ bit = 1 => h.low = g.low + bound /\ h.range = g.range - bound
      /\ bit = 0 => h.low = g.low /\ h.range = bound
      /\ h = [low |-> h.low, range |-> h.range, pos |-> h.pos, prob |-> h.prob]
  BY <1>1, <1>3
<1>5. h.low \in Nat /\ h.range \in Nat
  BY <1>1, <1>2, <1>4
<1>6. h \in Intervals
  BY <1>1, <1>4, <1>5 DEF Intervals
<1> QED
  BY <1>2, <1>4, <1>6 DEF bound, h

LEMMA GrownFields ==
  ASSUME NEW g \in Intervals
  PROVE  /\ Grown(g) \in Intervals
         /\ Grown(g).prob = g.prob
         /\ g.range >= Top => Grown(g) = g
         /\ g.range < Top => /\ Grown(g).low = g.low * Base
                             /\ Grown(g).range = g.range * Base
                             /\ Grown(g).pos = g.pos + 1
<1> USE Sizes
<1>1. /\ g.low \in Nat /\ g.range \in Nat /\ g.pos \in Nat /\ g.prob \in Probabilities
      /\ g = [low |-> g.low, range |-> g.range, pos |-> g.pos, prob |-> g.prob]
  BY DEF Intervals
<1>2. CASE g.range < Top
  <2>1. Grown(g) = [low |-> g.low * Base, range |-> g.range * Base,
                    pos |-> g.pos + 1, prob |-> g.prob]
    BY <1>1, <1>2 DEF Grown
  <2>2. g.low * Base \in Nat /\ g.range * Base \in Nat /\ g.pos + 1 \in Nat
    BY <1>1
  <2> QED
    BY <1>1, <1>2, <2>1, <2>2 DEF Intervals
<1>3. CASE g.range >= Top
  BY <1>1, <1>3 DEF Grown
<1> QED
  BY <1>1, <1>2, <1>3

Inside(v, n, g) ==
  /\ g.pos \in 0..n
  /\ g.low <= v[g.pos] /\ v[g.pos] < g.low + g.range

LEMMA ValuesStep ==
  ASSUME NEW s \in Bytes, NEW v \in Values(s)
  PROVE  /\ Len(s) \in Nat /\ v[0] = 0
         /\ \A i \in 0..Len(s) : v[i] \in Nat
         /\ \A i \in 0..(Len(s) - 1) :
              i + 1 \in 1..Len(s) /\ s[i + 1] \in Digit /\ v[i + 1] = Base * v[i] + s[i + 1]
<1>1. Len(s) \in Nat /\ \A i \in 1..Len(s) : s[i] \in Digit
  BY BytesAreDigits
<1>2. /\ v \in [0..Len(s) -> Nat] /\ v[0] = 0
      /\ \A i \in 1..Len(s) : v[i] = Base * v[i - 1] + s[i]
  BY DEF Values
<1>3. ASSUME NEW i \in 0..(Len(s) - 1)
      PROVE  i + 1 \in 1..Len(s) /\ v[i + 1] = Base * v[i] + s[i + 1]
  <2>1. i + 1 \in 1..Len(s) /\ (i + 1) - 1 = i
    BY <1>1
  <2> QED
    BY <1>2, <2>1
<1> QED
  BY <1>1, <1>2, <1>3

\* A number whose next digit lies in the grown interval lay in the interval.
LEMMA GrownBack ==
  ASSUME NEW s \in Bytes, NEW v \in Values(s), NEW g \in Intervals,
         Inside(v, Len(s), Grown(g))
  PROVE  Inside(v, Len(s), g)
<1> USE Sizes
<1>1. g.low \in Nat /\ g.range \in Nat /\ g.pos \in Nat
  BY DEF Intervals
<1>2. CASE g.range >= Top
  BY <1>2, GrownFields
<1>3. CASE g.range < Top
  <2> DEFINE k == g.pos
             x == v[k]
             d == s[k + 1]
             l == g.low
             m == g.low + g.range
  <2>1. /\ k + 1 \in 0..Len(s)
        /\ l * Base <= v[k + 1] /\ v[k + 1] < l * Base + g.range * Base
    BY <1>3, GrownFields DEF Inside
  <2>2. k \in 0..(Len(s) - 1) /\ k \in 0..Len(s)
    BY <1>1, <2>1, ValuesStep
  <2>3. x \in Nat /\ d \in Digit /\ v[k + 1] = Base * x + d
    BY <2>2, ValuesStep
  <2>4. d \in Nat /\ d < Base /\ l \in Nat /\ m \in Nat
    BY <1>1, <2>3, SMTT(40) DEF Digit
  <2>5. l * Base + g.range * Base = m * Base
    BY <1>1
  <2>6. l * Base <= Base * x + d /\ Base * x + d < m * Base
    BY <2>1, <2>3, <2>5
  <2> HIDE DEF k, x, d, l, m
  <2>7. l < x + 1
    <3>1. l * Base < (x + 1) * Base
      BY <2>3, <2>4, <2>6
    <3> QED
      BY <2>3, <2>4, <3>1
  <2>8. x < m
    <3>1. x * Base < m * Base
      BY <2>3, <2>4, <2>6
    <3> QED
      BY <2>3, <2>4, <3>1
  <2>9. l <= x
    BY <2>3, <2>4, <2>7
  <2> QED
    BY <2>2, <2>8, <2>9 DEF Inside, k, x, l, m
<1> QED
  BY <1>1, <1>2, <1>3

\* A number in the part of a bit lay in the whole, and tells the bit.
LEMMA NarrowBack ==
  ASSUME NEW s \in Bytes, NEW v \in Values(s), NEW g \in Intervals, g.range >= Top,
         NEW p \in 1..(ProbOne - 1), NEW bit \in {0, 1},
         Inside(v, Len(s), Narrow(g, p, bit))
  PROVE  /\ Inside(v, Len(s), g)
         /\ bit = 1 <=> v[g.pos] - g.low >= (g.range \div ProbOne) * p
<1> DEFINE bound == (g.range \div ProbOne) * p
           h == Narrow(g, p, bit)
           x == v[g.pos]
<1>1. /\ bound \in Nat /\ 1 <= bound /\ bound < g.range
      /\ h \in Intervals /\ h.pos = g.pos
      /\ bit = 1 => h.low = g.low + bound /\ h.range = g.range - bound
      /\ bit = 0 => h.low = g.low /\ h.range = bound
  BY NarrowFields
<1>2. g.low \in Nat /\ g.range \in Nat /\ g.pos \in Nat
  BY DEF Intervals
<1>3. g.pos \in 0..Len(s) /\ h.low <= x /\ x < h.low + h.range
  BY <1>1 DEF Inside
<1>4. x \in Nat
  BY <1>3, ValuesStep
<1> HIDE DEF bound, h, x
<1>5. g.low <= x /\ x < g.low + g.range /\ (bit = 1 <=> x - g.low >= bound)
  BY <1>1, <1>2, <1>3, <1>4, SMTT(40)
<1> QED
  BY <1>3, <1>5 DEF Inside, bound, x

-----------------------------------------------------------------------------
(* The decoder's registers.                                                 *)

DecRegs == [code : Int, range : Int, pos : Nat, truncated : BOOLEAN]

\* The stream is s, or s without its end.
BeginningOf(s) ==
  /\ stream \in Bytes /\ Len(stream) <= Len(s)
  /\ \A i \in 1..Len(stream) : stream[i] = s[i]

\* The decoder stands where v lies in g.
Follows(d, v, g) ==
  d.pos = g.pos /\ d.range = g.range /\ d.code = v[g.pos] - g.low

\* It does, or it has noticed that its stream has no end.
Reads(d, s, v, g) ==
  /\ d \in DecRegs /\ d.pos <= Len(stream)
  /\ ~d.truncated => Follows(d, v, g)
  /\ Len(stream) = Len(s) => ~d.truncated

LEMMA FedTyped ==
  ASSUME stream \in Bytes, NEW d \in DecRegs, d.pos <= Len(stream)
  PROVE  /\ Fed(d) \in DecRegs /\ Fed(d).pos <= Len(stream)
         /\ Fed(d).range = d.range
         /\ d.truncated => Fed(d).truncated
<1> DEFINE more == d.pos < Len(stream)
           byte == IF more THEN stream[d.pos + 1] ELSE 0
           f == Fed(d)
<1> USE Sizes
<1>1. /\ d.code \in Int /\ d.range \in Int /\ d.pos \in Nat /\ d.truncated \in BOOLEAN
      /\ d = [code |-> d.code, range |-> d.range, pos |-> d.pos,
              truncated |-> d.truncated]
  BY DEF DecRegs
<1>2. f = [d EXCEPT !.code = (@ * Base + byte) % W,
                    !.pos = IF more THEN @ + 1 ELSE @,
                    !.truncated = @ \/ ~more]
  BY DEF Fed
<1>3. f = [code |-> (d.code * Base + byte) % W, range |-> d.range,
           pos |-> IF more THEN d.pos + 1 ELSE d.pos,
           truncated |-> d.truncated \/ ~more]
  <2> HIDE DEF more, byte, f
  <2> QED
    BY <1>1, <1>2
<1>4. Len(stream) \in Nat /\ more \in BOOLEAN
  BY <1>1, BytesAreDigits
<1>5. byte \in Int
  <2>1. more => d.pos + 1 \in 1..Len(stream)
    BY <1>1, <1>4
  <2>2. \A i \in 1..Len(stream) : stream[i] \in Int
    BY BytesAreDigits DEF Digit
  <2> QED
    BY <2>1, <2>2
<1>6. (d.code * Base + byte) % W \in Int
  <2> HIDE DEF byte
  <2>1. d.code * Base + byte \in Int
    BY <1>1, <1>5
  <2>2. \A z \in Int : z % W \in Int
    OBVIOUS
  <2> QED
    BY <2>1, <2>2
<1>7. /\ (IF more THEN d.pos + 1 ELSE d.pos) \in Nat
      /\ (IF more THEN d.pos + 1 ELSE d.pos) <= Len(stream)
  BY <1>1, <1>4
<1>8. (d.truncated \/ ~more) \in BOOLEAN
  OBVIOUS
<1> HIDE DEF more, byte, f
<1>9. f \in DecRegs
  BY <1>1, <1>3, <1>6, <1>7, <1>8 DEF DecRegs
<1>10. f.pos <= Len(stream) /\ f.range = d.range
  BY <1>3, <1>7
<1>11. f.truncated = (d.truncated \/ ~more)
  BY <1>3
<1>12. d.truncated => f.truncated
  BY <1>11, Zenon
<1> QED
  BY <1>9, <1>10, <1>12 DEF f

\* A byte that is there takes the decoder one digit on; one that is not is seen.
LEMMA FedReads ==
  ASSUME NEW s \in Bytes, BeginningOf(s), NEW d \in DecRegs, d.pos <= Len(stream),
         NEW k \in 0..(Len(s) - 1), NEW y \in 0..(W - 1),
         ~d.truncated => d.pos = k /\ d.code * Base + s[k + 1] = y,
         Len(stream) = Len(s) => ~d.truncated
  PROVE  /\ ~Fed(d).truncated => Fed(d).pos = k + 1 /\ Fed(d).code = y
         /\ Len(stream) = Len(s) => ~Fed(d).truncated
<1> USE Sizes
<1>1. /\ d.code \in Int /\ d.range \in Int /\ d.pos \in Nat /\ d.truncated \in BOOLEAN
      /\ d = [code |-> d.code, range |-> d.range, pos |-> d.pos,
              truncated |-> d.truncated]
  BY DEF DecRegs
<1>2. /\ stream \in Bytes /\ Len(stream) \in Nat /\ Len(s) \in Nat
      /\ Len(stream) <= Len(s) /\ \A i \in 1..Len(stream) : stream[i] = s[i]
  BY BytesAreDigits DEF BeginningOf
<1>3. CASE ~d.truncated /\ d.pos < Len(stream)
  <2>1. d.pos = k /\ d.code * Base + s[k + 1] = y
    BY <1>3
  <2>2. stream[d.pos + 1] = s[k + 1]
    <3>1. d.pos + 1 \in 1..Len(stream)
      BY <1>1, <1>2, <1>3
    <3> QED
      BY <1>2, <2>1, <3>1
  <2> DEFINE byte == s[k + 1]
  <2>3. Fed(d) = [d EXCEPT !.code = (@ * Base + byte) % W,
                           !.pos = @ + 1, !.truncated = @ \/ FALSE]
    BY <1>3, <2>2 DEF Fed
  <2> HIDE DEF byte
  <2>4. /\ Fed(d).code = (d.code * Base + byte) % W /\ Fed(d).pos = d.pos + 1
        /\ Fed(d).truncated = (d.truncated \/ FALSE)
    BY <1>1, <2>3
  <2>5. y % W = y
    OBVIOUS
  <2>6. Fed(d).code = y
    BY <2>1, <2>4, <2>5 DEF byte
  <2> QED
    BY <1>3, <2>1, <2>4, <2>6
<1>4. CASE d.truncated \/ ~(d.pos < Len(stream))
  <2>1. Fed(d).truncated = (d.truncated \/ ~(d.pos < Len(stream)))
    BY <1>1 DEF Fed
  <2>2. Fed(d).truncated
    BY <1>4, <2>1
  <2>3. Len(stream) # Len(s)
    <3>1. SUFFICES ASSUME Len(stream) = Len(s) PROVE FALSE
      OBVIOUS
    <3>2. ~d.truncated /\ d.pos = k
      BY <3>1
    <3> QED
      BY <1>2, <1>4, <3>1, <3>2
  <2> QED
    BY <2>2, <2>3
<1> QED
  BY <1>3, <1>4

LEMMA GrownRange ==
  ASSUME NEW g \in Intervals, g.range < W
  PROVE  Grown(g).range < W
<1>1. g.range \in Nat
  BY DEF Intervals
<1>2. g.range < Top => g.range * Base < W
  BY <1>1, ShiftedNumber
<1> QED
  BY <1>1, <1>2, GrownFields, Sizes

LEMMA DecRenormReads ==
  ASSUME NEW s \in Bytes, BeginningOf(s), NEW v \in Values(s),
         NEW g \in Intervals, g.range < W, Inside(v, Len(s), Grown(g)),
         NEW d, Reads(d, s, v, g)
  PROVE  Reads(DecRenorm(d), s, v, Grown(g))
<1> DEFINE wide == [d EXCEPT !.range = @ * Base]
           h == Grown(g)
<1> USE Sizes
<1>1. /\ d \in DecRegs /\ d.pos <= Len(stream) /\ stream \in Bytes
      /\ ~d.truncated => Follows(d, v, g)
      /\ Len(stream) = Len(s) => ~d.truncated
      /\ d.truncated \in BOOLEAN
  BY DEF Reads, BeginningOf, DecRegs
<1>2. /\ g.low \in Nat /\ g.range \in Nat /\ g.pos \in Nat
      /\ h \in Intervals /\ h.low \in Nat /\ h.range < W /\ h.range \in Nat
      /\ g.range < Top => h.low = g.low * Base /\ h.range = g.range * Base
                          /\ h.pos = g.pos + 1
      /\ g.range >= Top => h = g
  BY GrownFields, GrownRange DEF Intervals
<1>3. CASE ~(d.range < Top)
  <2>1. DecRenorm(d) = d
    BY <1>3 DEF DecRenorm
  <2>2. ~d.truncated => h = g
    BY <1>1, <1>2, <1>3 DEF Follows
  <2> HIDE DEF h
  <2> QED
    BY <1>1, <2>1, <2>2 DEF Reads, h
<1>4. CASE d.range < Top
  <2>1. DecRenorm(d) = Fed(wide)
    BY <1>4 DEF DecRenorm
  <2>2. /\ wide \in DecRegs /\ wide.pos = d.pos /\ wide.truncated = d.truncated
        /\ wide.code = d.code /\ wide.range = d.range * Base
    <3>1. /\ d.code \in Int /\ d.range \in Int /\ d.pos \in Nat
          /\ d = [code |-> d.code, range |-> d.range, pos |-> d.pos,
                  truncated |-> d.truncated]
      BY <1>1 DEF DecRegs
    <3>2. d.range * Base \in Int
      BY <3>1
    <3>3. wide = [code |-> d.code, range |-> d.range * Base, pos |-> d.pos,
                  truncated |-> d.truncated]
      BY <3>1
    <3> HIDE DEF wide
    <3> QED
      BY <1>1, <3>1, <3>2, <3>3 DEF DecRegs
  <2> HIDE DEF wide
  <2>3. /\ Fed(wide) \in DecRegs /\ Fed(wide).pos <= Len(stream)
        /\ Fed(wide).range = wide.range
        /\ wide.truncated => Fed(wide).truncated
    BY <1>1, <2>2, FedTyped
  <2>4. CASE d.truncated
    BY <1>1, <2>1, <2>2, <2>3, <2>4 DEF Reads
  <2>5. CASE ~d.truncated
    <3> DEFINE k == g.pos
               y == v[k + 1] - h.low
    <3>1. /\ d.pos = k /\ d.range = g.range /\ d.code = v[k] - g.low
      BY <1>1, <2>5 DEF Follows
    <3>2. h.low = g.low * Base /\ h.range = g.range * Base /\ h.pos = k + 1
      BY <1>2, <1>4, <3>1
    <3>3. k + 1 \in 0..Len(s) /\ h.low <= v[k + 1] /\ v[k + 1] < h.low + h.range
      BY <3>2 DEF Inside
    <3>4. k \in 0..(Len(s) - 1) /\ k \in 0..Len(s)
      BY <1>2, <3>3, ValuesStep, SMTT(40)
    <3>5. /\ v[k] \in Nat /\ v[k + 1] \in Nat /\ s[k + 1] \in Nat
          /\ v[k + 1] = Base * v[k] + s[k + 1]
      BY <3>3, <3>4, ValuesStep DEF Digit
    <3>6. y \in 0..(W - 1)
      <4>1. \A a, b, c \in Nat : a <= b /\ b < a + c /\ c < W => b - a \in 0..(W - 1)
        OBVIOUS
      <4> HIDE DEF h
      <4> QED
        BY <1>2, <3>3, <3>5, <4>1
    <3>7. wide.code * Base + s[k + 1] = y
      <4> DEFINE a == v[k]
                 b == g.low
                 c == s[k + 1]
                 e == v[k + 1]
      <4>1. a \in Nat /\ b \in Nat /\ c \in Nat /\ e = Base * a + c
        BY <1>2, <3>5
      <4> HIDE DEF a, b, c, e
      <4>2. (a - b) * Base + c = e - b * Base
        BY <4>1
      <4> USE DEF a, b, c, e
      <4> QED
        BY <2>2, <3>1, <3>2, <4>2
    <3> HIDE DEF k, y
    <3>8. /\ ~Fed(wide).truncated => Fed(wide).pos = k + 1 /\ Fed(wide).code = y
          /\ Len(stream) = Len(s) => ~Fed(wide).truncated
      BY <1>1, <2>2, <2>5, <3>1, <3>4, <3>6, <3>7, FedReads
    <3>9. ~Fed(wide).truncated => Follows(Fed(wide), v, h)
      BY <2>2, <2>3, <3>1, <3>2, <3>8 DEF Follows, y
    <3> QED
      BY <2>1, <2>3, <3>8, <3>9 DEF Reads, h
  <2> QED
    BY <1>1, <2>4, <2>5
<1> QED
  BY <1>3, <1>4

LEMMA DecFields ==
  ASSUME NEW d \in DecRegs, NEW x, NEW y
  PROVE  /\ d.code \in Int /\ d.range \in Int /\ d.pos \in Nat
         /\ d.truncated \in BOOLEAN
         /\ [d EXCEPT !.code = x, !.range = y]
              = [code |-> x, range |-> y, pos |-> d.pos, truncated |-> d.truncated]
         /\ [d EXCEPT !.range = y]
              = [code |-> d.code, range |-> y, pos |-> d.pos, truncated |-> d.truncated]
<1>1. /\ d.code \in Int /\ d.range \in Int /\ d.pos \in Nat /\ d.truncated \in BOOLEAN
      /\ d = [code |-> d.code, range |-> d.range, pos |-> d.pos,
              truncated |-> d.truncated]
  BY DEF DecRegs
<1>2. [d EXCEPT !.code = x, !.range = y]
        = [code |-> x, range |-> y, pos |-> d.pos, truncated |-> d.truncated]
  <2> DEFINE e == [d EXCEPT !.code = x, !.range = y]
  <2>1. DOMAIN e = DOMAIN d /\ e = [f \in DOMAIN d |-> e[f]]
    OBVIOUS
  <2>2. DOMAIN d = {"code", "range", "pos", "truncated"}
    BY <1>1
  <2>3. e["code"] = x /\ e["range"] = y /\ e["pos"] = d.pos
        /\ e["truncated"] = d.truncated
    BY <2>2
  <2> HIDE DEF e
  <2>4. e = [code |-> x, range |-> y, pos |-> d.pos, truncated |-> d.truncated]
    BY <2>1, <2>2, <2>3
  <2> QED
    BY <2>4 DEF e
<1>3. [d EXCEPT !.range = y]
        = [code |-> d.code, range |-> y, pos |-> d.pos, truncated |-> d.truncated]
  BY <1>1
<1> QED
  BY <1>1, <1>2, <1>3

\* The decoder that has run out of bytes stays out of them, whatever it is asked.
LEMMA DecBitTruncated ==
  ASSUME stream \in Bytes, NEW d \in DecRegs, d.pos <= Len(stream), d.truncated,
         NEW p \in Int
  PROVE  DecBit(d, p) \in DecRegs /\ DecBit(d, p).pos <= Len(stream)
         /\ DecBit(d, p).truncated
<1> DEFINE bound == (d.range \div ProbOne) * p
           d1 == IF DecodedBit(d, p) = 1
                 THEN [d EXCEPT !.code = @ - bound, !.range = @ - bound]
                 ELSE [d EXCEPT !.range = bound]
           Out(x) == x \in DecRegs /\ x.pos <= Len(stream) /\ x.truncated
<1>1. /\ d.code \in Int /\ d.range \in Int /\ d.pos \in Nat
      /\ d = [code |-> d.code, range |-> d.range, pos |-> d.pos,
              truncated |-> d.truncated]
  BY DEF DecRegs
<1>2. bound \in Int
  <2>1. \A x \in Int : x \div ProbOne \in Int
    BY ProbAssumption
  <2> QED
    BY <1>1, <2>1
<1> HIDE DEF bound
<1>3. d.code - bound \in Int /\ d.range - bound \in Int
  BY <1>1, <1>2
<1>4. Out(d1)
  <2>1. [d EXCEPT !.code = @ - bound, !.range = @ - bound]
          = [code |-> d.code - bound, range |-> d.range - bound, pos |-> d.pos,
             truncated |-> d.truncated]
    BY DecFields, Zenon
  <2>2. [d EXCEPT !.range = bound]
          = [code |-> d.code, range |-> bound, pos |-> d.pos,
             truncated |-> d.truncated]
    BY DecFields, Zenon
  <2>3. d.truncated \in BOOLEAN
    BY DEF DecRegs
  <2>4. Out([code |-> d.code - bound, range |-> d.range - bound, pos |-> d.pos,
             truncated |-> d.truncated])
    BY <1>1, <1>3, <2>3 DEF DecRegs
  <2>5. Out([code |-> d.code, range |-> bound, pos |-> d.pos,
             truncated |-> d.truncated])
    BY <1>1, <1>2, <2>3 DEF DecRegs
  <2>6. CASE DecodedBit(d, p) = 1
    <3>1. d1 = [d EXCEPT !.code = @ - bound, !.range = @ - bound]
      BY <2>6
    <3> HIDE DEF d1, Out
    <3> QED
      BY <2>1, <2>4, <3>1
  <2>7. CASE DecodedBit(d, p) # 1
    <3>1. d1 = [d EXCEPT !.range = bound]
      BY <2>7
    <3> HIDE DEF d1, Out
    <3> QED
      BY <2>2, <2>5, <3>1
  <2> QED
    BY <2>6, <2>7
<1>5. ASSUME NEW x, Out(x) PROVE Out(DecRenorm(x))
  <2>1. CASE ~(x.range < Top)
    BY <1>5, <2>1 DEF DecRenorm
  <2>2. CASE x.range < Top
    <3> DEFINE w == [x EXCEPT !.range = @ * Base]
    <3>1. DecRenorm(x) = Fed(w)
      BY <2>2 DEF DecRenorm
    <3>2. /\ x.code \in Int /\ x.range \in Int /\ x.pos \in Nat
          /\ x.truncated \in BOOLEAN
          /\ x = [code |-> x.code, range |-> x.range, pos |-> x.pos,
                  truncated |-> x.truncated]
      BY <1>5 DEF DecRegs
    <3>3. x.range * Base \in Int
      BY <3>2, Sizes
    <3>4. w = [code |-> x.code, range |-> x.range * Base, pos |-> x.pos,
               truncated |-> x.truncated]
      BY <3>2
    <3> HIDE DEF w
    <3>5. w \in DecRegs /\ w.pos <= Len(stream) /\ w.truncated
      BY <1>5, <3>2, <3>3, <3>4 DEF DecRegs
    <3> QED
      BY <3>1, <3>5, FedTyped
  <2> QED
    BY <2>1, <2>2
<1>6. DecBit(d, p) = DecRenorm(DecRenorm(d1))
  BY DEF DecBit, bound
<1> HIDE DEF d1
<1>7. Out(DecRenorm(DecRenorm(d1)))
  <2> HIDE DEF Out
  <2> QED
    BY <1>4, <1>5
<1> QED
  BY <1>6, <1>7

\* The decoder takes the bit the encoder took, and follows it.
LEMMA DecBitReads ==
  ASSUME NEW s \in Bytes, BeginningOf(s), NEW v \in Values(s),
         NEW g \in Intervals, g.range >= Top, g.range < W,
         NEW p \in 1..(ProbOne - 1), NEW bit \in {0, 1},
         Inside(v, Len(s), Chosen(g, p, bit)),
         NEW d, Reads(d, s, v, g), ~d.truncated
  PROVE  /\ DecodedBit(d, p) = bit
         /\ Reads(DecBit(d, p), s, v, Chosen(g, p, bit))
<1> DEFINE bound == (g.range \div ProbOne) * p
           g0 == Narrow(g, p, bit)
           g1 == Grown(g0)
           d1 == IF DecodedBit(d, p) = 1
                 THEN [d EXCEPT !.code = @ - bound, !.range = @ - bound]
                 ELSE [d EXCEPT !.range = bound]
<1> USE Sizes
<1>1. /\ bound \in Nat /\ 1 <= bound /\ bound < g.range
      /\ g0 \in Intervals /\ g0.pos = g.pos
      /\ bit = 1 => g0.low = g.low + bound /\ g0.range = g.range - bound
      /\ bit = 0 => g0.low = g.low /\ g0.range = bound
  BY NarrowFields
<1>2. g.low \in Nat /\ g.range \in Nat /\ g.pos \in Nat
  BY DEF Intervals
<1>3. Chosen(g, p, bit) = Grown(g1)
  BY DEF Chosen
<1>4. g1 \in Intervals
  BY <1>1, GrownFields
<1>5. g0.range < W /\ g1.range < W
  <2>1. g0.range < W
    <3> HIDE DEF bound, g0
    <3> QED
      BY <1>1, <1>2
  <2> HIDE DEF g0
  <2> QED
    BY <1>1, <2>1, GrownRange
<1>6. Inside(v, Len(s), g1) /\ Inside(v, Len(s), g0)
  <2> HIDE DEF g0
  <2>1. Inside(v, Len(s), g1)
    <3> HIDE DEF g1
    <3> QED
      BY <1>3, <1>4, GrownBack
  <2> QED
    BY <1>1, <2>1, GrownBack
<1>7. /\ d \in DecRegs /\ d.pos = g.pos /\ d.range = g.range
      /\ d.code = v[g.pos] - g.low /\ d.pos <= Len(stream)
      /\ d.truncated = FALSE
  BY DEF Reads, Follows, DecRegs
<1>8. bit = 1 <=> d.code >= bound
  <2>1. bit = 1 <=> v[g.pos] - g.low >= bound
    BY <1>6, NarrowBack
  <2> HIDE DEF bound
  <2> QED
    BY <1>7, <2>1
<1>9. DecodedBit(d, p) = bit
  <2>1. DecodedBit(d, p) = IF d.code >= bound THEN 1 ELSE 0
    BY <1>7 DEF DecodedBit
  <2> HIDE DEF bound
  <2> QED
    BY <1>8, <2>1
<1>10. v[g.pos] \in Nat
  BY <1>6, <1>1, ValuesStep DEF Inside
<1>11. Reads(d1, s, v, g0)
  <2>1. d = [code |-> d.code, range |-> d.range, pos |-> d.pos,
             truncated |-> d.truncated]
    BY <1>7 DEF DecRegs
  <2> HIDE DEF bound, g0
  <2>2. d.code - bound \in Int /\ d.range - bound \in Int /\ d.code \in Int
    BY <1>1, <1>2, <1>7, <1>10, SMTT(40)
  <2>3. CASE bit = 1
    <3>1. d1 = [code |-> d.code - bound, range |-> d.range - bound,
                pos |-> d.pos, truncated |-> FALSE]
      <4>1. d1 = [d EXCEPT !.code = @ - bound, !.range = @ - bound]
        BY <1>9, <2>3
      <4>2. [d EXCEPT !.code = @ - bound, !.range = @ - bound]
              = [code |-> d.code - bound, range |-> d.range - bound,
                 pos |-> d.pos, truncated |-> d.truncated]
        BY <1>7, DecFields, ZenonT(40)
      <4> HIDE DEF d1
      <4> QED
        BY <1>7, <4>1, <4>2, Zenon
    <3>2. d.code - bound = v[g0.pos] - g0.low
      BY <1>1, <1>2, <1>7, <1>10, <2>3
    <3> HIDE DEF d1
    <3>3. d1 \in DecRegs
      BY <1>2, <1>7, <2>2, <3>1 DEF DecRegs
    <3> QED
      BY <1>1, <1>7, <2>3, <3>1, <3>2, <3>3 DEF Reads, Follows
  <2>4. CASE bit = 0
    <3>1. d1 = [code |-> d.code, range |-> bound,
                pos |-> d.pos, truncated |-> FALSE]
      <4>1. d1 = [d EXCEPT !.range = bound]
        BY <1>9, <2>4
      <4>2. [d EXCEPT !.range = bound]
              = [code |-> d.code, range |-> bound,
                 pos |-> d.pos, truncated |-> d.truncated]
        BY <1>7, DecFields, Zenon
      <4> HIDE DEF d1
      <4> QED
        BY <1>7, <4>1, <4>2, Zenon
    <3>2. d.code = v[g0.pos] - g0.low
      BY <1>1, <1>7, <2>4
    <3> HIDE DEF d1
    <3>3. d1 \in DecRegs
      BY <1>1, <1>2, <1>7, <2>2, <3>1 DEF DecRegs
    <3> QED
      BY <1>1, <1>7, <2>4, <3>1, <3>2, <3>3 DEF Reads, Follows
  <2> QED
    BY <2>3, <2>4
<1>12. DecBit(d, p) = DecRenorm(DecRenorm(d1))
  <2>1. bound = (d.range \div ProbOne) * p
    BY <1>7
  <2> QED
    BY <2>1 DEF DecBit
<1> HIDE DEF bound, d1, g0
<1>13. Reads(DecRenorm(d1), s, v, g1)
  BY <1>1, <1>5, <1>6, <1>11, DecRenormReads
<1> HIDE DEF g1
<1>14. Reads(DecRenorm(DecRenorm(d1)), s, v, Grown(g1))
  BY <1>3, <1>4, <1>5, <1>13, DecRenormReads
<1> QED
  BY <1>3, <1>9, <1>12, <1>14

-----------------------------------------------------------------------------
(* The first bytes of the stream.                                           *)

LEMMA DecStartStepByStep ==
  ASSUME stream \in Bytes
  PROVE  \E f :
    /\ f[0] = [code |-> 0, range |-> W - 1, pos |-> 0, truncated |-> FALSE]
    /\ \A i \in 0..FlushShifts : f[i] \in DecRegs /\ f[i].pos <= Len(stream)
    /\ \A i \in 0..(FlushShifts - 1) : f[i + 1] = Fed(f[i])
    /\ DecStart = f[FlushShifts]
<1> DEFINE D == {d \in DecRegs : d.pos <= Len(stream)}
           start == [code |-> 0, range |-> W - 1, pos |-> 0, truncated |-> FALSE]
           next == [x \in D |-> Fed(x)]
           from(g) == [i \in 0..FlushShifts |-> IF i = 0 THEN start ELSE Fed(g[i - 1])]
           fed == CHOOSE g : g = from(g)
<1>1. DecStart = fed[FlushShifts]
  BY DEF DecStart
<1>2. start \in D
  <2>1. W - 1 \in Int /\ Len(stream) \in Nat
    BY Sizes, BytesAreDigits
  <2> QED
    BY <2>1 DEF DecRegs
<1>3. next \in [D -> D]
  <2>1. ASSUME NEW x \in D PROVE Fed(x) \in D
    BY FedTyped
  <2> HIDE DEF D
  <2> QED
    BY <2>1
<1>4. PICK f \in [Nat -> D] : f[0] = start /\ \A i \in Nat : f[i + 1] = next[f[i]]
  <2>1. \E f : Iterates(f, D, start, next)
    <3> HIDE DEF D, start, next, from, fed
    <3> QED
      BY <1>2, <1>3, IterationExists
  <2> QED
    BY <2>1 DEF Iterates
<1>5. FlushShifts \in Nat
  BY FlushAssumption
<1> DEFINE h == [i \in 0..FlushShifts |-> f[i]]
<1>6. \A i \in Nat : f[i + 1] = Fed(f[i])
  BY <1>4
<1> HIDE DEF start, D, next
<1>7. h = from(h)
  <2>1. ASSUME NEW i \in 0..FlushShifts
        PROVE  h[i] = IF i = 0 THEN start ELSE Fed(h[i - 1])
    <3>1. CASE i = 0
      BY <3>1, <1>4, <1>5
    <3>2. CASE i # 0
      <4>1. i - 1 \in Nat /\ (i - 1) + 1 = i /\ i - 1 \in 0..FlushShifts
        BY <3>2, <1>5
      <4> QED
        BY <4>1, <3>2, <1>6
    <3> QED
      BY <3>1, <3>2
  <2> QED
    BY <2>1
<1>8. fed = from(fed)
  <2>1. \E g : g = from(g)
    BY <1>7
  <2> HIDE DEF from
  <2> QED
    BY <2>1
<1>9. fed[0] = start /\ \A i \in 0..(FlushShifts - 1) : fed[i + 1] = Fed(fed[i])
  <2> DEFINE a == fed
  <2>1. a = from(a)
    BY <1>8
  <2> HIDE DEF a
  <2>2. \A i \in 0..FlushShifts : a[i] = IF i = 0 THEN start ELSE Fed(a[i - 1])
    BY <2>1
  <2>3. a[0] = start
    BY <2>2, <1>5
  <2>4. ASSUME NEW i \in 0..(FlushShifts - 1) PROVE a[i + 1] = Fed(a[i])
    <3>1. i + 1 \in 0..FlushShifts /\ i + 1 # 0 /\ (i + 1) - 1 = i
      BY <1>5
    <3> QED
      BY <3>1, <2>2
  <2> QED
    BY <2>3, <2>4 DEF a
<1> HIDE DEF fed
<1>10. \A i \in Nat : i <= FlushShifts => fed[i] \in D
  <2> DEFINE Good == {i \in Nat : i <= FlushShifts => fed[i] \in D}
  <2>1. 0 \in Good
    BY <1>2, <1>9
  <2>2. ASSUME NEW i \in Nat, i \in Good PROVE i + 1 \in Good
    <3> SUFFICES ASSUME i + 1 <= FlushShifts PROVE fed[i + 1] \in D
      OBVIOUS
    <3>1. i \in 0..(FlushShifts - 1) /\ fed[i] \in D
      BY <2>2, <1>5
    <3>2. fed[i + 1] = next[fed[i]]
      BY <3>1, <1>9 DEF next
    <3> QED
      BY <3>1, <3>2, <1>3
  <2>3. \A i \in Nat : i \in Good
    <3> HIDE DEF Good
    <3> QED
      BY <2>1, <2>2, Induction
  <2> QED
    BY <2>3
<1>11. \A i \in 0..FlushShifts : fed[i] \in DecRegs /\ fed[i].pos <= Len(stream)
  BY <1>5, <1>10 DEF D
<1> QED
  BY <1>1, <1>9, <1>11 DEF start

\* What dec_init reads is the number of the first bytes, all of it.
LEMMA DecStartReads ==
  ASSUME NEW s \in Bytes, BeginningOf(s), NEW v \in Values(s),
         FlushShifts <= Len(s), v[FlushShifts] < W
  PROVE  /\ DecStart \in DecRegs /\ DecStart.pos <= Len(stream)
         /\ DecStart.range = W - 1
         /\ ~DecStart.truncated =>
              DecStart.pos = FlushShifts /\ DecStart.code = v[FlushShifts]
         /\ Len(stream) = Len(s) => ~DecStart.truncated
<1> USE Sizes
<1>1. stream \in Bytes
  BY DEF BeginningOf
<1>2. PICK f :
        /\ f[0] = [code |-> 0, range |-> W - 1, pos |-> 0, truncated |-> FALSE]
        /\ \A i \in 0..FlushShifts : f[i] \in DecRegs /\ f[i].pos <= Len(stream)
        /\ \A i \in 0..(FlushShifts - 1) : f[i + 1] = Fed(f[i])
        /\ DecStart = f[FlushShifts]
  BY <1>1, DecStartStepByStep
<1>3. FlushShifts \in Nat /\ Len(s) \in Nat
  BY FlushAssumption, BytesAreDigits
<1>4. /\ v[0] = 0
      /\ \A i \in 0..FlushShifts : v[i] \in Nat
      /\ \A i \in 0..(FlushShifts - 1) :
           /\ i \in 0..(Len(s) - 1)
           /\ s[i + 1] \in Nat /\ v[i + 1] = Base * v[i] + s[i + 1]
  <2>1. \A i \in 0..FlushShifts : i \in 0..Len(s)
    BY <1>3
  <2>2. \A i \in 0..(FlushShifts - 1) : i \in 0..(Len(s) - 1)
    BY <1>3
  <2>3. \A d \in Digit : d \in Nat
    BY DEF Digit
  <2> QED
    BY <2>1, <2>2, <2>3, ValuesStep
<1>5. \A i \in 0..FlushShifts : v[i] < W
  <2> DEFINE Small == {j \in Nat : j <= FlushShifts => v[FlushShifts - j] < W}
  <2>1. 0 \in Small
    BY <1>3
  <2>2. ASSUME NEW j \in Nat, j \in Small PROVE j + 1 \in Small
    <3> SUFFICES ASSUME j + 1 <= FlushShifts PROVE v[FlushShifts - (j + 1)] < W
      OBVIOUS
    <3> DEFINE i == FlushShifts - (j + 1)
               x == v[i]
               d == s[i + 1]
    <3>1. /\ i \in 0..(FlushShifts - 1) /\ i \in 0..FlushShifts
          /\ i + 1 = FlushShifts - j /\ j <= FlushShifts
      BY <1>3
    <3>2. v[i + 1] < W
      BY <2>2, <3>1
    <3>3. x \in Nat /\ d \in Nat /\ v[i + 1] = Base * x + d
      BY <1>4, <3>1
    <3> HIDE DEF i, x, d
    <3>4. Base * x = (Base - 1) * x + x /\ (Base - 1) * x \in Nat
      BY <3>3
    <3>5. x < W
      BY <3>2, <3>3, <3>4
    <3> QED
      BY <3>5 DEF x, i
  <2>3. \A j \in Nat : j \in Small
    <3> HIDE DEF Small
    <3> QED
      BY <2>1, <2>2, Induction
  <2>4. ASSUME NEW i \in 0..FlushShifts PROVE v[i] < W
    <3>1. FlushShifts - i \in Nat /\ FlushShifts - (FlushShifts - i) = i
          /\ FlushShifts - i <= FlushShifts
      BY <1>3
    <3>2. FlushShifts - i \in Small
      BY <2>3, <3>1
    <3> QED
      BY <3>1, <3>2
  <2> QED
    BY <2>4
<1> DEFINE Right(i) == /\ f[i].range = W - 1
                       /\ ~f[i].truncated => f[i].pos = i /\ f[i].code = v[i]
                       /\ Len(stream) = Len(s) => ~f[i].truncated
           Good == {i \in Nat : i <= FlushShifts => Right(i)}
<1>6. 0 \in Good
  BY <1>2, <1>4
<1>7. ASSUME NEW i \in Nat, i \in Good PROVE i + 1 \in Good
  <2> SUFFICES ASSUME i + 1 <= FlushShifts PROVE Right(i + 1)
    OBVIOUS
  <2>1. /\ i \in 0..(FlushShifts - 1) /\ i \in 0..FlushShifts
        /\ i + 1 \in 0..FlushShifts /\ Right(i)
    BY <1>3, <1>7
  <2>2. f[i + 1] = Fed(f[i]) /\ f[i] \in DecRegs /\ f[i].pos <= Len(stream)
    BY <1>2, <2>1
  <2>3. /\ i \in 0..(Len(s) - 1) /\ v[i + 1] \in 0..(W - 1)
        /\ v[i] * Base + s[i + 1] = v[i + 1]
    <3>1. i \in 0..(Len(s) - 1) /\ v[i + 1] = Base * v[i] + s[i + 1] /\ v[i] \in Nat
          /\ v[i + 1] \in Nat /\ v[i + 1] < W
      BY <1>4, <1>5, <2>1
    <3> DEFINE x == v[i]
    <3>2. Base * x = x * Base
      BY <3>1
    <3> QED
      BY <3>1, <3>2
  <2>4. Fed(f[i]).range = W - 1
    BY <1>1, <2>1, <2>2, FedTyped
  <2>5. ~f[i].truncated => f[i].pos = i /\ f[i].code * Base + s[i + 1] = v[i + 1]
    BY <2>1, <2>3
  <2>6. /\ ~Fed(f[i]).truncated => Fed(f[i]).pos = i + 1 /\ Fed(f[i]).code = v[i + 1]
        /\ Len(stream) = Len(s) => ~Fed(f[i]).truncated
    BY <2>1, <2>2, <2>3, <2>5, FedReads
  <2> QED
    BY <2>2, <2>4, <2>6
<1>8. Right(FlushShifts)
  <2>1. FlushShifts \in Good
    <3> HIDE DEF Good
    <3> QED
      BY <1>3, <1>6, <1>7, Induction
  <2> QED
    BY <1>3, <2>1
<1>9. FlushShifts \in 0..FlushShifts
  BY <1>3
<1> QED
  BY <1>2, <1>8, <1>9

-----------------------------------------------------------------------------
(* The intervals of a whole message.                                        *)

Decisions == [kind : AllKindsOfDecision, bit : {0, 1}]

\* h[k] is the interval after the first k decisions.
History(h, ds) ==
  /\ h[0].low = 0 /\ h[0].range = W - 1 /\ h[0].pos = FlushShifts
  /\ \A k \in 0..Len(ds) : h[k] \in Intervals /\ Top <= h[k].range /\ h[k].range < W
  /\ \A k \in 0..(Len(ds) - 1) : h[k + 1] = After(h[k], ds[k + 1])

LEMMA DecisionsAreTyped ==
  ASSUME NEW ds \in Seq(Decisions)
  PROVE  /\ Len(ds) \in Nat
         /\ \A k \in 0..(Len(ds) - 1) :
              /\ ds[k + 1] \in Decisions
              /\ ds[k + 1].kind \in AllKindsOfDecision /\ ds[k + 1].bit \in {0, 1}
<1>1. Len(ds) \in Nat /\ \A i \in 1..Len(ds) : ds[i] \in Decisions
  BY ElementOfSeq, LenProperties
<1>2. \A k \in 0..(Len(ds) - 1) : k + 1 \in 1..Len(ds)
  BY <1>1
<1>3. \A d \in Decisions : d.kind \in AllKindsOfDecision /\ d.bit \in {0, 1}
  BY DEF Decisions
<1> QED
  BY <1>1, <1>2, <1>3

\* Learning is beside the interval.
LEMMA AfterFields ==
  ASSUME NEW g \in Intervals, Top <= g.range, NEW d,
         d.kind \in AllKindsOfDecision, d.bit \in {0, 1}
  PROVE  LET p == Mixed(d.kind, g.prob)
             c == Chosen(g, p, d.bit)
         IN  /\ p \in 1..(ProbOne - 1)
             /\ c \in Intervals /\ After(g, d) \in Intervals
             /\ After(g, d).low = c.low /\ After(g, d).range = c.range
             /\ After(g, d).pos = c.pos
             /\ After(g, d).prob = Learned(d.kind, g.prob, d.bit)
<1> DEFINE p == Mixed(d.kind, g.prob)
           c == Chosen(g, p, d.bit)
           l == Learned(d.kind, g.prob, d.bit)
<1>1. g.prob \in Probabilities /\ g.range \in Nat
  BY DEF Intervals
<1>2. p \in 1..(ProbOne - 1) /\ l \in Probabilities
  BY <1>1, MixedInRange, LearnedInRange
<1>3. After(g, d) = [c EXCEPT !.prob = l]
  BY DEF After
<1>4. c \in Intervals
  <2> DEFINE g0 == Narrow(g, p, d.bit)
  <2>1. g0 \in Intervals
    <3> HIDE DEF p
    <3> QED
      BY <1>1, <1>2, NarrowFields, Sizes
  <2> HIDE DEF g0
  <2>2. Grown(g0) \in Intervals /\ Grown(Grown(g0)) \in Intervals
    BY <2>1, GrownFields
  <2> QED
    BY <2>2 DEF Chosen, g0
<1> HIDE DEF p, c, l
<1>5. /\ [c EXCEPT !.prob = l] \in Intervals
      /\ [c EXCEPT !.prob = l].low = c.low
      /\ [c EXCEPT !.prob = l].range = c.range
      /\ [c EXCEPT !.prob = l].pos = c.pos
      /\ [c EXCEPT !.prob = l].prob = l
  BY <1>2, <1>4 DEF Intervals
<1> QED
  BY <1>2, <1>3, <1>4, <1>5 DEF p, c, l

LEMMA InsideBack ==
  ASSUME NEW s \in Bytes, NEW v \in Values(s), NEW g \in Intervals, Top <= g.range,
         NEW d, d.kind \in AllKindsOfDecision, d.bit \in {0, 1},
         Inside(v, Len(s), After(g, d))
  PROVE  /\ Inside(v, Len(s), Chosen(g, Mixed(d.kind, g.prob), d.bit))
         /\ Inside(v, Len(s), g)
<1> DEFINE p == Mixed(d.kind, g.prob)
           bit == d.bit
           g0 == Narrow(g, p, bit)
           c == Chosen(g, p, bit)
<1>1. /\ p \in 1..(ProbOne - 1) /\ bit \in {0, 1} /\ g.range >= Top
      /\ After(g, d).low = c.low /\ After(g, d).range = c.range
      /\ After(g, d).pos = c.pos
  <2>1. g.range \in Nat
    BY DEF Intervals
  <2> QED
    BY <2>1, AfterFields, Sizes
<1>2. Inside(v, Len(s), c)
  <2> HIDE DEF c
  <2> QED
    BY <1>1 DEF Inside
<1> HIDE DEF p, bit
<1>3. g0 \in Intervals
  BY <1>1, NarrowFields
<1>4. Inside(v, Len(s), Grown(Grown(g0)))
  BY <1>2 DEF Chosen
<1>5. Inside(v, Len(s), g0)
  <2> HIDE DEF g0
  <2>1. Grown(g0) \in Intervals
    BY <1>3, GrownFields
  <2>2. Inside(v, Len(s), Grown(g0))
    BY <1>4, <2>1, GrownBack
  <2> QED
    BY <1>3, <2>2, GrownBack
<1>6. Inside(v, Len(s), g)
  BY <1>1, <1>5, NarrowBack
<1> QED
  BY <1>2, <1>6 DEF p, bit

\* A number in the last interval lies in all of them.
LEMMA InsideAll ==
  ASSUME NEW s \in Bytes, NEW v \in Values(s), NEW ds \in Seq(Decisions),
         NEW h, History(h, ds), Inside(v, Len(s), h[Len(ds)])
  PROVE  \A k \in 0..Len(ds) : Inside(v, Len(s), h[k])
<1> DEFINE Good == {j \in Nat : j <= Len(ds) => Inside(v, Len(s), h[Len(ds) - j])}
<1>1. Len(ds) \in Nat
  BY DecisionsAreTyped
<1>2. 0 \in Good
  BY <1>1
<1>3. ASSUME NEW j \in Nat, j \in Good PROVE j + 1 \in Good
  <2> SUFFICES ASSUME j + 1 <= Len(ds) PROVE Inside(v, Len(s), h[Len(ds) - (j + 1)])
    OBVIOUS
  <2> DEFINE k == Len(ds) - (j + 1)
             g == h[k]
             d == ds[k + 1]
  <2>1. k \in 0..(Len(ds) - 1) /\ k \in 0..Len(ds) /\ k + 1 = Len(ds) - j
        /\ j <= Len(ds)
    BY <1>1
  <2>2. Inside(v, Len(s), h[k + 1])
    BY <1>3, <2>1
  <2>3. /\ h[k + 1] = After(g, d) /\ g \in Intervals /\ Top <= g.range
        /\ d.kind \in AllKindsOfDecision /\ d.bit \in {0, 1}
    BY <2>1, DecisionsAreTyped DEF History
  <2> HIDE DEF k, g, d
  <2>4. Inside(v, Len(s), g)
    BY <2>2, <2>3, InsideBack
  <2> QED
    BY <2>4 DEF g, k
<1>4. \A j \in Nat : j \in Good
  <2> HIDE DEF Good
  <2> QED
    BY <1>2, <1>3, Induction
<1>5. ASSUME NEW k \in 0..Len(ds) PROVE Inside(v, Len(s), h[k])
  <2>1. Len(ds) - k \in Nat /\ Len(ds) - (Len(ds) - k) = k /\ Len(ds) - k <= Len(ds)
    BY <1>1
  <2>2. Len(ds) - k \in Good
    BY <1>4, <2>1
  <2> QED
    BY <2>1, <2>2
<1> QED
  BY <1>5

\* One more decision.
LEMMA HistoryGrows ==
  ASSUME NEW ds \in Seq(Decisions), NEW d \in Decisions, NEW h, History(h, ds),
         Top <= After(h[Len(ds)], d).range, After(h[Len(ds)], d).range < W
  PROVE  \E j : /\ History(j, Append(ds, d))
                /\ j[Len(ds) + 1] = After(h[Len(ds)], d)
                /\ j[0] = h[0]
<1> DEFINE n == Len(ds)
           c == After(h[n], d)
           j == [k \in 0..(n + 1) |-> IF k <= n THEN h[k] ELSE c]
           more == Append(ds, d)
<1>1. n \in Nat
  BY DecisionsAreTyped
<1>2. /\ Len(more) = n + 1 /\ more[n + 1] = d
      /\ \A k \in 0..(n - 1) : more[k + 1] = ds[k + 1]
  <2>1. Len(more) = n + 1 /\ more[n + 1] = d /\ \A i \in 1..n : more[i] = ds[i]
    BY AppendProperties
  <2>2. \A k \in 0..(n - 1) : k + 1 \in 1..n
    BY <1>1
  <2> QED
    BY <2>1, <2>2
<1>3. /\ h[0].low = 0 /\ h[0].range = W - 1 /\ h[0].pos = FlushShifts
      /\ \A k \in 0..n : h[k] \in Intervals /\ Top <= h[k].range /\ h[k].range < W
      /\ \A k \in 0..(n - 1) : h[k + 1] = After(h[k], ds[k + 1])
  BY DEF History
<1>4. c \in Intervals /\ Top <= c.range /\ c.range < W
  <2>1. d.kind \in AllKindsOfDecision /\ d.bit \in {0, 1}
    BY DEF Decisions
  <2>2. h[n] \in Intervals /\ Top <= h[n].range
    BY <1>1, <1>3
  <2> HIDE DEF n
  <2>3. After(h[n], d) \in Intervals
    BY <2>1, <2>2, AfterFields
  <2> QED
    BY <2>3 DEF n
<1> HIDE DEF n, c, more
<1>5. /\ \A k \in 0..n : j[k] = h[k]
      /\ j[n + 1] = c /\ j[0] = h[0]
  BY <1>1
<1> HIDE DEF j
<1>6. \A k \in 0..(n + 1) : j[k] \in Intervals /\ Top <= j[k].range /\ j[k].range < W
  <2>1. \A k \in 0..(n + 1) : k \in 0..n \/ k = n + 1
    BY <1>1
  <2> QED
    BY <1>3, <1>4, <1>5, <2>1
<1>7. ASSUME NEW k \in 0..((n + 1) - 1) PROVE j[k + 1] = After(j[k], more[k + 1])
  <2>1. k \in 0..n
    BY <1>1
  <2>2. CASE k = n
    BY <1>2, <1>5, <2>1, <2>2 DEF c
  <2>3. CASE k # n
    <3>1. k \in 0..(n - 1) /\ k + 1 \in 0..n
      BY <1>1, <2>1, <2>3
    <3> QED
      BY <1>2, <1>3, <1>5, <2>1, <3>1
  <2> QED
    BY <2>2, <2>3
<1>8. History(j, more)
  <2>1. Len(more) = n + 1
    BY <1>2
  <2> QED
    BY <1>3, <1>5, <1>6, <1>7, <2>1 DEF History
<1> QED
  BY <1>5, <1>8 DEF n, c, more

-----------------------------------------------------------------------------
(* The message as the state machine goes through it.  h is its history, v    *)
(* the number the finished message stands for.                               *)

Story(h, v) ==
  /\ History(h, hist) /\ h[Len(hist)].prob = prob
  /\ phase # "decode" => h[0].prob = dprob /\ got = <<>>
  /\ phase = "encode" => Tracks(ideal, reg, h[Len(hist)])
  /\ phase # "encode" => /\ v \in Values(ideal)
                         /\ h[Len(hist)].pos = Len(ideal)
                         /\ h[Len(hist)].low = v[Len(ideal)]
  /\ phase \in {"open", "decode"} => out = ideal /\ BeginningOf(ideal)
  /\ phase = "decode" =>
       /\ Len(got) <= Len(hist)
       /\ Reads(dec, ideal, v, h[Len(got)])
       /\ ~dec.truncated => /\ dprob = h[Len(got)].prob
                            /\ \A i \in 1..Len(got) : got[i] = hist[i].bit

MessageInv ==
  /\ CoderInv /\ BufferInv
  /\ phase \in {"encode", "sealed", "open", "decode"}
  /\ got \in Seq({0, 1})
  /\ \E h, v : Story(h, v)

LEMMA InitMessage == Init => MessageInv
<1> SUFFICES ASSUME Init PROVE MessageInv
  OBVIOUS
<1> USE Sizes
<1> DEFINE g == [low |-> 0, range |-> W - 1, pos |-> FlushShifts, prob |-> prob]
           h == [k \in 0..0 |-> g]
           v == [i \in 0..0 |-> 0]
<1>1. CoderInv /\ BufferInv
  BY InitCoder, InitBuffer
<1>2. /\ phase = "encode" /\ hist = <<>> /\ got = <<>> /\ ideal = <<>>
      /\ dprob = prob
      /\ reg = [low |-> 0, range |-> W - 1, cache |-> 0, pending |-> 1]
  BY DEF Init
<1>3. Fit(reg) /\ reg.range >= Top /\ prob \in Probabilities
  BY <1>1, <1>2 DEF CoderInv
<1>4. W - 1 \in Nat /\ W - 1 >= Top /\ FlushShifts \in Nat
  BY <1>2, <1>3, FlushLength
<1>5. g \in Intervals
  BY <1>3, <1>4 DEF Intervals
<1>6. h[0] = g /\ Len(<<>>) = 0 /\ v[0] = 0
  OBVIOUS
<1>7. v \in Values(<<>>)
  BY DEF Values
<1>8. Coded(<<>>, reg, 0)
  <2>1. 0 + 1 = (Base * v[Len(<<>>)] + reg.cache + 1) * Power[reg.pending - 1]
    <3>1. reg.cache = 0 /\ reg.pending - 1 = 0 /\ Power[0] = 1 /\ v[Len(<<>>)] = 0
      BY <1>2, <1>6, Powers
    <3>2. (Base * 0 + 0 + 1) * 1 = 0 + 1
      OBVIOUS
    <3> HIDE DEF v
    <3> QED
      BY <3>1, <3>2
  <2>2. 0 = 0 * W + reg.low
    BY <1>2
  <2> HIDE DEF v
  <2> QED
    BY <1>7, <2>1, <2>2 DEF Coded
<1>9. Tracks(<<>>, reg, g)
  BY <1>2, <1>3, <1>4, <1>5, <1>6, <1>8, BytesJoin DEF Tracks
<1> HIDE DEF h, g
<1>10. g.low = 0 /\ g.range = W - 1 /\ g.pos = FlushShifts /\ g.prob = prob
  BY DEF g
<1>11. History(h, <<>>)
  BY <1>4, <1>5, <1>6, <1>10 DEF History
<1> HIDE DEF v
<1>12. Story(h, v)
  BY <1>2, <1>6, <1>9, <1>10, <1>11 DEF Story
<1> QED
  BY <1>1, <1>2, <1>12 DEF MessageInv

LEMMA EncodeKeepsMessage ==
  ASSUME MessageInv, NEW kind \in Kinds, NEW bit \in {0, 1}, Encode(kind, bit)
  PROVE  MessageInv'
<1> DEFINE d == [kind |-> kind, bit |-> bit]
           p == Mixed(kind, prob)
           e == EncBit(reg, p, bit)
<1>1. /\ phase = "encode" /\ phase' = "encode"
      /\ reg' = e.reg /\ Put(e.bytes)
      /\ prob' = Learned(kind, prob, bit)
      /\ hist' = Append(hist, d)
      /\ UNCHANGED <<max, room, dprob, got>>
  BY DEF Encode, decVars
<1>2. CoderInv'
  BY EncodeKeepsCoder DEF MessageInv
<1>3. PICK h, v : Story(h, v)
  BY DEF MessageInv
<1> DEFINE g == h[Len(hist)]
<1>4. /\ History(h, hist) /\ g.prob = prob /\ h[0].prob = dprob /\ got = <<>>
      /\ Tracks(ideal, reg, g)
  BY <1>1, <1>3 DEF Story
<1>5. /\ kind \in AllKindsOfDecision /\ d \in Decisions
      /\ d.kind = kind /\ d.bit = bit /\ hist \in Seq(Decisions)
  BY KindsAssumption DEF AllKindsOfDecision, Decisions, MessageInv, CoderInv
<1>6. /\ g \in Intervals /\ Fit(reg) /\ reg.range >= Top /\ prob \in Probabilities
      /\ reg \in Registers /\ reg.range = g.range
  BY <1>1, <1>4, FitIsSafe DEF Tracks, MessageInv, CoderInv
<1>7. p \in 1..(ProbOne - 1)
  BY <1>5, <1>6, MixedInRange
<1> HIDE DEF p
<1>8. e.bytes \in Bytes /\ Tracks(ideal \o e.bytes, e.reg, Chosen(g, p, bit))
  <2> HIDE DEF g
  <2> QED
    BY <1>4, <1>6, <1>7, EncBitTracks
<1>9. Fit(e.reg) /\ e.reg.range >= Top /\ e.reg.range < W
  BY <1>6, <1>7, EncBitFits, FitIsSafe
<1>10. BufferInv' /\ ideal' = ideal \o e.bytes
  BY <1>1, <1>8, PutKeepsBuffer DEF MessageInv
<1>11. Top <= g.range
  BY <1>6, FitIsSafe, Sizes
<1> HIDE DEF g, d, e
<1>12. /\ After(g, d) \in Intervals
       /\ After(g, d).low = Chosen(g, p, bit).low
       /\ After(g, d).range = Chosen(g, p, bit).range
       /\ After(g, d).pos = Chosen(g, p, bit).pos
       /\ After(g, d).prob = prob'
  <2>1. p = Mixed(d.kind, g.prob) /\ prob' = Learned(d.kind, g.prob, d.bit)
    BY <1>1, <1>4, <1>5 DEF p
  <2> QED
    BY <1>5, <1>6, <1>11, <2>1, AfterFields
<1>13. Tracks(ideal', reg', After(g, d))
  BY <1>1, <1>8, <1>10, <1>12 DEF Tracks
<1>14. Top <= After(g, d).range /\ After(g, d).range < W
  <2>1. After(g, d).range = e.reg.range /\ e.reg.range \in Nat
    BY <1>8, <1>9, <1>12, FitIsSafe DEF Tracks
  <2> QED
    BY <1>9, <2>1, Sizes
<1>15. PICK j : /\ History(j, Append(hist, d))
                /\ j[Len(hist) + 1] = After(g, d)
                /\ j[0] = h[0]
  BY <1>4, <1>5, <1>14, HistoryGrows DEF g
<1>16. Len(hist') = Len(hist) + 1
  BY <1>1, <1>5, AppendProperties
<1>17. Story(j, v)'
  BY <1>1, <1>4, <1>12, <1>13, <1>15, <1>16 DEF Story
<1>18. got' \in Seq({0, 1}) /\ phase' \in {"encode", "sealed", "open", "decode"}
  BY <1>1 DEF MessageInv
<1> QED
  BY <1>2, <1>10, <1>17, <1>18 DEF MessageInv

LEMMA FlushKeepsMessage ==
  ASSUME MessageInv, Flush
  PROVE  MessageInv'
<1> DEFINE e == Flushed(reg)
<1>1. /\ phase = "encode" /\ phase' = "sealed"
      /\ reg' = e.reg /\ Put(e.bytes)
      /\ UNCHANGED <<max, room, prob, hist, dprob, got>>
  BY DEF Flush, decVars
<1>2. CoderInv'
  BY <1>1 DEF MessageInv, CoderInv
<1>3. PICK h, w : Story(h, w)
  BY DEF MessageInv
<1> DEFINE g == h[Len(hist)]
<1>4. /\ History(h, hist) /\ g.prob = prob /\ h[0].prob = dprob /\ got = <<>>
      /\ Tracks(ideal, reg, g)
  BY <1>1, <1>3 DEF Story
<1>5. ideal \in Bytes /\ Safe(reg) /\ Coded(ideal, reg, g.low)
      /\ g.pos + 1 = Len(ideal) + reg.pending + FlushShifts /\ g.pos \in Nat
  BY <1>4, FitIsSafe DEF Tracks, Intervals
<1>6. /\ ideal \o e.bytes \in Bytes /\ e.bytes \in Bytes
      /\ Len(ideal \o e.bytes) + 1 = Len(ideal) + reg.pending + FlushShifts
      /\ \E v \in Values(ideal \o e.bytes) : v[Len(ideal \o e.bytes)] = g.low
  <2> HIDE DEF g
  <2> QED
    BY <1>5, FlushSays
<1>7. BufferInv' /\ ideal' = ideal \o e.bytes
  BY <1>1, <1>6, PutKeepsBuffer DEF MessageInv
<1> HIDE DEF e
<1>8. PICK v \in Values(ideal') : v[Len(ideal')] = g.low
  BY <1>6, <1>7
<1>9. g.pos = Len(ideal')
  <2>1. Len(ideal') \in Nat
    BY <1>6, <1>7, BytesAreDigits
  <2>2. Len(ideal') + 1 = Len(ideal) + reg.pending + FlushShifts
    BY <1>6, <1>7
  <2> HIDE DEF g
  <2>3. g.pos + 1 = Len(ideal') + 1 /\ g.pos \in Nat
    BY <1>5, <2>2
  <2> QED
    BY <2>1, <2>3
<1>10. Story(h, v)'
  BY <1>1, <1>4, <1>8, <1>9 DEF Story
<1>11. got' \in Seq({0, 1}) /\ phase' \in {"encode", "sealed", "open", "decode"}
  BY <1>1 DEF MessageInv
<1> QED
  BY <1>2, <1>7, <1>10, <1>11 DEF MessageInv

LEMMA DeliverKeepsMessage ==
  ASSUME MessageInv, NEW n \in 0..Len(out), Deliver(n)
  PROVE  MessageInv'
<1>1. /\ phase = "sealed" /\ phase' = "open" /\ ~cut /\ ~oom
      /\ stream' = SubSeq(out, 1, n)
      /\ UNCHANGED <<reg, out, cut, oom, max, room, ideal, prob, hist, dec, dprob, got>>
  BY DEF Deliver, encVars
<1>2. CoderInv' /\ BufferInv'
  BY <1>1 DEF MessageInv, CoderInv, BufferInv, Smaller
<1>3. PICK h, v : Story(h, v)
  BY DEF MessageInv
<1>4. out = ideal /\ ideal \in Bytes
  BY <1>1 DEF MessageInv, BufferInv
<1>5. /\ stream' \in Bytes /\ Len(stream') = n /\ n <= Len(ideal)
      /\ \A i \in 1..n : stream'[i] = ideal[i]
  BY <1>1, <1>4, FirstBytes, BytesAreDigits
<1>6. BeginningOf(ideal)'
  BY <1>1, <1>5 DEF BeginningOf
<1>7. Story(h, v)'
  BY <1>1, <1>3, <1>4, <1>6 DEF Story
<1>8. got' \in Seq({0, 1}) /\ phase' \in {"encode", "sealed", "open", "decode"}
  BY <1>1 DEF MessageInv
<1> QED
  BY <1>2, <1>7, <1>8 DEF MessageInv

\* A finished message lies where its last decision left it.
LEMMA StoryInside ==
  ASSUME MessageInv, NEW h, NEW v, Story(h, v), phase # "encode"
  PROVE  /\ ideal \in Bytes /\ v \in Values(ideal) /\ hist \in Seq(Decisions)
         /\ \A k \in 0..Len(hist) :
              /\ Inside(v, Len(ideal), h[k])
              /\ h[k] \in Intervals /\ Top <= h[k].range /\ h[k].range < W
<1> DEFINE g == h[Len(hist)]
<1>1. /\ ideal \in Bytes /\ v \in Values(ideal) /\ hist \in Seq(Decisions)
      /\ History(h, hist)
      /\ g.pos = Len(ideal) /\ g.low = v[Len(ideal)]
  BY DEF Story, MessageInv, BufferInv, CoderInv, Decisions
<1>2. /\ Len(hist) \in Nat /\ Len(hist) \in 0..Len(hist)
      /\ \A k \in 0..Len(hist) :
           h[k] \in Intervals /\ Top <= h[k].range /\ h[k].range < W
  BY <1>1, DecisionsAreTyped DEF History
<1>3. g \in Intervals /\ g.low \in Nat /\ g.range \in Nat /\ g.range >= 1
      /\ Len(ideal) \in Nat
  <2>1. g \in Intervals /\ Top <= g.range
    BY <1>2
  <2> QED
    BY <1>1, <2>1, Sizes, BytesAreDigits DEF Intervals
<1> HIDE DEF g
<1>4. Inside(v, Len(ideal), g)
  BY <1>1, <1>3 DEF Inside
<1>5. \A k \in 0..Len(hist) : Inside(v, Len(ideal), h[k])
  BY <1>1, <1>4, InsideAll DEF g
<1> QED
  BY <1>1, <1>2, <1>5

LEMMA OpenKeepsMessage ==
  ASSUME MessageInv, Open
  PROVE  MessageInv'
<1> USE Sizes
<1>1. /\ phase = "open" /\ phase' = "decode" /\ dec' = DecStart
      /\ UNCHANGED <<reg, out, cut, oom, max, room, ideal, prob, hist,
                     stream, dprob, got>>
  BY DEF Open, encVars
<1>2. CoderInv' /\ BufferInv'
  BY <1>1 DEF MessageInv, CoderInv, BufferInv, Smaller
<1>3. PICK h, v : Story(h, v)
  BY DEF MessageInv
<1>4. /\ History(h, hist) /\ h[Len(hist)].prob = prob /\ h[0].prob = dprob
      /\ got = <<>> /\ out = ideal /\ BeginningOf(ideal)
      /\ h[Len(hist)].pos = Len(ideal) /\ h[Len(hist)].low = v[Len(ideal)]
  BY <1>1, <1>3 DEF Story
<1>5. /\ ideal \in Bytes /\ v \in Values(ideal) /\ Len(hist) \in Nat
      /\ Inside(v, Len(ideal), h[0])
  <2>1. /\ ideal \in Bytes /\ v \in Values(ideal) /\ hist \in Seq(Decisions)
        /\ \A k \in 0..Len(hist) : Inside(v, Len(ideal), h[k])
    BY <1>1, <1>3, StoryInside
  <2>2. Len(hist) \in Nat /\ 0 \in 0..Len(hist)
    BY <2>1, DecisionsAreTyped
  <2> QED
    BY <2>1, <2>2
<1>6. h[0].low = 0 /\ h[0].range = W - 1 /\ h[0].pos = FlushShifts
  BY <1>4 DEF History
<1>7. FlushShifts \in 0..Len(ideal) /\ v[FlushShifts] < W - 1 /\ v[FlushShifts] \in Nat
  <2>1. FlushShifts \in 0..Len(ideal) /\ v[FlushShifts] < 0 + (W - 1)
    BY <1>5, <1>6 DEF Inside
  <2>2. v[FlushShifts] \in Nat
    BY <1>5, <2>1, ValuesStep
  <2> QED
    BY <2>1, <2>2
<1>8. FlushShifts <= Len(ideal) /\ v[FlushShifts] < W
  BY <1>7, BytesAreDigits, <1>5
<1>9. /\ DecStart \in DecRegs /\ DecStart.pos <= Len(stream)
      /\ DecStart.range = W - 1
      /\ ~DecStart.truncated =>
           DecStart.pos = FlushShifts /\ DecStart.code = v[FlushShifts]
      /\ Len(stream) = Len(ideal) => ~DecStart.truncated
  BY <1>4, <1>5, <1>8, DecStartReads
<1>10. v[FlushShifts] = v[FlushShifts] - 0
  BY <1>7
<1>11. Reads(DecStart, ideal, v, h[0])
  BY <1>6, <1>9, <1>10 DEF Reads, Follows
<1>12. Len(got) = 0
  BY <1>4
<1>13. Reads(dec, ideal, v, h[Len(got)])' /\ BeginningOf(ideal)'
  BY <1>1, <1>4, <1>11, <1>12 DEF Reads, Follows, BeginningOf
<1>14. v \in Values(ideal)'
  BY <1>1, <1>5
<1>15. Len(got') = 0 /\ Len(got') <= Len(hist') /\ \A i \in 1..Len(got') : got'[i] = hist'[i].bit
  BY <1>1, <1>5, <1>12
<1>16. dprob' = h[Len(got')].prob
  BY <1>1, <1>4, <1>15
<1>17. Story(h, v)'
  BY <1>1, <1>4, <1>13, <1>14, <1>15, <1>16 DEF Story
<1>18. got' \in Seq({0, 1}) /\ phase' \in {"encode", "sealed", "open", "decode"}
  BY <1>1 DEF MessageInv
<1> QED
  BY <1>2, <1>17, <1>18 DEF MessageInv

LEMMA DecodeKeepsMessage ==
  ASSUME MessageInv, Decode
  PROVE  MessageInv'
<1> DEFINE k == Len(got)
           d == hist[k + 1]
           p == Mixed(d.kind, dprob)
           bit == DecodedBit(dec, p)
<1>1. /\ phase = "decode" /\ phase' = "decode" /\ k < Len(hist)
      /\ dec' = DecBit(dec, p)
      /\ dprob' = Learned(d.kind, dprob, bit)
      /\ got' = Append(got, bit)
      /\ UNCHANGED <<reg, out, cut, oom, max, room, ideal, prob, hist, stream>>
  <2>1. DecMixed(d.kind, dprob) = p /\ DecLearned(d.kind, dprob, bit) = Learned(d.kind, dprob, bit)
    <3>1. d.kind \in AllKindsOfDecision
      <4>1. k + 1 \in 1..Len(hist)
        BY DEF MessageInv, CoderInv, Decode
      <4>2. hist \in Seq([kind : AllKindsOfDecision, bit : {0, 1}])
        BY DEF MessageInv, CoderInv
      <4>3. hist[k + 1] \in [kind : AllKindsOfDecision, bit : {0, 1}]
        <5> HIDE DEF k
        <5> QED
          BY <4>1, <4>2, ElementOfSeq
      <4> QED
        BY <4>3
    <3>2. dprob \in Probabilities /\ bit \in {0, 1}
      BY DEF MessageInv, CoderInv, DecodedBit
    <3> QED
      BY <3>1, <3>2, SidesAgree
  <2> QED
    BY <2>1 DEF Decode, encVars
<1>2. CoderInv' /\ BufferInv'
  <2>1. CoderInv'
    BY DecodeKeepsCoder DEF MessageInv
  <2>2. BufferInv'
    BY <1>1 DEF MessageInv, BufferInv, Smaller
  <2> QED
    BY <2>1, <2>2
<1>3. PICK h, v : Story(h, v)
  BY DEF MessageInv
<1> DEFINE g == h[k]
<1>4. /\ History(h, hist) /\ h[Len(hist)].prob = prob
      /\ out = ideal /\ BeginningOf(ideal)
      /\ h[Len(hist)].pos = Len(ideal) /\ h[Len(hist)].low = v[Len(ideal)]
      /\ Reads(dec, ideal, v, g)
      /\ ~dec.truncated => /\ dprob = g.prob
                           /\ \A i \in 1..k : got[i] = hist[i].bit
  BY <1>1, <1>3 DEF Story
<1>5. /\ ideal \in Bytes /\ v \in Values(ideal) /\ hist \in Seq(Decisions)
      /\ \A i \in 0..Len(hist) :
           /\ Inside(v, Len(ideal), h[i])
           /\ h[i] \in Intervals /\ Top <= h[i].range /\ h[i].range < W
  BY <1>1, <1>3, StoryInside
<1>6. /\ got \in Seq({0, 1}) /\ k \in Nat /\ Len(hist) \in Nat
      /\ k \in 0..(Len(hist) - 1) /\ k \in 0..Len(hist) /\ k + 1 \in 0..Len(hist)
  <2>1. got \in Seq({0, 1}) /\ k \in Nat /\ Len(hist) \in Nat
    BY <1>5, DecisionsAreTyped, LenProperties DEF MessageInv
  <2> QED
    BY <1>1, <2>1
<1>7. /\ d.kind \in AllKindsOfDecision /\ d.bit \in {0, 1}
      /\ h[k + 1] = After(g, d)
  BY <1>4, <1>5, <1>6, DecisionsAreTyped DEF History
<1>8. /\ g \in Intervals /\ Top <= g.range /\ g.range < W
      /\ Inside(v, Len(ideal), After(g, d))
  BY <1>5, <1>6, <1>7
<1>9. dprob \in Probabilities
  BY DEF MessageInv, CoderInv
<1>10. p \in 1..(ProbOne - 1) /\ bit \in {0, 1}
  <2>1. p \in 1..(ProbOne - 1)
    BY <1>7, <1>9, MixedInRange
  <2> QED
    BY <2>1 DEF DecodedBit
<1>11. /\ Len(got') = k + 1 /\ got'[k + 1] = bit /\ got' \in Seq({0, 1})
       /\ \A i \in 1..k : got'[i] = got[i]
  <2> HIDE DEF bit
  <2> QED
    BY <1>1, <1>6, <1>10, AppendProperties
<1> HIDE DEF k, g, d, p, bit
<1>12. Reads(DecBit(dec, p), ideal, v, After(g, d))
       /\ (~DecBit(dec, p).truncated =>
             /\ dprob' = After(g, d).prob
             /\ \A i \in 1..(k + 1) : got'[i] = hist[i].bit)
  <2>1. CASE dec.truncated
    <3>1. p \in Int /\ stream \in Bytes /\ dec \in DecRegs /\ dec.pos <= Len(stream)
          /\ Len(stream) # Len(ideal)
      BY <1>4, <1>10, <2>1 DEF Reads, BeginningOf
    <3>2. DecBit(dec, p) \in DecRegs /\ DecBit(dec, p).pos <= Len(stream)
          /\ DecBit(dec, p).truncated
      BY <2>1, <3>1, DecBitTruncated
    <3> QED
      BY <3>1, <3>2 DEF Reads
  <2>2. CASE ~dec.truncated
    <3>1. dprob = g.prob /\ (\A i \in 1..k : got[i] = hist[i].bit)
          /\ p = Mixed(d.kind, g.prob)
      BY <1>4, <2>2 DEF p
    <3> DEFINE c == Chosen(g, p, d.bit)
    <3>2. /\ After(g, d).low = c.low /\ After(g, d).range = c.range
          /\ After(g, d).pos = c.pos
          /\ After(g, d).prob = Learned(d.kind, g.prob, d.bit)
      BY <1>7, <1>8, <3>1, AfterFields
    <3>3. Inside(v, Len(ideal), c)
      BY <1>5, <1>7, <1>8, <3>1, InsideBack
    <3>4. g.range >= Top
      BY <1>8, Sizes DEF Intervals
    <3>5. DecodedBit(dec, p) = d.bit /\ Reads(DecBit(dec, p), ideal, v, c)
      <4>1. ideal \in Bytes /\ v \in Values(ideal) /\ g \in Intervals
            /\ p \in 1..(ProbOne - 1) /\ d.bit \in {0, 1} /\ g.range < W
            /\ Reads(dec, ideal, v, g) /\ BeginningOf(ideal)
        BY <1>4, <1>5, <1>7, <1>8, <1>10
      <4> QED
        BY <2>2, <3>3, <3>4, <4>1, DecBitReads
    <3>6. bit = d.bit
      BY <3>5 DEF bit
    <3> HIDE DEF c
    <3>7. Reads(DecBit(dec, p), ideal, v, After(g, d))
      BY <3>2, <3>5 DEF Reads, Follows
    <3>8. dprob' = After(g, d).prob
      BY <1>1, <3>1, <3>2, <3>6 DEF d, k, p, bit
    <3>9. ASSUME NEW i \in 1..(k + 1) PROVE got'[i] = hist[i].bit
      <4>1. i \in 1..k \/ i = k + 1
        BY <1>6
      <4> QED
        BY <1>11, <3>1, <3>6, <4>1 DEF d
    <3> QED
      BY <3>7, <3>8, <3>9
  <2> QED
    BY <2>1, <2>2
<1>13. Reads(dec, ideal, v, h[Len(got)])'
  <2>1. /\ dec' = DecBit(dec, p) /\ ideal' = ideal /\ stream' = stream
        /\ Len(got') = k + 1 /\ h[k + 1] = After(g, d)
    BY <1>1, <1>7, <1>11 DEF p, d, k
  <2>2. Reads(DecBit(dec, p), ideal, v, h[k + 1])
    BY <1>12, <2>1
  <2> QED
    BY <2>1, <2>2 DEF Reads, Follows
<1>14. ~dec'.truncated => /\ dprob' = h[Len(got')].prob
                          /\ \A i \in 1..Len(got') : got'[i] = hist'[i].bit
  <2>1. /\ dec' = DecBit(dec, p) /\ hist' = hist
        /\ Len(got') = k + 1 /\ h[k + 1] = After(g, d)
    BY <1>1, <1>7, <1>11 DEF p, d, k
  <2> QED
    BY <1>12, <2>1
<1>15. Story(h, v)'
  <2>1. /\ phase' = "decode" /\ ideal' = ideal /\ hist' = hist /\ prob' = prob
        /\ out' = out /\ stream' = stream
    BY <1>1
  <2>2. Len(got') <= Len(hist')
    BY <1>6, <1>11, <2>1
  <2>3. BeginningOf(ideal)'
    BY <1>4, <2>1 DEF BeginningOf
  <2> QED
    BY <1>4, <1>5, <1>13, <1>14, <2>1, <2>2, <2>3 DEF Story
<1> QED
  BY <1>1, <1>2, <1>11, <1>15 DEF MessageInv

LEMMA MessageInvariance == Spec => []MessageInv
<1>1. MessageInv /\ [Next]_vars => MessageInv'
  <2> SUFFICES ASSUME MessageInv, [Next]_vars PROVE MessageInv'
    OBVIOUS
  <2>1. CASE \E kind \in Kinds, bit \in {0, 1} : Encode(kind, bit)
    BY <2>1, EncodeKeepsMessage
  <2>2. CASE Flush
    BY <2>2, FlushKeepsMessage
  <2>3. CASE \E n \in 0..Len(out) : Deliver(n)
    BY <2>3, DeliverKeepsMessage
  <2>4. CASE Open
    BY <2>4, OpenKeepsMessage
  <2>5. CASE Decode
    BY <2>5, DecodeKeepsMessage
  <2>6. CASE UNCHANGED vars
    <3>1. /\ phase' = phase /\ reg' = reg /\ out' = out /\ cut' = cut /\ oom' = oom
          /\ max' = max /\ room' = room /\ ideal' = ideal /\ prob' = prob
          /\ hist' = hist /\ stream' = stream /\ dec' = dec /\ dprob' = dprob
          /\ got' = got
      BY <2>6 DEF vars
    <3>2. CoderInv' /\ BufferInv'
      BY <3>1 DEF MessageInv, CoderInv, BufferInv, Smaller
    <3>3. PICK h, v : Story(h, v)
      BY DEF MessageInv
    <3>4. Story(h, v)'
      BY <3>1, <3>3 DEF Story, Tracks, Reads, Follows, BeginningOf
    <3> QED
      BY <3>1, <3>2, <3>4 DEF MessageInv
  <2> QED
    BY <2>1, <2>2, <2>3, <2>4, <2>5, <2>6 DEF Next
<1> QED
  BY <1>1, InitMessage, PTL DEF Spec

\* The decoder never asks for a byte that was not sent, and by the last bit it
\* has asked for all of them.
LEMMA StreamEnds ==
  ASSUME MessageInv, Decoded, ~dec.truncated
  PROVE  dec.pos = Len(ideal) /\ stream = ideal /\ out = ideal /\ dprob = prob
<1>1. phase = "decode" /\ Len(got) = Len(hist)
  BY DEF Decoded
<1>2. PICK h, v : Story(h, v)
  BY DEF MessageInv
<1>3. /\ out = ideal /\ BeginningOf(ideal) /\ h[Len(hist)].pos = Len(ideal)
      /\ h[Len(hist)].prob = prob /\ dprob = h[Len(hist)].prob
      /\ Follows(dec, v, h[Len(hist)])
      /\ dec.pos <= Len(stream)
  BY <1>1, <1>2 DEF Story, Reads
<1>4. dec.pos = Len(ideal)
  BY <1>3 DEF Follows
<1>5. ideal \in Bytes
  BY DEF MessageInv, BufferInv
<1>6. stream \in Bytes /\ Len(stream) = Len(ideal)
      /\ \A i \in 1..Len(stream) : stream[i] = ideal[i]
  <2>1. stream \in Bytes /\ Len(stream) <= Len(ideal)
        /\ \A i \in 1..Len(stream) : stream[i] = ideal[i]
    BY <1>3 DEF BeginningOf
  <2>2. Len(stream) \in Nat /\ Len(ideal) \in Nat
    BY <1>5, <2>1, BytesAreDigits
  <2> QED
    BY <1>3, <1>4, <2>1, <2>2
<1>7. stream = ideal
  BY <1>5, <1>6, SameBytes
<1> QED
  BY <1>3, <1>4, <1>7

\* Whatever the contexts, the probabilities and the message, and whether or not
\* a carry ran through pending digits, the decoder reads back every bit of a
\* whole stream and ends exactly at its end, having learned what the encoder
\* has (stream.c:344-461).
THEOREM MessageComesBack == Spec => []RoundTrip
<1>1. MessageInv => RoundTrip
  <2> SUFFICES ASSUME MessageInv, phase = "decode", Whole
               PROVE  /\ \A i \in 1..Len(got) : got[i] = hist[i].bit
                      /\ ~dec.truncated
                      /\ dec.code < dec.range
                      /\ Decoded => dec.pos = Len(out) /\ dprob = prob
    BY DEF RoundTrip
  <2>1. PICK h, v : Story(h, v)
    BY DEF MessageInv
  <2> DEFINE g == h[Len(got)]
  <2>2. /\ out = ideal /\ Len(got) <= Len(hist) /\ Reads(dec, ideal, v, g)
        /\ ~dec.truncated => \A i \in 1..Len(got) : got[i] = hist[i].bit
    BY <2>1 DEF Story
  <2>3. ~dec.truncated /\ Follows(dec, v, g)
    BY <2>2 DEF Whole, Reads
  <2>4. /\ ideal \in Bytes /\ v \in Values(ideal) /\ hist \in Seq(Decisions)
        /\ \A k \in 0..Len(hist) : Inside(v, Len(ideal), h[k]) /\ h[k] \in Intervals
    BY <2>1, StoryInside
  <2>5. Len(got) \in 0..Len(hist)
    <3>1. Len(got) \in Nat /\ Len(hist) \in Nat
      BY <2>4, DecisionsAreTyped, LenProperties DEF MessageInv
    <3> QED
      BY <2>2, <3>1
  <2>6. Inside(v, Len(ideal), g) /\ g \in Intervals
    BY <2>4, <2>5
  <2>7. dec.code < dec.range
    <3> HIDE DEF g
    <3>1. /\ g.low \in Nat /\ g.range \in Nat /\ v[g.pos] \in Nat
          /\ v[g.pos] < g.low + g.range
      BY <2>4, <2>6, ValuesStep DEF Inside, Intervals
    <3>2. dec.range = g.range /\ dec.code = v[g.pos] - g.low
      BY <2>3 DEF Follows
    <3> QED
      BY <3>1, <3>2
  <2>8. Decoded => dec.pos = Len(out) /\ dprob = prob
    BY <2>2, <2>3, StreamEnds
  <2> QED
    BY <2>2, <2>3, <2>7, <2>8
<1> QED
  BY <1>1, MessageInvariance, PTL

\* However much of its end a stream lost, the decoder has found a byte missing
\* by the time it has the last bit (dec_getbyte, stream.c:411-414).
THEOREM LostEndIsSeen == Spec => []TruncationSeen
<1>1. MessageInv => TruncationSeen
  BY StreamEnds DEF TruncationSeen, Whole
<1> QED
  BY <1>1, MessageInvariance, PTL

\* Whatever the limit and the memory there is, the buffer is the beginning of
\* the message, the flags say whether it is all of it, and a message of exactly
\* the limit is kept (enc_putbyte, stream.c:309-343).
THEOREM BufferAlwaysHonest == Spec => []CutIsHonest
<1>1. MessageInv => CutIsHonest
  BY BufferIsHonest DEF MessageInv
<1> QED
  BY <1>1, MessageInvariance, PTL
=============================================================================
