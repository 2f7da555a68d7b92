------------------------------ MODULE RangeCoder ------------------------------
(***************************************************************************)
(* The binary range coder of the QST1 streams (codec/src/stream.c,         *)
(* 286-637): an encoder with carry propagation and a size limit, the       *)
(* decoder, and the adaptive probabilities both keep in step, each with    *)
(* its own copy of the functions that mix and update them.                 *)
(*                                                                         *)
(* The code has bytes (Base = 256), a 32-bit range (Top = 2^24) and 12-bit *)
(* probabilities.  Here these are parameters: an instance with a small     *)
(* Base reaches carries and runs of pending digits within a few bits.      *)
(***************************************************************************)
EXTENDS Integers, Sequences

CONSTANTS
  Base,        \* 256: the radix of the output
  Top,         \* RC_TOP
  ProbOne,     \* PROB_ONE
  Adapt,       \* Enc.adapt and Dec.adapt
  Slow,        \* what the slow_* switches add to a rate
  FlushShifts, \* shifts of enc_flush, bytes of dec_init
  Kinds,       \* the ways a decision uses its contexts in this instance
  Starts,      \* probabilities the contexts may have when the message begins
  Limits,      \* values of Enc.max
  Rooms,       \* bytes for which realloc finds memory
  MaxBits      \* bound: decisions in one message

W == Base * Top   \* 2^32

Contexts == {"child", "exact", "fine", "coarse", "root"}

ASSUME BaseAssumption == Base \in Nat /\ Base >= 2
ASSUME ProbAssumption == ProbOne \in Nat /\ ProbOne >= 2
ASSUME AdaptAssumption == Adapt \in 4..6 /\ Slow \in 0..2
\* A range of at least Top leaves every symbol a range that two shifts restore:
\* 2^24 is a multiple of 2^12 and 2^12 <= 256^2.
ASSUME TopAssumption ==
  /\ Top \in Nat /\ \E s \in 1..Top : Top = s * ProbOne
  /\ ProbOne <= Base * Base
ASSUME KindsAssumption ==
  Kinds \subseteq {"plain", "mix", "coarse", "mix3", "root", "mix4",
                   "mix4_weight", "mix5_sign"}
ASSUME StartsAssumption ==
  \A p \in Starts : p \in [Contexts -> 1..(ProbOne - 1)]
\* Powers of the radix.
Power[n \in Nat] == IF n = 0 THEN 1 ELSE Base * Power[n - 1]

\* 2^32 is 256^4: five shifts take low apart, the first of them for its carry.
ASSUME FlushAssumption == FlushShifts \in Nat \ {0} /\ W = Power[FlushShifts - 1]

ASSUME BoundsAssumption ==
  /\ MaxBits \in Nat
  /\ Limits \subseteq Nat /\ Rooms \subseteq Nat

VARIABLES
  phase,    \* "encode", "sealed", "open", "decode"
  reg,      \* encoder registers
  out,      \* Enc.buf[0..len)
  cut, oom, \* the encoder ran into max, or out of memory
  max, room,
  ideal,    \* every byte the encoder produced, kept or not
  prob,     \* the encoder's probabilities
  hist,     \* the decisions of the message
  stream,   \* the bytes the decoder gets
  dec,      \* decoder registers
  dprob,    \* the decoder's probabilities
  got       \* decoded bits

encVars == <<reg, out, cut, oom, max, room, ideal, prob, hist>>
decVars == <<stream, dec, dprob, got>>
vars == <<phase, reg, out, cut, oom, max, room, ideal, prob, hist,
          stream, dec, dprob, got>>

Smaller(a, b) == IF a < b THEN a ELSE b

-----------------------------------------------------------------------------
(* Probabilities.  A context holds the chance of a 0 in units of 1/ProbOne. *)
(* prob_update is one function for both sides; what is mixed, and what is   *)
(* updated at which rate, each side says in functions of its own.           *)

\* 1 << rate, for the rates that occur.
Divisor == <<2, 4, 8, 16, 32, 64, 128, 256>>

\* Mutant: a step that rounds up, so that the probability reaches PROB_ONE.
UpdatedUp(p, bit, rate) ==
  IF bit = 1 THEN p - p \div Divisor[rate]
  ELSE p + (ProbOne - p + Divisor[rate] - 1) \div Divisor[rate]

\* prob_update: a 1 lowers the probability of 0, a 0 raises it.
Updated(p, bit, rate) ==
  IF bit = 1 THEN p - p \div Divisor[rate]
  ELSE p + (ProbOne - p) \div Divisor[rate]

\* The rounded means the mixing functions take.
Half(a, b) == (a + b + 1) \div 2
Eighths(w, a, b) == (w * a + (8 - w) * b + 4) \div 8
Sixteenths(w, a, b) == (w * a + (16 - w) * b + 8) \div 16

Parent(p) == Half(p["fine"], Half(p["coarse"], p["root"]))

\* The probability a decision is coded with: enc_bit, enc_bit_mix,
\* enc_bit_coarse, enc_bit_mix3, enc_bit_root, enc_bit_mix4 and
\* enc_bit_mix5_sign, with the parent in "fine".
Mixed(kind, p) ==
  CASE kind = "plain" -> p["child"]
    [] kind = "mix" -> Eighths(5, p["child"], p["fine"])
    [] kind = "coarse" -> Half(p["fine"], p["coarse"])
    [] kind = "mix3" -> Eighths(5, p["child"], Half(p["fine"], p["coarse"]))
    [] kind = "root" -> Parent(p)
    [] kind = "mix4" -> Eighths(6, p["child"], Parent(p))
    [] kind = "mix4_weight" -> Eighths(4, p["child"], Parent(p))
    [] kind = "mix5_sign" -> Sixteenths(12, p["child"], p["exact"])

\* The contexts a decision updates and how far each rate is from Adapt.
Rates(kind) ==
  CASE kind = "plain" -> [c \in {"child"} |-> 0]
    [] kind = "mix" -> [c \in {"child", "fine"} |-> 0]
    [] kind = "coarse" -> [c \in {"fine", "coarse"} |-> 0]
    [] kind = "mix3" -> [c \in {"child", "fine", "coarse"} |-> 0]
    [] kind = "root" ->
         [c \in {"fine", "coarse", "root"} |-> IF c = "fine" THEN 0 ELSE Slow]
    [] kind \in {"mix4", "mix4_weight"} ->
         [c \in {"child", "fine", "coarse", "root"} |->
            IF c = "child" THEN IF kind = "mix4" THEN -1 ELSE 1
            ELSE IF c = "fine" THEN 0 ELSE Slow]
    [] kind = "mix5_sign" ->
         [c \in Contexts |->
            IF c = "child" THEN -3 ELSE IF c = "exact" THEN -2
            ELSE IF c = "fine" THEN 0 ELSE Slow]

Learned(kind, p, bit) ==
  [c \in Contexts |->
     IF c \in DOMAIN Rates(kind)
     THEN Updated(p[c], bit, Adapt + Rates(kind)[c]) ELSE p[c]]

\* The decoder's copies: dec_bit, dec_bit_mix, dec_bit_coarse, dec_bit_mix3,
\* dec_bit_root, dec_bit_mix4, dec_bit_mix4_weight and dec_bit_mix5_sign.
DecMixed(kind, p) ==
  LET coarse_mix == (p["coarse"] + p["root"] + 1) \div 2
      parent_mix == (p["fine"] + coarse_mix + 1) \div 2
  IN  CASE kind = "plain" -> p["child"]
        [] kind = "mix" -> (5 * p["child"] + 3 * p["fine"] + 4) \div 8
        [] kind = "coarse" -> (p["fine"] + p["coarse"] + 1) \div 2
        [] kind = "mix3" ->
             (5 * p["child"] + 3 * ((p["fine"] + p["coarse"] + 1) \div 2) + 4) \div 8
        [] kind = "root" -> parent_mix
        [] kind = "mix4" -> (6 * p["child"] + 2 * parent_mix + 4) \div 8
        [] kind = "mix4_weight" -> (4 * p["child"] + 4 * parent_mix + 4) \div 8
        [] kind = "mix5_sign" -> (12 * p["child"] + 4 * p["exact"] + 8) \div 16

\* Mutant: the decoder adapts the weighted child as the unweighted one.
DecLearnedAlike(kind, p, bit) ==
  LET to(c, rate) == Updated(p[c], bit, Adapt + rate)
      slowly == [p EXCEPT !["fine"] = to("fine", 0),
                          !["coarse"] = to("coarse", Slow), !["root"] = to("root", Slow)]
  IN  CASE kind = "plain" -> [p EXCEPT !["child"] = to("child", 0)]
        [] kind = "mix" -> [p EXCEPT !["child"] = to("child", 0), !["fine"] = to("fine", 0)]
        [] kind = "coarse" -> [p EXCEPT !["fine"] = to("fine", 0), !["coarse"] = to("coarse", 0)]
        [] kind = "mix3" -> [p EXCEPT !["child"] = to("child", 0), !["fine"] = to("fine", 0),
                                      !["coarse"] = to("coarse", 0)]
        [] kind = "root" -> slowly
        [] kind \in {"mix4", "mix4_weight"} -> [slowly EXCEPT !["child"] = to("child", -1)]
        [] kind = "mix5_sign" -> [slowly EXCEPT !["child"] = to("child", -3),
                                                !["exact"] = to("exact", -2)]

DecLearned(kind, p, bit) ==
  LET to(c, rate) == Updated(p[c], bit, Adapt + rate)
      slowly == [p EXCEPT !["fine"] = to("fine", 0),
                          !["coarse"] = to("coarse", Slow), !["root"] = to("root", Slow)]
  IN  CASE kind = "plain" -> [p EXCEPT !["child"] = to("child", 0)]
        [] kind = "mix" -> [p EXCEPT !["child"] = to("child", 0), !["fine"] = to("fine", 0)]
        [] kind = "coarse" -> [p EXCEPT !["fine"] = to("fine", 0), !["coarse"] = to("coarse", 0)]
        [] kind = "mix3" -> [p EXCEPT !["child"] = to("child", 0), !["fine"] = to("fine", 0),
                                      !["coarse"] = to("coarse", 0)]
        [] kind = "root" -> slowly
        [] kind = "mix4" -> [slowly EXCEPT !["child"] = to("child", -1)]
        [] kind = "mix4_weight" -> [slowly EXCEPT !["child"] = to("child", 1)]
        [] kind = "mix5_sign" -> [slowly EXCEPT !["child"] = to("child", -3),
                                                !["exact"] = to("exact", -2)]

-----------------------------------------------------------------------------
(* The encoder's registers: low is below 2 * W, its part above W is a carry *)
(* into the cached digit and the Base - 1 digits pending behind it.         *)

\* The interval shrinks to the part of the bit (enc_bit_rate before the shifts).
Narrow(r, p, bit) ==
  LET bound == (r.range \div ProbOne) * p
  IN  IF bit = 1 THEN [r EXCEPT !.low = @ + bound, !.range = @ - bound]
      ELSE [r EXCEPT !.range = bound]

\* The leading digit of low can no longer change: no carry can pass it, or the
\* carry is already there.
Settled(r) == r.low < (Base - 1) * Top \/ r.low >= W

\* Mutant: the carry reaches the cached digit but not the pending ones.
SettlingCacheOnly(r) ==
  IF Settled(r)
  THEN <<(r.cache + r.low \div W) % Base>> \o [i \in 1..(r.pending - 1) |-> Base - 1]
  ELSE <<>>

\* What enc_shift hands to enc_putbyte.
Settling(r) ==
  LET carry == r.low \div W
  IN  IF Settled(r)
      THEN <<(r.cache + carry) % Base>>
             \o [i \in 1..(r.pending - 1) |-> (Base - 1 + carry) % Base]
      ELSE <<>>

\* enc_shift: the leading digit goes to the cache or joins the pending ones.
Shift(r) ==
  [low |-> (r.low % Top) * Base,
   range |-> r.range,
   cache |-> IF Settled(r) THEN (r.low \div Top) % Base ELSE r.cache,
   pending |-> IF Settled(r) THEN 1 ELSE r.pending + 1]

\* if (range < RC_TOP) { range <<= 8; enc_shift }
Renorm(s) ==
  IF s.reg.range < Top
  THEN [reg |-> Shift([s.reg EXCEPT !.range = @ * Base]),
        bytes |-> s.bytes \o Settling(s.reg)]
  ELSE s

\* Mutant: one renormalisation for every bit.
EncBitOnce(r, p, bit) == Renorm([reg |-> Narrow(r, p, bit), bytes |-> <<>>])

\* enc_bit_rate.
EncBit(r, p, bit) ==
  Renorm(Renorm([reg |-> Narrow(r, p, bit), bytes |-> <<>>]))

\* enc_flush: FlushShifts calls of enc_shift.
Flushed(r) ==
  LET after[i \in 0..FlushShifts] ==
        IF i = 0 THEN [reg |-> r, bytes |-> <<>>]
        ELSE [reg |-> Shift(after[i - 1].reg),
              bytes |-> after[i - 1].bytes \o Settling(after[i - 1].reg)]
  IN  after[FlushShifts]
-----------------------------------------------------------------------------
(* The encoder's buffer.                                                    *)

\* Mutant: a message of exactly max bytes is cut.
PutBelow(bytes) ==
  LET all == out \o bytes
      bound == Smaller(max, room)
  IN  /\ ideal' = ideal \o bytes
      /\ IF cut \/ oom \/ Len(all) < bound
         THEN /\ out' = IF cut \/ oom THEN out ELSE all
              /\ UNCHANGED <<cut, oom>>
         ELSE /\ out' = SubSeq(all, 1, bound)
              /\ cut' = (max <= room)
              /\ oom' = (room < max)

\* enc_putbyte for each byte: the first byte past Enc.max cuts the encoder, the
\* first one realloc finds no room for puts it out of memory, and from then on
\* every byte is dropped.  The capacity never exceeds max, so the smaller of the
\* two decides.
Put(bytes) ==
  LET all == out \o bytes
      bound == Smaller(max, room)
  IN  /\ ideal' = ideal \o bytes
      /\ IF cut \/ oom \/ Len(all) <= bound
         THEN /\ out' = IF cut \/ oom THEN out ELSE all
              /\ UNCHANGED <<cut, oom>>
         ELSE /\ out' = SubSeq(all, 1, bound)
              /\ cut' = (max <= room)
              /\ oom' = (room < max)

-----------------------------------------------------------------------------
(* The decoder's registers.                                                 *)

\* Mutant: ptr > end for ptr >= end, with a 0 found there.
FedPastEnd(d) ==
  LET more == d.pos <= Len(stream)
      byte == IF d.pos < Len(stream) THEN stream[d.pos + 1] ELSE 0
  IN  [d EXCEPT !.code = (@ * Base + byte) % W,
                !.pos = IF more THEN @ + 1 ELSE @,
                !.truncated = @ \/ ~more]

\* dec_getbyte and the shift of code: past the end it reads 0 and remembers.
Fed(d) ==
  LET more == d.pos < Len(stream)
      byte == IF more THEN stream[d.pos + 1] ELSE 0
  IN  [d EXCEPT !.code = (@ * Base + byte) % W,
                !.pos = IF more THEN @ + 1 ELSE @,
                !.truncated = @ \/ ~more]

DecRenorm(d) ==
  IF d.range < Top THEN Fed([d EXCEPT !.range = @ * Base]) ELSE d

DecodedBit(d, p) == IF d.code >= (d.range \div ProbOne) * p THEN 1 ELSE 0

\* dec_bit_rate.
DecBit(d, p) ==
  LET bound == (d.range \div ProbOne) * p
      d1 == IF DecodedBit(d, p) = 1
            THEN [d EXCEPT !.code = @ - bound, !.range = @ - bound]
            ELSE [d EXCEPT !.range = bound]
  IN  DecRenorm(DecRenorm(d1))

\* dec_init: range as the encoder began, code from the first FlushShifts bytes.
DecStart ==
  LET fed[i \in 0..FlushShifts] ==
        IF i = 0 THEN [code |-> 0, range |-> W - 1, pos |-> 0, truncated |-> FALSE]
        ELSE Fed(fed[i - 1])
  IN  fed[FlushShifts]

-----------------------------------------------------------------------------
Init ==
  /\ phase = "encode"
  /\ reg = [low |-> 0, range |-> W - 1, cache |-> 0, pending |-> 1]
  /\ out = <<>> /\ ideal = <<>>
  /\ cut = FALSE /\ oom = FALSE
  /\ max \in Limits /\ room \in Rooms
  /\ prob \in Starts
  /\ dprob = prob
  /\ hist = <<>> /\ got = <<>> /\ stream = <<>>
  /\ dec = [code |-> 0, range |-> W - 1, pos |-> 0, truncated |-> FALSE]

\* One decision of the message.
Encode(kind, bit) ==
  /\ phase = "encode"
  /\ Len(hist) < MaxBits
  /\ LET s == EncBit(reg, Mixed(kind, prob), bit)
     IN  reg' = s.reg /\ Put(s.bytes)
  /\ prob' = Learned(kind, prob, bit)
  /\ hist' = Append(hist, [kind |-> kind, bit |-> bit])
  /\ UNCHANGED <<phase, max, room, decVars>>

\* enc_flush ends the message.
Flush ==
  /\ phase = "encode"
  /\ LET s == Flushed(reg) IN reg' = s.reg /\ Put(s.bytes)
  /\ phase' = "sealed"
  /\ UNCHANGED <<max, room, prob, hist, decVars>>

\* An encoder that was cut or ran out of memory is discarded; any other result
\* reaches a decoder, whole or with its end missing.
Deliver(n) ==
  /\ phase = "sealed"
  /\ ~cut /\ ~oom
  /\ stream' = SubSeq(out, 1, n)
  /\ phase' = "open"
  /\ UNCHANGED <<encVars, max, room, dec, dprob, got>>

Open ==
  /\ phase = "open"
  /\ dec' = DecStart
  /\ phase' = "decode"
  /\ UNCHANGED <<encVars, max, room, stream, dprob, got>>

\* The decoder asks for the decisions in the encoder's order.
Decode ==
  /\ phase = "decode"
  /\ Len(got) < Len(hist)
  /\ LET kind == hist[Len(got) + 1].kind
         p == DecMixed(kind, dprob)
         bit == DecodedBit(dec, p)
     IN  /\ dec' = DecBit(dec, p)
         /\ dprob' = DecLearned(kind, dprob, bit)
         /\ got' = Append(got, bit)
  /\ UNCHANGED <<phase, encVars, max, room, stream>>

Next ==
  \/ \E kind \in Kinds, bit \in {0, 1} : Encode(kind, bit)
  \/ Flush
  \/ \E n \in 0..Len(out) : Deliver(n)
  \/ Open
  \/ Decode

Spec == Init /\ [][Next]_vars

-----------------------------------------------------------------------------
Whole == stream = out
Decoded == phase = "decode" /\ Len(got) = Len(hist)
Probabilities == [Contexts -> 1..(ProbOne - 1)]

\* Between two bits the encoder has at least Top values left, so the next bound
\* is never 0 (two renormalisations are enough, stream.c:372-379), and a carry
\* never meets a cached digit that it would overflow (stream.c:347).
PrecisionKept ==
  phase = "encode" =>
    /\ reg.range >= Top
    /\ reg.low >= W => reg.cache < Base - 1

\* No probability reaches 0 or PROB_ONE, whatever is mixed and however long a
\* run of equal bits is: each bit keeps a non-empty part of the range.
EveryBitPossible == prob \in Probabilities /\ dprob \in Probabilities

\* The decoder reads back every bit, and reads the stream exactly to its end,
\* with probabilities that never part from the encoder's.
RoundTrip ==
  (phase = "decode" /\ Whole) =>
    /\ \A i \in 1..Len(got) : got[i] = hist[i].bit
    /\ ~dec.truncated
    /\ dec.code < dec.range
    /\ Decoded => dec.pos = Len(out) /\ dprob = prob

\* A stream that lost its end is never taken for a complete one: the decoder
\* has asked for a byte that is not there by the time it has the last bit.
TruncationSeen == (Decoded /\ ~Whole) => dec.truncated

\* The buffer holds the beginning of what the encoder produced; it is short of
\* it only when the encoder says so, and the limit alone cuts only a message
\* longer than the limit (a message of exactly Enc.max bytes is kept).
CutIsHonest ==
  /\ out = SubSeq(ideal, 1, Len(out))
  /\ (cut \/ oom) <=> Len(out) < Len(ideal)
  /\ cut => Len(ideal) > max
=============================================================================
