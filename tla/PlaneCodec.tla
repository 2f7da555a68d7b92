----------------------------- MODULE PlaneCodec -----------------------------
(***************************************************************************)
(* Coding of one plane of samples (codec/src/stream.c): encode_plane and   *)
(* decode_plane, and the pair with zero runs, encode_plane_xzr and         *)
(* decode_plane_xzr.  Each sample is predicted from neighbours coded       *)
(* before it, the wrapped residual is mapped to a code, and the code is    *)
(* written bit by bit in slots of the model that are chosen from the       *)
(* neighbours and the codes before it.  The two sides are separate code.   *)
(*                                                                         *)
(* The wire is the sequence of bits with the slot each was written in.     *)
(* The range coder (module RangeCoder) gives a bit back only when it is    *)
(* read in the slot it was written in: a decoder that asks for another one *)
(* is lost.  A failing malloc ends either side at once and is left out.    *)
(***************************************************************************)
EXTENDS Integers, Sequences, SequencesExt, FiniteSetsExt

CONSTANTS
  Shapes,    \* width, height and depth of the planes
  Tilings,   \* logarithms of the tile sizes, 0 for no tiles
  Presets,   \* predictors of the maps encode_plane_xzr may be given
  RunBits    \* RUNK, the bits of a run length

ASSUME ShapesAssumption ==
  Shapes \subseteq [w : Nat \ {0}, h : Nat \ {0}, depth : Nat \ {0}]
ASSUME TilingsAssumption == Tilings \subseteq Nat
ASSUME PresetsAssumption == Presets \subseteq 0..15
ASSUME RunAssumption == RunBits \in Nat \ {0}

VARIABLES
  shape,   \* width, height, depth
  method,  \* which pair of functions: "base" or "xzr"
  pos,     \* which of the two mappings of residuals
  tlog,    \* tiles are 2^tlog wide and high, 0: no tiles
  plane,   \* the samples, row by row
  stage,   \* "map", "encode", "start", "decode", "done", "cut", "corrupt", "lost"
  wire,    \* the bits written, each with its slot
  tp,      \* predictor of each tile, and what else the side that runs keeps
  at,      \* the sample it is at
  prevk,   \* size of its last code
  prevs,   \* sign of its last residual
  read,    \* bits the decoder has read
  out      \* the samples it has decoded

input == <<shape, method, pos, tlog, plane>>
vars == <<shape, method, pos, tlog, plane, stage, wire, tp, at, prevk, prevs, read, out>>

\* Powers of two.
Power[n \in Nat] == IF n = 0 THEN 1 ELSE 2 * Power[n - 1]

W == shape.w
Size == shape.w * shape.h
Indices == 0..Size - 1
M == Power[shape.depth]
half == M \div 2
maxv == M - 1
X(i) == i % W
Y(i) == i \div W

Abs(n) == IF n < 0 THEN -n ELSE n
Sign(n) == IF n > 0 THEN 1 ELSE IF n < 0 THEN -1 ELSE 0
Clamp(n) == IF n < 0 THEN 0 ELSE IF n > maxv THEN maxv ELSE n

\* Bits of a number: predictor_nbits_lut in the encoder, nbits in the decoder.
Bits(v) == CHOOSE k \in 0..v : v < Power[k] /\ (k > 0 => Power[k - 1] <= v)

-----------------------------------------------------------------------------
(* Prediction.  f is the plane, or the part of it that is decoded.          *)

\* NEIGHBORS, and the two further ones of the zero-run variant.
Neighbours(f, i) ==
  LET w == IF X(i) > 0 THEN f[i - 1] ELSE IF Y(i) > 0 THEN f[i - W] ELSE half
      n == IF Y(i) > 0 THEN f[i - W] ELSE w
  IN  [W |-> w, N |-> n,
       NW |-> IF X(i) > 0 /\ Y(i) > 0 THEN f[i - W - 1] ELSE n,
       NE |-> IF Y(i) > 0 /\ X(i) + 1 < W THEN f[i - W + 1] ELSE n,
       WW |-> IF X(i) > 1 THEN f[i - 2] ELSE w,
       NN |-> IF Y(i) > 1 THEN f[i - 2 * W] ELSE n]

\* predict(0, ...): the median edge detector.
Median(b) ==
  IF b.NW >= Max({b.N, b.W}) THEN Min({b.N, b.W})
  ELSE IF b.NW <= Min({b.N, b.W}) THEN Max({b.N, b.W})
  ELSE b.N + b.W - b.NW

\* predict has the first eight, predictx the first sixteen of its table.
Predict(id, b) ==
  CASE id = 0  -> Median(b)
    [] id = 1  -> b.W
    [] id = 2  -> b.N
    [] id = 3  -> (b.W + b.N + 1) \div 2
    [] id = 4  -> Clamp(b.N + b.W - b.NW)
    [] id = 5  -> b.NE
    [] id = 6  -> (b.W + b.NE + 1) \div 2
    [] id = 7  -> Clamp((3 * (b.W + b.N) - 2 * b.NW + 2) \div 4)
    [] id = 8  -> Clamp(2 * b.W - b.WW)
    [] id = 9  -> Clamp(2 * b.N - b.NN)
    [] id = 10 -> Clamp((2 * b.W - b.WW + 2 * b.N - b.NN + 1) \div 2)
    [] id = 11 -> Clamp(b.W + (b.N - b.NW) \div 2)
    [] id = 12 -> Clamp(b.N + (b.W - b.NW) \div 2)
    [] id = 13 -> Clamp((4 * b.W + 2 * b.N - 3 * b.NW + b.NE + 2) \div 4)
    [] id = 14 -> Clamp((b.W + 2 * b.N + b.NE + 2) \div 4)
    [] id = 15 -> Clamp((3 * b.W + b.N + 2) \div 4)

\* NPRED and NPREDX0; the map is sent with three or four bits a tile.
TreeBits == IF method = "base" THEN 3 ELSE 4
Predictors == 0..Power[TreeBits] - 1

\* Tiles are numbered row by row.
TileSide == Power[tlog]
TilesAcross == (W + TileSide - 1) \div TileSide
TilesDown == (shape.h + TileSide - 1) \div TileSide
TileCount == IF tlog = 0 THEN 0 ELSE TilesAcross * TilesDown
Tiles == 0..TileCount - 1
TileOf(i) == (Y(i) \div TileSide) * TilesAcross + X(i) \div TileSide
PredictorAt(i) == IF tlog = 0 THEN 0 ELSE tp[TileOf(i)]

\* The wrapped residual of a sample s predicted as p, and back.
Residual(s, p) == ((s - p + half) % M) - half
Restored(p, e) == (p + e) % M

\* map_res
MapRes(e) ==
  IF ~pos THEN IF e >= 0 THEN 2 * e ELSE -2 * e - 1
  ELSE IF e = -half THEN maxv
  ELSE IF e > 0 THEN 2 * e - 1 ELSE -2 * e

\* unmap_res
UnmapRes(v) ==
  IF ~pos THEN IF v % 2 = 1 THEN -((v + 1) \div 2) ELSE v \div 2
  ELSE IF v = maxv THEN -half
  ELSE IF v % 2 = 1 THEN (v + 1) \div 2 ELSE -(v \div 2)

\* qctx
ActivityContext(act) ==
  IF act > 1024 THEN 11 ELSE IF act <= 2 THEN act ELSE Bits(act - 1) + 1

\* ectx: the context after a code of k bits and a residual of sign s, in three
\* classes or six.
ectx(a, k, s, six) ==
  LET side == IF s > 0 THEN 1 ELSE 2
  IN  IF ~six THEN a * 3 + (IF k = 0 THEN 0 ELSE IF k <= 2 THEN 1 ELSE 2)
      ELSE a * 6 + (IF k = 0 THEN 0 ELSE IF k <= 2 THEN side
                    ELSE IF k <= 4 THEN 2 + side ELSE 5)

NearActivity(b) == Abs(b.W - b.NW) + Abs(b.NW - b.N) + Abs(b.N - b.NE)
WideActivity(b) == NearActivity(b) + (Abs(b.W - b.WW) + Abs(b.N - b.NN)) \div 2

Context(f, i) ==
  LET b == Neighbours(f, i)
      act == IF method = "base" THEN NearActivity(b) ELSE WideActivity(b)
  IN  ectx(ActivityContext(act), prevk, prevs, method # "base")

\* Residual of the sample at i of the plane, and the code it is sent as.
ResidualAt(i, id) == Residual(plane[i], Predict(id, Neighbours(plane, i)))
CodeAt(i, id) == MapRes(ResidualAt(i, id))
Here == CodeAt(at, PredictorAt(at))

-----------------------------------------------------------------------------
(* Numbers in bits.  The encoder's loops write them, the decoder's ask.     *)

Put(table, ctx, size, index, bit) == [slot |-> <<table, ctx, size, index>>, bit |-> bit]

\* enc_run_uint, and the same lines in the four functions: the size in unary,
\* without the closing 0 when it is the largest, then the bits below the
\* leading one.
Number(unary, mant, ctx, limit, v) ==
  LET k == Bits(v)
  IN  [i \in 1..k |-> Put(unary, ctx, 0, i - 1, 1)]
      \o (IF k < limit THEN <<Put(unary, ctx, 0, k, 0)>> ELSE <<>>)
      \o [j \in 1..(k - 1) |-> Put(mant, ctx, k, k - 1 - j, (v \div Power[k - 1 - j]) % 2)]

Sample(ctx, v) == Number("unary", "mant", ctx, shape.depth, v)
Run(ctx, v) == Number("run_unary", "run_mant", ctx, RunBits, v)

\* enc_tree3, enc_tree4, enc_tree5
Tree(bits, sym) ==
  [i \in 1..bits |-> Put("predtree", 0, 0,
      Power[i - 1] + sym \div Power[bits - i + 1], (sym \div Power[bits - i]) % 2)]

\* The decoder reads zeros behind the end.
BitAt(r) == IF r <= Len(wire) THEN wire[r].bit ELSE 0
BitsValue(r, n) ==
  LET v[j \in 0..n] == IF j = 0 THEN 0 ELSE 2 * v[j - 1] + BitAt(r + j)
  IN  v[n]

\* dec_run_uint, and the same lines in the two decoders: the size, the value
\* and the slots that are asked for from bit r on.
SizeRead(r, limit) ==
  CHOOSE k \in 0..limit : (k = limit \/ BitAt(r + k + 1) = 0) /\ \A i \in 1..k : BitAt(r + i) = 1

NumberRead(unary, mant, ctx, limit, r) ==
  LET k == SizeRead(r, limit)
      u == Min({k + 1, limit})
  IN  [size |-> k,
       value |-> IF k = 0 THEN 0 ELSE Power[k - 1] + BitsValue(r + u, k - 1),
       slots |-> [i \in 1..u |-> <<unary, ctx, 0, i - 1>>]
                 \o [j \in 1..(k - 1) |-> <<mant, ctx, k, k - 1 - j>>]]

SampleRead(ctx, r) == NumberRead("unary", "mant", ctx, shape.depth, r)
RunRead(ctx, r) == NumberRead("run_unary", "run_mant", ctx, RunBits, r)

\* dec_tree3, dec_tree4, dec_tree5
TreeRead(bits, r) ==
  [value |-> BitsValue(r, bits),
   slots |-> [i \in 1..bits |-> <<"predtree", 0, 0, Power[i - 1] + BitsValue(r, i - 1)>>]]

\* The bits after r were written in these slots.
Agrees(r, slots) ==
  r + Len(slots) <= Len(wire) /\ \A i \in 1..Len(slots) : wire[r + i].slot = slots[i]

-----------------------------------------------------------------------------
(* The encoder.                                                             *)

\* Estimate of the bits of a code, by which predictors are compared.
Cost(v) == IF method = "base" THEN IF v = 0 THEN 1 ELSE 2 * Bits(v)
           ELSE IF v = 0 THEN 1 ELSE 2 * Bits(v) + 2

TileCost(tile, id) ==
  MapThenSumSet(LAMBDA i : Cost(CodeAt(i, id)), {i \in Indices : TileOf(i) = tile})

\* The first of the predictors with the least cost.
Cheapest(tile) ==
  Min({id \in Predictors : \A other \in Predictors : TileCost(tile, id) <= TileCost(tile, other)})

Maps == {[tile \in Tiles |-> Cheapest(tile)]}
          \cup IF method = "xzr" THEN [Tiles -> Presets] ELSE {}

Init ==
  /\ shape \in Shapes
  /\ method \in {"base", "xzr"}
  /\ pos \in IF method = "base" THEN BOOLEAN ELSE {FALSE}
  /\ tlog \in Tilings
  /\ plane \in [Indices -> 0..maxv]
  /\ stage = "map" /\ wire = <<>> /\ tp = <<>>
  /\ at = 0 /\ prevk = 0 /\ prevs = 0 /\ read = 0 /\ out = <<>>

\* The map is made, or taken from the cache, and sent.
SendMap ==
  /\ stage = "map"
  /\ tp' \in Maps
  /\ wire' = FlattenSeq([n \in 1..TileCount |-> Tree(TreeBits, tp'[n - 1])])
  /\ stage' = "encode"
  /\ UNCHANGED <<input, at, prevk, prevs, read, out>>

\* Past n samples, after a code of k bits and a residual of sign s.  A new row
\* starts with neither.
Advance(n, k, s) ==
  /\ at' = at + n
  /\ prevk' = IF (at + n) % W = 0 THEN 0 ELSE k
  /\ prevs' = IF (at + n) % W = 0 THEN 0 ELSE s

\* encode_plane: one sample.
EncodeBase ==
  /\ stage = "encode" /\ method = "base" /\ at < Size
  /\ wire' = wire \o Sample(Context(plane, at), Here)
  /\ Advance(1, Bits(Here), 0)
  /\ UNCHANGED <<input, stage, tp, read, out>>

\* encode_plane_xzr: one sample with a residual; the code has no zero.
EncodeNonzero ==
  /\ stage = "encode" /\ method = "xzr" /\ at < Size /\ Here # 0
  /\ LET ctx == Context(plane, at)
     IN  wire' = wire \o <<Put("nz", ctx, 0, 0, 1)>> \o Sample(ctx, Here - 1)
  /\ Advance(1, Bits(Here), Sign(ResidualAt(at, PredictorAt(at))))
  /\ UNCHANGED <<input, stage, tp, read, out>>

\* Samples of the row from at on whose code is 0.
ZeroRun == Max({n \in 1..W - X(at) : \A j \in at..at + n - 1 : CodeAt(j, PredictorAt(j)) = 0})

\* encode_plane_xzr: a run of samples as predicted, to the end of the row at
\* the furthest.  A run too long for its bits cuts the stream.
EncodeRun ==
  /\ stage = "encode" /\ method = "xzr" /\ at < Size /\ Here = 0
  /\ LET ctx == Context(plane, at)
         zero == Put("nz", ctx, 0, 0, 0)
     IN  IF ZeroRun = 1
         THEN wire' = wire \o <<zero, Put("zr", ctx, 0, 0, 0)>> /\ stage' = stage
         ELSE IF Bits(ZeroRun - 2) > RunBits
         THEN wire' = wire \o <<zero, Put("zr", ctx, 0, 0, 1)>> /\ stage' = "cut"
         ELSE wire' = wire \o <<zero, Put("zr", ctx, 0, 0, 1)>> \o Run(ctx, ZeroRun - 2)
              /\ stage' = stage
  /\ Advance(ZeroRun, 0, 0)
  /\ UNCHANGED <<input, tp, read, out>>

\* The stream is complete and is given to the decoder.
Deliver ==
  /\ stage = "encode" /\ at = Size
  /\ stage' = "start" /\ tp' = <<>> /\ at' = 0 /\ prevk' = 0 /\ prevs' = 0
  /\ UNCHANGED <<input, wire, read, out>>

-----------------------------------------------------------------------------
(* The decoder.                                                             *)

\* The decoder asks for slots and goes on as then, or is lost.
Asking(slots, then) ==
  IF Agrees(read, slots)
  THEN read' = read + Len(slots) /\ then
  ELSE stage' = "lost" /\ UNCHANGED <<input, wire, tp, at, prevk, prevs, read, out>>

ReadMap ==
  /\ stage = "start"
  /\ LET trees == [n \in 1..TileCount |-> TreeRead(TreeBits, (n - 1) * TreeBits)]
     IN  Asking(FlattenSeq([n \in 1..TileCount |-> trees[n].slots]),
           /\ tp' = [tile \in Tiles |-> trees[tile + 1].value]
           /\ stage' = "decode"
           /\ UNCHANGED <<input, wire, at, prevk, prevs, out>>)

\* The sample at i as its residual e and the samples before it give it.
Decoded(f, i, e) == Restored(Predict(PredictorAt(i), Neighbours(f, i)), e)

\* decode_plane: one sample.
DecodeBase ==
  /\ stage = "decode" /\ method = "base" /\ at < Size
  /\ LET code == SampleRead(Context(out, at), read)
     IN  Asking(code.slots,
           /\ out' = [i \in 0..at |-> IF i = at THEN Decoded(out, at, UnmapRes(code.value)) ELSE out[i]]
           /\ Advance(1, code.size, 0)
           /\ UNCHANGED <<input, stage, wire, tp>>)

\* decode_plane_xzr: one sample with a residual.
DecodeNonzero ==
  /\ stage = "decode" /\ method = "xzr" /\ at < Size /\ BitAt(read + 1) = 1
  /\ LET ctx == Context(out, at)
         code == SampleRead(ctx, read + 1)
         e == UnmapRes(code.value + 1)
     IN  Asking(<<<<"nz", ctx, 0, 0>>>> \o code.slots,
           IF code.value >= M - 1
           THEN stage' = "corrupt" /\ UNCHANGED <<input, wire, tp, at, prevk, prevs, out>>
           ELSE /\ out' = [i \in 0..at |-> IF i = at THEN Decoded(out, at, e) ELSE out[i]]
                /\ Advance(1, Bits(code.value + 1), Sign(e))
                /\ UNCHANGED <<input, stage, wire, tp>>)

\* Samples from at on as predicted, each from those before it.
Filled(n) ==
  LET f[i \in 0..at + n - 1] ==
        IF i < at THEN out[i] ELSE Predict(PredictorAt(i), Neighbours(f, i))
  IN  f

\* decode_plane_xzr: a run; one that leaves the row is corrupt.
DecodeRun ==
  /\ stage = "decode" /\ method = "xzr" /\ at < Size /\ BitAt(read + 1) = 0
  /\ LET ctx == Context(out, at)
         long == BitAt(read + 2) = 1
         code == RunRead(ctx, read + 2)
         run == IF long THEN code.value + 2 ELSE 1
     IN  Asking(<<<<"nz", ctx, 0, 0>>, <<"zr", ctx, 0, 0>>>> \o IF long THEN code.slots ELSE <<>>,
           IF run > W - X(at)
           THEN stage' = "corrupt" /\ UNCHANGED <<input, wire, tp, at, prevk, prevs, out>>
           ELSE /\ out' = Filled(run)
                /\ Advance(run, 0, 0)
                /\ UNCHANGED <<input, stage, wire, tp>>)

Finish ==
  /\ stage = "decode" /\ at = Size
  /\ stage' = "done"
  /\ UNCHANGED <<input, wire, tp, at, prevk, prevs, read, out>>

Stopped == stage \in {"done", "cut", "corrupt", "lost"} /\ UNCHANGED vars

Next ==
  \/ SendMap \/ EncodeBase \/ EncodeNonzero \/ EncodeRun \/ Deliver
  \/ ReadMap \/ DecodeBase \/ DecodeNonzero \/ DecodeRun \/ Finish
  \/ Stopped

Spec == Init /\ [][Next]_vars

-----------------------------------------------------------------------------
\* The samples the decoder has are those of the plane, and at the end it has
\* read every bit of it and none of the next plane: decode_plane and
\* decode_plane_xzr undo encode_plane and encode_plane_xzr.
RoundTrip ==
  /\ stage \in {"decode", "done"} => \A i \in 0..at - 1 : out[i] = plane[i]
  /\ stage = "done" => at = Size /\ read = Len(wire)

\* The decoder reads each bit in the slot the encoder wrote it in: both sides
\* choose contexts from neighbours, tiles, the last code and its sign, after
\* runs, at row ends and borders, in the same way.  And a complete stream is
\* never refused as corrupt.
InStep == stage \notin {"lost", "corrupt"}
=============================================================================
