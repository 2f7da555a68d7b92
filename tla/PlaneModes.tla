----------------------------- MODULE PlaneModes -----------------------------
(***************************************************************************)
(* The other ways in which stream.c codes a plane: the extended coder      *)
(* (encode_plane_x) with the eleven modes that turn its refinements on one *)
(* by one, the coder without a map (encode_plane_rule), that of the few    *)
(* samples that are not as predicted (encode_plane_event) and that of      *)
(* repeated blocks of two by two samples (encode_plane_pattern), each with *)
(* its decoder.  Wire, slots and stages are those of PlaneCodec.           *)
(*                                                                         *)
(* tp is a record here: the predictors of the tiles (map) and what the row *)
(* above left in each column (above); the order, number and residuals of   *)
(* the events; the patterns.  at counts samples, ranks of the order or     *)
(* blocks.  The stage "read" is the decoder before it has any sample.      *)
(***************************************************************************)
EXTENDS PlaneCodec

CONSTANTS
  ModePlanes,      \* shapes and planes, and the modes each is coded in
  CountBits,       \* RUNK again, for numbers up to the size of a plane
  PatternsStored,  \* PAT_STORE
  PatternsKept     \* PAT_MAX

ASSUME CountAssumption == CountBits \in Nat \ {0}
ASSUME PatternsAssumption == PatternsKept \in Nat \ {0} /\ PatternsStored \in Nat \ {0}

\* The modes of encode_plane_x in the order in which they were added; each has
\* the refinements of those before it, encode_plane_rule those of all.
Added == [x24 |-> 1, x26 |-> 2, x27 |-> 3, x29 |-> 4, x30 |-> 5, x31 |-> 6, x32 |-> 7,
          x33 |-> 8, x34 |-> 9, x35 |-> 10, x36 |-> 11, rule |-> 12]
SampleModes == DOMAIN Added
Modes == SampleModes \cup {"event", "pattern"}
ASSUME ModePlanesAssumption == \A p \in ModePlanes : p.modes \subseteq Modes

\* The refinement that came with this mode is on.
Since(mode) == Added[mode] <= Added[method]

\* Codes are sizes without the sign, which is sent apart.
Signed == Since("x30")
Negative(n) == IF n < 0 THEN 1 ELSE 0

-----------------------------------------------------------------------------
(* Prediction.                                                              *)

Paethp(b) ==
  LET far(n) == Abs(b.W + b.N - b.NW - n)
  IN  IF far(b.W) <= Min({far(b.N), far(b.NW)}) THEN b.W
      ELSE IF far(b.N) <= far(b.NW) THEN b.N ELSE b.NW

\* How much the neighbours differ along the rows, and down the columns.
Across(b) == Abs(b.W - b.WW) + Abs(b.N - b.NW) + Abs(b.NE - b.N)
Down(b) == Abs(b.W - b.NW) + Abs(b.N - b.NN) + Abs(b.NE - b.N)

\* gapp
Gradient(b) ==
  LET d == Down(b) - Across(b)
      p == (b.W + b.N) \div 2 + (b.NE - b.NW) \div 4
  IN  Clamp(IF d > 80 THEN b.W ELSE IF d < -80 THEN b.N
            ELSE IF d > 32 THEN (p + b.W) \div 2 ELSE IF d > 8 THEN (3 * p + b.W) \div 4
            ELSE IF d < -32 THEN (p + b.N) \div 2 ELSE IF d < -8 THEN (3 * p + b.N) \div 4
            ELSE p)

\* predictr
Rule(b) ==
  LET edge == Abs(b.W - b.N) + Abs(b.W - b.NW) + Abs(b.N - b.NW)
      gap == Max({maxv \div 16, 8})
  IN  CASE edge <= Max({maxv \div 32, 4}) -> (b.W + b.N + 1) \div 2
        [] edge > Max({maxv \div 32, 4}) ->
             IF Across(b) + gap < Down(b) THEN b.W
             ELSE IF Down(b) + gap < Across(b) THEN b.N
             ELSE IF edge >= maxv \div 2 THEN Paethp(b) ELSE Gradient(b)

\* predicta.  Those it does not clamp are means and neighbours.
Alternative(id, b) ==
  Clamp(CASE id = 0  -> Median(b)
          [] id = 1  -> Paethp(b)
          [] id = 2  -> b.W
          [] id = 3  -> b.N
          [] id = 4  -> (b.W + b.N + 1) \div 2
          [] id = 5  -> b.N + b.W - b.NW
          [] id = 6  -> b.NE
          [] id = 7  -> (b.W + b.NE + 1) \div 2
          [] id = 8  -> (b.N + b.NE + 1) \div 2
          [] id = 9  -> 2 * b.W - b.WW
          [] id = 10 -> 2 * b.N - b.NN
          [] id = 11 -> b.W + (3 * (b.N - b.NW)) \div 4
          [] id = 12 -> b.N + (3 * (b.W - b.NW)) \div 4
          [] id = 13 -> Gradient(b)
          [] id = 14 -> (b.W + b.N + b.NE + b.NW + 2) \div 4
          [] id = 15 -> (5 * b.W + 2 * b.N - 3 * b.NW + b.NE + 2) \div 4
          [] id = 16 -> (b.W + 3 * b.N + 2) \div 4
          [] id = 17 -> (3 * b.W + b.N + 2) \div 4
          [] id = 18 -> (5 * b.N + 2 * b.W - 3 * b.NW + b.NE + 2) \div 4
          [] id = 19 -> (2 * b.W + b.N - b.NW + 1) \div 2
          [] id = 20 -> (b.W + 2 * b.N - b.NW + 1) \div 2
          [] id = 21 -> b.W + (b.NE - b.NW) \div 2
          [] id = 22 -> b.N + (b.NE - b.NW) \div 2
          [] id = 23 -> (b.W + b.N + b.NE + 1) \div 3
          [] id = 24 -> (2 * b.W + b.N + b.NE + 2) \div 4
          [] id = 25 -> (b.W + 2 * b.N + b.NW + 2) \div 4
          [] id = 26 -> (3 * b.W + 3 * b.N - 2 * b.NW + 2) \div 4
          [] id = 27 -> (4 * b.N + b.W - 2 * b.NW + b.NE + 2) \div 4
          [] id = 28 -> (4 * b.W + b.N - 2 * b.NW + b.NE + 2) \div 4
          [] id = 29 -> (b.W + b.N + b.NE - b.NW + 1) \div 2
          [] id = 30 -> (6 * b.W + 2 * b.N - 5 * b.NW + b.NE + 2) \div 4
          [] id = 31 -> (2 * b.W + 6 * b.N - 5 * b.NW + b.NE + 2) \div 4)

\* The predictor of the mode; encode_plane_rule and encode_plane_event have one.
ModePredict(id, b) ==
  IF method \in {"rule", "event"} THEN Rule(b)
  ELSE IF Since("x27") THEN Alternative(id, b) ELSE Predict(id, b)

\* NPREDX, NPREDX0
MapBits == IF Since("x32") THEN 5 ELSE 4
MapAt(i) == IF tlog = 0 THEN 0 ELSE tp.map[TileOf(i)]

\* sign_hint
Hint(b, p) == IF Since("x34") THEN Sign(Gradient(b) - p) ELSE 0

\* pctx: the median, simple predictors, the first sixteen, all.
Family(id) ==
  IF ~Since("x33") \/ method = "rule" THEN 0
  ELSE IF id = 0 THEN 0 ELSE IF id <= 4 THEN 1 ELSE IF id < 16 THEN 2 ELSE 3
FamilySize == 72   \* NCTX

\* What the sample at i of f is coded with.  The size and sign that count are
\* those of the sample to the left, or those the row above left if larger.
Model(f, i) ==
  LET b == Neighbours(f, i)
      id == MapAt(i)
      p == ModePredict(id, b)
      above == IF Since("x29") THEN tp.above[X(i)] ELSE [k |-> 0, s |-> 0]
      larger == above.k > prevk
      k == IF larger THEN above.k ELSE prevk
      s == IF larger THEN above.s ELSE prevs
      act == WideActivity(b) + Min({above.k, 3})
  IN  [predicted |-> p, sign |-> s, hint |-> Hint(b, p),
       ctx |-> ectx(ActivityContext(act), k, s, Since("x26")) + FamilySize * Family(id)]

\* sign_prob: where a sign is sent that is hinted at, or not.
SignSlot(ctx, hint, hinted, sided) ==
  IF ~hinted \/ hint = 0 THEN <<"nz", ctx, 0, 0>>
  ELSE IF sided THEN <<"sg", ctx, 0, Negative(hint)>> ELSE <<"zr", ctx, 0, 0>>

SignSlotOf(c) == SignSlot(c.ctx, c.hint, Since("x35"), Since("x36"))
\* A sign is sent as a difference to what is expected.
Expected(c) == (IF Since("x31") THEN Negative(c.sign) ELSE 0) + Negative(c.hint)

-----------------------------------------------------------------------------
(* encode_plane_x, encode_plane_rule and their decoders.                    *)

CodeOf(e) == IF Signed THEN Abs(e) ELSE MapRes(e)

ModeCost(v) == IF v = 0 THEN 1 ELSE 2 * Bits(v) + (IF Since("x35") THEN 1 ELSE 0)
ModeTileCost(tile, id) ==
  MapThenSumSet(LAMBDA i : ModeCost(CodeOf(Residual(plane[i], ModePredict(id, Neighbours(plane, i))))),
                {i \in Indices : TileOf(i) = tile})
CheapestOf(tile) ==
  LET cost == [id \in 0..2^MapBits - 1 |-> ModeTileCost(tile, id)]
  IN  Min({id \in DOMAIN cost : \A other \in DOMAIN cost : cost[id] <= cost[other]})

\* The map that is made, or one from the cache.
ModeMaps ==
  {[tile \in Tiles |-> CheapestOf(tile)]} \cup {[tile \in Tiles |-> id] : id \in Presets}

Fresh(map) == [map |-> map, above |-> [x \in 0..W - 1 |-> [k |-> 0, s |-> 0]]]

SendModeMap ==
  /\ method \in SampleModes /\ stage = "map"
  /\ \E map \in ModeMaps :
       /\ tp' = Fresh(map)
       /\ wire' = FlattenSeq([n \in 1..TileCount |-> Tree(MapBits, map[n - 1])])
  /\ stage' = "encode"
  /\ UNCHANGED <<input, at, prevk, prevs, read, out>>

\* Past a sample with a code of k bits and a residual of sign s.
Leave(k, s) ==
  /\ tp' = IF Since("x29") THEN [tp EXCEPT !.above[X(at)] = [k |-> Min({k, 15}), s |-> s]] ELSE tp
  /\ Advance(1, k, s)

EncodeSample ==
  /\ method \in SampleModes /\ stage = "encode" /\ at < Size
  /\ LET c == Model(plane, at)
         e == Residual(plane[at], c.predicted)
         v == CodeOf(e)
         sign == IF Signed /\ v # 0
                 THEN <<[slot |-> SignSlotOf(c), bit |-> (Negative(e) + Expected(c)) % 2]>> ELSE <<>>
     IN  wire' = wire \o Sample(c.ctx, v) \o sign /\ Leave(Bits(v), Sign(e))
  /\ UNCHANGED <<input, stage, read, out>>

ReadModeMap ==
  /\ method \in SampleModes /\ stage = "start"
  /\ LET trees == [n \in 1..TileCount |-> TreeRead(MapBits, (n - 1) * MapBits)]
     IN  Asking(FlattenSeq([n \in 1..TileCount |-> trees[n].slots]),
           /\ tp' = Fresh([tile \in Tiles |-> trees[tile + 1].value])
           /\ stage' = "decode"
           /\ UNCHANGED <<input, wire, at, prevk, prevs, out>>)

DecodeSample ==
  /\ method \in SampleModes /\ stage = "decode" /\ at < Size
  /\ LET c == Model(out, at)
         code == SampleRead(c.ctx, read)
         signed == Signed /\ code.value # 0
         negative == (BitAt(read + Len(code.slots) + 1) + Expected(c)) % 2 = 1
         e == IF ~Signed THEN UnmapRes(code.value)
              ELSE IF signed /\ negative THEN -code.value ELSE code.value
     IN  Asking(code.slots \o (IF signed THEN <<SignSlotOf(c)>> ELSE <<>>),
           /\ out' = [i \in 0..at |-> IF i = at THEN Restored(c.predicted, e) ELSE out[i]]
           /\ Leave(code.size, Sign(e))
           /\ UNCHANGED <<input, stage, wire>>)

-----------------------------------------------------------------------------
(* encode_plane_event and its decoder: the residuals that are not zero, in  *)
(* the order in which they are closest to each other.                       *)

\* Longer planes and more blocks are refused: no count needs more bits.
MaxCount == 2^CountBits - 1
Count(ctx, v) == Number("run_unary", "run_mant", ctx, CountBits, v)
CountRead(ctx, r) == NumberRead("run_unary", "run_mant", ctx, CountBits, r)

\* order_pos: by rows, by columns, along four diagonals, to and fro.
order_pos(rank, order) ==
  LET column == rank \div shape.h
      y == rank % shape.h
  IN  CASE order = 1 -> y * W + column
        [] order \in 2..5 -> y * W + ((column + <<1, -1, 2, -2>>[order - 1] * y) % W)
        [] order = 6 -> IF Y(rank) % 2 = 1 THEN Y(rank) * W + (W - 1 - X(rank)) ELSE rank
        [] order = 7 -> (IF column % 2 = 1 THEN shape.h - 1 - y ELSE y) * W + column
        [] OTHER -> rank

ResidualOf(i) == Residual(plane[i], Rule(Neighbours(plane, i)))
Events(order) == {rank \in Indices : ResidualOf(order_pos(rank, order)) # 0}

run_cost(v) == IF v = 0 THEN 1 ELSE 2 * Bits(v)

\* choose_order
OrderCost(order) ==
  LET events == Events(order)
      skip(rank) == rank - 1 - Max({-1} \cup {r \in events : r < rank})
  IN  4 + run_cost(Cardinality(events))
        + MapThenSumSet(LAMBDA rank : run_cost(skip(rank)) + 1
                          + run_cost(Abs(ResidualOf(order_pos(rank, order))) - 1), events)
choose_order == Min({o \in 0..7 : \A other \in 0..7 : OrderCost(o) <= OrderCost(other)})

SkipContext == ectx(0, prevk, prevs, TRUE)
EventContext(skip) == ectx(ActivityContext(Min({skip, 512})), prevk, prevs, TRUE)

SendOrder ==
  /\ method = "event" /\ stage = "map"
  /\ LET events == Cardinality(Events(0))
     IN  IF Size > MaxCount \/ 2 * events > Size
         THEN stage' = "cut" /\ UNCHANGED <<wire, tp>>
         ELSE /\ wire' = Tree(3, choose_order) \o Count(0, events)
              /\ tp' = [order |-> choose_order]
              /\ stage' = "encode"
  /\ UNCHANGED <<input, at, prevk, prevs, read, out>>

\* at is the rank behind the last event.
PastEvent(rank, e) == at' = rank + 1 /\ prevk' = Bits(Abs(e)) /\ prevs' = Sign(e)

EncodeEvent ==
  /\ method = "event" /\ stage = "encode" /\ at < Size
  /\ LET ahead == {rank \in Events(tp.order) : rank >= at}
         rank == Min(ahead)
         e == ResidualOf(order_pos(rank, tp.order))
         ctx == EventContext(rank - at)
     IN  IF ahead = {} THEN at' = Size /\ UNCHANGED <<wire, prevk, prevs>>
         ELSE /\ wire' = wire \o Count(SkipContext, rank - at) \o Sample(ctx, Abs(e) - 1)
                           \o <<[slot |-> SignSlot(ctx, prevs, TRUE, TRUE),
                                 bit |-> (Negative(e) + Negative(prevs)) % 2]>>
              /\ PastEvent(rank, e)
  /\ UNCHANGED <<input, stage, tp, read, out>>

ReadOrder ==
  /\ method = "event" /\ stage = "start"
  /\ LET order == TreeRead(3, 0)
         events == CountRead(0, 3)
     IN  Asking(order.slots \o events.slots,
           /\ IF Size > MaxCount \/ events.value > Size
              THEN stage' = "corrupt" /\ tp' = tp
              ELSE stage' = "read" /\ tp' = [order |-> order.value, left |-> events.value,
                                             residual |-> [i \in Indices |-> 0]]
           /\ UNCHANGED <<input, wire, at, prevk, prevs, out>>)

ReadEvent ==
  /\ method = "event" /\ stage = "read" /\ tp.left > 0
  /\ LET skip == CountRead(SkipContext, read)
         rank == at + skip.value
         ctx == EventContext(skip.value)
         code == SampleRead(ctx, read + Len(skip.slots))
         slots == skip.slots \o code.slots \o <<SignSlot(ctx, prevs, TRUE, TRUE)>>
         negative == (BitAt(read + Len(slots)) + Negative(prevs)) % 2 = 1
         e == IF negative THEN -(code.value + 1) ELSE code.value + 1
     IN  Asking(slots,
           IF rank >= Size \/ code.value + 1 > half
           THEN stage' = "corrupt" /\ UNCHANGED <<input, wire, tp, at, prevk, prevs, out>>
           ELSE /\ tp' = [tp EXCEPT !.left = @ - 1, !.residual[order_pos(rank, tp.order)] = e]
                /\ PastEvent(rank, e)
                /\ UNCHANGED <<input, stage, wire, out>>)

\* recon_residuals
Rebuild ==
  /\ method = "event" /\ stage = "read" /\ tp.left = 0
  /\ LET f[i \in Indices] == Restored(Rule(Neighbours(f, i)), tp.residual[i]) IN out' = f
  /\ at' = Size /\ stage' = "decode"
  /\ UNCHANGED <<input, wire, tp, prevk, prevs, read>>

-----------------------------------------------------------------------------
(* encode_plane_pattern and its decoder: repeated blocks of two by two      *)
(* samples, row by row; those at the edges are cut off.                     *)

SquaresAcross == (W + 1) \div 2
Squares == SquaresAcross * ((shape.h + 1) \div 2)
SquareOf(i) == (Y(i) \div 2) * SquaresAcross + X(i) \div 2
Corner(i) == 1 + (X(i) % 2) + 2 * (Y(i) % 2)

\* pat_block
SquareAt(b) ==
  LET x == 2 * (b % SquaresAcross)
      y == 2 * (b \div SquaresAcross)
      x1 == Min({x + 1, W - 1})
      y1 == Min({y + 1, shape.h - 1})
  IN  <<plane[y * W + x], plane[y * W + x1], plane[y1 * W + x], plane[y1 * W + x1]>>

\* The blocks that repeat, the most frequent first, then the earlier.
Repeated ==
  LET at_of(v) == {b \in 0..Squares - 1 : SquareAt(b) = v}
      times(v) == Cardinality(at_of(v))
      repeated == {v \in {SquareAt(b) : b \in 0..Squares - 1} : times(v) > 1}
      sorted == SetToSortSeq(repeated, LAMBDA u, v :
                  times(u) > times(v) \/ (times(u) = times(v) /\ Min(at_of(u)) < Min(at_of(v))))
  IN  SubSeq(sorted, 1, Min({Len(sorted), PatternsKept}))

\* Number of the pattern of a block, 0 if it has none.
Token(b) == Max({0} \cup {t \in DOMAIN tp : tp[t] = SquareAt(b)})

\* enc_bits, dec_bits
Plainly(ctx, n, v) == [j \in 1..n |-> Put("mant", ctx, 0, n - j, (v \div 2^(n - j)) % 2)]
PlainSlots(ctx, n) == [j \in 1..n |-> <<"mant", ctx, 0, n - j>>]
Four(ctx, v) == FlattenSeq([j \in 1..4 |-> Plainly(ctx, shape.depth, v[j])])
FourRead(r) == [j \in 1..4 |-> BitsValue(r + (j - 1) * shape.depth, shape.depth)]
FourSlots(ctx, n) == FlattenSeq([j \in 1..4 * n |-> PlainSlots(ctx, shape.depth)])
FourBits == 4 * shape.depth

SendPatterns ==
  /\ method = "pattern" /\ stage = "map"
  /\ LET matched == Cardinality({b \in 0..Squares - 1 : SquareAt(b) \in {Repeated[t] : t \in DOMAIN Repeated}})
         distinct == Cardinality({SquareAt(b) : b \in 0..Squares - 1})
     IN  IF \/ Squares > MaxCount \/ distinct > PatternsStored
            \/ Repeated = <<>> \/ 4 * matched < Squares
         THEN stage' = "cut" /\ UNCHANGED <<wire, tp>>
         ELSE /\ wire' = Count(0, Len(Repeated) - 1)
                           \o FlattenSeq([t \in DOMAIN Repeated |-> Four(0, Repeated[t])])
              /\ tp' = Repeated
              /\ stage' = "encode"
  /\ UNCHANGED <<input, at, prevk, prevs, read, out>>

\* Past n blocks; past the last of them, all samples are.
PastSquares(n) == at' = IF at + n = Squares THEN Size ELSE at + n

\* A run of blocks with one pattern, or with none.
EncodeSquares ==
  /\ method = "pattern" /\ stage = "encode" /\ at < Squares
  /\ LET n == Max({n \in 1..Squares - at : \A b \in at..at + n - 1 : Token(b) = Token(at)})
         samples == IF Token(at) # 0 THEN <<>>
                    ELSE FlattenSeq([k \in 1..n |-> Four(2, SquareAt(at + k - 1))])
     IN  /\ wire' = wire \o Plainly(1, Bits(Len(tp)), Token(at)) \o Count(1, n - 1) \o samples
         /\ PastSquares(n)
  /\ UNCHANGED <<input, stage, tp, prevk, prevs, read, out>>

ReadPatterns ==
  /\ method = "pattern" /\ stage = "start"
  /\ LET count == CountRead(0, 0)
         n == count.value + 1
         bad == count.value >= PatternsKept
     IN  Asking(count.slots \o (IF bad THEN <<>> ELSE FourSlots(0, n)),
           /\ IF bad THEN stage' = "corrupt" /\ tp' = tp
              ELSE /\ tp' = [t \in 1..n |-> FourRead(Len(count.slots) + (t - 1) * FourBits)]
                   /\ stage' = "read"
           /\ UNCHANGED <<input, wire, at, prevk, prevs, out>>)

\* pat_put, of each block of the run.
ReadSquares ==
  /\ method = "pattern" /\ stage = "read" /\ at < Squares
  /\ LET bits == Bits(Len(tp))
         token == BitsValue(read, bits)
         run == CountRead(1, read + bits)
         n == run.value + 1
         bad == token > Len(tp) \/ n > Squares - at
         head == PlainSlots(1, bits) \o run.slots
         content(b) == IF token # 0 THEN tp[token]
                       ELSE FourRead(read + Len(head) + (b - at) * FourBits)
         put == {i \in Indices : SquareOf(i) \in at..at + n - 1}
     IN  Asking(head \o (IF bad \/ token # 0 THEN <<>> ELSE FourSlots(2, n)),
           IF bad THEN stage' = "corrupt" /\ UNCHANGED <<input, wire, tp, at, prevk, prevs, out>>
           ELSE /\ out' = [i \in DOMAIN out \cup put |->
                             IF i \in put THEN content(SquareOf(i))[Corner(i)] ELSE out[i]]
                /\ PastSquares(n)
                /\ stage' = IF at + n = Squares THEN "decode" ELSE stage
                /\ UNCHANGED <<input, wire, tp, prevk, prevs>>)

-----------------------------------------------------------------------------
ModesInit ==
  /\ \E p \in ModePlanes : shape = p.shape /\ plane = p.plane /\ method \in p.modes
  /\ pos \in IF method \in {"x27", "x29"} THEN BOOLEAN ELSE {FALSE}
  /\ tlog \in IF method \in {"rule", "event", "pattern"} THEN {0} ELSE Tilings
  /\ stage = "map" /\ wire = <<>> /\ tp = <<>>
  /\ at = 0 /\ prevk = 0 /\ prevs = 0 /\ read = 0 /\ out = <<>>

ModesNext ==
  \/ SendModeMap \/ EncodeSample \/ ReadModeMap \/ DecodeSample
  \/ SendOrder \/ EncodeEvent \/ ReadOrder \/ ReadEvent \/ Rebuild
  \/ SendPatterns \/ EncodeSquares \/ ReadPatterns \/ ReadSquares
  \/ method \in Modes /\ (Deliver \/ Finish \/ Stopped)
=============================================================================
