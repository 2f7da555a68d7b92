--------------------------- MODULE PixelPayloads ---------------------------
(***************************************************************************)
(* The payloads qlic.c makes of an image without its stream encoder, and   *)
(* the decoders of each: samples of pixels, with or without a transform of *)
(* the channels, filtered rows, runs of bytes, separable tables, planes    *)
(* with a median predictor and the gray model.                             *)
(*                                                                         *)
(* An image is a plane of PlaneCodec: plane[i] is the number of a colour,  *)
(* how.colours has its four bytes.  A payload is a sequence of bytes.  A   *)
(* decoder gives the pixels, or an empty sequence when it refuses.         *)
(***************************************************************************)
EXTENDS PlaneCodec

CONSTANTS
  VarintBase,  \* values of one byte of a number, 128 in the code
  Periods,     \* of the gray model, 8, 16 and 32 in the code
  Blocks       \* its blocks, 0, 8 and 16 in the code

ASSUME PayloadAssumption ==
  VarintBase \in Nat \ {0, 1} /\ Periods \subseteq Nat \ {0} /\ 0 \in Blocks /\ Blocks \subseteq Nat

VARIABLE how    \* the coder, its parameters and the colours

Refused == <<>>
Cells == 1..Size                        \* pixels in order, the first is 1
Column(n) == (n - 1) % W
Row(n) == (n - 1) \div W
Colour(n) == how.colours[plane[n - 1] + 1]

\* A sequence made element by element, each from those before it.
Grown(n, element(_, _)) ==
  LET f[k \in 0..n] == IF k = 0 THEN <<>> ELSE LET before == f[k - 1] IN Append(before, element(before, k))
  IN  f[n]

\* A sequence by the place of its elements.
Each(n, element(_)) == Grown(n, LAMBDA done, k : element(k))

\* The elements of a set by a strict order.
InOrder(set, before(_, _)) ==
  Grown(Cardinality(set), LAMBDA done, k :
    CHOOSE x \in set \ Range(done) : \A y \in set \ (Range(done) \cup {x}) : before(x, y))

\* Parts of a payload.
Slice(s, from, n) == SubSeq(s, from, from + n - 1)
Rows(s, rowBytes) == [y \in 1..Len(s) \div rowBytes |-> Slice(s, (y - 1) * rowBytes + 1, rowBytes)]

-----------------------------------------------------------------------------
(* Samples.                                                                 *)

\* scan_mode: the channels that are kept.
Kept ==
  LET gray == \A n \in Cells : Colour(n)[1] = Colour(n)[2] /\ Colour(n)[1] = Colour(n)[3]
      opaque == \A n \in Cells : Colour(n)[4] = 255
  IN  (IF gray THEN <<1>> ELSE <<1, 2, 3>>) \o (IF opaque THEN <<>> ELSE <<4>>)

\* The delta transforms: one channel, and the others without it.
Samples(p, kept, lead) ==
  IF lead = 0 \/ Len(kept) < 3 THEN [k \in 1..Len(kept) |-> p[kept[k]]]
  ELSE LET others == SelectSeq(<<1, 2, 3>>, LAMBDA c : c # lead)
       IN  <<p[lead]>> \o [k \in 1..2 |-> (p[others[k]] - p[lead]) % 256] \o SubSeq(p, 4, Len(kept))

\* read_rgb
Pixel(s, lead) ==
  LET alpha == IF Len(s) \in {2, 4} THEN <<s[Len(s)]>> ELSE <<255>>
      others == SelectSeq(<<1, 2, 3>>, LAMBDA c : c # lead)
  IN  IF Len(s) < 3 THEN <<s[1], s[1], s[1]>> \o alpha
      ELSE IF lead = 0 THEN SubSeq(s, 1, 3) \o alpha
      ELSE [c \in 1..3 |-> IF c = lead THEN s[1]
                           ELSE (s[1] + s[IF c = others[1] THEN 2 ELSE 3]) % 256] \o alpha

mk_samp(kept, lead) == FlattenSeq([n \in Cells |-> Samples(Colour(n), kept, lead)])

samp_rgba(s, channels, lead) ==
  IF Len(s) # Size * channels THEN Refused
  ELSE [n \in Cells |-> Pixel(Slice(s, (n - 1) * channels + 1, channels), lead)]

\* QST1: dimensions and samples, in rows; Refused unless it has these.
stream_encode(width, height, channels, samples) == <<width, height, channels>> \o samples
stream_decode(s, width, height, channels) ==
  IF Len(s) # 3 + width * height * channels \/ SubSeq(s, 1, 3) # <<width, height, channels>>
  THEN Refused ELSE SubSeq(s, 4, Len(s))

-----------------------------------------------------------------------------
(* Numbers and runs.                                                        *)

\* buf_varint
varint(v) ==
  LET f[n \in Nat] == IF n < VarintBase THEN <<n>>
                      ELSE <<(n % VarintBase) + VarintBase>> \o f[n \div VarintBase]
  IN  f[v]

\* read_varint: the value and the place behind it, or nothing.
read_varint(s, from) ==
  LET ends == {k \in from..Len(s) : s[k] < VarintBase}
      last == Min(ends)
  IN  IF ends = {} THEN [ok |-> FALSE, value |-> 0, next |-> Len(s) + 1]
      ELSE [ok |-> TRUE, next |-> last + 1,
            value |-> MapThenSumSet(LAMBDA k : (s[k] % VarintBase) * VarintBase^(k - from), from..last)]

\* Length of the run at k of elements for which same holds.
RunAt(k, n, same(_)) == Min({j \in k..n + 1 : j = n + 1 \/ ~same(j)}) - k

\* rle_encode, and enc_irun, whose values are numbers, too.
Runs(s, value(_)) ==
  LET f[k \in 1..Len(s) + 1] ==
        IF k > Len(s) THEN <<>>
        ELSE LET run == RunAt(k, Len(s), LAMBDA j : s[j] = s[k])
             IN  varint(run - 1) \o value(s[k]) \o f[k + run]
  IN  f[1]

rle_encode(s) == Runs(s, LAMBDA v : <<v>>)

\* A loop that reads items until the end of s: item gives what to add and the
\* place behind it, or refuses.  More or less than expected is refused.
Unrun(s, expected, item(_, _)) ==
  LET f[k \in 0..Len(s)] ==
        IF k = 0 THEN [ok |-> TRUE, next |-> 1, got |-> <<>>]
        ELSE LET before == f[k - 1]
                 one == item(before.next, before.got)
             IN  IF ~before.ok \/ before.next > Len(s) THEN before
                 ELSE IF ~one.ok \/ Len(one.add) > expected - Len(before.got)
                 THEN [before EXCEPT !.ok = FALSE]
                 ELSE [ok |-> TRUE, next |-> one.next, got |-> before.got \o one.add]
      end == f[Len(s)]
  IN  IF end.ok /\ Len(end.got) = expected THEN end.got ELSE Refused

rle_decode(s, expected) ==
  Unrun(s, expected, LAMBDA from, got :
    LET run == read_varint(s, from)
    IN  IF ~run.ok \/ run.next > Len(s) THEN [ok |-> FALSE]
        ELSE [ok |-> TRUE, next |-> run.next + 1, add |-> [k \in 1..run.value + 1 |-> s[run.next]]])

-----------------------------------------------------------------------------
(* Filtered rows.                                                           *)

\* pae
Paeth(a, b, c) ==
  LET pa == Abs(b - c)
      pb == Abs(a - c)
      pc == Abs(a + b - 2 * c)
  IN  IF pa <= pb /\ pa <= pc THEN a ELSE IF pb <= pc THEN b ELSE c

pred(filter, left, up, upLeft) ==
  CASE filter = 0 -> 0
    [] filter = 1 -> left
    [] filter = 2 -> up
    [] filter = 3 -> (left + up) \div 2
    [] filter = 4 -> Paeth(left, up, upLeft)
    [] filter = 5 -> Max({0, Min({255, left + up - upLeft})})

\* What the sample at place k is predicted as from samples in rows of rowBytes.
Predicted(filter, s, k, rowBytes, bpp) ==
  LET first == (k - 1) % rowBytes < bpp
      top == k <= rowBytes
  IN  pred(filter, IF first THEN 0 ELSE s[k - bpp], IF top THEN 0 ELSE s[k - rowBytes],
           IF first \/ top THEN 0 ELSE s[k - rowBytes - bpp])

Places(y, rowBytes) == (y - 1) * rowBytes + 1..y * rowBytes

\* fscore
Score(filter, s, y, rowBytes, bpp) ==
  MapThenSumSet(LAMBDA k : LET r == (s[k] - Predicted(filter, s, k, rowBytes, bpp)) % 256
                           IN  IF r < 128 THEN r ELSE 256 - r, Places(y, rowBytes))

\* pick_f: the first of the filters with the least score.
pick_f(s, y, rowBytes, bpp, search) ==
  LET score == [f \in IF search >= 2 THEN 1..5 ELSE {1, 2, 5} |-> Score(f, s, y, rowBytes, bpp)]
      least == Min(Range(score))
  IN  IF search = 0 THEN IF y = 1 THEN 1 ELSE 5
      ELSE Min({f \in DOMAIN score : score[f] = least})

mk_frows(s, rowBytes, bpp, search) ==
  FlattenSeq([y \in 1..Len(s) \div rowBytes |->
    LET filter == pick_f(s, y, rowBytes, bpp, search)
    IN  <<filter>> \o [x \in 1..rowBytes |->
          LET k == (y - 1) * rowBytes + x IN (s[k] - Predicted(filter, s, k, rowBytes, bpp)) % 256]])

unf_rows(s, rowBytes, height, bpp) ==
  LET row(k) == (k - 1) \div rowBytes
      place(k) == k + row(k) + 1
      filter(k) == s[row(k) * (rowBytes + 1) + 1]
  IN  IF Len(s) # (rowBytes + 1) * height \/ \E k \in 1..rowBytes * height : filter(k) > 5 THEN Refused
      ELSE Grown(rowBytes * height, LAMBDA before, k :
             (s[place(k)] + Predicted(filter(k), before, k, rowBytes, bpp)) % 256)

-----------------------------------------------------------------------------
(* Images that are the sum of a row and a column.                           *)

Separable(kept) ==
  \A n \in Cells, c \in Range(kept) :
    (Colour(Column(n) + 1)[c] + Colour(n - Column(n))[c] - Colour(1)[c]) % 256 = Colour(n)[c]

\* mk_sep: the first row, then the first column without its first pixel.
Edges == [k \in 1..W + shape.h - 1 |-> IF k <= W THEN k ELSE (k - W) * W + 1]
mk_sep(kept) == FlattenSeq([k \in DOMAIN Edges |-> Samples(Colour(Edges[k]), kept, 0)])

\* mk_sepd: each but the first without the one before it on its edge.
Before(k) == IF k = W + 1 THEN 1 ELSE k - 1
mk_sepd(s, bpp) ==
  [j \in 1..Len(s) |->
    LET k == (j - 1) \div bpp + 1
    IN  IF k = 1 THEN s[j] ELSE (s[j] - s[(Before(k) - 1) * bpp + ((j - 1) % bpp) + 1]) % 256]

dec_sep(s, bpp, delta) ==
  LET table == IF ~delta THEN s
               ELSE Grown(Len(s), LAMBDA before, j :
                      LET k == (j - 1) \div bpp + 1
                      IN  IF k = 1 THEN s[j]
                          ELSE (before[(Before(k) - 1) * bpp + ((j - 1) % bpp) + 1] + s[j]) % 256)
      at_edge(k, c) == table[(k - 1) * bpp + c]
  IN  IF Len(s) # (W + shape.h - 1) * bpp THEN Refused
      ELSE samp_rgba(FlattenSeq([n \in Cells |-> [c \in 1..bpp |->
             (at_edge(Column(n) + 1, c) + at_edge(IF Row(n) = 0 THEN 1 ELSE W + Row(n), c)
               - at_edge(1, c)) % 256]]), bpp, 0)

-----------------------------------------------------------------------------
(* Planes of blue, red and green without blue, and alpha.                   *)

\* med_predict8, and planar_med_step: at the edges the sample before it.
Med(s, n) ==
  LET a == s[n - 1]
      b == s[n - W]
      c == s[n - W - 1]
  IN  IF n = 1 THEN 0 ELSE IF Row(n) = 0 THEN s[n - 1] ELSE IF Column(n) = 0 THEN s[n - W]
      ELSE IF c >= Max({a, b}) THEN Min({a, b}) ELSE IF c <= Min({a, b}) THEN Max({a, b}) ELSE a + b - c

PlaneSamples(p, channels) ==
  <<p[3], (p[1] - p[3]) % 256, (p[2] - p[3]) % 256>> \o IF channels = 4 THEN <<p[4]>> ELSE <<>>

make_planar_med_payload(channels) ==
  FlattenSeq([c \in 1..channels |->
    LET s == [n \in Cells |-> PlaneSamples(Colour(n), channels)[c]]
    IN  [n \in Cells |-> (s[n] - Med(s, n)) % 256]])

planar_med_rgba(s, channels) ==
  LET of(c) == Grown(Size, LAMBDA before, n : (s[(c - 1) * Size + n] + Med(before, n)) % 256)
      blue == of(1)
      red == of(2)
      green == of(3)
      alpha == IF channels = 4 THEN of(4) ELSE [n \in Cells |-> 255]
  IN  IF Len(s) # Size * channels THEN Refused
      ELSE [n \in Cells |-> <<(blue[n] + red[n]) % 256, (blue[n] + green[n]) % 256, blue[n], alpha[n]>>]

-----------------------------------------------------------------------------
(* Gray: a slope in each direction, a periodic pattern, and residuals.      *)

Gray(n) == Colour(n)[1]
Circle(d) == IF d % 256 > 128 THEN 256 - (d % 256) ELSE d % 256
Slopes == 0..255

\* gmodel_slope: the first slope with the least distance, of pixels p apart.
gmodel_slope(p, vertical) ==
  LET step == IF vertical THEN p * W ELSE p
      pairs == {n \in Cells : IF vertical THEN Row(n) + p < shape.h ELSE Column(n) + p < W}
      cost == [a \in Slopes |-> MapThenSumSet(LAMBDA n : Circle(Gray(n + step) - Gray(n) - a * p), pairs)]
      least == Min(Range(cost))
  IN  IF pairs = {} THEN 0 ELSE Min({a \in Slopes : cost[a] = least})

\* The first of the values that occurs most often.
Commonest(cells, value(_)) ==
  LET count(v) == Cardinality({n \in cells : value(n) = v})
      values == {value(n) : n \in cells}
  IN  IF cells = {} THEN 0
      ELSE Min({v \in values : \A other \in values : count(other) <= count(v)})

Phase(n, p) == (Row(n) % p) * p + (Column(n) % p)
Unsloped(n, a, b) == (Gray(n) - a * Column(n) - b * Row(n)) % 256
gmodel_phase(p, a, b) ==
  [k \in 1..p * p |-> Commonest({n \in Cells : Phase(n, p) = k - 1}, LAMBDA n : Unsloped(n, a, b))]

gmodel_matches(p, a, b) ==
  Cardinality({n \in Cells : Unsloped(n, a, b) = gmodel_phase(p, a, b)[Phase(n, p) + 1]})

\* Blocks of bl by bl, and the pixels in their order.
BlocksAcross(bl) == (W + bl - 1) \div bl
BlockOf(n, bl) == (Row(n) \div bl) * BlocksAcross(bl) + Column(n) \div bl
BlockCount(bl) == IF bl = 0 THEN 0 ELSE BlocksAcross(bl) * ((shape.h + bl - 1) \div bl)
ByBlock(bl) ==
  IF bl = 0 THEN [n \in Cells |-> n]
  ELSE InOrder(Cells, LAMBDA m, n :
         BlockOf(m, bl) < BlockOf(n, bl) \/ (BlockOf(m, bl) = BlockOf(n, bl) /\ m < n))

gmodel_payload(p, bl, a, b) ==
  LET phase == gmodel_phase(p, a, b)
      res == [n \in Cells |-> (Unsloped(n, a, b) - phase[Phase(n, p) + 1]) % 256]
      common == [k \in 1..BlockCount(bl) |->
                  Commonest({n \in Cells : BlockOf(n, bl) = k - 1}, LAMBDA n : res[n])]
      order == ByBlock(bl)
  IN  <<p, bl, a, b>> \o phase \o common
        \o [k \in Cells |-> IF bl = 0 THEN res[k]
                            ELSE (res[order[k]] - common[BlockOf(order[k], bl) + 1]) % 256]

\* try_gmodel: the period that fits the most pixels, nine in ten of them.
try_gmodel ==
  LET fit == [p \in Periods |-> gmodel_matches(p, gmodel_slope(p, FALSE), gmodel_slope(p, TRUE))]
  IN  {p \in Periods : 10 * fit[p] >= 9 * Size /\ \A other \in Periods : fit[other] <= fit[p]}

dec_gmodel(s) ==
  LET p == s[1]
      bl == s[2]
      at_block == 4 + p * p
      order == ByBlock(bl)
      place == [n \in Cells |-> CHOOSE k \in Cells : order[k] = n]
      level(n) == s[3] * Column(n) + s[4] * Row(n) + s[4 + Phase(n, p) + 1]
                    + (IF bl = 0 THEN 0 ELSE s[at_block + BlockOf(n, bl) + 1])
                    + s[at_block + BlockCount(bl) + place[n]]
  IN  IF Len(s) < 4 \/ p \notin Periods \/ bl \notin Blocks
         \/ Len(s) # at_block + BlockCount(bl) + Size THEN Refused
      ELSE [n \in Cells |-> <<level(n) % 256, level(n) % 256, level(n) % 256, 255>>]
=============================================================================
