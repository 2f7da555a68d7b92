--------------------------- MODULE BlockPayloads ---------------------------
(***************************************************************************)
(* The payloads of qlic.c that cut an image into blocks (MODE_BLOCKS).     *)
(* QBL1 and QBR1 write each block as the cheapest of a few patterns or as  *)
(* a copy of another block.  QBL2, QPD1 and QCF1 send how each region is   *)
(* predicted, and a stream of residuals; QCF1 sends only weights and takes *)
(* the rest from the border of what is decoded.                            *)
(*                                                                         *)
(* Scores decide how a region is predicted.  Here it is any of Plans: the  *)
(* decoder must follow whatever was chosen.                                *)
(***************************************************************************)
EXTENDS PalettePayloads

CONSTANTS
  BlockLog,    \* logarithm of the size of blocks: 4 for BLK_SIZE
  RegionLog,   \* of regions: 6 for PDM_SIZE and CF_SIZE
  Plans,       \* sequences of predictions, taken in turn by the blocks of QBL2
  Mixes        \* weights of mixed predictions, taken in turn

ASSUME BlockAssumption ==
  /\ BlockLog \in Nat /\ RegionLog \in Nat
  /\ \A p \in Plans : p # <<>> /\ Range(p) \subseteq 0..6
  /\ Mixes # <<>> /\ \A m \in Range(Mixes) : m \in [0..4 -> 0..15]

\* The channels of MODE_BLOCKS: gray with alpha is sent as four.
BlockKept == IF Len(Kept) = 2 THEN <<1, 2, 3, 4>> ELSE Kept
Sent == Each(Size, LAMBDA n : Samples(Colour(n), BlockKept, 0))

\* Regions row by row, with their pixels row by row.
Regions(log) ==
  LET tiles == TilePixels(log)
  IN  Each(Len(tiles), LAMBDA b :
        [x |-> Column(tiles[b][1]), y |-> Row(tiles[b][1]), cells |-> tiles[b],
         w |-> Column(Last(tiles[b])) - Column(tiles[b][1]) + 1,
         h |-> Row(Last(tiles[b])) - Row(tiles[b][1]) + 1])

\* The first has no region at its left, or above it.
Inside(r, way) == CASE way = "left" -> r.x > 0 [] way = "up" -> r.y > 0
Behind(way, size) == CASE way = "left" -> size [] way = "up" -> size * W
Content(f, r) == Each(Len(r.cells), LAMBDA k : f[r.cells[k]])
Copied(f, r, back) == Each(Len(r.cells), LAMBDA k : f[r.cells[k] - back])

-----------------------------------------------------------------------------
(* QBL1 and QBR1.                                                           *)

blk_bits(n) == CHOOSE b \in 0..4 : n <= 2^b /\ \A a \in 0..b - 1 : n > 2^a

\* blk_colors, blk_patterns: values in the order they are met.
Met(s) ==
  LET news == {k \in DOMAIN s : \A j \in 1..k - 1 : s[j] # s[k]}
  IN  LET ks == InOrder(news, LAMBDA a, b : a < b) IN [k \in DOMAIN ks |-> s[ks[k]]]

\* Squares of two by two pixels; at an odd edge the last pixel is taken twice.
PatternAt(f, r, k) ==
  LET across == (r.w + 1) \div 2
      x0 == 2 * ((k - 1) % across)
      y0 == 2 * ((k - 1) \div across)
      pixel(x, y) == f[r.cells[Min({y, r.h - 1}) * r.w + Min({x, r.w - 1}) + 1]]
  IN  pixel(x0, y0) \o pixel(x0 + 1, y0) \o pixel(x0, y0 + 1) \o pixel(x0 + 1, y0 + 1)
Patterns(f, r) == [k \in 1..((r.w + 1) \div 2) * ((r.h + 1) \div 2) |-> PatternAt(f, r, k)]

\* blk_write_two, blk_write_four, blk_write_pat: a table and numbers into it.
Listed(op, s) ==
  LET table == Met(s)
      ids == [k \in DOMAIN s |-> (CHOOSE j \in DOMAIN table : table[j] = s[k]) - 1]
  IN  <<op>> \o (IF op = 4 THEN <<>> ELSE <<Len(table)>>) \o FlattenSeq(table)
        \o pack_row(ids, blk_bits(Len(table)))

\* blk_write_one: a copy before a flat block, then what is shorter.  The size
\* of the patterns is not compared with that of the reference.
blk_write_one(f, r, distance) ==
  LET size == 2^BlockLog
      px == Content(f, r)
      repeats(way) == Inside(r, way) /\ px = Copied(f, r, Behind(way, size))
      plain == IF repeats("up") THEN <<3>> ELSE IF repeats("left") THEN <<2>>
               ELSE IF Len(Met(px)) = 1 THEN <<1>> \o px[1] ELSE <<0>> \o FlattenSeq(px)
      colours == IF Len(Met(px)) = 2 THEN Listed(4, px) ELSE IF Len(Met(px)) \in 3..4 THEN Listed(5, px)
                 ELSE plain
      best == IF Len(colours) < Len(plain) THEN colours ELSE plain
      patterns == Patterns(f, r)
      reference == <<7>> \o varint(distance)
  IN  IF distance > 0 /\ Len(reference) < Len(best) THEN reference
      ELSE IF Len(Met(patterns)) \in 2..16 /\ Len(Listed(6, patterns)) < Len(best) THEN Listed(6, patterns)
      ELSE best

\* blk_refs_find: the last equal block, unless the table has lost it.
Distance(f, regions, b) ==
  LET equal == {a \in 1..b - 1 : /\ regions[a].w = regions[b].w
                                 /\ Content(f, regions[a]) = Content(f, regions[b])}
  IN  IF equal = {} THEN 0 ELSE b - Max(equal)

mk_blocks(remembered) ==
  LET file(written) ==
        <<IF \E b \in DOMAIN written : written[b][1] = 7 THEN "QBR1" ELSE "QBL1", 2^BlockLog, Len(BlockKept)>>
          \o FlattenSeq(written)
      blocks(f, regions) ==
        Each(Len(regions), LAMBDA b :
          blk_write_one(f, regions[b], IF remembered THEN Distance(f, regions, b) ELSE 0))
  IN  file(blocks(Sent, Regions(BlockLog)))

\* br_color and br_bits: count entries of size bytes, then n numbers of them.
Looked(s, from, count, size, n) ==
  LET bits == blk_bits(count)
      next == from + count * size + row_pack(n, bits)
      packed == SubSeq(s, from + count * size, next - 1)
      ids == [k \in 1..n |-> unpack_i(packed, k - 1, bits)]
  IN  IF next - 1 > Len(s) THEN [ok |-> FALSE]
      ELSE IF \E k \in 1..n : ids[k] >= count THEN [ok |-> FALSE]
      ELSE [ok |-> TRUE, next |-> next, px |-> [k \in 1..n |-> Slice(s, from + ids[k] * size, size)]]

\* Mutant: the four pixels of a pattern are laid out by columns.
UnpatternedByColumn(r, patterns, ch) ==
  LET across == (r.w + 1) \div 2
  IN  [k \in DOMAIN r.cells |->
        LET x == (k - 1) % r.w
            y == (k - 1) \div r.w
        IN  Slice(patterns[(y \div 2) * across + (x \div 2) + 1], ((x % 2) * 2 + (y % 2)) * ch + 1, ch)]

\* dec_pat_block: the pixels of r from its patterns.
Unpatterned(r, patterns, ch) ==
  LET across == (r.w + 1) \div 2
  IN  [k \in DOMAIN r.cells |->
        LET x == (k - 1) % r.w
            y == (k - 1) \div r.w
        IN  Slice(patterns[(y \div 2) * across + (x \div 2) + 1], ((y % 2) * 2 + (x % 2)) * ch + 1, ch)]

\* One block of dec_blocks from s at from; got has the pixels before it.
BlockRead(s, from, got, regions, b, ch) ==
  LET r == regions[b]
      size == 2^BlockLog
      area == Len(r.cells)
      bad == [ok |-> FALSE]
      op == s[from]
      copy(back, next) == [ok |-> TRUE, next |-> next, px |-> Copied(got, r, back)]
      count == IF from < Len(s) THEN s[from + 1] ELSE 0
      distance == read_varint(s, from + 1)
      patterns == Looked(s, from + 2, count, 4 * ch, ((r.w + 1) \div 2) * ((r.h + 1) \div 2))
  IN  IF from > Len(s) THEN bad
      ELSE CASE op = 0 -> IF from + area * ch > Len(s) THEN bad
                          ELSE [ok |-> TRUE, next |-> from + area * ch + 1,
                                px |-> [k \in 1..area |-> Slice(s, from + (k - 1) * ch + 1, ch)]]
             [] op = 1 -> IF from + ch > Len(s) THEN bad
                          ELSE [ok |-> TRUE, next |-> from + ch + 1,
                                px |-> [k \in 1..area |-> Slice(s, from + 1, ch)]]
             [] op = 2 -> IF r.x < size THEN bad ELSE copy(size, from + 1)
             [] op = 3 -> IF r.y < size THEN bad ELSE copy(size * W, from + 1)
             [] op = 4 -> Looked(s, from + 1, 2, ch, area)
             [] op = 5 -> IF count \notin 3..4 THEN bad ELSE Looked(s, from + 2, count, ch, area)
             [] op = 6 -> IF count \notin 2..16 THEN bad
                          ELSE IF ~patterns.ok THEN bad
                          ELSE [patterns EXCEPT !.px = Unpatterned(r, patterns.px, ch)]
             [] op = 7 /\ s[1] = "QBR1" ->
                  IF ~distance.ok \/ distance.value \notin 1..b - 1 THEN bad
                  ELSE LET source == regions[b - distance.value]
                       IN  IF source.x > W - r.w \/ source.y > shape.h - r.h THEN bad
                           ELSE copy(r.cells[1] - source.cells[1], distance.next)
             [] OTHER -> bad

\* The pixels of a region in those that are there.
With(got, r, px) ==
  Each(Size, LAMBDA n : LET is == {k \in DOMAIN r.cells : r.cells[k] = n}
                        IN  IF is = {} THEN got[n] ELSE px[CHOOSE k \in is : TRUE])
Nothing == Each(Size, LAMBDA n : <<>>)
Garbage == <<-1, -1, -1, -1>>    \* memory before anything is decoded into it

dec_block_ops(s) ==
  LET then(before, r, one) ==
        IF ~before.ok THEN before
        ELSE IF ~one.ok THEN [before EXCEPT !.ok = FALSE]
        ELSE [ok |-> TRUE, next |-> one.next, got |-> With(before.got, r, one.px)]
      blocks(regions) ==
        LET f[b \in 0..Len(regions)] ==
              IF b = 0 THEN [ok |-> TRUE, next |-> 4, got |-> Nothing]
              ELSE LET before == f[b - 1]
                   IN  then(before, regions[b], BlockRead(s, before.next, before.got, regions, b, s[3]))
        IN  f[Len(regions)]
      taken(end) ==
        IF ~end.ok \/ end.next # Len(s) + 1 THEN Refused ELSE samp_rgba(FlattenSeq(end.got), s[3], 0)
  IN  taken(blocks(Regions(BlockLog)))

-----------------------------------------------------------------------------
(* Predictions of regions.                                                  *)

u8_sat(v) == Max({0, Min({255, v})})
s8_val(v) == IF v < 128 THEN v ELSE v - 256

fold_delta(d) ==
  LET e == IF d > 127 THEN d - 256 ELSE IF d < -128 THEN d + 256 ELSE d
  IN  IF e >= 0 THEN 2 * e ELSE -2 * e - 1
unfold_delta(v) == IF v % 2 = 1 THEN -((v + 1) \div 2) ELSE v \div 2

\* blk2_causal_img, blk2_causal_buf
blk2_causal(f, n, c) ==
  LET w == IF Column(n) > 0 THEN f[n - 1][c] ELSE f[n - W][c]
      up == IF Row(n) > 0 THEN f[n - W][c] ELSE w
      upLeft == IF Column(n) > 0 /\ Row(n) > 0 THEN f[n - W - 1][c] ELSE up
  IN  IF n = 1 THEN 0 ELSE Paeth(w, up, upLeft)

\* blk2_linear_img, blk2_linear_buf
blk2_linear(f, n, c) ==
  IF Column(n) = 0 \/ Row(n) = 0 THEN blk2_causal(f, n, c)
  ELSE u8_sat(f[n - 1][c] + f[n - W][c] - f[n - W - 1][c])

\* blk2_grad: between the corners q of r, on both axes that have a length.
Between(a, b, k, d) == IF d = 0 THEN a ELSE (a * (d - k) + b * k + (d \div 2)) \div d
blk2_grad(q, r, n) ==
  LET x == Column(n) - r.x
      y == Row(n) - r.y
  IN  Between(Between(q[1], q[2], x, r.w - 1), Between(q[3], q[4], x, r.w - 1), y, r.h - 1)

\* A region away, with what was added to it.
Shifted(f, r, n, c, way, size, by) == u8_sat(f[n - Behind(way, size)][c] + s8_val(by))

pdm_q(par, i) == (par[(i \div 2) + 1] \div 16^(i % 2)) % 16
pdm_lerp(a, b, q) == (a * (15 - q) + b * q + 7) \div 15
pdm_pack(m) == <<m[0] + 16 * m[1], m[2] + 16 * m[3], m[4]>>

\* pdm_pred_img, pdm_pred_buf
pdm_pred(f, r, size, n, c, ch, par) ==
  LET causal == blk2_causal(f, n, c)
      side(way, place) == IF Inside(r, way) THEN Shifted(f, r, n, c, way, size, par[place]) ELSE causal
      axis == pdm_lerp(side("up", 3 + 6 * ch + c), side("left", 3 + 5 * ch + c), pdm_q(par, 1))
      edge == pdm_lerp(causal, blk2_linear(f, n, c), pdm_q(par, 4))
      block == pdm_lerp(par[3 + c], blk2_grad(Slice(par, 3 + ch + 4 * c - 3, 4), r, n), pdm_q(par, 2))
  IN  pdm_lerp(pdm_lerp(axis, edge, pdm_q(par, 3)), block, pdm_q(par, 0))

\* blk2_pred_img, blk2_pred_buf
blk2_pred(f, r, n, c, ch, op, par) ==
  CASE op = 0 -> 0
    [] op = 1 -> par[c]
    [] op = 2 -> blk2_grad(Slice(par, 4 * c - 3, 4), r, n)
    [] op = 3 -> Shifted(f, r, n, c, "left", 2^BlockLog, par[c])
    [] op = 4 -> Shifted(f, r, n, c, "up", 2^BlockLog, par[c])
    [] op = 5 -> blk2_causal(f, n, c)
    [] op = 6 -> pdm_pred(f, r, 2^BlockLog, n, c, ch, par)

blk2_parn(op, ch) ==
  CASE op \in {1, 3, 4} -> ch [] op = 2 -> 4 * ch [] op = 6 -> 3 + 7 * ch [] op \in {0, 5} -> 0

-----------------------------------------------------------------------------
(* Parameters, from the image.                                              *)

Mean(f, cells, c) ==
  (MapThenSumSet(LAMBDA n : f[n][c], cells) + (Cardinality(cells) \div 2)) \div Cardinality(cells)
Rounded(sum, n) == IF sum >= 0 THEN (sum + (n \div 2)) \div n ELSE -((-sum + (n \div 2)) \div n)

blk2_flat_params(f, r, ch) == [c \in 1..ch |-> Mean(f, Range(r.cells), c)]
blk2_grad_params(f, r, ch) ==
  LET corners == <<r.cells[1], r.cells[r.w], r.cells[(r.h - 1) * r.w + 1], Last(r.cells)>>
  IN  FlattenSeq([c \in 1..ch |-> [k \in 1..4 |-> f[corners[k]][c]]])
blk2_delta_params(f, r, ch, back) ==
  [c \in 1..ch |->
    LET near(n) == LET d == f[n][c] - f[n - back][c] IN IF d > 128 THEN d - 256 ELSE IF d < -128 THEN d + 256 ELSE d
        v == Rounded(MapThenSumSet(near, Range(r.cells)), Len(r.cells))
    IN  Max({-128, Min({127, v})}) % 256]

\* pdm_params_step: what the predictions that are mixed need.
pdm_params(f, r, ch, size, mix) ==
  LET added(way) == IF Inside(r, way) THEN blk2_delta_params(f, r, ch, Behind(way, size)) ELSE [c \in 1..ch |-> 0]
  IN  pdm_pack(mix) \o blk2_flat_params(f, r, ch) \o blk2_grad_params(f, r, ch) \o added("left") \o added("up")

\* cf_base_img, cf_base_buf: flat and corners from the border, nothing added.
cf_base(f, r, ch, coord) ==
  LET top == {r.cells[1] + k - W : k \in 0..r.w - 1}
      side == {r.cells[1] + k * W - 1 : k \in 0..r.h - 1}
      border == (IF r.y > 0 THEN top ELSE {}) \cup (IF r.x > 0 THEN side ELSE {})
      flat == Each(ch, LAMBDA c : IF border = {} THEN 0 ELSE Mean(f, border, c))
      corners(c) ==
        LET tl == IF r.x > 0 /\ r.y > 0 THEN f[r.cells[1] - W - 1][c] ELSE flat[c]
            tr == IF r.y > 0 THEN f[r.cells[r.w] - W][c] ELSE flat[c]
            bl == IF r.x > 0 THEN f[r.cells[(r.h - 1) * r.w + 1] - 1][c] ELSE flat[c]
        IN  <<tl, tr, bl, u8_sat(tr + bl - tl)>>
  IN  coord \o flat \o FlattenSeq([c \in 1..ch |-> corners(c)]) \o [k \in 1..2 * ch |-> 0]

\* The weights of region b.
Mix(b) == Mixes[((b - 1) % Len(Mixes)) + 1]

\* blk2_choose: one of the predictions the place of the block allows.
blk2_choose(f, r, b, plan, ch) ==
  LET planned == plan[((b - 1) % Len(plan)) + 1]
      op == IF (planned = 3 /\ r.x = 0) \/ (planned = 4 /\ r.y = 0) THEN 5 ELSE planned
  IN  <<op>> \o
      CASE op = 1 -> blk2_flat_params(f, r, ch)
        [] op = 2 -> blk2_grad_params(f, r, ch)
        [] op = 3 -> blk2_delta_params(f, r, ch, 2^BlockLog)
        [] op = 4 -> blk2_delta_params(f, r, ch, 2^BlockLog * W)
        [] op = 6 -> pdm_params(f, r, ch, 2^BlockLog, Mix(b))
        [] OTHER -> <<>>

-----------------------------------------------------------------------------
(* QBL2, QPD1 and QCF1.                                                     *)

\* finish_region_payload, and the residuals of the image: by(f, b, n, c)
\* predicts a sample of region b.
RegionPayload(magic, log, regions, table, by(_, _, _, _)) ==
  LET ch == Len(BlockKept)
      f == Sent
      region == Each(Size, LAMBDA n : CHOOSE b \in DOMAIN regions : n \in Range(regions[b].cells))
      residuals == FlattenSeq([n \in Cells |-> [c \in 1..ch |-> fold_delta(f[n][c] - by(f, region[n], n, c))]])
  IN  <<magic, 2^log, ch, Len(table)>> \o table \o stream_encode(W, shape.h, ch, residuals)

\* The loops of the three decoders: regions in turn, each sample from what is
\* decoded.
Rebuilt(regions, residuals, ch, by(_, _, _, _)) ==
  LET order == FlattenSeq([b \in DOMAIN regions |-> FlattenSeq([k \in DOMAIN regions[b].cells |->
                 [c \in 1..ch |-> <<b, regions[b].cells[k], c>>]])])
      f[k \in 0..Len(order)] ==
        IF k = 0 THEN Each(Size, LAMBDA n : SubSeq(Garbage, 1, ch))
        ELSE LET before == f[k - 1]
                 b == order[k][1]
                 n == order[k][2]
                 c == order[k][3]
             IN  [before EXCEPT ![n][c] =
                   (by(before, b, n, c) + unfold_delta(residuals[(n - 1) * ch + c])) % 256]
  IN  samp_rgba(FlattenSeq(f[Len(order)]), ch, 0)

mk_blocks2(plan) ==
  LET regions == Regions(BlockLog)
      ch == Len(BlockKept)
      chosen == Each(Len(regions), LAMBDA b : blk2_choose(Sent, regions[b], b, plan, ch))
  IN  RegionPayload("QBL2", BlockLog, regions, FlattenSeq(chosen), LAMBDA f, b, n, c :
        blk2_pred(f, regions[b], n, c, ch, chosen[b][1], Tail(chosen[b])))

mk_pdm_regions ==
  LET regions == Regions(RegionLog)
      ch == Len(BlockKept)
      par == Each(Len(regions), LAMBDA b : pdm_params(Sent, regions[b], ch, 2^RegionLog, Mix(b)))
  IN  RegionPayload("QPD1", RegionLog, regions, FlattenSeq(par), LAMBDA f, b, n, c :
        pdm_pred(f, regions[b], 2^RegionLog, n, c, ch, par[b]))

mk_cf_regions ==
  LET regions == Regions(RegionLog)
      ch == Len(BlockKept)
      coord == [b \in DOMAIN regions |-> pdm_pack(Mix(b))]
  IN  RegionPayload("QCF1", RegionLog, regions, FlattenSeq(coord), LAMBDA f, b, n, c :
        pdm_pred(f, regions[b], 2^RegionLog, n, c, ch, cf_base(f, regions[b], ch, coord[b])))

\* The table of QBL2: where the parameters of each region begin, or nothing.
blk2_table(table, regions, ch) ==
  LET f[b \in 0..Len(regions)] ==
        IF b = 0 THEN [ok |-> TRUE, next |-> 1, at |-> <<>>]
        ELSE LET before == f[b - 1]
                 op == IF before.next <= Len(table) THEN table[before.next] ELSE 7
                 r == regions[b]
             IN  IF ~before.ok THEN before
                 ELSE IF op > 6 \/ (op = 3 /\ r.x = 0) \/ (op = 4 /\ r.y = 0) THEN [before EXCEPT !.ok = FALSE]
                 ELSE [ok |-> before.next + blk2_parn(op, ch) <= Len(table),
                       next |-> before.next + blk2_parn(op, ch) + 1, at |-> Append(before.at, before.next)]
  IN  [f[Len(regions)] EXCEPT !.ok = @ /\ f[Len(regions)].next = Len(table) + 1]

dec_blocks2(table, regions, residuals, ch) ==
  LET ops == blk2_table(table, regions, ch)
  IN  IF ~ops.ok THEN Refused
      ELSE Rebuilt(regions, residuals, ch, LAMBDA f, b, n, c :
             LET op == table[ops.at[b]]
             IN  blk2_pred(f, regions[b], n, c, ch, op, Slice(table, ops.at[b] + 1, blk2_parn(op, ch))))

dec_pdm_regions(table, regions, residuals, ch) ==
  LET parn == blk2_parn(6, ch)
  IN  IF Len(table) # parn * Len(regions) THEN Refused
      ELSE Rebuilt(regions, residuals, ch, LAMBDA f, b, n, c :
             pdm_pred(f, regions[b], 2^RegionLog, n, c, ch, Slice(table, (b - 1) * parn + 1, parn)))

dec_cf_regions(table, regions, residuals, ch) ==
  IF Len(table) # 3 * Len(regions) THEN Refused
  ELSE Rebuilt(regions, residuals, ch, LAMBDA f, b, n, c :
         pdm_pred(f, regions[b], 2^RegionLog, n, c, ch,
                  cf_base(f, regions[b], ch, Slice(table, 3 * b - 2, 3))))

\* dec_blocks: the coder is named by the first bytes.
dec_blocks(s) ==
  LET log == IF s[1] \in {"QCF1", "QPD1"} THEN RegionLog ELSE BlockLog
      ch == s[3]
      table == Slice(s, 5, s[4])
      stream == SubSeq(s, 5 + s[4], Len(s))
      residuals == stream_decode(stream, W, shape.h, ch)
      regions == Regions(log)
  IN  IF Len(s) < 4 \/ s[2] # 2^log \/ ch \notin {1, 3, 4} THEN Refused
      ELSE IF s[1] \in {"QBL1", "QBR1"} THEN dec_block_ops(s)
      ELSE IF 4 + s[4] > Len(s) \/ residuals = Refused THEN Refused
      ELSE CASE s[1] = "QCF1" -> dec_cf_regions(table, regions, residuals, ch)
             [] s[1] = "QPD1" -> dec_pdm_regions(table, regions, residuals, ch)
             [] s[1] = "QBL2" -> dec_blocks2(table, regions, residuals, ch)
=============================================================================
