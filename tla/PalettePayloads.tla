-------------------------- MODULE PalettePayloads --------------------------
(***************************************************************************)
(* The payloads of qlic.c that name colours by their place in a palette:   *)
(* packed indices, runs, references to neighbours, and the modes that keep *)
(* the palette inside the payload, for the whole image or for each tile.   *)
(* A palette is a sequence of colours, an index counts from 0.             *)
(***************************************************************************)
EXTENDS PixelPayloads

CONSTANTS
  SmallPalette,  \* colours of a palette whose indices fit a byte, 256 in the code
  IdByte,        \* values of a byte of a 16-bit index, 256 in the code
  HotColours,    \* colours whose run takes a short number, 128 in the code
  TileLogs       \* logarithms of tile sizes, 3 to 6 in the code

ASSUME PaletteAssumption ==
  {SmallPalette, IdByte, HotColours} \subseteq Nat \ {0} /\ TileLogs \subseteq Nat

Used == {Colour(n) : n \in Cells}
Index(palette) == [n \in Cells |-> (CHOOSE k \in DOMAIN palette : palette[k] = Colour(n)) - 1]

\* pal_sort_cmp
Lexical(p, q) == \E c \in 1..4 : p[c] < q[c] /\ \A d \in 1..c - 1 : p[d] = q[d]
mk_pal == InOrder(Used, Lexical)

\* sort_palette_map_by_hot_runs: the colours that begin the most runs first.
RunCount(p) == Cardinality({n \in Cells : Colour(n) = p /\ (n = 1 \/ Colour(n - 1) # p)})
Hotter(p, q) == RunCount(p) > RunCount(q) \/ (RunCount(p) = RunCount(q) /\ Lexical(p, q))
hot_pal ==
  LET hot == {p \in Used : Cardinality({q \in Used : Hotter(q, p)}) < HotColours}
  IN  InOrder(hot, Lexical) \o InOrder(Used \ hot, Lexical)

\* tile_palette_sort_cmp: the most frequent colours first.
Frequency(p) == Cardinality({n \in Cells : Colour(n) = p})
frequency_pal ==
  InOrder(Used, LAMBDA p, q : Frequency(p) > Frequency(q)
                                   \/ (Frequency(p) = Frequency(q) /\ Lexical(p, q)))

-----------------------------------------------------------------------------
(* Packed indices, least significant bit first.                             *)

pal_bits(count) ==
  Min({b \in {1, 2, 4, 8} : count <= 2^b} \cup {b \in 9..16 : count <= 2^b})

BitOf(v, j) == (v \div 2^j) % 2
row_pack(width, bits) == (width * bits + 7) \div 8

pack_row(ids, bits) ==
  [k \in 1..row_pack(Len(ids), bits) |->
    MapThenSumSet(LAMBDA j :
        LET q == 8 * (k - 1) + j
        IN  IF q \div bits < Len(ids) THEN BitOf(ids[(q \div bits) + 1], q % bits) * 2^j ELSE 0,
      0..7)]

unpack_i(bytes, x, bits) ==
  MapThenSumSet(LAMBDA j : LET q == x * bits + j IN BitOf(bytes[(q \div 8) + 1], q % 8) * 2^j, 0..bits - 1)

Packed(ids, bits) == FlattenSeq([y \in 1..shape.h |-> pack_row(Slice(ids, (y - 1) * W + 1, W), bits)])

\* samp_rgba for MODE_PALETTE.
Coloured(ids, palette) ==
  IF Len(ids) # Size \/ \E n \in DOMAIN ids : ids[n] >= Len(palette) THEN Refused
  ELSE [n \in Cells |-> palette[ids[n] + 1]]

Unpacked(s, bits, palette) ==
  LET rowBytes == row_pack(W, bits)
  IN  IF Len(s) # rowBytes * shape.h THEN Refused
      ELSE Coloured([n \in Cells |-> unpack_i(Slice(s, Row(n) * rowBytes + 1, rowBytes), Column(n), bits)],
                    palette)

\* The bytes a row of samples, or of packed indices, is predicted from.
predictor_bpp(bits) == IF bits = 16 THEN 2 ELSE 1

-----------------------------------------------------------------------------
(* Runs, and references to neighbours.                                      *)

enc_irun(ids) == Runs(ids, varint)

dec_irun(s, palette) ==
  Coloured(
    Unrun(s, Size, LAMBDA from, got :
      LET run == read_varint(s, from)
          id == read_varint(s, run.next)
      IN  IF ~run.ok \/ ~id.ok THEN [ok |-> FALSE]
          ELSE [ok |-> TRUE, next |-> id.next, add |-> [k \in 1..run.value + 1 |-> id.value]]),
    palette)

\* The three neighbours an index can repeat: left, above, above left.
Back(op) == CASE op = 0 -> 1 [] op = 1 -> W [] op = 2 -> W + 1
InPlane(op, n) == (op \in {0, 2} => Column(n) > 0) /\ (op \in {1, 2} => Row(n) > 0)
Repeats(op, ids, n) == InPlane(op, n) /\ ids[n] = ids[n - Back(op)]

enc_ppal(ids) ==
  LET f[n \in 1..Size + 1] ==
        LET ops == {op \in 0..2 : Repeats(op, ids, n)}
            run == RunAt(n, Size, LAMBDA j : Repeats(Min(ops), ids, j))
        IN  IF n > Size THEN <<>>
            ELSE IF ops = {} THEN <<3>> \o varint(ids[n]) \o f[n + 1]
            ELSE <<Min(ops)>> \o varint(run - 1) \o f[n + run]
  IN  f[1]

dec_ppal(s, palette) ==
  Coloured(
    Unrun(s, Size, LAMBDA from, got :
      LET op == s[from]
          number == read_varint(s, from + 1)
          first == Len(got) + 1
          reaches(k) == LET f[j \in 0..k] ==
                              IF j = 0 THEN got ELSE LET b == f[j - 1] IN Append(b, b[Len(b) + 1 - Back(op)])
                        IN  SubSeq(f[k], first, Len(got) + k)
      IN  IF op > 3 \/ ~number.ok \/ (op = 3 /\ number.value >= Len(palette)) THEN [ok |-> FALSE]
          ELSE IF op = 3 THEN [ok |-> TRUE, next |-> number.next, add |-> <<number.value>>]
          ELSE IF number.value + 1 > Size - Len(got)
                  \/ \E n \in first..first + number.value : ~InPlane(op, n) THEN [ok |-> FALSE]
          ELSE [ok |-> TRUE, next |-> number.next, add |-> reaches(number.value + 1)]),
    palette)

-----------------------------------------------------------------------------
(* The palette inside the payload (MODE_CPAL).                              *)

Bytes(palette) == FlattenSeq(palette)
Entries(s, count) == [k \in 1..count |-> Slice(s, 4 * k - 3, 4)]
Delta(palette) ==
  LET b == Bytes(palette) IN [k \in DOMAIN b |-> IF k <= 4 THEN b[k] ELSE (b[k] - b[k - 4]) % 256]

\* make_cpal_payload
make_cpal_payload(palette, delta, indices) == (IF delta THEN Delta(palette) ELSE Bytes(palette)) \o indices

\* make_exact_cpal_payload
make_exact_cpal_payload(palette) ==
  IF Len(palette) <= SmallPalette
  THEN Bytes(palette) \o Packed(Index(palette), pal_bits(Len(palette)))
  ELSE Delta(palette) \o enc_irun(Index(palette))

\* make_cpal_planar_payload: one channel of the palette after the other, then
\* the low and high bytes of indices side by side or in two parts.
make_cpal_planar_payload(palette, layout) ==
  LET low == [n \in Cells |-> Index(palette)[n] % IdByte]
      high == [n \in Cells |-> Index(palette)[n] \div IdByte]
  IN  <<layout>>
        \o FlattenSeq([c \in 1..4 |-> [k \in DOMAIN palette |->
             IF k = 1 THEN palette[k][c] ELSE (palette[k][c] - palette[k - 1][c]) % 256]])
        \o IF layout = 0 THEN FlattenSeq([n \in Cells |-> <<low[n], high[n]>>]) ELSE low \o high

dec_cpal_planar(s, count) ==
  LET channel(c) == Grown(count, LAMBDA before, k :
                      LET d == s[1 + (c - 1) * count + k]
                      IN  IF k = 1 THEN d ELSE (before[k - 1] + d) % 256)
      of == [c \in 1..4 |-> channel(c)]
      ids == SubSeq(s, 4 * count + 2, Len(s))
  IN  IF Len(s) # 1 + 4 * count + 2 * Size \/ s[1] > 1 THEN Refused
      ELSE Coloured([n \in Cells |-> IF s[1] = 0 THEN ids[2 * n - 1] + IdByte * ids[2 * n]
                                     ELSE ids[n] + IdByte * ids[Size + n]],
                    [k \in 1..count |-> [c \in 1..4 |-> of[c][k]]])

\* dec_cpal
dec_cpal(s, count, transform, bits) ==
  LET rest == SubSeq(s, 4 * count + 1, Len(s))
      undone == Grown(4 * count, LAMBDA before, k :
                  IF k <= 4 THEN s[k] ELSE (before[k - 4] + s[k]) % 256)
  IN  IF Len(s) < 4 * count THEN Refused
      ELSE IF transform = "runs" THEN dec_irun(rest, Entries(s, count))
      ELSE IF transform = "delta" THEN dec_irun(rest, Entries(undone, count))
      ELSE Unpacked(rest, bits, Entries(s, count))

-----------------------------------------------------------------------------
(* A palette of its own for each tile (TRANSFORM_CPAL_TILES): numbers of    *)
(* the colours it uses, as gaps, and indices into them.                     *)

TilePixels(log) ==
  LET across == (W + 2^log - 1) \div 2^log
      of(n) == (Row(n) \div 2^log) * across + (Column(n) \div 2^log)
  IN  [t \in 1..across * ((shape.h + 2^log - 1) \div 2^log) |->
        InOrder({n \in Cells : of(n) = t - 1}, LAMBDA a, b : a < b)]

\* make_tile_palette_payload
TileCoded(ids, pixels) ==
  LET local == InOrder({ids[n] : n \in Range(pixels)}, LAMBDA a, b : a < b)
      rank(id) == (CHOOSE k \in DOMAIN local : local[k] = id) - 1
  IN  varint(Len(local) - 1)
        \o FlattenSeq([k \in DOMAIN local |->
             varint(IF k = 1 THEN local[k] ELSE local[k] - local[k - 1] - 1)])
        \o pack_row([k \in DOMAIN pixels |-> rank(ids[pixels[k]])], pal_bits(Len(local)))

make_tile_palette_payload(palette, log) ==
  LET ids == Index(palette)
      tiles == TilePixels(log)
  IN  <<log>> \o Bytes(palette) \o FlattenSeq([t \in DOMAIN tiles |-> TileCoded(ids, tiles[t])])

\* The local palette of a tile: numbers from s at from on, as gaps.
Locals(s, from, count) ==
  LET f[k \in 0..count] ==
        IF k = 0 THEN [ok |-> TRUE, next |-> from, got |-> <<>>]
        ELSE LET before == f[k - 1]
                 gap == read_varint(s, before.next)
             IN  [ok |-> before.ok /\ gap.ok, next |-> gap.next,
                  got |-> Append(before.got,
                            IF k = 1 THEN gap.value ELSE before.got[k - 1] + gap.value + 1)]
  IN  f[count]

\* dec_cpal_tiles: the tiles in turn, each with the indices of its pixels.
dec_cpal_tiles(s, count) ==
  LET tiles == TilePixels(s[1])
      f[t \in 0..Len(tiles)] ==
        IF t = 0 THEN [ok |-> TRUE, next |-> 4 * count + 2, ids |-> [n \in Cells |-> 0]]
        ELSE
        LET before == f[t - 1]
            number == read_varint(s, before.next)
            locals == Locals(s, number.next, number.value + 1)
            bits == pal_bits(number.value + 1)
            size == row_pack(Len(tiles[t]), bits)
            packed == Slice(s, locals.next, size)
            id(k) == unpack_i(packed, k - 1, bits)
        IN  IF ~before.ok \/ ~number.ok THEN [before EXCEPT !.ok = FALSE]
            ELSE IF number.value >= Len(tiles[t]) \/ number.value >= count \/ ~locals.ok
                    \/ (\E k \in DOMAIN locals.got : locals.got[k] >= count)
                    \/ locals.next + size - 1 > Len(s)
            THEN [before EXCEPT !.ok = FALSE]
            ELSE IF \E k \in DOMAIN tiles[t] : id(k) > number.value THEN [before EXCEPT !.ok = FALSE]
            ELSE [ok |-> TRUE, next |-> locals.next + size,
                  ids |-> [n \in Cells |->
                    IF n \in Range(tiles[t])
                    THEN locals.got[id(CHOOSE k \in DOMAIN tiles[t] : tiles[t][k] = n) + 1]
                    ELSE before.ids[n]]]
      end == f[Len(tiles)]
  IN  IF Len(s) < 1 + 4 * count \/ s[1] \notin TileLogs THEN Refused
      ELSE IF ~end.ok \/ end.next # Len(s) + 1 THEN Refused
      ELSE Coloured(end.ids, Entries(Tail(s), count))
=============================================================================
