---------------------------- MODULE BandPayloads ----------------------------
(***************************************************************************)
(* The payloads of qlic.c that cut an image into bands of rows, each a     *)
(* QST1 stream of its own: MODE_TILES, and MODE_TILE_MODEL, where a band   *)
(* may be sent as filtered rows or as residuals of a simple model.  What   *)
(* the tasks that code the bands do in parallel is in TileJobs.            *)
(*                                                                         *)
(* Which model makes the smallest stream is not known here: any may win.   *)
(***************************************************************************)
EXTENDS BlockPayloads

CONSTANT BandHeights    \* rows of a band, 256, 1024 and 2048 in the code

ASSUME BandAssumption == BandHeights \subseteq Nat \ {0}

Models == {"RAW", "FILT", "XD", "YD", "GRAD", "H2", "V2", "PLANAR", "RULE"}

Bands(height) ==
  Each(1 + ((shape.h - 1) \div height), LAMBDA i :
    [y |-> (i - 1) * height, h |-> Min({height, shape.h - (i - 1) * height})])

\* Samples of a band, each pixel with the channels BlockKept.
fill_tile(band) ==
  FlattenSeq(Each(W * band.h, LAMBDA k : Samples(Colour(band.y * W + k), BlockKept, 0)))

-----------------------------------------------------------------------------
(* Models of a band of h rows.                                              *)

\* What sample k of p is predicted from; place and channel come from k alone.
Near(p, ch, k) ==
  LET x == ((k - 1) \div ch) % W
      y == (k - 1) \div (ch * W)
      left == IF x > 0 THEN p[k - ch] ELSE 0
      up == IF y > 0 THEN p[k - ch * W] ELSE 0
  IN  [x |-> x, y |-> y, left |-> left, up |-> up,
       upLeft |-> IF x > 0 /\ y > 0 THEN p[k - ch * W - ch] ELSE 0,
       left2 |-> IF x > 1 THEN p[k - 2 * ch] ELSE left,
       up2 |-> IF y > 1 THEN p[k - 2 * ch * W] ELSE up]

rtt_pred_causal(near, model) ==
  CASE model = "XD" -> near.left
    [] model = "YD" -> near.up
    [] model = "H2" -> IF near.x > 0 THEN u8_sat(2 * near.left - near.left2) ELSE 0
    [] model = "V2" -> IF near.y > 0 THEN u8_sat(2 * near.up - near.up2) ELSE 0
    [] OTHER -> pred(5, near.left, near.up, near.upLeft)

\* Three corners of each channel.
rtt_planar_params(tile, h, ch) ==
  FlattenSeq(Each(ch, LAMBDA c : <<tile[c], tile[(W - 1) * ch + c], tile[(h - 1) * W * ch + c]>>))

Quotient(a, b) == IF a >= 0 THEN a \div b ELSE -(-a \div b)
Along(from, to, k, n) == IF n > 1 THEN Quotient((to - from) * k, n - 1) ELSE 0
rtt_pred_planar(par, h, ch, k) ==
  LET c == (k - 1) % ch
      x == ((k - 1) \div ch) % W
      y == (k - 1) \div (ch * W)
      base == par[3 * c + 1]
  IN  (base + Along(base, par[3 * c + 2], x, W) + Along(base, par[3 * c + 3], y, h)) % 256

\* A rule is two limits of the energy, a predictor of each branch, and a gap.
rtt_rule_energy(near) ==
  LET leftUp == Abs(near.left - near.up) + Abs(near.left - near.upLeft) + Abs(near.up - near.upLeft)
      e == CASE near.x > 0 /\ near.y > 0 -> leftUp
             [] near.x > 0 /\ near.y = 0 -> Abs(near.left - near.left2)
             [] near.x = 0 /\ near.y > 0 -> Abs(near.up - near.up2)
             [] near.x = 0 /\ near.y = 0 -> 0
  IN  Min({e, 255})

rtt_rule_branch(near, lo, hi, gap) ==
  LET e == rtt_rule_energy(near)
      sx == IF near.x > 0 THEN Abs(near.left - near.left2) ELSE 512
      sy == IF near.y > 0 THEN Abs(near.up - near.up2) ELSE 512
  IN  IF e <= lo THEN 0 ELSE IF sx + gap < sy THEN 1 ELSE IF sy + gap < sx THEN 2
      ELSE IF e >= hi THEN 3 ELSE 0

rtt_rule_pred(id, near) ==
  CASE id = 0 -> pred(5, near.left, near.up, near.upLeft)
    [] id = 1 -> pred(4, near.left, near.up, near.upLeft)
    [] id = 2 -> IF near.x > 0 THEN near.left ELSE IF near.y > 0 THEN near.up ELSE 0
    [] id = 3 -> IF near.y > 0 THEN near.up ELSE IF near.x > 0 THEN near.left ELSE 0

rtt_rule_predict(near, rule) ==
  rtt_rule_pred((rule[3] \div 4^rtt_rule_branch(near, rule[1], rule[2], rule[4])) % 4, near)

\* A quarter of the samples has at most the energy lo, three quarters hi.
rtt_rule_quantiles(nears) ==
  LET least(e, n) == Min({v \in {0} \cup Range(e) : Cardinality({k \in DOMAIN e : e[k] <= v}) >= n})
      apart(a, b, raised) ==
        IF b > a THEN <<a, b>> ELSE IF raised > a THEN <<a, raised>> ELSE <<a - 1, raised>>
      limits(a, b) == apart(a, b, Min({a + 16, 255}))
      quarters(e) == limits(least(e, Len(e) \div 4), least(e, (3 * Len(e)) \div 4))
  IN  quarters(Each(Len(nears), LAMBDA k : rtt_rule_energy(nears[k])))

\* The best predictor of each branch, and what is left with them.
Least(s) == Min({i \in DOMAIN s : s[i] = Min(Range(s))})
rtt_rule_fit(tile, nears, seed) ==
  LET score(branch, b, id) ==
        MapThenSumSet(LAMBDA k : Circle(tile[k] - rtt_rule_pred(id, nears[k])),
                      {k \in DOMAIN tile : branch[k] = b})
      scores(branch) == Each(4, LAMBDA b : Each(4, LAMBDA i : score(branch, b - 1, i - 1)))
      fitted(s) ==
        [left |-> MapThenSumSet(LAMBDA b : Min(Range(s[b])), 1..4),
         rule |-> <<seed[1], seed[2], MapThenSumSet(LAMBDA b : (Least(s[b]) - 1) * 4^(b - 1), 1..4), seed[3]>>]
  IN  fitted(scores(Each(Len(tile), LAMBDA k : rtt_rule_branch(nears[k], seed[1], seed[2], seed[3]))))

Seeds(q) == <<<<8, 48, 0>>, <<16, 64, 4>>, <<24, 96, 8>>, <<32, 128, 16>>, <<8, 96, 16>>,
              <<48, 160, 16>>, <<q[1], q[2], 8>>, <<q[1] \div 2, q[2], 16>>>>
rtt_rule_params(tile, ch) ==
  LET fewest(fits) == fits[Least([i \in DOMAIN fits |-> fits[i].left])].rule
      fit(nears, seeds) == fewest(Each(Len(seeds), LAMBDA i : rtt_rule_fit(tile, nears, seeds[i])))
      with(nears) == fit(nears, Seeds(rtt_rule_quantiles(nears)))
  IN  with(Each(Len(tile), LAMBDA k : Near(tile, ch, k)))

\* The prediction of sample k from p, the samples before it.
rtt_predicted(p, h, ch, model, par, k) ==
  CASE model = "PLANAR" -> rtt_pred_planar(par, h, ch, k)
    [] model = "RULE" -> rtt_rule_predict(Near(p, ch, k), par)
    [] OTHER -> rtt_pred_causal(Near(p, ch, k), model)

rtt_make_residual(tile, h, ch, model, par) ==
  Each(Len(tile), LAMBDA k : (tile[k] - rtt_predicted(tile, h, ch, model, par, k)) % 256)
rtt_recon(residuals, h, ch, model, par) ==
  Grown(Len(residuals), LAMBDA done, k : (residuals[k] + rtt_predicted(done, h, ch, model, par, k)) % 256)

rtt_encode_model(tile, h, ch, model) ==
  LET with(par) == par \o stream_encode(W, h, ch, rtt_make_residual(tile, h, ch, model, par))
  IN  CASE model = "RAW" -> stream_encode(W, h, ch, tile)
        [] model = "FILT" -> stream_encode(W * ch + 1, h, 1, mk_frows(tile, W * ch, ch, 2))
        [] OTHER -> with(CASE model = "PLANAR" -> rtt_planar_params(tile, h, ch)
                           [] model = "RULE" -> rtt_rule_params(tile, ch)
                           [] OTHER -> <<>>)

-----------------------------------------------------------------------------
(* Payloads: a table of the chunks, then the chunks.                        *)

\* try_tile_height
TilePayload(height) ==
  LET file(chunks) == <<Len(chunks)>> \o [i \in DOMAIN chunks |-> Len(chunks[i])] \o FlattenSeq(chunks)
      coded(bands, ch) ==
        Each(Len(bands), LAMBDA i : stream_encode(W, bands[i].h, ch, fill_tile(bands[i])))
  IN  file(coded(Bands(height), Len(BlockKept)))

\* try_rtt_height, the bands with these models in turn.
ModelPayload(height, models) ==
  LET model(i) == models[((i - 1) % Len(models)) + 1]
      file(chunks) ==
        <<Len(chunks)>> \o FlattenSeq([i \in DOMAIN chunks |-> <<model(i), Len(chunks[i])>>])
          \o FlattenSeq(chunks)
      coded(bands) ==
        Each(Len(bands), LAMBDA i : rtt_encode_model(fill_tile(bands[i]), bands[i].h, Len(BlockKept), model(i)))
  IN  file(coded(Bands(height)))

\* Chunks of these sizes from a place on; nothing if they do not fill s.
Chunks(s, from, sizes) ==
  LET starts == Grown(Len(sizes) + 1, LAMBDA done, i : IF i = 1 THEN from ELSE Last(done) + sizes[i - 1])
  IN  IF Last(starts) # Len(s) + 1 THEN Refused
      ELSE Each(Len(sizes), LAMBDA i : Slice(s, starts[i], sizes[i]))

\* The pixels of bands that are all there.
Joined(parts, ch) ==
  IF \E i \in DOMAIN parts : parts[i] = Refused THEN Refused ELSE samp_rgba(FlattenSeq(parts), ch, 0)

dec_tile(s, height, ch) ==
  LET bands == Bands(height)
      n == Len(bands)
      chunks == Chunks(s, n + 2, SubSeq(s, 2, n + 1))
  IN  IF s[1] # n \/ n > Len(s) - 1 \/ chunks = Refused THEN Refused
      ELSE Joined(Each(n, LAMBDA i : stream_decode(chunks[i], W, bands[i].h, ch)), ch)

rtt_dec_one(s, h, ch, model) ==
  LET parn == CASE model = "PLANAR" -> 3 * ch [] model = "RULE" -> 4 [] OTHER -> 0
      par == SubSeq(s, 1, parn)
      filtered == stream_decode(s, W * ch + 1, h, 1)
      residuals == stream_decode(SubSeq(s, parn + 1, Len(s)), W, h, ch)
  IN  IF model \notin Models \/ (parn > 0 /\ Len(s) <= parn) THEN Refused
      ELSE IF model = "RULE" /\ par[2] <= par[1] THEN Refused
      ELSE IF model = "FILT" THEN (IF filtered = Refused THEN Refused ELSE unf_rows(filtered, W * ch, h, ch))
      ELSE IF residuals = Refused \/ model = "RAW" THEN residuals
      ELSE rtt_recon(residuals, h, ch, model, par)

dec_rtt(s, height, ch) ==
  LET bands == Bands(height)
      n == Len(bands)
      chunks == Chunks(s, 2 * n + 2, [i \in 1..n |-> s[2 * i + 1]])
  IN  IF s[1] # n \/ 2 * n > Len(s) - 1 \/ chunks = Refused THEN Refused
      ELSE Joined(Each(n, LAMBDA i : rtt_dec_one(chunks[i], bands[i].h, ch, s[2 * i])), ch)
=============================================================================
