------------------------------ MODULE WebDecoder ------------------------------
(***************************************************************************)
(* The browser's codec (web/qlic_wasm.c).  It encodes with the encoder of  *)
(* qlic.c and has it decode wide samples, but reads images and animations  *)
(* with a decoder of its own: the header and each payload are read by a    *)
(* second set of functions, most of them copies.                           *)
(*                                                                         *)
(* Only what differs is defined here.  The functions of one name in both   *)
(* files that do the same are one operator, the one of the payload modules.*)
(*                                                                         *)
(* A file waits at the stage "start"; either decoder may be the one that   *)
(* opens it.  What the page does not take has the stage "refused".         *)
(***************************************************************************)
EXTENDS Container

\* Mutant: the models of the version before the last two were added.
ModelsBeforePlanar == Models \ {"PLANAR", "RULE"}

\* RTT_MAX_MODEL of qlic_wasm.c is RTT_PLANAR; that of qlic.c is RTT_RULE.
PageModels == Models \ {"RULE"}

\* read_head: wide samples have entries of their own.
read_head(h) == h.mode \notin {"NATIVE_WIDE", "HDR_WIDE"} /\ HeaderOk(h)

dec_rtt_chunk(chunk, h, ch, model) ==
  IF model \notin PageModels THEN Refused ELSE rtt_dec_one(chunk, h, ch, model)

\* dec_rtt: one band after the other; the sizes are looked at on the way.
page_dec_rtt(s, height, ch) ==
  LET bands == Bands(height)
      n == Len(bands)
      sizes == [i \in 1..n |-> s[2 * i + 1]]
      chunks == Chunks(s, 2 * n + 2, sizes)
  IN  IF s[1] # n \/ n > (Len(s) - 1) \div 2 \/ chunks = Refused THEN Refused
      ELSE Joined(Each(n, LAMBDA i : dec_rtt_chunk(chunks[i], bands[i].h, ch, s[2 * i])), ch)

\* dec_qlic_image
dec_qlic_image(h, palette, s) ==
  IF h.mode = "TILE_MODEL" THEN page_dec_rtt(s, h.count, h.bits) ELSE dec_qlic(h, palette, s)

Shown(pixels) ==
  IF pixels = Refused
  THEN stage' = "refused" /\ UNCHANGED <<input, wire, tp, at, prevk, prevs, read, out, how>>
  ELSE Given(pixels)

\* qlic_decode of an image.
PageDecode ==
  /\ method = "file" /\ stage = "start" /\ how.head.mode \notin {"ANIM", "NATIVE_WIDE", "HDR_WIDE"}
  /\ LET h == how.head
         entries == IF h.mode \in WithPalette THEN h.count ELSE 0
     IN  Shown(IF ~read_head(h) \/ 4 * entries > Len(wire) THEN Refused
               ELSE dec_qlic_image(h, Entries(Received, entries), SubSeq(Received, 4 * entries + 1, Len(wire))))

\* qlic_decode of an animation: dec_anim_payload, dec_anim2_payload.
PageDecodeAnimation ==
  /\ method = "file" /\ stage = "start" /\ how.head.mode = "ANIM"
  /\ Shown(IF read_head(how.head) THEN dec_anim_payload(Received, how.head.count) ELSE Refused)

PageNext ==
  \/ ContainerNext
  \/ PageDecode
  \/ PageDecodeAnimation
  \/ stage = "refused" /\ UNCHANGED containerVars

PageSpec == CodecInit /\ [][PageNext]_containerVars

-----------------------------------------------------------------------------
Ruled == how.head.mode = "TILE_MODEL" /\ \E i \in 1..Received[1] : Received[2 * i] = "RULE"

\* The page opens what the encoder of the same commit writes, except bands with
\* the model RULE (and what it opens is the image: RoundTrip).  Two decoders of
\* thirteen kinds of payload are kept equal by hand.
PageReadsTheRest == stage = "refused" => Ruled

\* What the page encodes, it decodes: web_test.mjs encodes an image, decodes
\* the file and compares the pixels.
PageRoundTrip == stage # "refused"
=============================================================================
