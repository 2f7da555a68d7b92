------------------------------ MODULE Container ------------------------------
(***************************************************************************)
(* A file of an image, of an animation or of wide samples: the candidates  *)
(* enc_best_base offers, the header mk_file writes, the checks of          *)
(* rd_head_limited and the payload decoder that dec_qlic_limited picks     *)
(* from the header alone.  Which candidate is the smallest depends on      *)
(* compressed sizes; any of them may be kept here.                         *)
(*                                                                         *)
(* The state is that of PlaneCodec with a third method, "file": the wire   *)
(* holds the bytes behind the header, palette first.  A QST1 stream is its *)
(* dimensions and its samples: PlaneCodec and StreamTrials are about the   *)
(* rest of it.  LZMS gives back what it was given (external).              *)
(***************************************************************************)
EXTENDS PlaneModes, BandPayloads, AnimPayloads, WidePayloads

CONSTANTS
  Pictures,    \* shapes and planes of the images
  Families,    \* their colours: sequences of (red, green, blue, alpha)
  WideImages   \* shapes, planes and wide: precision, channels, kind, description

ASSUME FamiliesAssumption ==
  \A f \in Families : IsInjective(f) /\ \A k \in DOMAIN f : f[k] \in [1..4 -> 0..255]

ASSUME WideImagesAssumption ==
  \A p \in WideImages :
    /\ p.shape \in [w : Nat \ {0}, h : Nat \ {0}, depth : Nat \ {0}]
    /\ p.plane \in [0..p.shape.w * p.shape.h - 1 -> Nat]
    /\ p.wide.kind \in {"NATIVE_WIDE", "HDR_WIDE"} /\ p.wide.bits \in Nat /\ p.wide.description \in Descriptions
    /\ p.wide.channels \in Nat \ {0} /\ p.shape.w % p.wide.channels = 0

containerVars == <<vars, how>>
NoHead == [mode |-> "none"]
Narrow == [kind |-> "none"]   \* an image or an animation of bytes

\* mbpp
mbpp(mode) == CASE mode = "GRAY" -> 1 [] mode = "GRAYA" -> 2 [] mode = "RGB" -> 3 [] mode = "RGBA" -> 4
                [] OTHER -> 0
ScanMode == CHOOSE mode \in {"GRAY", "GRAYA", "RGB", "RGBA"} : mbpp(mode) = Len(Kept)
Lead(transform) ==
  CASE transform = "GDELTA" -> 2 [] transform = "GDELTA_RAW" -> 2 [] transform = "GDELTA_RLE" -> 2
    [] transform = "RDELTA" -> 1 [] transform = "BDELTA" -> 3 [] OTHER -> 0

-----------------------------------------------------------------------------
(* What is offered.                                                         *)

\* file_palette_size: these modes send the palette, the others a number only.
WithPalette == {"PALETTE", "PSTREAM", "PPAL"}

Candidate(mode, transform, bits, palette, payload) ==
  [mode |-> mode, transform |-> transform, bits |-> bits, count |-> Len(palette), codec |-> "STORE",
   palette |-> IF mode \in WithPalette THEN Bytes(palette) ELSE <<>>, payload |-> payload]
Lzms(candidate) == [candidate EXCEPT !.codec = "LZMS"]

Color == ScanMode \in {"RGB", "RGBA"}

\* Samples, with the channels apart or as differences: try_store_owned,
\* try_rle, try_rows and the row tournament.
SampleCandidates ==
  LET bpp == mbpp(ScanMode)
      delta == IF Color THEN "GDELTA" ELSE "IDENTITY"
      raw == IF Color THEN "GDELTA_RAW" ELSE "IDENTITY_RAW"
      samples == [t \in {"IDENTITY", "GDELTA", "RDELTA", "BDELTA"} |-> mk_samp(Kept, Lead(t))]
      rows(t, search) ==
        Candidate(ScanMode, t, 0, <<>>, mk_frows(samples[t], W * bpp, bpp, search))
  IN  {Candidate(ScanMode, "IDENTITY_RAW", 0, <<>>, samples["IDENTITY"]),
       Candidate(ScanMode, "IDENTITY_RLE", 0, <<>>, rle_encode(samples["IDENTITY"])),
       Candidate(ScanMode, raw, 0, <<>>, samples[delta])}
      \cup {Lzms(rows(t, search)) :
              t \in IF Color THEN {"IDENTITY", "GDELTA", "RDELTA", "BDELTA"} ELSE {"IDENTITY"},
              search \in {1, 2}}

\* try_stream: a gray image with alpha is sent as four channels.
StreamCandidate ==
  LET kept == IF Len(Kept) = 2 THEN <<1, 2, 3, 4>> ELSE Kept
  IN  Candidate("NATIVE", "IDENTITY", 0, <<>>, stream_encode(W, shape.h, Len(kept), mk_samp(kept, 0)))

\* try_separable
SeparableCandidates ==
  IF ~Separable(Kept) THEN {}
  ELSE {Candidate("SEPARABLE", "IDENTITY", mbpp(ScanMode), <<>>, mk_sep(Kept)),
        Candidate("SEPARABLE", "SEPARABLE_DELTA", mbpp(ScanMode), <<>>,
                  mk_sepd(mk_sep(Kept), mbpp(ScanMode)))}

\* try_planar_med_lzms
PlanarCandidates ==
  IF ~Color THEN {}
  ELSE {Lzms(Candidate(ScanMode, "BDELTA_PLANAR_MED", 0, <<>>, make_planar_med_payload(mbpp(ScanMode))))}

GrayModelCandidates ==
  IF ScanMode # "GRAY" THEN {}
  ELSE {Candidate("GMODEL", "IDENTITY", 0, <<>>,
                  gmodel_payload(p, 0, gmodel_slope(p, FALSE), gmodel_slope(p, TRUE))) : p \in try_gmodel}

\* try_cpal, try_pay, try_rows, try_pstream and try_rle with the indices of a
\* palette; a large one is sent as differences, with runs.
PaletteCandidates ==
  LET palette == mk_pal
      bits == pal_bits(Len(palette))
      ids == Index(palette)
      packed == Packed(ids, bits)
      rowBytes == row_pack(W, bits)
      of(mode, transform, payload) == Candidate(mode, transform, bits, palette, payload)
      filtered == mk_frows(packed, rowBytes, predictor_bpp(bits), 0)
  IN  IF Len(palette) <= 1 THEN {}
      ELSE {of("CPAL", "IDENTITY_RAW", make_cpal_payload(palette, FALSE, packed)),
            of("PALETTE", "INDEX_RLE", enc_irun(ids))}
        \cup IF Len(palette) > SmallPalette
             THEN {of("CPAL", "CPAL_DELTA", make_cpal_payload(palette, TRUE, enc_irun(ids))),
                   Lzms(of("CPAL", "CPAL_PLANAR", make_cpal_planar_payload(palette, 0))),
                   Lzms(of("CPAL", "CPAL_PLANAR", make_cpal_planar_payload(palette, 1)))}
             ELSE {of("PALETTE", "IDENTITY_RAW", packed),
                   of("PALETTE", "IDENTITY_RLE", rle_encode(packed)),
                   of("PALETTE", "IDENTITY", mk_frows(packed, rowBytes, predictor_bpp(bits), 1)),
                   of("PPAL", "INDEX_RLE", enc_ppal(ids)),
                   of("PSTREAM", "IDENTITY_RAW", stream_encode(rowBytes, shape.h, 1, packed)),
                   of("PSTREAM", "IDENTITY", stream_encode(rowBytes + 1, shape.h, 1, filtered))}

\* try_exact_palette_repeat_lzms and try_tile_palette_lzms
RepeatCandidates ==
  LET exact(palette) ==
        Lzms(Candidate("CPAL", IF Len(palette) > SmallPalette THEN "CPAL_DELTA" ELSE "IDENTITY_RAW",
                       pal_bits(Len(palette)), palette, make_exact_cpal_payload(palette)))
      tiled(log) ==
        Lzms(Candidate("CPAL", "CPAL_TILES", pal_bits(Len(frequency_pal)), frequency_pal,
                       make_tile_palette_payload(frequency_pal, log)))
  IN  IF Cardinality(Used) < 2 THEN {} ELSE {exact(mk_pal), exact(hot_pal)} \cup {tiled(log) : log \in TileLogs}

\* try_blocks_ex and try_blocks_base
BlockCandidates ==
  LET of(log, payload) == Candidate("BLOCKS", "IDENTITY", 2^log, <<>>, payload)
  IN  {of(BlockLog, mk_blocks(remembered)) : remembered \in BOOLEAN}
        \cup {of(BlockLog, mk_blocks2(plan)) : plan \in Plans}
        \cup {of(BlockLog, mk_pdm_regions), of(RegionLog, mk_cf_regions)}

\* try_native_tile_bands, and the trials of bands in enc_best_base: all models
\* only for one band of the whole image.
BandCandidates ==
  LET of(mode, height, payload) ==
        [Candidate(mode, "IDENTITY", Len(BlockKept), <<>>, payload) EXCEPT !.count = height]
  IN  {of("TILES", height, TilePayload(height)) : height \in BandHeights}
        \cup {of("TILE_MODEL", trial[1], ModelPayload(trial[1], trial[2])) :
                trial \in (BandHeights \X {<<"RAW", "GRAD">>}) \cup ({shape.h} \X {<<model>> : model \in Models})}

Candidates ==
  SampleCandidates \cup {StreamCandidate} \cup SeparableCandidates \cup PlanarCandidates
    \cup GrayModelCandidates \cup PaletteCandidates \cup RepeatCandidates
    \cup BlockCandidates \cup BandCandidates

-----------------------------------------------------------------------------
(* The decoder.                                                             *)

\* Mutant: a palette that uses all values of its indices is refused.
palette_count_ok_short(h) == h.count > 0 /\ h.bits \in 1..16 /\ h.count < 2^h.bits

palette_count_ok(h) == h.count > 0 /\ h.bits \in 1..16 /\ h.count <= 2^h.bits

\* rd_head_limited
HeaderOk(h) ==
  /\ h.transform = "BDELTA_PLANAR_MED" =>
       h.mode \in {"RGB", "RGBA"} /\ h.bits = 0 /\ h.count = 0 /\ h.codec = "LZMS"
  /\ h.mode \in {"NATIVE", "GMODEL"} => h.transform = "IDENTITY" /\ h.bits = 0 /\ h.count = 0
  /\ h.mode = "BLOCKS" =>
       h.transform = "IDENTITY" /\ h.bits \in {2^BlockLog, 2^RegionLog} /\ h.count = 0 /\ h.codec = "STORE"
  /\ h.mode \in {"PSTREAM", "PALETTE", "PPAL", "CPAL"} => palette_count_ok(h)
  /\ h.mode = "PPAL" => h.transform = "INDEX_RLE"
  /\ h.mode = "CPAL" =>
       h.transform \in {"IDENTITY_RAW", "INDEX_RLE", "CPAL_DELTA", "CPAL_TILES", "CPAL_PLANAR"}
  /\ h.transform = "CPAL_PLANAR" =>
       h.mode = "CPAL" /\ h.count > SmallPalette /\ h.bits = pal_bits(h.count)
  /\ h.mode \in {"TILES", "TILE_MODEL"} =>
       h.transform = "IDENTITY" /\ h.bits \in {1, 3, 4} /\ h.count > 0
  /\ h.mode = "TILE_MODEL" => h.codec = "STORE"
  /\ h.mode = "ANIM" => h.transform = "IDENTITY" /\ h.bits = 0 /\ h.count > 0
  /\ h.mode \in {"NATIVE_WIDE", "HDR_WIDE"} =>
       /\ h.transform = "IDENTITY" /\ h.codec = "STORE" /\ h.count \in WideChannels
       /\ h.bits \in WideBits(IF h.mode = "HDR_WIDE" THEN SliceBits ELSE SliceBits + 1)
  /\ h.mode \notin WithPalette \cup {"CPAL", "TILES", "TILE_MODEL", "ANIM", "NATIVE_WIDE", "HDR_WIDE"} =>
       h.count = 0

\* dec_pstream
dec_pstream(h, palette, s) ==
  LET rowBytes == row_pack(W, h.bits)
      filtered == h.transform = "IDENTITY"
      bytes == stream_decode(s, IF filtered THEN rowBytes + 1 ELSE rowBytes, shape.h, 1)
  IN  IF h.transform \notin {"IDENTITY", "IDENTITY_RAW"} THEN Refused
      ELSE Unpacked(IF filtered THEN unf_rows(bytes, rowBytes, shape.h, predictor_bpp(h.bits)) ELSE bytes,
                    h.bits, palette)

\* samp_rgba of the samples a transform leaves, in rows, in runs or as such.
Sampled(h, palette, s) ==
  LET indexed == h.mode = "PALETTE"
      rowBytes == IF indexed THEN row_pack(W, h.bits) ELSE W * mbpp(h.mode)
      bpp == IF indexed THEN predictor_bpp(h.bits) ELSE mbpp(h.mode)
      samples == IF h.transform \in {"IDENTITY_RLE", "GDELTA_RLE"} THEN rle_decode(s, rowBytes * shape.h)
                 ELSE IF h.transform \in {"IDENTITY_RAW", "GDELTA_RAW"} THEN s
                 ELSE unf_rows(s, rowBytes, shape.h, bpp)
  IN  IF indexed THEN Unpacked(samples, h.bits, palette)
      ELSE samp_rgba(samples, mbpp(h.mode), Lead(h.transform))

dec_stream(s) ==
  LET channels == IF Len(s) < 3 THEN 0 ELSE s[3]
  IN  samp_rgba(stream_decode(s, W, shape.h, channels), channels, 0)

dec_cpal_of(h, s) ==
  CASE h.transform = "CPAL_PLANAR" -> dec_cpal_planar(s, h.count)
    [] h.transform = "CPAL_TILES" -> dec_cpal_tiles(s, h.count)
    [] h.transform = "CPAL_DELTA" -> dec_cpal(s, h.count, "delta", h.bits)
    [] h.transform = "INDEX_RLE" -> dec_cpal(s, h.count, "runs", h.bits)
    [] OTHER -> dec_cpal(s, h.count, "raw", h.bits)

\* dec_direct_payload, and the order of the cases behind it.
dec_qlic(h, palette, s) ==
  CASE h.mode = "NATIVE" -> dec_stream(s)
    [] h.mode = "GMODEL" -> dec_gmodel(s)
    [] h.mode = "BLOCKS" -> dec_blocks(s)
    [] h.mode = "TILES" -> dec_tile(s, h.count, h.bits)
    [] h.mode = "TILE_MODEL" -> dec_rtt(s, h.count, h.bits)
    [] h.mode = "PSTREAM" -> dec_pstream(h, palette, s)
    [] h.mode = "PPAL" -> dec_ppal(s, palette)
    [] h.mode = "CPAL" -> dec_cpal_of(h, s)
    [] h.mode = "SEPARABLE" -> dec_sep(s, h.bits, h.transform = "SEPARABLE_DELTA")
    [] h.mode = "PALETTE" /\ h.transform = "INDEX_RLE" -> dec_irun(s, palette)
    [] h.transform = "BDELTA_PLANAR_MED" -> planar_med_rgba(s, mbpp(h.mode))
    [] OTHER -> Sampled(h, palette, s)

-----------------------------------------------------------------------------
(* Behaviour.                                                               *)

ContainerInit ==
  /\ \/ \E p \in Pictures, f \in Families :
          /\ shape = p.shape /\ plane = p.plane
          /\ Len(f) >= M
          /\ how = [colours |-> f, head |-> NoHead, frames |-> p.frames, wide |-> Narrow, given |-> {}]
     \/ \E p \in WideImages :
          /\ shape = p.shape /\ plane = p.plane
          /\ how = [colours |-> <<>>, head |-> NoHead, frames |-> 1, wide |-> p.wide, given |-> {}]
  /\ method = "file" /\ pos = FALSE /\ tlog = 0
  /\ stage = "map" /\ wire = <<>> /\ tp = <<>>
  /\ at = 0 /\ prevk = 0 /\ prevs = 0 /\ read = 0 /\ out = <<>>

\* mk_file
Written(c) ==
  LET bytes == c.palette \o c.payload
  IN  /\ how' = [how EXCEPT !.head = [mode |-> c.mode, transform |-> c.transform, bits |-> c.bits,
                                      codec |-> c.codec, count |-> c.count, size |-> Len(c.payload)]]
      /\ wire' = [k \in DOMAIN bytes |-> Put("file", 0, 0, k, bytes[k])]
      /\ stage' = "start"
      /\ UNCHANGED <<input, tp, at, prevk, prevs, read, out>>

\* enc_best: one of the candidates is kept.
EncodeFile ==
  /\ method = "file" /\ stage = "map" /\ how.frames = 1 /\ how.wide = Narrow
  /\ \E c \in Candidates : Written(c)

\* enc_anim_mem, or a file of an earlier version.
EncodeAnimation ==
  /\ method = "file" /\ stage = "map" /\ how.frames > 1
  /\ \E payload \in {enc_anim_mem(resent) : resent \in BOOLEAN} \cup {qan1_payload} :
       Written([Candidate("ANIM", "IDENTITY", 0, <<>>, payload) EXCEPT !.count = how.frames])

\* enc_wide_mem, and enc_hdr_mem: samples and descriptions that the decoder
\* would not take are refused.
EncodeWide ==
  LET wide == how.wide
      payload == IF wide.kind = "HDR_WIDE" THEN enc_hdr_mem(wide.description, wide.bits, wide.channels)
                 ELSE IF wide.bits \in WideBits(SliceBits + 1) THEN append_wide_payload(wide.bits, wide.channels)
                 ELSE Refused
  IN  /\ method = "file" /\ stage = "map" /\ wide # Narrow
      /\ IF payload = Refused THEN stage' = "cut" /\ UNCHANGED <<input, wire, tp, at, prevk, prevs, read, out, how>>
         ELSE Written([Candidate(wide.kind, "IDENTITY", wide.bits, <<>>, payload) EXCEPT !.count = wide.channels])

\* The colour number of a pixel, -1 of one the image does not have.
NumberOf(p) == LET is == {k \in 1..M : how.colours[k] = p} IN IF is = {} THEN -1 ELSE Min(is) - 1

Received == [k \in DOMAIN wire |-> wire[k].bit]
GivenSamples(samples) ==
  /\ IF samples = Refused
     THEN stage' = "corrupt" /\ UNCHANGED <<at, read, out>>
     ELSE /\ out' = [i \in Indices |-> samples[i + 1]]
          /\ at' = Size /\ read' = Len(wire) /\ stage' = "decode"
  /\ UNCHANGED <<input, wire, tp, prevk, prevs>>
Given(pixels) ==
  GivenSamples([n \in DOMAIN pixels |-> NumberOf(pixels[n])]) /\ UNCHANGED how

\* dec_qlic_limited
DecodeFile ==
  /\ method = "file" /\ stage = "start" /\ how.head.mode \notin {"ANIM", "NATIVE_WIDE", "HDR_WIDE"}
  /\ LET h == how.head
         entries == IF h.mode \in WithPalette THEN h.count ELSE 0
     IN  IF ~HeaderOk(h) \/ 4 * entries > Len(wire) THEN Given(Refused)
         ELSE Given(dec_qlic(h, Entries(Received, entries), SubSeq(Received, 4 * entries + 1, Len(wire))))

\* dec_anim_qlic_limited
DecodeAnimation ==
  /\ method = "file" /\ stage = "start" /\ how.head.mode = "ANIM"
  /\ Given(IF HeaderOk(how.head) THEN dec_anim_payload(Received, how.head.count) ELSE Refused)

\* dec_wide_qlic_limited
DecodeWide ==
  /\ method = "file" /\ stage = "start" /\ how.head.mode = "NATIVE_WIDE"
  /\ LET h == how.head
     IN  GivenSamples(IF HeaderOk(h) THEN wide_payload_decode(Received, h.bits, h.count) ELSE Refused)
  /\ UNCHANGED how

\* dec_hdr_qlic_limited
DecodeHdr ==
  /\ method = "file" /\ stage = "start" /\ how.head.mode = "HDR_WIDE"
  /\ LET h == how.head
         view == IF HeaderOk(h) THEN qsw2_payload_parse(Received, h.bits, h.count) ELSE NoView
         samples == IF view.ok THEN wide_payload_decode(view.pixels, h.bits, h.count) ELSE Refused
     IN  /\ GivenSamples(samples)
         /\ how' = IF samples = Refused THEN how ELSE [how EXCEPT !.given = {Description(view)}]

ContainerNext ==
  \/ method \in {"base", "xzr"} /\ Next /\ UNCHANGED how
  \/ ModesNext /\ UNCHANGED how
  \/ EncodeFile
  \/ EncodeAnimation
  \/ EncodeWide
  \/ DecodeFile
  \/ DecodeAnimation
  \/ DecodeWide
  \/ DecodeHdr
  \/ method = "file" /\ (Finish \/ Stopped) /\ UNCHANGED how

\* Planes of QST1 streams, and files.
CodecInit ==
  \/ ContainerInit
  \/ (Init \/ ModesInit) /\ how = [colours |-> <<>>, head |-> NoHead, frames |-> 0, wide |-> Narrow, given |-> {}]
CodecSpec == CodecInit /\ [][ContainerNext]_containerVars

\* With its samples, an HDR image comes back with the whole description the
\* caller gave it: each field, and the blocks the codec does not know, in
\* their order, as docs/hdr-format.md says.
DescriptionKept ==
  stage = "done" /\ how.wide # Narrow /\ how.wide.kind = "HDR_WIDE" => how.given = {how.wide.description}

\* An animation comes back frame by frame as it was: enc_anim_mem is one of
\* the coders that docs/architecture.md calls lossless.
AnimationLossless == method = "file" /\ how.frames > 1 /\ stage = "done" => out = plane
=============================================================================
