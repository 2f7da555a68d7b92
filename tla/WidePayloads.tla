---------------------------- MODULE WidePayloads ----------------------------
(***************************************************************************)
(* The payloads qlic.c makes of integer samples wider than a byte: QSW1,   *)
(* one QST1 stream for each byte of the samples, and QSW2, which puts      *)
(* chunks with the description of colour and light around it.              *)
(*                                                                         *)
(* plane holds the samples, the channels of a pixel beside each other;     *)
(* how.wide has their precision, their number and the description.  A      *)
(* stream has its length in the table and its checksum is the samples.     *)
(* Rows without padding; the slices are decoded in their order, the        *)
(* threads of wide_payload_decode give the same result.                    *)
(***************************************************************************)
EXTENDS PixelPayloads

CONSTANTS
  SliceBits,    \* bits of a slice, 8 in the code
  MaxChunks,    \* QLIC_DEFAULT_MAX_CHUNKS, 256 in the code
  MaxMetadata   \* QLIC_DEFAULT_MAX_METADATA_BYTES, 2^24 in the code

ASSUME WideAssumption ==
  SliceBits \in Nat \ {0} /\ MaxChunks \in Nat \ {0} /\ MaxMetadata \in Nat

-----------------------------------------------------------------------------
(* Byte slices.                                                             *)

\* wide_layout, and the wide rules of rd_head_limited.
WideBits(least) == least..3 * SliceBits
WideChannels == {1, 3, 4}

SliceCount(bits) == (bits + SliceBits - 1) \div SliceBits

\* wide_fill_slice: slice i of a sample, the lowest bits first.
Part(value, i) == (value \div Power[SliceBits * (i - 1)]) % Power[SliceBits]
TooWide(bits) == \E n \in Cells : plane[n - 1] >= Power[bits]
PlaneSlice(i) == [n \in Cells |-> Part(plane[n - 1], i)]

\* append_wide_payload
append_wide_payload(bits, channels) ==
  LET streams == Each(SliceCount(bits), LAMBDA i :
                   stream_encode(W \div channels, shape.h, channels, PlaneSlice(i)))
      checksum == [n \in Cells |-> plane[n - 1]]
  IN  IF bits \notin WideBits(SliceBits) \/ channels \notin WideChannels \/ TooWide(bits) THEN Refused
      ELSE <<"QSW1", 0, bits, channels, Len(streams), checksum, 0>>
             \o [i \in DOMAIN streams |-> Len(streams[i])] \o FlattenSeq(streams)

\* The streams behind the head of seven and the table of their lengths.
Lengths(s, bits) == SubSeq(s, 8, 7 + SliceCount(bits))
StreamAt(s, bits, i) == 8 + SliceCount(bits) + SumFunction(SubSeq(Lengths(s, bits), 1, i - 1))

\* qsw1_shape_valid
qsw1_shape_valid(s, bits, channels) ==
  /\ Len(s) >= 7 + SliceCount(bits)
  /\ s[1] = "QSW1" /\ s[2] = 0 /\ s[3] = bits /\ s[4] = channels /\ s[5] = SliceCount(bits) /\ s[7] = 0
  /\ \A k \in DOMAIN Lengths(s, bits) : Lengths(s, bits)[k] > 0
  /\ StreamAt(s, bits, SliceCount(bits) + 1) = Len(s) + 1

\* wide_payload_decode
wide_payload_decode(s, bits, channels) ==
  LET count == SliceCount(bits)
      slices == Each(count, LAMBDA i :
                  stream_decode(Slice(s, StreamAt(s, bits, i), Lengths(s, bits)[i]),
                                W \div channels, shape.h, channels))
      topMaximum == Power[bits - (count - 1) * SliceBits] - 1
      samples == Each(Size, LAMBDA n :
                   SumFunction([i \in 1..count |-> slices[i][n] * Power[SliceBits * (i - 1)]]))
  IN  IF ~qsw1_shape_valid(s, bits, channels) THEN Refused
      ELSE IF Refused \in Range(slices) \/ \E n \in Cells : slices[count][n] > topMaximum THEN Refused
      ELSE IF samples # s[6] THEN Refused ELSE samples

-----------------------------------------------------------------------------
(* What describes the samples: how alpha is associated, which description  *)
(* of colour counts, an ICC profile, CICP numbers, the mastering display   *)
(* and the content's light, empty when absent, and blocks with other tags. *)

CoreTags == {"PIXL", "ICCP", "CICP", "MDCV", "CLLI"}

AlphaOk(alpha, channels) == IF channels = 4 THEN alpha \in {"STRAIGHT", "PREMULTIPLIED"} ELSE alpha = "NONE"

\* qsw2_color_valid, and authority_ok of hdr_metadata_valid.
qsw2_color_valid(m) ==
  CASE m.authority = "UNSPECIFIED" -> m.icc = <<>> /\ m.cicp = <<>>
    [] m.authority = "ICC" -> m.icc # <<>> /\ m.cicp = <<>>
    [] m.authority = "CICP" -> m.icc = <<>> /\ m.cicp # <<>>
    [] OTHER -> m.authority \in {"ICC_PREFERRED", "CICP_PREFERRED"} /\ m.icc # <<>> /\ m.cicp # <<>>

\* buf_u16le, wr32 and what reads them: bytes, the lowest first.
Little16(v) == <<v % 256, (v \div 256) % 256>>
Little32(v) == Little16(v) \o Little16((v \div 256) \div 256)
rd16(s, k) == s[k] + 256 * s[k + 1]
rd32(s, k) == rd16(s, k) + 256 * (256 * rd16(s, k + 2))
Shorts(values) == FlattenSeq([k \in DOMAIN values |-> Little16(values[k])])
ReadShorts(s, n) == [k \in 1..n |-> rd16(s, 2 * k - 1)]

\* cicp is three numbers and full_range, mdcv four points and two luminances,
\* clli the largest light of a pixel and of a frame.
CicpBytes(cicp) == Shorts(SubSeq(cicp, 1, 3)) \o <<cicp[4], 0>>
MdcvBytes(mdcv) == Shorts(SubSeq(mdcv, 1, 8)) \o Little32(mdcv[9]) \o Little32(mdcv[10])
ReadMdcv(s) == ReadShorts(s, 8) \o <<rd32(s, 17), rd32(s, 21)>>

DescribedBy(tag, bytes) == [tag |-> tag, data |-> bytes]
Optional(given, tag, bytes(_)) == IF given = <<>> THEN <<>> ELSE <<DescribedBy(tag, bytes(given))>>

\* enc_hdr_mem: the chunks before the samples.
Described(m) ==
  Optional(m.icc, "ICCP", LAMBDA icc : icc) \o Optional(m.cicp, "CICP", CicpBytes)
    \o Optional(m.mdcv, "MDCV", MdcvBytes) \o Optional(m.clli, "CLLI", Shorts) \o m.blocks

DescribedSize(m) == SumFunction([k \in DOMAIN Described(m) |-> Len(Described(m)[k].data)])

\* hdr_metadata_valid
hdr_metadata_valid(m, channels) ==
  /\ AlphaOk(m.alpha, channels)
  /\ qsw2_color_valid(m)
  /\ m.cicp # <<>> => m.cicp[4] <= 1
  /\ m.mdcv # <<>> => m.mdcv[9] >= m.mdcv[10]
  /\ m.clli # <<>> => m.clli[1] >= m.clli[2]
  /\ \A k \in DOMAIN m.blocks : m.blocks[k].tag \notin CoreTags
  /\ DescribedSize(m) <= MaxMetadata
  /\ Len(Described(m)) + 1 <= MaxChunks

\* qsw2_chunk
qsw2_chunk(tag, flags, data) == <<tag, flags, Len(data)>> \o data

enc_hdr_mem(m, bits, channels) ==
  LET pixels == append_wide_payload(bits, channels)
      chunks == Described(m)
  IN  IF ~hdr_metadata_valid(m, channels) \/ pixels = Refused THEN Refused
      ELSE <<"QSW2", 1, "UINT", bits, channels, m.alpha, m.authority, 0, Len(chunks) + 1,
             DescribedSize(m), Len(pixels)>>
             \o FlattenSeq([k \in DOMAIN chunks |-> qsw2_chunk(chunks[k].tag, 0, chunks[k].data)])
             \o qsw2_chunk("PIXL", 1, pixels)

\* qsw2_payload_parse: a chunk with a tag of the format.
CoreChunk(view, tag, flags, data) ==
  LET n == Len(data)
  IN  CASE tag = "ICCP" -> [view EXCEPT !.ok = @ /\ view.icc = <<>> /\ flags = 0 /\ n > 0, !.icc = data]
        [] tag = "CICP" ->
             [view EXCEPT !.ok = @ /\ view.cicp = <<>> /\ flags = 0 /\ n = 8 /\ data[8] = 0 /\ data[7] <= 1,
                          !.cicp = ReadShorts(data, 3) \o <<data[7]>>]
        [] tag = "MDCV" ->
             [view EXCEPT !.ok = @ /\ view.mdcv = <<>> /\ flags = 0 /\ n = 24
                                   /\ rd32(data, 17) >= rd32(data, 21),
                          !.mdcv = ReadMdcv(data)]
        [] tag = "CLLI" ->
             [view EXCEPT !.ok = @ /\ view.clli = <<>> /\ flags = 0 /\ n = 4
                                   /\ rd16(data, 1) >= rd16(data, 3),
                          !.clli = ReadShorts(data, 2)]

\* qsw2_payload_parse: the chunk at view.next; other tags are kept as blocks
\* unless they are critical.
ReadChunk(s, view) ==
  LET tag == s[view.next]
      flags == s[view.next + 1]
      length == s[view.next + 2]
      data == Slice(s, view.next + 3, length)
      after == [view EXCEPT !.next = @ + 3 + length]
      counted == [after EXCEPT !.size = @ + length, !.ok = view.size + length <= MaxMetadata]
      cut == [view EXCEPT !.ok = FALSE]
  IN  IF ~view.ok THEN view
      ELSE IF view.next + 2 > Len(s) THEN cut
      ELSE IF flags \notin {0, 1} \/ after.next > Len(s) + 1 THEN cut
      ELSE IF tag = "PIXL"
      THEN [after EXCEPT !.ok = view.pixels = <<>> /\ flags = 1 /\ length = s[11], !.pixels = data]
      ELSE IF tag \in CoreTags THEN CoreChunk(counted, tag, flags, data)
      ELSE [counted EXCEPT !.ok = @ /\ flags = 0, !.blocks = Append(@, DescribedBy(tag, data))]

\* HdrImage, as the caller fills it: bytes, numbers of two bytes, luminances
\* of four.
Byte == 0..255
Short == {v \in Nat : v \div 256 \in Byte}
Long == {v \in Nat : (v \div 256) \div 256 \in Short}
Descriptions ==
  [alpha : STRING, authority : STRING, icc : Seq(Byte),
   cicp : {<<>>} \cup {c \in [1..4 -> Short] : c[4] \in Byte},
   mdcv : {<<>>} \cup {m \in [1..10 -> Long] : \A k \in 1..8 : m[k] \in Short},
   clli : {<<>>} \cup [1..2 -> Short],
   blocks : Seq([tag : STRING, data : Seq(Byte)])]

\* Mutant: blocks without data are left out.
DescriptionOfFilled(m) ==
  [alpha |-> m.alpha, authority |-> m.authority, icc |-> m.icc, cicp |-> m.cicp, mdcv |-> m.mdcv,
   clli |-> m.clli, blocks |-> SelectSeq(m.blocks, LAMBDA block : block.data # <<>>)]

\* The fields the decoder gives out.
Description(m) ==
  [alpha |-> m.alpha, authority |-> m.authority, icc |-> m.icc, cicp |-> m.cicp, mdcv |-> m.mdcv,
   clli |-> m.clli, blocks |-> m.blocks]

NoView == [ok |-> FALSE]
qsw2_payload_parse(s, bits, channels) ==
  LET start == [ok |-> TRUE, next |-> 12, size |-> 0, pixels |-> <<>>, alpha |-> s[6], authority |-> s[7],
                icc |-> <<>>, cicp |-> <<>>, mdcv |-> <<>>, clli |-> <<>>, blocks |-> <<>>]
      view[k \in 0..s[9]] == IF k = 0 THEN start ELSE ReadChunk(s, view[k - 1])
      end == view[s[9]]
  IN  IF Len(s) < 11 THEN NoView
      ELSE IF SubSeq(s, 1, 5) # <<"QSW2", 1, "UINT", bits, channels>> \/ s[8] # 0 THEN NoView
      ELSE IF s[9] \notin 1..MaxChunks \/ s[10] > MaxMetadata \/ s[11] = 0 \/ ~AlphaOk(s[6], channels) THEN NoView
      ELSE [end EXCEPT !.ok = /\ @ /\ end.next = Len(s) + 1 /\ end.size = s[10] /\ end.pixels # <<>>
                              /\ qsw2_color_valid(end) /\ qsw1_shape_valid(end.pixels, bits, channels)]
=============================================================================
