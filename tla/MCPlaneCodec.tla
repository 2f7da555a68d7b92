---------------------------- MODULE MCPlaneCodec ----------------------------
(***************************************************************************)
(* Small planes for PlaneCodec: every content of each shape.  Small images *)
(* for Container: every content, and for more colours than fit two bits,   *)
(* all rows of equal steps.                                                *)
(***************************************************************************)
EXTENDS WebDecoder

Plane(w, h, depth) == [w |-> w, h |-> h, depth |-> depth]
SmallShapes == {Plane(3, 3, 1), Plane(2, 2, 2), Plane(3, 1, 2), Plane(6, 1, 1), Plane(1, 3, 2), Plane(2, 1, 3)}

Cell(s) == 0..s.w * s.h - 1
Contents(s) == [shape : {s}, frames : {1}, plane : [Cell(s) -> 0..2^s.depth - 1]]
Steps(s) == [shape : {s}, frames : {1},
             plane : {[i \in Cell(s) |-> (a + b * i) % 2^s.depth] : a \in {0, 5}, b \in 1..3}]
\* Two patterns of two by two pixels that take turns.
Woven(s) == [shape : {s}, frames : {1}, plane : {[i \in Cell(s) |-> ((i % s.w) % 4) + 4 * ((i \div s.w) % 2)]}]
\* Two frames of w by h pixels, every content.
Animated(w, h, depth) ==
  LET s == Plane(w, 2 * h, depth) IN [shape : {s}, frames : {2}, plane : [Cell(s) -> 0..2^depth - 1]]

\* A part of two by two pixels goes from the left to the right, and leaves
\* colour 3 behind; then nothing changes.  With a mark, a pixel of the row
\* below changes with it.
Gone(mark) ==
  LET frame1 == <<1, 2, 0, 0>> \o <<3, 4, 0, 0>> \o <<0, 0, 0, 0>>
      frame2 == <<3, 3, 1, 2>> \o <<3, 3, 3, 4>> \o <<0, mark, 0, 0>>
      s == Plane(4, 9, 3)
  IN  [shape |-> s, frames |-> 3, plane |-> [i \in Cell(s) |-> (frame1 \o frame2 \o frame2)[i + 1]]]
MarkedMoves == {Gone(5)}
\* For the other modes of planes.  Samples that are far from each other, two
\* that differ from the rest, blocks that repeat, with one sample changed.
Far(s, samples, modes) == [shape : {s}, plane : [Cell(s) -> samples], modes : {modes}]
Spots(s, ground, modes) ==
  [shape : {s}, modes : {modes},
   plane : {[i \in Cell(s) |-> IF i = a THEN 2^s.depth - 1 ELSE IF i = b THEN 1 ELSE ground] :
              a \in {2, 4, 8}, b \in Cell(s)}]
Torn(s, modes) ==
  [shape : {s}, modes : {modes},
   plane : {[p.plane EXCEPT ![i] = (@ + n) % 2^s.depth] : p \in Woven(s), i \in Cell(s), n \in {0, 3}}]
\* One bright sample in each row, a number of columns further in the next; one
\* dim sample.
Diagonals ==
  [shape : {Plane(5, 3, 6)}, modes : {{"event"}},
   plane : {[i \in 0..14 |-> IF i % 5 = (x + n * (i \div 5)) % 5 THEN 60 ELSE 0] : x \in 0..4, n \in 1..4}
             \cup {[i \in 0..14 |-> IF i = 8 THEN 1 ELSE 0]}]
SmallModePlanes ==
  UNION {Far(Plane(2, 2, 1), {0, 1}, SampleModes), Far(Plane(2, 2, 7), {0, 127}, SampleModes),
         Far(Plane(3, 1, 2), {0, 3}, SampleModes), Spots(Plane(3, 3, 6), 30, SampleModes),
         Far(Plane(3, 3, 6), {0, 60}, {"event"}), Spots(Plane(3, 3, 6), 30, {"event"}),
         Far(Plane(3, 2, 2), {0, 3}, Modes \ SampleModes),
         Far(Plane(3, 3, 1), {0, 1}, {"pattern"}), Torn(Plane(5, 4, 3), {"pattern"}),
         [shape : {Plane(12, 1, 4)}, modes : {{"pattern"}}, plane : {[i \in 0..11 |-> i % 10]}],
         Far(Plane(2, 2, 6), {20, 26}, {"rule", "x24", "x36"}),
         Diagonals}
NoModePlanes == {}
RulePictures == Steps(Plane(4, 2, 2))
NoShapes == {}

SmallPictures ==
  UNION {Contents(Plane(3, 2, 1)), Contents(Plane(3, 1, 2)), Contents(Plane(1, 2, 2)),
         Steps(Plane(4, 2, 2)), Steps(Plane(5, 1, 3)), Steps(Plane(3, 3, 3)), Steps(Plane(1, 5, 3)),
         Steps(Plane(12, 1, 3)), Steps(Plane(4, 5, 3)), Woven(Plane(3, 4, 3)), Woven(Plane(5, 4, 3)),
         Animated(3, 1, 1), Animated(2, 2, 1), {Gone(0)}}

\* Each prediction at the first block, inside and at an edge.
FewPlans == {<<1, 3, 4>>, <<2, 4, 3>>, <<6, 6, 3>>, <<0, 6, 5, 2>>, <<5, 4>>}
FewMixes == <<[i \in 0..4 |-> 3 * i], [i \in 0..4 |-> IF i = 2 THEN 15 ELSE 8 - i]>>

\* Gray, colours, colours with alpha, gray with alpha.
Grays == [k \in 1..8 |-> <<36 * (k - 1), 36 * (k - 1), 36 * (k - 1), 255>>]
Colours == <<<<0, 0, 0, 255>>, <<255, 7, 250, 255>>, <<3, 200, 3, 255>>, <<3, 200, 4, 255>>,
             <<90, 90, 91, 255>>, <<91, 90, 90, 255>>, <<128, 0, 129, 255>>, <<1, 254, 2, 255>>>>
Veils == <<<<9, 8, 7, 0>>, <<9, 8, 7, 255>>, <<250, 1, 130, 128>>, <<0, 0, 0, 0>>>>
GrayVeils == <<<<5, 5, 5, 0>>, <<5, 5, 5, 9>>, <<200, 200, 200, 255>>, <<0, 0, 0, 1>>>>
FewColours == {Grays, Colours, Veils, GrayVeils}

\* Samples of one precision, and of one more than is declared.
Samples1(s) == {[i \in Cell(s) |-> (a + b * i) % 2^s.depth] : a \in {0, 2^s.depth - 3}, b \in {1, 5}}
WideOf(s, bits, channels, kind, descriptions) ==
  {[shape |-> s, plane |-> f, wide |-> w] :
     f \in Samples1(s),
     w \in [kind : {kind}, bits : {bits}, channels : {channels}, description : descriptions]}

Plain == [alpha |-> "NONE", authority |-> "UNSPECIFIED", icc |-> <<>>, cicp |-> <<>>, mdcv |-> <<>>,
          clli |-> <<>>, blocks |-> <<>>]
Profiled == [Plain EXCEPT !.authority = "ICC", !.icc = <<0, 255, 1>>]
Numbered == [Plain EXCEPT !.authority = "CICP", !.cicp = <<9, 258, 0, 1>>]
Exif == [tag |-> "EXIF", data |-> <<1, 2>>]
Jumbled == [Numbered EXCEPT !.authority = "ICC_PREFERRED", !.icc = <<7>>, !.blocks = <<Exif>>]
Mastered == [Numbered EXCEPT !.clli = <<1000, 400>>, !.blocks = <<Exif, [tag |-> "JUMB", data |-> <<>>], Exif>>,
                             !.mdcv = <<35400, 14600, 8500, 39850, 6550, 2300, 15635, 16450, 10000000, 50>>]
Good == {Plain, Profiled, Numbered, Jumbled, [Jumbled EXCEPT !.authority = "CICP_PREFERRED"], Mastered,
         [Plain EXCEPT !.clli = <<400, 400>>, !.blocks = <<Exif, Exif>>]}
\* Each is refused for another reason.
Bad == {[Plain EXCEPT !.alpha = "STRAIGHT"], [Plain EXCEPT !.authority = "ICC"], [Profiled EXCEPT !.cicp = <<1, 1, 1, 0>>],
        [Numbered EXCEPT !.cicp = <<9, 16, 9, 2>>], [Plain EXCEPT !.clli = <<400, 401>>],
        [Mastered EXCEPT !.mdcv[9] = 49], [Plain EXCEPT !.blocks = <<[tag |-> "PIXL", data |-> <<1>>]>>],
        [Profiled EXCEPT !.icc = [k \in 1..51 |-> k]], [Mastered EXCEPT !.blocks = @ \o <<Exif>>]}
Veiled == {[m EXCEPT !.alpha = a] : m \in Good, a \in {"STRAIGHT", "PREMULTIPLIED"}}

SmallWideImages ==
  UNION {WideOf(Plane(2, 2, bits), bits, 1, "NATIVE_WIDE", {Plain}) : bits \in 2..7}
    \cup WideOf(Plane(6, 1, 5), 5, 3, "NATIVE_WIDE", {Plain})
    \cup WideOf(Plane(2, 2, 5), 4, 1, "NATIVE_WIDE", {Plain})
    \cup UNION {WideOf(Plane(1, 2, bits), bits, 1, "HDR_WIDE", Good \cup Bad) : bits \in {2, 3, 6}}
    \cup WideOf(Plane(3, 2, 4), 4, 3, "HDR_WIDE", Good)
    \cup WideOf(Plane(4, 2, 3), 3, 4, "HDR_WIDE", {Plain} \cup Veiled)
NoWideImages == {}
=============================================================================
