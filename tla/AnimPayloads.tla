---------------------------- MODULE AnimPayloads ----------------------------
(***************************************************************************)
(* The payloads of qlic.c for an animation (MODE_ANIM): each frame is a    *)
(* key frame, a duplicate of the one before it, a rectangle in it, or a    *)
(* part of it that moves and leaves one colour behind.                     *)
(*                                                                         *)
(* The frames lie below each other in the plane.  The file of a frame or   *)
(* of a rectangle is one element, its size and its pixels: Container is    *)
(* about what is in it.  Delays and the loop count are left out; which of  *)
(* the tasks runs when is in TileJobs.                                     *)
(***************************************************************************)
EXTENDS PixelPayloads

CONSTANTS
  MoveArea,    \* pixels that must have changed to look for a move, 64 in the code
  MoveVotes    \* patches that must have moved the same way, 4 in the code

ASSUME MoveAssumption == MoveArea \in Nat \ {0} /\ MoveVotes \in Nat \ {0}

FrameHeight == shape.h \div how.frames
FrameCells == 1..W * FrameHeight
Pix(i, n) == Colour((i - 1) * W * FrameHeight + n)
Frame(i) == Each(W * FrameHeight, LAMBDA n : Pix(i, n))

\* Rectangles of a frame.
Rect(x, y, w, h) == [x |-> x, y |-> y, w |-> w, h |-> h]
Covers(r, n) == Column(n) \in r.x..r.x + r.w - 1 /\ Row(n) \in r.y..r.y + r.h - 1
Within(r, outer) ==
  r.w > 0 /\ r.h > 0 /\ r.x + r.w <= outer.x + outer.w /\ r.y + r.h <= outer.y + outer.h
FrameRect == Rect(0, 0, W, FrameHeight)
Hull(cells) ==
  LET x == {Column(n) : n \in cells}
      y == {Row(n) : n \in cells}
  IN  Rect(Min(x), Min(y), Max(x) - Min(x) + 1, Max(y) - Min(y) + 1)
InRect(r) == {n \in FrameCells : Covers(r, n)}

Changed(i) == {n \in FrameCells : Pix(i, n) # Pix(i - 1, n)}

\* anim_crop, and a whole frame, as a file of its own.
FileOf(i, r) ==
  [w |-> r.w, h |-> r.h,
   pixels |-> Each(r.w * r.h, LAMBDA k : Pix(i, (r.y + ((k - 1) \div r.w)) * W + r.x + ((k - 1) % r.w) + 1))]

-----------------------------------------------------------------------------
(* Moves.                                                                   *)

\* What the decoder makes of a move: before it, but clear where the part was,
\* and the part where it goes.
Moved(before, from, to, clear) ==
  Each(Len(before), LAMBDA n :
    IF Covers(to, n) THEN before[n + (from.y - to.y) * W + from.x - to.x]
    ELSE IF Covers(from, n) THEN clear ELSE before[n])

\* anim_patch_key: two by two pixels; equal keys of others only lose votes.
Patch(i, n) == <<Pix(i, n), Pix(i, n + 1), Pix(i, n + W), Pix(i, n + W + 1)>>

\* The vectors by which patches, unique in the frame before, have moved.  The
\* code looks at no more than 16.
Vectors(i, box) ==
  LET corners == {n \in InRect(box) : Column(n) + 1 < box.x + box.w /\ Row(n) + 1 < box.y + box.h}
      once == {q \in corners : \A o \in corners \ {q} : Patch(i - 1, o) # Patch(i - 1, q)}
      moves == {m \in (corners \cap Changed(i)) \X once : m[1] # m[2] /\ Patch(i, m[1]) = Patch(i - 1, m[2])}
      vector(m) == <<Column(m[1]) - Column(m[2]), Row(m[1]) - Row(m[2])>>
  IN  {v \in {vector(m) : m \in moves} : Cardinality({m \in moves : vector(m) = v}) >= MoveVotes}

\* anim_motion_rects: rectangles of box that match what lies v before them,
\* and that do not if they are made wider, or higher at the top.
anim_motion_rects(i, box, v) ==
  LET source(n) == n - v[2] * W - v[1]
      match == {n \in InRect(box) : /\ Column(n) - v[1] \in 0..W - 1
                                    /\ Row(n) - v[2] \in 0..FrameHeight - 1
                                    /\ Pix(i, n) = Pix(i - 1, source(n))}
      all == {r \in [x : box.x..box.x + box.w - 1, y : box.y..box.y + box.h - 1, w : 1..box.w, h : 1..box.h] :
                Within(r, box) /\ InRect(r) \subseteq match}
      larger(r) == {Rect(r.x - 1, r.y, r.w + 1, r.h), Rect(r.x, r.y, r.w + 1, r.h),
                    Rect(r.x, r.y - 1, r.w, r.h + 1)}
  IN  {[rect |-> r, v |-> v, saved |-> Cardinality(InRect(r) \cap Changed(i))] :
         r \in {r \in all : larger(r) \cap all = {}}}

anim_copy_better(a, b) ==
  a.saved > b.saved \/ (a.saved = b.saved /\ a.rect.w * a.rect.h < b.rect.w * b.rect.h)

Source(c) == Rect(c.rect.x - c.v[1], c.rect.y - c.v[2], c.rect.w, c.rect.h)

\* The colour that is left behind: of the first pixel the part does not cover.
Left(c) == InRect(Source(c)) \ InRect(c.rect)

\* anim_verify_move looks between the place it was at and the one it goes to.
anim_verify_move(i, c) ==
  LET from == Source(c)
      both == Hull(InRect(from) \cup InRect(c.rect))
      predicted == Moved(Frame(i - 1), from, c.rect, Pix(i, Min(Left(c))))
  IN  Left(c) # {} /\ \A n \in InRect(both) : predicted[n] = Pix(i, n)

\* anim_find_move: the best that is verified, of equals any; or none.
anim_find_move(i) ==
  LET box == Hull(Changed(i))
      candidates == {c \in UNION {anim_motion_rects(i, box, v) : v \in Vectors(i, box)} :
                       c.saved > 0 /\ 2 * c.saved >= Cardinality(Changed(i))}
      verified == {c \in candidates : anim_verify_move(i, c)}
  IN  IF box.w * box.h < MoveArea THEN {}
      ELSE {c \in verified : \A o \in verified : ~anim_copy_better(o, c)}

-----------------------------------------------------------------------------
(* Payloads.                                                                *)

KeyFrame(i) == <<"KEY", FileOf(i, FrameRect)>>

\* A rectangle is sent as a key frame after all where that is smaller.
anim_frame(i, resent) ==
  LET move(c) == <<"MOVE", Source(c), c.rect, Pix(i, Min(Left(c)))>>
      part(box) ==
        IF 2 * box.w * box.h > W * FrameHeight \/ resent THEN KeyFrame(i) ELSE <<"RECT", box, FileOf(i, box)>>
      sent(moves) == IF moves = {} THEN part(Hull(Changed(i))) ELSE move(CHOOSE c \in moves : TRUE)
  IN  IF i = 1 THEN KeyFrame(1) ELSE IF Changed(i) = {} THEN <<"DUPLICATE">> ELSE sent(anim_find_move(i))

enc_anim_mem(resent) ==
  <<"QAN2", how.frames>> \o FlattenSeq(Each(how.frames, LAMBDA i : anim_frame(i, resent)))

\* Files of earlier versions: all frames are key frames.
qan1_payload == <<"QAN1", how.frames>> \o FlattenSeq(Each(how.frames, LAMBDA i : Tail(KeyFrame(i))))

\* A frame and the place behind it, from the frame before it.
Is(file, r) == file.w = r.w /\ file.h = r.h
Pasted(before, r, pixels) ==
  Each(Len(before), LAMBDA n :
    IF Covers(r, n) THEN pixels[(Row(n) - r.y) * r.w + Column(n) - r.x + 1] ELSE before[n])

anim2_frame(s, k, before) ==
  LET got(n, pixels) == [ok |-> TRUE, next |-> k + n, pixels |-> pixels]
      bad == [ok |-> FALSE]
      has(n) == k + n - 1 <= Len(s)
  IN  IF ~has(1) \/ (before = <<>> /\ s[k] # "KEY") THEN bad
      ELSE CASE s[k] = "DUPLICATE" -> got(1, before)
             [] s[k] = "MOVE" ->
                  IF ~has(4) \/ ~Within(s[k + 1], FrameRect) \/ ~Within(s[k + 2], FrameRect) THEN bad
                  ELSE got(4, Moved(before, s[k + 1], s[k + 2], s[k + 3]))
             [] s[k] = "RECT" ->
                  IF ~has(3) \/ ~Within(s[k + 1], FrameRect) \/ ~Is(s[k + 2], s[k + 1]) THEN bad
                  ELSE got(3, Pasted(before, s[k + 1], s[k + 2].pixels))
             [] s[k] = "KEY" -> IF ~has(2) \/ ~Is(s[k + 1], FrameRect) THEN bad ELSE got(2, s[k + 1].pixels)
             [] OTHER -> bad

\* dec_anim2_payload: the frames in turn, and nothing behind them.
dec_anim2_payload(s, count) ==
  LET f[i \in 0..count] ==
        IF i = 0 THEN [ok |-> TRUE, next |-> 3, frames |-> <<>>]
        ELSE LET done == f[i - 1]
                 one == anim2_frame(s, done.next, IF i = 1 THEN <<>> ELSE Last(done.frames))
             IN  IF ~done.ok \/ ~one.ok THEN [done EXCEPT !.ok = FALSE]
                 ELSE [ok |-> TRUE, next |-> one.next, frames |-> Append(done.frames, one.pixels)]
  IN  IF ~f[count].ok \/ f[count].next # Len(s) + 1 THEN Refused ELSE FlattenSeq(f[count].frames)

\* dec_anim_payload
dec_anim_payload(s, count) ==
  IF s[2] # count THEN Refused
  ELSE IF s[1] = "QAN2" THEN dec_anim2_payload(s, count)
  ELSE IF Len(s) # count + 2 \/ \E i \in 1..count : ~Is(s[i + 2], FrameRect) THEN Refused
  ELSE FlattenSeq([i \in 1..count |-> s[i + 2].pixels])
=============================================================================
