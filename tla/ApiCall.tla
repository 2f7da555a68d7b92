------------------------------- MODULE ApiCall ------------------------------
(* One call of the public C API on one thread, from the check of its          *)
(* arguments to its return: the thread count it sets and restores, the work   *)
(* of the core (TileJobs), the buffers it owns, the observer and the row      *)
(* callback that may stop it after any step, and the code it returns.         *)
EXTENDS TileJobs, Sequences

CONSTANTS
  Hardware,       \* logical processors
  Options,        \* values of the thread option; 0 leaves the count alone
  Rows            \* rows of a region, and of an image that is given row by row

ASSUME ApiAssumption ==
  /\ Hardware \in Nat \ {0} /\ Options \subseteq Nat /\ Rows \in Nat \ {0}
  /\ Budgets = 1..Hardware

VARIABLES
  call,       \* operation, image, options
  pc,
  before,     \* thread count of the thread when the call came
  threads,    \* g_threads
  held,       \* what the call has allocated beside the buffers of the core
  taken,      \* buffers that the caller's output points to
  out,        \* what the caller's output says: "empty", "filled"
  seen,       \* progress values the observer was given
  given,      \* rows that were copied or handed to the row callback
  stopped,    \* a callback asked to stop
  result

avars == <<call, pc, before, threads, held, taken, out, seen, given, stopped, result>>
vars == <<jvars, avars>>

-----------------------------------------------------------------------------
(* The operations.  takes: the forms of image it works on; early: it reads    *)
(* the header, and refuses other forms, before it begins; watched: it has an  *)
(* observer; late: how it can still fail when the core has succeeded; copies: *)
(* when it copies the caller's pixels, if they are not packed RGBA.           *)

Operation(takes, early, watched, late, copies) ==
  [takes |-> takes, early |-> early, watched |-> watched, late |-> late, copies |-> copies]

Still == {"still"}
Forms == {"still", "animation", "wide", "hdr"}
Unsupported == {"UNSUPPORTED_FORMAT"}

\* Animations give their first frame.
qlic_decode_rgba == Operation(Still \cup {"animation"}, FALSE, FALSE, {}, "no")
\* The image may not be representable in the caller's pixel format.
qlic_decode_pixels == Operation(Still, TRUE, FALSE, Unsupported, "no")
\* The region may not be inside the image.
qlic_decode_region_rgba == Operation(Still \cup {"animation"}, FALSE, TRUE, {"BAD_ARGUMENT"}, "no")
qlic_decode_rows_rgba == Operation(Still, TRUE, TRUE, {}, "no")
qlic_decode_wide == Operation({"wide"}, FALSE, FALSE, {}, "no")
\* A caller with the first version of the struct cannot take metadata.
qlic_decode_hdr == Operation({"hdr"}, FALSE, FALSE, Unsupported, "no")
\* The table of frames may be refused.
qlic_decode_animation == Operation(Still \cup {"animation"}, FALSE, FALSE, {"OUT_OF_MEMORY"}, "no")
qlic_validate == Operation(Forms, TRUE, FALSE, {}, "no")
qlic_get_info == Operation(Forms, TRUE, FALSE, {}, "no")
qlic_encode_rgba == Operation(Still, FALSE, FALSE, {}, "inside")
\* Converted to RGBA first, and given to qlic_encode_rgba.
qlic_encode_pixels == Operation(Still, FALSE, FALSE, {}, "before")
qlic_encode_wide == Operation({"wide"}, FALSE, FALSE, {}, "no")
qlic_encode_hdr == Operation({"hdr"}, FALSE, FALSE, {}, "no")
qlic_encode_animation == Operation({"animation"}, FALSE, FALSE, {}, "inside")

Decoders ==
  [decode_rgba |-> qlic_decode_rgba, decode_pixels |-> qlic_decode_pixels,
   decode_region |-> qlic_decode_region_rgba, decode_rows |-> qlic_decode_rows_rgba,
   decode_wide |-> qlic_decode_wide, decode_hdr |-> qlic_decode_hdr,
   decode_animation |-> qlic_decode_animation, validate |-> qlic_validate,
   get_info |-> qlic_get_info]
Encoders ==
  [encode_rgba |-> qlic_encode_rgba, encode_pixels |-> qlic_encode_pixels,
   encode_wide |-> qlic_encode_wide, encode_hdr |-> qlic_encode_hdr,
   encode_animation |-> qlic_encode_animation]
Ops == DOMAIN Decoders \cup DOMAIN Encoders
decoding == call.op \in DOMAIN Decoders
op == IF decoding THEN Decoders[call.op] ELSE Encoders[call.op]

\* How the core does its work on an image of some form.
KindsOf(name, form) ==
  IF name \in DOMAIN Decoders
  THEN CASE form = "still" -> {"one_dec", "tiles_dec", "rtt_dec"}
         [] form = "animation" -> {"anim_dec", "anim2_dec"}
         [] OTHER -> {"wide_dec"}
  ELSE CASE form = "still" -> {"one_enc", "tiles_enc", "rtt_enc"}
         [] form = "animation" -> {"anim_enc"}
         [] OTHER -> {"wide_enc"}

\* The checks of arguments and limits, the header and the strides may come out
\* either way.
Calls ==
  {c \in [op : Ops, form : Forms, kind : Kinds, option : Options, args : BOOLEAN, limits : BOOLEAN,
          header : {"ok", "bad", "limit"}, observed : BOOLEAN, packed : BOOLEAN] :
     /\ c.kind \in KindsOf(c.op, c.form)
     /\ c.op \in DOMAIN Encoders => c.form \in Encoders[c.op].takes /\ c.header = "ok"
     /\ c.observed => c.op \in DOMAIN Decoders /\ Decoders[c.op].watched
     /\ ~c.packed => c.op \in DOMAIN Encoders /\ Encoders[c.op].copies # "no"
     /\ ~c.args => c.limits /\ c.header = "ok"       \* the first check that fails decides
     /\ ~c.limits => c.header = "ok"
     /\ ~(c.args /\ c.limits /\ c.header = "ok")     \* and then the rest does not matter
          => c.option = 0 /\ c.kind = CHOOSE k \in KindsOf(c.op, c.form) : TRUE}

-----------------------------------------------------------------------------
\* result_code, and the codes the functions return themselves.
Code(own) ==
  IF own \in {"OK", "ERROR"} THEN IF decoding THEN "BAD_DATA" ELSE "ERROR" ELSE own

Quiet == UNCHANGED <<call, before, out, seen, given, stopped>>

(* The buffers beside those of the core: the caller's pixels converted to RGBA, *)
(* or copied row by row (encode_pixels, encode_rgba); for animations the frames *)
(* copied, their two tables (adapted and animation.frames) and the table that   *)
(* is given to the caller; the profile and the blocks of an HDR image.          *)
Converted == -2
Packed == -3
Adapted == -4
Listed == -5
Table == -6
Profile == -7
Metadata == -8

\* What the functions of these names free.  A decoder of one image keeps the
\* first frame of an animation.
image_free == IF call.form = "animation" THEN {1} ELSE {Whole}
anim_free == {Whole, Listed} \cup 1..job.count
wide_image_free == {Whole}
hdr_image_free == {Whole, Profile, Metadata}

\* The call ends with code r; on this path it frees the buffers in freed.
Return(r, freed) ==
  /\ pc' = "returned" /\ result' = r
  /\ buffers' = buffers \ freed /\ held' = held \ freed

\* A call that goes wrong by itself says so in the status, too.
Refuse(r, fault, freed) ==
  Return(r, freed) /\ status' = r /\ faults' = faults \cup {fault} /\ UNCHANGED taken

\* The call goes on and allocates nothing.
Continue(where) ==
  pc' = where /\ UNCHANGED <<buffers, held, taken, status, faults, result>>

Same == UNCHANGED <<job, phase, task, base, next>>

\* Mutant: the status of the call before is not cleared.
EnterUncleared ==
  /\ pc = "enter" /\ Quiet /\ Same /\ UNCHANGED threads
  /\ IF ~call.args THEN Refuse("BAD_ARGUMENT", "argument", {})
     ELSE Continue(IF op.early THEN "header" ELSE IF op.watched THEN "watch" ELSE "begin")

\* clear_err, the output is cleared, the arguments are checked, pixels that are
\* not RGBA are converted.
Enter ==
  /\ pc = "enter" /\ Quiet /\ Same /\ UNCHANGED threads
  /\ IF ~call.args THEN Refuse("BAD_ARGUMENT", "argument", {})
     ELSE \/ /\ op.copies = "before" /\ ~call.packed
             /\ Refuse("OUT_OF_MEMORY", "nomem", {})
          \/ /\ pc' = IF op.early THEN "header" ELSE IF op.watched THEN "watch" ELSE "begin"
             /\ held' = IF op.copies = "before" /\ ~call.packed THEN held \cup {Converted} ELSE held
             /\ status' = "OK" /\ UNCHANGED <<buffers, taken, faults, result>>

\* Limits and header, where the function reads them first.  A destination that
\* is too small is refused here.
Header ==
  /\ pc = "header" /\ Same /\ UNCHANGED <<call, before, seen, given, stopped, threads>>
  /\ CASE ~call.limits -> Refuse("BAD_ARGUMENT", "argument", {}) /\ UNCHANGED out
       [] call.limits /\ call.header = "bad" ->
            /\ Return("BAD_DATA", {}) /\ status' = "ERROR" /\ faults' = faults \cup {"bad"}
            /\ UNCHANGED <<taken, out>>
       [] call.limits /\ call.header = "limit" -> Refuse("LIMIT_EXCEEDED", "limit", {}) /\ UNCHANGED out
       [] call.limits /\ call.header = "ok" /\ call.form \notin op.takes ->
            Refuse("UNSUPPORTED_FORMAT", "foreign", {}) /\ UNCHANGED out
       [] OTHER ->
            IF call.op = "get_info"
            THEN Return("OK", {}) /\ out' = "filled" /\ UNCHANGED <<taken, status, faults>>
            ELSE \/ Continue(IF op.watched THEN "watch" ELSE "begin") /\ UNCHANGED out
                 \/ call.op = "decode_pixels" /\ Refuse("BAD_ARGUMENT", "argument", {}) /\ UNCHANGED out

\* observer_checkpoint: the cancelled callback is asked, then the progress
\* callback is told n; either can stop the call, which then frees the buffers
\* in freed.  Otherwise it goes on as then.
Checkpoint(n, then, freed) ==
  \/ ~call.observed /\ then /\ UNCHANGED <<seen, stopped>>
  \/ call.observed /\ then /\ seen' = Append(seen, n) /\ UNCHANGED stopped
  \/ call.observed /\ stopped' = TRUE /\ seen' \in {seen, Append(seen, n)}
     /\ Refuse("CANCELLED", "stop", freed)

\* decode_delivery_image: before the work.
Watch ==
  /\ pc = "watch" /\ Same /\ UNCHANGED <<call, before, threads, out, given>>
  /\ Checkpoint(0, Continue("begin"), {})

\* What an encoder allocates before it calls the core: a copy of rows that have
\* a stride, for an animation with its table of frames.
Copies ==
  IF op.copies # "inside" THEN {}
  ELSE (IF call.packed THEN {} ELSE {Packed})
         \cup IF call.op = "encode_animation" THEN {Adapted, Listed} ELSE {}

\* Options or limits are checked, the thread count is set for the call.
Begin ==
  /\ pc = "begin" /\ Same /\ Quiet
  /\ \/ ~call.limits /\ Refuse("BAD_ARGUMENT", "argument", {Converted}) /\ UNCHANGED threads
     \/ /\ call.limits /\ Continue(IF Copies = {} THEN "start" ELSE "copy")
        /\ threads' = IF call.option = 0 THEN threads ELSE Least(call.option, Hardware)

\* The copies, or those of them that could be had before the memory ran out;
\* animation.frames is the last one.
Copy ==
  /\ pc = "copy" /\ Same /\ Quiet
  /\ \/ /\ pc' = "start" /\ held' = held \cup Copies
        /\ UNCHANGED <<buffers, taken, threads, status, faults, result>>
     \/ /\ pc' = "returned" /\ result' = "OUT_OF_MEMORY" /\ threads' = before
        /\ \E some \in SUBSET (Copies \ {Listed}) : held' = (held \cup some) \ {Packed, Adapted}
        /\ status' = "OUT_OF_MEMORY" /\ faults' = faults \cup {"nomem"} /\ UNCHANGED <<buffers, taken>>

\* The core reads the header and starts its work.
CoreFails(own, fault) ==
  /\ phase' = "failed" /\ status' = own /\ faults' = faults \cup {fault}
  /\ UNCHANGED <<job, task, base, next, buffers>>

Start ==
  /\ pc = "start" /\ pc' = "core" /\ Quiet /\ UNCHANGED <<threads, held, taken, result>>
  /\ CASE call.header = "bad" -> CoreFails("ERROR", "bad")
       [] call.header = "limit" -> CoreFails("LIMIT_EXCEEDED", "limit")
       [] call.header = "ok" /\ call.form \notin op.takes -> CoreFails("UNSUPPORTED_FORMAT", "foreign")
       [] OTHER -> \E j \in Jobs : j.kind = call.kind /\ j.budget = threads
                                   /\ Plan(j) /\ UNCHANGED <<status, faults>>

Core == pc = "core" /\ JobStep /\ UNCHANGED avars

\* What each call frees when the core has failed.
Unwound ==
  CASE call.op \in {"decode_rgba", "decode_pixels", "decode_region", "decode_rows"} -> image_free
    [] call.op = "decode_wide" -> wide_image_free
    [] call.op = "decode_hdr" -> hdr_image_free
    [] call.op = "decode_animation" -> anim_free
    [] call.op = "validate" ->
         (CASE call.form = "still" -> image_free
            [] call.form = "animation" -> anim_free
            [] call.form = "wide" -> wide_image_free
            [] call.form = "hdr" -> hdr_image_free)
    [] call.op = "encode_rgba" -> {File, Packed}
    [] call.op = "encode_pixels" -> {File, Packed, Converted}
    [] call.op \in {"encode_wide", "encode_hdr"} -> {File}
    [] call.op = "encode_animation" -> {File, Packed, Adapted, Listed}
    [] OTHER -> {}

\* The thread count is put back and the failure is translated.
CoreFailed ==
  /\ pc = "core" /\ phase = "failed"
  /\ threads' = before /\ Return(Code(status), Unwound)
  /\ Quiet /\ Same /\ UNCHANGED <<taken, status, faults>>

\* The core has decoded or encoded everything, and makes what it gives to the
\* call: of an animation the first frame if one image is wanted, of a still a
\* table with one frame if an animation is, the description of an HDR image.
FirstFrame ==
  /\ call.op \in {"decode_rgba", "decode_region"} /\ call.form = "animation"
  /\ buffers' = buffers \ (({Whole} \cup 1..job.count) \ {1}) /\ held' = held

OneFrame ==
  /\ call.op = "decode_animation" /\ call.form = "still"
  /\ held' = held \cup {Listed} /\ buffers' = buffers

Described ==
  /\ call.op \in {"decode_hdr", "validate"} /\ call.form = "hdr"
  /\ \E some \in SUBSET {Profile, Metadata} : held' = held \cup some
  /\ buffers' = buffers

AsItIs ==
  /\ \/ call.op \notin {"decode_rgba", "decode_region", "decode_animation", "decode_hdr", "validate"}
     \/ call.op \in {"decode_rgba", "decode_region"} /\ call.form = "still"
     \/ call.op = "decode_animation" /\ call.form = "animation"
     \/ call.op = "validate" /\ call.form # "hdr"
  /\ UNCHANGED <<buffers, held>>

CoreReturns ==
  /\ pc = "core" /\ phase = "done" /\ pc' = "back" /\ phase' = "none"
  /\ FirstFrame \/ OneFrame \/ Described \/ AsItIs
  /\ Quiet /\ UNCHANGED <<job, task, base, next, threads, taken, status, faults, result>>

CoreRunsOut ==
  /\ pc = "core" /\ phase = "done" /\ phase' = "failed"
  /\ status' = "OUT_OF_MEMORY" /\ faults' = faults \cup {"nomem"}
  /\ \/ call.op = "decode_animation" /\ call.form = "still" /\ buffers' = buffers \ image_free
     \/ call.op \in {"decode_hdr", "validate"} /\ call.form = "hdr" /\ buffers' = buffers \ hdr_image_free
  /\ UNCHANGED <<job, task, base, next, avars>>

\* The core has returned, the thread count is put back; the result goes to the
\* caller, or is refused after all.
Back ==
  /\ pc = "back" /\ threads' = before
  /\ Same /\ UNCHANGED <<call, before, seen, given, stopped>>

Late(freed) == (\E r \in op.late : Refuse(r, "late", freed)) /\ UNCHANGED out

\* The output points to the buffers in moved.
HandOver(moved, freed) ==
  Return("OK", freed) /\ taken' = moved /\ out' = "filled" /\ UNCHANGED <<status, faults>>

DeliverWatched == Back /\ op.watched /\ Continue("watched") /\ UNCHANGED out

DeliverImage ==
  Back /\ call.op \in {"decode_rgba", "decode_wide"} /\ HandOver(image_free, {})

DeliverPixels ==
  Back /\ call.op = "decode_pixels" /\ (HandOver({}, image_free) \/ Late(image_free))

\* A caller with the first version of the struct cannot take metadata.
DeliverHdr ==
  /\ Back /\ call.op = "decode_hdr"
  /\ LET moved == (buffers \cup held) \cap hdr_image_free
     IN  \/ HandOver(moved, hdr_image_free \ moved)
         \/ Metadata \in held /\ Late(hdr_image_free)

\* The frames move to a table of their own.
DeliverAnimation ==
  /\ Back /\ call.op = "decode_animation"
  /\ LET images == IF call.form = "animation" THEN 1..job.count ELSE {Whole}
     IN  \/ Late(anim_free)
         \/ /\ pc' = "returned" /\ result' = "OK" /\ out' = "filled"
            /\ taken' = {Table} \cup images
            /\ buffers' = buffers \ (anim_free \ images)
            /\ held' = (held \cup {Table}) \ (anim_free \ images)
            /\ UNCHANGED <<status, faults>>

DeliverVerdict == Back /\ call.op = "validate" /\ HandOver({}, Unwound)

DeliverFile == Back /\ ~decoding /\ HandOver({File}, Unwound \ {File})

Deliver ==
  \/ DeliverWatched \/ DeliverImage \/ DeliverPixels \/ DeliverHdr \/ DeliverAnimation
  \/ DeliverVerdict \/ DeliverFile

\* decode_delivery_image: after the work.  A region outside the image is
\* refused now.
Watched ==
  /\ pc = "watched" /\ Same /\ UNCHANGED <<call, before, threads, out, given>>
  /\ Checkpoint(1, Continue("rows") \/ \E r \in op.late : Refuse(r, "late", image_free), image_free)

\* Mutant: the image is not freed when the call is cancelled between rows.
RegionRowLeaks ==
  /\ pc = "rows" /\ call.op = "decode_region" /\ given < Rows
  /\ Checkpoint(given + 2, Continue("rows"), {})
  /\ given' = IF pc' = "rows" THEN given + 1 ELSE given
  /\ Same /\ UNCHANGED <<call, before, threads, out>>

\* A row of a region is copied after its checkpoint.
RegionRow ==
  /\ pc = "rows" /\ call.op = "decode_region" /\ given < Rows
  /\ Checkpoint(given + 2, Continue("rows"), image_free)
  /\ given' = IF pc' = "rows" THEN given + 1 ELSE given
  /\ Same /\ UNCHANGED <<call, before, threads, out>>

\* Mutant: the answer of the row callback is not looked at.
CallbackRowAnyway ==
  /\ pc = "rows" /\ call.op = "decode_rows" /\ given < Rows /\ given' = given + 1
  /\ \/ Checkpoint(given + 2, Continue("rows"), image_free)
     \/ stopped' = TRUE /\ Continue("rows") /\ UNCHANGED seen
  /\ Same /\ UNCHANGED <<call, before, threads, out>>

\* A row is handed out before its checkpoint, and may be the last one wanted.
CallbackRow ==
  /\ pc = "rows" /\ call.op = "decode_rows" /\ given < Rows /\ given' = given + 1
  /\ \/ Checkpoint(given + 2, Continue("rows"), image_free)
     \/ stopped' = TRUE /\ Refuse("CANCELLED", "stop", image_free) /\ UNCHANGED seen
  /\ Same /\ UNCHANGED <<call, before, threads, out>>

RowsDone ==
  /\ pc = "rows" /\ given = Rows
  /\ HandOver({}, image_free)
  /\ Same /\ UNCHANGED <<call, before, threads, seen, given, stopped>>

\* A call comes to a thread with some thread count and the status of the call
\* before it.
ApiInit ==
  /\ call \in Calls /\ pc = "enter"
  /\ before \in Budgets /\ threads = before
  /\ held = {} /\ taken = {} /\ out = "empty" /\ seen = <<>> /\ given = 0 /\ stopped = FALSE
  /\ result = "none"
  /\ job = Planned([kind |-> "one_dec", budget |-> 1, parts |-> 1, tileH |-> 1, idle |-> {}])
  /\ phase = "none" /\ task = <<>> /\ base = 1 /\ next = 1 /\ buffers = {} /\ faults = {}
  /\ status \in {"OK", "OUT_OF_MEMORY"}

ApiNext ==
  \/ Enter \/ Header \/ Watch \/ Begin \/ Copy \/ Start \/ Core
  \/ CoreFailed \/ CoreReturns \/ CoreRunsOut \/ Deliver
  \/ Watched \/ RegionRow \/ CallbackRow \/ RowsDone
  \/ pc = "returned" /\ UNCHANGED vars

ApiSpec == ApiInit /\ [][ApiNext]_vars

-----------------------------------------------------------------------------
\* When a call has returned, what is still allocated is exactly what its output
\* points to, and after a failure nothing: every path frees what it has
\* allocated so far, and nothing that it hands over.  It has put the thread
\* count of its thread back, and has filled the caller's output exactly when it
\* succeeded.
CallLeavesNothing ==
  pc = "returned" =>
    /\ buffers \cup held = taken /\ (result # "OK" => taken = {})
    /\ threads = before /\ (out = "filled" <=> result = "OK")

\* A callback that asks to stop is the last one to be called, and its call
\* returns CANCELLED, no other does; progress is told step by step, and a call
\* that succeeds has told all of it ("progress is monotonic, and the final
\* successful callback has completed == total").
CancelObeyed ==
  /\ stopped => pc = "returned"
  /\ pc = "returned" => (stopped <=> result = "CANCELLED")
  /\ \A n \in 1..Len(seen) : seen[n] = n - 1
  /\ result = "OK" /\ call.observed => Len(seen) = Rows + 2

\* The codes a fault can be reported with.  A band of MODE_TILE_MODEL that a
\* helper could not encode is an ERROR to the caller, whatever it was; a frame
\* with wide samples is UNSUPPORTED_FORMAT only if the caller decoded it last.
CodesOf(f) ==
  CASE f = "nomem" -> {"OUT_OF_MEMORY"} \cup (IF job.kind = "rtt_enc" THEN {"ERROR"} ELSE {})
    [] f = "bad" -> IF decoding THEN {"BAD_DATA"} ELSE {"ERROR"}
    [] f = "unnamed" -> {"BAD_DATA"}
    [] f = "limit" -> {"LIMIT_EXCEEDED"}
    [] f = "foreign" -> {"UNSUPPORTED_FORMAT", "BAD_DATA"}
    [] f = "argument" -> {"BAD_ARGUMENT"}
    [] f = "stop" -> {"CANCELLED"}
    [] f = "late" -> op.late

\* A call fails with the code of something that did go wrong in this call, on
\* whatever thread, not with a code that another part or an earlier call left.
CauseReported ==
  pc = "returned" /\ result # "OK" => \E f \in faults : result \in CodesOf(f)
=============================================================================
