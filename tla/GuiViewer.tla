------------------------------- MODULE GuiViewer -------------------------------
(***************************************************************************)
(* The viewer page of the Windows application (codec/src/gui.c).  Opening  *)
(* a .qlic file starts a decoding thread, which posts a ViewResult that    *)
(* the window thread installs as g_view and turns, frame by frame, into a  *)
(* bitmap.  Dropping an image file leaves the viewer even while a decode   *)
(* runs; that decode is not cancelled, so its result arrives in the        *)
(* encoder page or in the middle of the next file.                         *)
(*                                                                         *)
(* The playback timer is set exactly while g_view_playing is set, so it    *)
(* has no variable.  Zoom, pan, pixel inspection and the PNG dialog change *)
(* nothing that is modelled; every user of g_view_frame tests it first.    *)
(***************************************************************************)
EXTENDS Naturals, Sequences, FiniteSets

CONSTANTS
  Slots,        \* memory for results
  MaxPending,   \* bound on the decodes whose message has not been handled
  MaxFrames,    \* bound on the frames of an animation
  None

ASSUME SlotsAssumption ==
  None \notin Slots /\ IsFiniteSet(Slots) /\ MaxPending < Cardinality(Slots)
ASSUME BoundAssumption == {MaxPending, MaxFrames} \subseteq Nat \ {0}

VARIABLES
  window,   \* "open" or "destroyed"
  viewing,  \* g_view_mode
  loading,  \* g_view_loading
  view,     \* g_view
  frame,    \* g_view_frame
  picture,  \* g_view_bitmap: the result and the frame it was made from
  playing,  \* g_view_playing
  worker,   \* decode_view threads, by the memory their result will use
  queueFills, \* whether PostMessage may find the queue full in this session
  queue,    \* WM_QLIC_VIEW_DONE messages
  memory    \* each result: "free" or "live", and its frames: frame_count of
            \* one that is ok, 0 of one that is not

page == <<viewing, loading, view, frame, picture, playing>>
vars == <<window, viewing, loading, view, frame, picture, playing, worker,
          queueFills, queue, memory>>

Unused(state) == [state |-> state, frames |-> 0]

Init ==
  /\ window = "open" /\ viewing = FALSE /\ loading = FALSE
  /\ view = None /\ frame = 0 /\ picture = None /\ playing = FALSE
  /\ worker = [s \in Slots |-> "none"]
  /\ queueFills \in BOOLEAN /\ queue = <<>>
  /\ memory = [s \in Slots |-> Unused("free")]

\* free_view_result
Freed(s) ==
  IF s = None THEN memory
  ELSE [memory EXCEPT ![s] =
          Unused(IF @.state = "live" THEN "free" ELSE "freed twice")]

\* Frames of the result on display: 0 without one and of one that is not ok.
Count == IF view = None THEN 0 ELSE memory[view].frames

Working == {s \in Slots : worker[s] # "none"}
Available == {s \in Slots \ Working : memory[s].state = "free"}

-----------------------------------------------------------------------------
(* The window thread.                                                       *)

\* set_input with a .qlic file: start_viewer.  One that is loading refuses;
\* otherwise the old result goes, and the thread starts or cannot.
Open ==
  /\ window = "open" /\ ~loading
  /\ viewing' = TRUE /\ view' = None /\ memory' = Freed(view)
  /\ frame' = 0 /\ picture' = None /\ playing' = FALSE
  /\ \/ /\ Available # {} /\ Cardinality(Working) + Len(queue) < MaxPending
        /\ worker' = [worker EXCEPT ![CHOOSE s \in Available : TRUE] = "begin"]
        /\ loading' = TRUE
     \/ loading' = FALSE /\ UNCHANGED worker
  /\ UNCHANGED <<window, queue>>

\* leave_viewer_mode: the Encoder button when nothing is loading, a dropped
\* image at any time.  A running decode goes on.
Leave ==
  /\ window = "open" /\ viewing
  /\ viewing' = FALSE /\ loading' = FALSE
  /\ view' = None /\ memory' = Freed(view)
  /\ frame' = 0 /\ picture' = None /\ playing' = FALSE
  /\ UNCHANGED <<window, worker, queue>>

\* WM_QLIC_VIEW_DONE, whatever page is shown: the old result is freed, the new
\* one installed.  select_view_frame(0) may fail to make a bitmap; it leaves
\* g_view_frame alone then.
Installed(r, rest) ==
  /\ loading' = FALSE /\ view' = r
  /\ IF r # None /\ memory[r].frames > 0
     THEN \/ picture' = <<r, 0>> /\ frame' = 0
          \/ picture' = rest /\ UNCHANGED frame
     ELSE picture' = rest /\ UNCHANGED frame
  /\ UNCHANGED <<window, viewing, playing, worker>>

\* Mutants: the result on display is forgotten; its bitmap stays.
ViewDoneForgettingOld ==
  /\ window = "open" /\ queue # <<>>
  /\ queue' = Tail(queue) /\ UNCHANGED memory
  /\ Installed(Head(queue), None)
ViewDoneKeepingPicture ==
  /\ window = "open" /\ queue # <<>>
  /\ queue' = Tail(queue) /\ memory' = Freed(view)
  /\ Installed(Head(queue), picture)

ViewDone ==
  /\ window = "open" /\ queue # <<>>
  /\ queue' = Tail(queue) /\ memory' = Freed(view)
  /\ Installed(Head(queue), None)

\* select_view_frame: an index out of range changes nothing, a bitmap that
\* cannot be made leaves none.
Select(i, failed) ==
  IF i >= Count THEN UNCHANGED <<picture, frame>> /\ failed
  ELSE \/ picture' = <<view, i>> /\ frame' = i /\ ~failed
       \/ picture' = None /\ UNCHANGED frame /\ failed

\* The Previous and Next buttons, on any page: playback stops.
Step ==
  /\ window = "open" /\ Count > 1
  /\ playing' = FALSE
  /\ \E failed \in BOOLEAN :
       \/ Select(IF frame > 0 THEN frame - 1 ELSE Count - 1, failed)
       \/ Select((frame + 1) % Count, failed)
  /\ UNCHANGED <<window, viewing, loading, view, worker, queue, memory>>

\* toggle_view_playback
Play ==
  /\ window = "open" /\ Count > 1
  /\ playing' = ~playing
  /\ UNCHANGED <<window, viewing, loading, view, frame, picture, worker, queue,
                 memory>>

\* WM_TIMER: the next frame; playback stops when it has no bitmap.
Timer ==
  /\ window = "open" /\ playing /\ Count > 1
  /\ \E failed \in BOOLEAN :
       /\ Select((frame + 1) % Count, failed)
       /\ playing' = ~failed
  /\ UNCHANGED <<window, viewing, loading, view, worker, queue, memory>>

\* WM_DESTROY.  Messages still queued are lost with the window.
Destroy ==
  /\ window = "open"
  /\ window' = "destroyed"
  /\ picture' = None /\ view' = None /\ memory' = Freed(view)
  /\ queue' = <<>>
  /\ UNCHANGED <<viewing, loading, frame, playing, worker>>

-----------------------------------------------------------------------------
(* The decoding threads.                                                    *)

\* post_view_result: a result that cannot be posted is freed.
Post(s, r, results) ==
  /\ worker' = [worker EXCEPT ![s] = "none"]
  /\ \/ window = "open" /\ queue' = Append(queue, r) /\ memory' = results
     \/ /\ queueFills \/ window = "destroyed"
        /\ memory' = IF r = None THEN results
                     ELSE [results EXCEPT ![r] = Unused("free")]
        /\ UNCHANGED queue

\* Mutant: a thread without memory for its result ends and tells nobody.
BeginSilently(s) ==
  /\ worker[s] = "begin"
  /\ \/ /\ worker' = [worker EXCEPT ![s] = "decode"]
        /\ memory' = [memory EXCEPT ![s].state = "live"]
     \/ worker' = [worker EXCEPT ![s] = "none"] /\ UNCHANGED memory
  /\ UNCHANGED <<window, page, queue>>

\* decode_view: without memory for the result it posts NULL.
Begin(s) ==
  /\ worker[s] = "begin"
  /\ \/ /\ worker' = [worker EXCEPT ![s] = "decode"]
        /\ memory' = [memory EXCEPT ![s].state = "live"]
        /\ UNCHANGED queue
     \/ Post(s, None, memory)
  /\ UNCHANGED <<window, page>>

\* The rest of decode_view, with every failure in between.
Decode(s) ==
  /\ worker[s] = "decode"
  /\ \E n \in 0..MaxFrames : Post(s, s, [memory EXCEPT ![s].frames = n])
  /\ UNCHANGED <<window, page>>

Window == Open \/ Leave \/ ViewDone \/ Step \/ Play \/ Timer \/ Destroy

\* Whether the queue fills up is a property of the session.
InSession(action) == action /\ UNCHANGED queueFills

Next == InSession(Window \/ \E s \in Slots : Begin(s) \/ Decode(s))

Spec == Init /\ [][Next]_vars

\* Threads run on and the window thread empties its queue; the user and the
\* timer are under no fairness.
Fairness ==
  /\ WF_vars(InSession(ViewDone))
  /\ \A s \in Slots : WF_vars(InSession(Begin(s) \/ Decode(s)))

FairSpec == Spec /\ Fairness

-----------------------------------------------------------------------------
\* post_view_result, WM_QLIC_VIEW_DONE, start_viewer and leave_viewer_mode hand
\* a result on or free it: as long as the window exists every live result is
\* held by its thread, one message or g_view, by one of them only, and nobody
\* holds a freed one.  No overtaking decode leaks or frees a result twice.
OneResultOwner ==
  window = "open" =>
    \A s \in Slots :
      Cardinality({i \in 1..Len(queue) : queue[i] = s})
        + (IF worker[s] = "decode" THEN 1 ELSE 0)
        + (IF view = s THEN 1 ELSE 0)
      = (IF memory[s].state = "live" THEN 1 ELSE 0)

\* The bitmap on screen is the frame g_view_frame of the result g_view (which
\* pixel inspection and the PNG export read): no late result, failed frame or
\* change of page leaves another picture up.
PictureIsCurrentFrame ==
  picture # None => /\ picture = <<view, frame>>
                    /\ memory[view].state = "live" /\ frame < Count

\* g_view_loading, which disables Open and refuses dropped .qlic files, ends
\* whatever fails in the thread that was started; only a result that finds the
\* queue full (gui.c:823-827) leaves it set.
LoadingEnds ==
  queueFills \/ ((window = "open" /\ loading) ~> (~loading \/ window = "destroyed"))
=============================================================================
