-------------------------------- MODULE GuiJob --------------------------------
(***************************************************************************)
(* The encoder page of the Windows application (codec/src/gui.c): the      *)
(* window thread starts one compression job at a time on a worker thread,  *)
(* the worker runs `qlic pack` and then `qlic verify` as child processes   *)
(* and posts its result back.  The window thread can cancel the job at any *)
(* moment by terminating the child whose handle the worker published.      *)
(*                                                                         *)
(* The files are those of the temporary directory; the children and the    *)
(* message queue belong to Windows and are modelled from their use here.   *)
(***************************************************************************)
EXTENDS Naturals, Sequences, FiniteSets

CONSTANTS
  Inputs,       \* images the user may choose
  Files,        \* names GetTempFileName may return
  None          \* no file, no input, no handle

ASSUME NoneAssumption == None \notin Inputs \cup Files \cup {"pack", "verify"}

Stages == {"pack", "verify"}

VARIABLES
  window,     \* "open" or "destroyed"
  ui,         \* window thread: "idle", or inside cancel_compression
  dialog,     \* the Save dialog is open
  input,      \* text of g_input
  busy,       \* g_busy
  canStart,   \* the Compress/Cancel button is enabled
  canSave,    \* the Save button is enabled
  heading,    \* g_result: "none", "ok", "cancelled", "failed"
  temp,       \* g_temp_output
  cancelFlag, \* g_cancel_requested
  process,    \* g_process: the child whose handle is published
  taken,      \* the handle cancel_compression holds
  queueFills, \* whether PostMessage may find the queue full in this session
  queue,      \* WM_QLIC_DONE messages
  pc,         \* worker thread
  stage,      \* which child it runs
  job,        \* its output file
  result,     \* Result being filled in
  child,      \* state of the job's children
  handles,    \* state of their duplicated handles
  content     \* what each temporary file holds

uiVars == <<window, ui, dialog, input, busy, canStart, canSave, heading, temp>>
workVars == <<pc, stage, job, result>>
vars == <<window, ui, dialog, input, busy, canStart, canSave, heading, temp,
          cancelFlag, process, taken, queueFills, queue, pc, stage, job, result,
          child, handles, content>>

NoResult == [packed |-> FALSE, verified |-> FALSE, cancelled |-> FALSE]

Init ==
  /\ window = "open" /\ ui = "idle" /\ dialog = FALSE
  /\ input = None /\ busy = FALSE /\ canStart = FALSE /\ canSave = FALSE
  /\ heading = "none" /\ temp = None
  /\ cancelFlag = FALSE /\ process = None /\ taken = None
  /\ queueFills \in BOOLEAN /\ queue = <<>>
  /\ pc = "idle" /\ stage = "pack" /\ job = None /\ result = NoResult
  /\ child = [s \in Stages |-> "none"]
  /\ handles = [s \in Stages |-> "none"]
  /\ content = [f \in Files |-> "absent"]

\* Window thread between messages, its window enabled.
Listening == window = "open" /\ ui = "idle" /\ ~dialog

\* remove_temporary_output
Removed(f) == IF f = None THEN content ELSE [content EXCEPT ![f] = "absent"]

-----------------------------------------------------------------------------
(* The window thread.                                                       *)

\* set_input with an image: a dropped file arrives while a job runs, too.
\* clear_result and update_controls are part of it.
ChooseInput(i) ==
  /\ Listening
  /\ input' = i /\ canStart' = TRUE
  /\ content' = Removed(temp) /\ temp' = None
  /\ heading' = "none" /\ canSave' = FALSE
  /\ UNCHANGED <<window, ui, dialog, busy, cancelFlag, process, taken, queue,
                 workVars, child, handles>>

\* start_compression up to the worker.  The old result goes first; then the
\* temporary file, the commands or the thread may not be had.
StartIf(ready) ==
  /\ Listening /\ ready /\ canStart /\ input # None
  /\ temp' = None /\ heading' = "none" /\ canSave' = FALSE
  /\ \/ \E f \in Files :
          /\ Removed(temp)[f] = "absent"
          /\ content' = [Removed(temp) EXCEPT ![f] = "empty"]
          /\ job' = f
          /\ cancelFlag' = FALSE
          /\ busy' = TRUE
          /\ pc' = "begin"
          /\ result' = NoResult
          /\ child' = [s \in Stages |-> "none"]
          /\ handles' = [s \in Stages |-> "none"]
     \/ /\ content' = Removed(temp)
        /\ cancelFlag' \in {cancelFlag, FALSE}
        /\ UNCHANGED <<busy, job, pc, result, child, handles>>
  /\ UNCHANGED <<window, ui, dialog, input, canStart, process, taken, queue, stage>>

Start == StartIf(~busy)

\* cancel_compression from the Cancel button or from WM_CLOSE: the flag first,
\* then the published handle is taken out, then the child is terminated.
CancelFlag ==
  /\ Listening /\ busy
  /\ cancelFlag' = TRUE
  /\ ui' = "taking"
  /\ UNCHANGED <<window, dialog, input, busy, canStart, canSave, heading, temp,
                 process, taken, queue, workVars, child, handles, content>>

CancelTake ==
  /\ ui = "taking"
  /\ taken' = process
  /\ process' = None
  /\ ui' = IF process = None THEN "idle" ELSE "killing"
  /\ canStart' = IF process = None THEN FALSE ELSE canStart
  /\ UNCHANGED <<window, dialog, input, busy, canSave, heading, temp,
                 cancelFlag, queue, workVars, child, handles, content>>

CancelKill ==
  /\ ui = "killing"
  /\ child' = IF child[taken] = "running"
              THEN [child EXCEPT ![taken] = "killed"] ELSE child
  /\ handles' = [handles EXCEPT ![taken] = "closed"]
  /\ taken' = None
  /\ ui' = "idle" /\ canStart' = FALSE
  /\ UNCHANGED <<window, dialog, input, busy, canSave, heading, temp,
                 cancelFlag, process, queue, workVars, content>>

\* WM_QLIC_DONE.  The dialog's own message loop delivers it, too.
Done ==
  /\ window = "open" /\ ui = "idle" /\ queue # <<>>
  /\ queue' = Tail(queue)
  /\ busy' = FALSE
  /\ canStart' = (input # None)
  /\ LET r == Head(queue)
     IN  IF r.ok THEN temp' = r.output /\ heading' = "ok" /\ canSave' = TRUE
         ELSE /\ heading' = IF r.cancelled THEN "cancelled" ELSE "failed"
              /\ UNCHANGED <<temp, canSave>>
  /\ UNCHANGED <<window, ui, dialog, input, cancelFlag, process, taken,
                 workVars, child, handles, content>>

\* save_result: CopyFile from g_temp_output when the dialog is confirmed.
OpenSave ==
  /\ Listening /\ canSave /\ temp # None
  /\ dialog' = TRUE
  /\ UNCHANGED <<window, ui, input, busy, canStart, canSave, heading, temp,
                 cancelFlag, process, taken, queue, workVars, child, handles,
                 content>>

CloseSave ==
  /\ dialog /\ ui = "idle"
  /\ dialog' = FALSE
  /\ UNCHANGED <<window, ui, input, busy, canStart, canSave, heading, temp,
                 cancelFlag, process, taken, queue, workVars, child, handles,
                 content>>

\* WM_CLOSE, WM_DESTROY.
CloseIf(ready) ==
  /\ Listening /\ ready
  /\ window' = "destroyed"
  /\ content' = Removed(temp) /\ temp' = None
  /\ UNCHANGED <<ui, dialog, input, busy, canStart, canSave, heading,
                 cancelFlag, process, taken, queue, workVars, child, handles>>

\* Mutant: a busy window closes, too.
CloseAnyway == CloseIf(TRUE)

\* Only an idle application closes.
Close == CloseIf(~busy)

-----------------------------------------------------------------------------
(* The worker thread.                                                       *)

\* post_result: a message that cannot be posted takes its file with it.
Post(ok, cancelled, files) ==
  /\ pc' = "idle" /\ job' = None
  /\ \/ /\ queue' = Append(queue, [ok |-> ok, cancelled |-> cancelled,
                                   output |-> job])
        /\ content' = files
     \/ /\ queueFills
        /\ content' = [files EXCEPT ![job] = "absent"]
        /\ UNCHANGED queue

\* Mutant: without a Result the worker ends and tells nobody.
BeginSilently ==
  /\ pc = "begin"
  /\ \/ /\ pc' = "spawn" /\ stage' = "pack"
        /\ UNCHANGED <<job, content>>
     \/ /\ pc' = "idle" /\ job' = None
        /\ content' = [content EXCEPT ![job] = "absent"]
        /\ UNCHANGED stage
  /\ UNCHANGED <<uiVars, cancelFlag, process, taken, queue, result, child, handles>>

\* run_process: without a Result the job is over at once.
Begin ==
  /\ pc = "begin"
  /\ \/ /\ pc' = "spawn" /\ stage' = "pack"
        /\ UNCHANGED <<queue, job, content>>
     \/ /\ Post(FALSE, FALSE, [content EXCEPT ![job] = "absent"])
        /\ UNCHANGED stage
  /\ UNCHANGED <<uiVars, cancelFlag, process, taken, result, child, handles>>

\* run_child up to CreateProcess.
Spawn ==
  /\ pc = "spawn"
  /\ \/ /\ child' = [child EXCEPT ![stage] = "running"]
        /\ pc' = "publish"
     \/ /\ pc' = IF stage = "pack" THEN "check" ELSE "verdict"
        /\ UNCHANGED child
  /\ UNCHANGED <<uiVars, cancelFlag, process, taken, queue, stage, job, result,
                 handles, content>>

\* DuplicateHandle and InterlockedExchangePointer(&g_process, ...).
Publish ==
  /\ pc = "publish"
  /\ \/ /\ process' = stage
        /\ handles' = [s \in Stages |->
                         IF s = stage THEN "open"
                         ELSE IF s = process THEN "closed" ELSE handles[s]]
     \/ UNCHANGED <<process, handles>>
  /\ pc' = "wait"
  /\ UNCHANGED <<uiVars, cancelFlag, taken, queue, stage, job, result, child,
                 content>>

\* The child ends by itself: pack leaves a file that may or may not decode,
\* verify passes only on one that does.
ChildEnds(s) ==
  /\ child[s] = "running"
  /\ \E code \in {"ok", "bad"} :
       /\ child' = [child EXCEPT ![s] = code]
       /\ IF s = "pack"
          THEN \E c \in IF code = "ok" THEN {"packed", "corrupt"}
                        ELSE {"empty", "partial"} :
                 content' = [content EXCEPT ![job] = c]
          ELSE /\ code = "ok" => content[job] = "packed"
               /\ UNCHANGED content
  /\ UNCHANGED <<uiVars, cancelFlag, process, taken, queue, workVars, handles>>

\* Mutant: the handle is closed whether or not it was still published.
ReapAlways ==
  /\ pc = "wait" /\ child[stage] # "running"
  /\ IF stage = "pack"
     THEN result' = [result EXCEPT !.packed = (child[stage] = "ok")]
     ELSE result' = [result EXCEPT !.verified = (child[stage] = "ok")]
  /\ process' = None
  /\ handles' = IF handles[stage] = "none" THEN handles
                ELSE [handles EXCEPT ![stage] =
                        IF @ = "closed" THEN "closed twice" ELSE "closed"]
  /\ pc' = IF stage = "pack" THEN "check" ELSE "verdict"
  /\ UNCHANGED <<uiVars, cancelFlag, taken, queue, stage, job, child, content>>

\* The wait is over: exit code, then InterlockedCompareExchangePointer decides
\* who closes the handle.
Reap ==
  /\ pc = "wait" /\ child[stage] # "running"
  /\ IF stage = "pack"
     THEN result' = [result EXCEPT !.packed = (child[stage] = "ok")]
     ELSE result' = [result EXCEPT !.verified = (child[stage] = "ok")]
  /\ IF process = stage
     THEN process' = None /\ handles' = [handles EXCEPT ![stage] = "closed"]
     ELSE UNCHANGED <<process, handles>>
  /\ pc' = IF stage = "pack" THEN "check" ELSE "verdict"
  /\ UNCHANGED <<uiVars, cancelFlag, taken, queue, stage, job, child, content>>

\* After pack: the flag is read, then verify runs on a file that is not empty.
Check ==
  /\ pc = "check"
  /\ result' = [result EXCEPT !.cancelled = cancelFlag]
  /\ IF result.packed /\ ~cancelFlag /\ content[job] # "empty"
     THEN pc' = "spawn" /\ stage' = "verify"
     ELSE pc' = "verdict" /\ UNCHANGED stage
  /\ UNCHANGED <<uiVars, cancelFlag, process, taken, queue, job, child, handles,
                 content>>

\* The flag is read once more; a result that is not ok loses its file.
Verdict(ok, cancelled) ==
  /\ pc = "verdict"
  /\ Post(ok, cancelled, IF ok THEN content ELSE [content EXCEPT ![job] = "absent"])
  /\ UNCHANGED <<uiVars, cancelFlag, process, taken, stage, result, child, handles>>

\* Mutants: a packed file counts as a result; a failed one keeps its file.
FinishUnverified ==
  LET cancelled == result.cancelled \/ cancelFlag
  IN  Verdict(result.packed /\ ~cancelled, cancelled)
FinishKeepingFile ==
  /\ pc = "verdict"
  /\ LET cancelled == result.cancelled \/ cancelFlag
     IN  Post(result.packed /\ result.verified /\ ~cancelled, cancelled, content)
  /\ UNCHANGED <<uiVars, cancelFlag, process, taken, stage, result, child, handles>>

Finish ==
  LET cancelled == result.cancelled \/ cancelFlag
  IN  Verdict(result.packed /\ result.verified /\ ~cancelled, cancelled)

Worker == Begin \/ Spawn \/ Publish \/ Reap \/ Check \/ Finish

Window ==
  \/ \E i \in Inputs : ChooseInput(i)
  \/ Start \/ CancelFlag \/ CancelTake \/ CancelKill \/ Done
  \/ OpenSave \/ CloseSave \/ Close

\* Whether the queue fills up is a property of the session.
InSession(action) == action /\ UNCHANGED queueFills

Next == InSession(Window \/ Worker \/ \E s \in Stages : ChildEnds(s))

Spec == Init /\ [][Next]_vars

\* Threads and children make progress, and the window thread empties its queue
\* (strongly fair: a posted message comes before the clicks that follow it).
\* What the user does is under no fairness.
Fairness ==
  /\ WF_vars(InSession(Worker))
  /\ WF_vars(InSession(CancelTake \/ CancelKill))
  /\ SF_vars(InSession(Done))
  /\ \A s \in Stages : WF_vars(InSession(ChildEnds(s)))

FairSpec == Spec /\ Fairness

-----------------------------------------------------------------------------
\* docs/architecture.md:179-182: Save is offered, and its dialog open, only for
\* a file that exists and that `qlic verify` has decoded.
SaveOnlyVerified ==
  (window = "open" /\ (canSave \/ dialog)) => temp # None /\ content[temp] = "packed"

\* Every temporary file on disk is the shown result, the running job's output
\* or a result under way: nothing is left behind by a cancelled, failed or
\* replaced job, and nothing at all once the window is gone.
NoOrphanFile ==
  \A f \in Files : content[f] # "absent" =>
    \/ f = temp \/ f = job
    \/ \E i \in 1..Len(queue) : queue[i].output = f /\ queue[i].ok

\* The duplicated handle has one owner: it is open exactly while it is
\* published or the window thread has taken it, so it is closed once and
\* never used after that.
OneHandleOwner ==
  /\ \A s \in Stages : handles[s] = "open" <=> (process = s \/ taken = s)
  /\ ~(process # None /\ process = taken)

\* The window goes only when no thread, child or handle of a job is left.
QuietClose ==
  window = "destroyed" =>
    /\ pc = "idle" /\ queue = <<>> /\ process = None
    /\ \A s \in Stages : child[s] # "running"

\* A job always gives the window back: whatever is cancelled when, and whatever
\* fails, the busy state ends (WM_CLOSE refuses to close a busy window).  Only a
\* result that finds the queue full leaves it busy for good (gui.c:1420-1426).
BusyEnds == queueFills \/ (busy ~> ~busy)

\* docs/architecture.md:182-183 says that cancellation can stop all codec work:
\* once the cancel handler has returned, the worker is not left waiting for a
\* child that keeps running.
CancelStopsCodecWork ==
  (busy /\ cancelFlag /\ ui = "idle" /\ pc = "wait") => child[stage] # "running"
=============================================================================
