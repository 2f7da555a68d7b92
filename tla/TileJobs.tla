------------------------------ MODULE TileJobs ------------------------------
(* An image coded in parts: bands of rows, byte slices of wide samples, or    *)
(* the frames of an animation, each a task of one parallel loop.  The caller  *)
(* divides its thread budget between the tasks that run at the same time;     *)
(* each spends its share on the trials of its own stream.  A task that fails  *)
(* says so in its record; the caller reads the records in order after the     *)
(* loop and turns the first failure into the status of the call.              *)
(*                                                                            *)
(* Kinds of job: "tiles_*" are the bands of MODE_TILES, "rtt_*" those of      *)
(* MODE_TILE_MODEL, "wide_*" byte slices, "anim_*" frames (QAN1 decoded,      *)
(* QAN2 encoded), "anim2_dec" the frames of QAN2, "one_*" everything else.    *)
EXTENDS Integers, FiniteSets

CONSTANTS
  Budgets,        \* values of g_threads
  Parts,          \* rows of an image coded in bands, else slices or frames
  TileHeights     \* rows of a band

ASSUME TileJobsAssumption ==
  /\ Budgets \subseteq Nat \ {0}
  /\ Parts \subseteq Nat \ {0}
  /\ TileHeights \subseteq Nat \ {0}

Banded == {"tiles_enc", "tiles_dec", "rtt_enc", "rtt_dec"}
Framed == {"anim_enc", "anim_dec", "anim2_dec"}
Encoding == {"tiles_enc", "rtt_enc", "anim_enc", "one_enc", "wide_enc"}

(* The functions that plan a job: how many workers they ask for, how many      *)
(* tasks they hand to the loop at a time, how a task can end, and what can go  *)
(* wrong when its result is appended.                                          *)
Work(workers, batch, task, late) ==
  [workers |-> workers, batch |-> batch, ends |-> task, late |-> late]

\* The task functions.  "foreign" is a frame with wide samples, "unnamed" a
\* buffer for filtered rows that cannot be had, which is taken for bad data,
\* "argument" a sample above the precision that the caller declared.
tile_enc_one == {"ok", "nomem", "bad"}
tile_dec_one == {"ok", "nomem", "bad"}
rtt_enc_one == {"ok", "nomem", "bad"}
rtt_dec_one == {"ok", "nomem", "bad", "unnamed"}
anim_enc_one == {"ok", "nomem", "bad", "limit"}
anim_dec_one == {"ok", "nomem", "bad", "limit", "foreign"}
dec_direct_payload == {"ok", "nomem", "bad", "limit"}
append_wide_payload == {"ok", "nomem", "bad", "argument"}
wide_slice_decode == {"ok", "nomem", "bad"}

\* Appending needs memory and has a limit for the size of a part; behind the
\* last part there may be data left, the slices may hold values above the
\* precision or miss the checksum.
Unappended == {"nomem", "bad"}

try_tile_height == Work("half", "workers", tile_enc_one, Unappended)
dec_tile == Work("half", "all", tile_dec_one, {})
try_rtt_height == Work("budget", "all", rtt_enc_one, Unappended)
dec_rtt == Work("budget", "all", rtt_dec_one, {})
enc_anim_mem == Work("budget", "double", anim_enc_one, Unappended)
dec_anim_payload == Work("budget", "double", anim_dec_one, {"bad"})
dec_anim2_payload == Work("one", "one", anim_dec_one, {"bad"})
enc_mem == Work("one", "one", tile_enc_one, Unappended)
dec_qlic_limited == Work("one", "one", dec_direct_payload, {})
enc_wide_payload == Work("one", "one", append_wide_payload, Unappended)
wide_payload_decode == Work("budget", "all unless alone", wide_slice_decode, {"bad"})

WorkOf ==
  [tiles_enc |-> try_tile_height, tiles_dec |-> dec_tile, rtt_enc |-> try_rtt_height,
   rtt_dec |-> dec_rtt, anim_enc |-> enc_anim_mem, anim_dec |-> dec_anim_payload,
   anim2_dec |-> dec_anim2_payload, one_enc |-> enc_mem, one_dec |-> dec_qlic_limited,
   wide_enc |-> enc_wide_payload, wide_dec |-> wide_payload_decode]
Kinds == DOMAIN WorkOf

VARIABLES
  job,      \* what is coded, with what budget
  phase,    \* "none", "run", "append", "again", "done", "failed"
  task,     \* of each part: "todo", who runs it, or how it ended
  base,     \* first part of the batch
  next,     \* part that is appended next
  buffers,  \* what is allocated: results of parts, Whole, File
  status,   \* g_status of the calling thread
  faults    \* what went wrong so far in this call

jvars == <<job, phase, task, base, next, buffers, status, faults>>

Least(a, b) == IF a < b THEN a ELSE b
Most(a, b) == IF a < b THEN b ELSE a

\* What a caller can ask for.  Frames that are duplicates or moves of the one
\* before are tasks without work.
Wanted ==
  {j \in [kind : Kinds, budget : Budgets, parts : Parts, tileH : TileHeights,
          idle : SUBSET UNION {2..n : n \in Parts}] :
     /\ j.kind \in {"one_enc", "one_dec"} => j.parts = 1
     /\ j.kind \in {"wide_enc", "wide_dec"} => j.parts \in 2..3
     /\ j.idle # {} => j.kind = "anim_enc" /\ j.idle \subseteq 2..j.parts}

-----------------------------------------------------------------------------
(* The plan.                                                                 *)

\* Mutant: the bands in work may hold all rows.
BandWorkersAll(rows, tileH, count, requested) == Least(requested, count)

\* tile_band_worker_count: bands in work hold at most half the rows.
BandWorkers(rows, tileH, count, requested) ==
  Least(Least(requested, count), Most(1, rows \div (2 * tileH)))

Count(j) == IF j.kind \in Banded THEN 1 + (j.parts - 1) \div j.tileH ELSE j.parts

Workers(j) ==
  CASE WorkOf[j.kind].workers = "half" -> BandWorkers(j.parts, j.tileH, Count(j), j.budget)
    [] WorkOf[j.kind].workers = "budget" -> Least(j.budget, Count(j))
    [] WorkOf[j.kind].workers = "one" -> 1

\* Tasks of one batch.  A decoder of slices with one thread takes them one by
\* one; animations keep two frames for each worker.
Capacity(j) ==
  CASE WorkOf[j.kind].batch = "workers" -> Workers(j)
    [] WorkOf[j.kind].batch = "double" ->
         IF Workers(j) > Count(j) \div 2 THEN Count(j) ELSE 2 * Workers(j)
    [] WorkOf[j.kind].batch = "one" -> 1
    [] WorkOf[j.kind].batch = "all unless alone" -> IF Workers(j) = 1 THEN 1 ELSE Count(j)
    [] WorkOf[j.kind].batch = "all" -> Count(j)

\* The job as it is planned.
Planned(j) ==
  [kind |-> j.kind, budget |-> j.budget, parts |-> j.parts, tileH |-> j.tileH, idle |-> j.idle,
   count |-> Count(j), workers |-> Workers(j), capacity |-> Capacity(j)]
Jobs == {Planned(j) : j \in Wanted}

Batch == base..Least(base + job.capacity - 1, job.count)
Active == Batch \ job.idle
Outer == Most(1, Least(job.workers, Cardinality(Active)))

\* Inner threads of a task with work: an equal share, and one of the threads
\* that are left for the first few of them.  Slices get no such thread, and are
\* encoded with one.
\* Mutant: a share that does not divide evenly is rounded up for all.
ShareRoundedUp == IF job.kind = "wide_enc" THEN 1 ELSE (job.budget + Outer - 1) \div Outer

Share == IF job.kind = "wide_enc" THEN 1 ELSE job.budget \div Outer
Spare == IF job.kind \in {"wide_enc", "wide_dec"} THEN 0 ELSE job.budget % Outer
Favoured ==                                      \* tasks with Share + 1 threads
  LET active == Active
      spare == Spare
  IN  {i \in active : Cardinality({k \in active : k < i}) < spare}

-----------------------------------------------------------------------------
(* Status of the calling thread.                                             *)

Faults == {"nomem", "bad", "limit", "foreign", "unnamed", "argument"}

\* set_err keeps a status that says more, set_err_status does not.
Erred(own) == IF own = "OK" THEN "ERROR" ELSE own

\* What the caller makes of a part that ended with fault f.  A band of
\* MODE_TILE_MODEL says only that it failed; a frame tells memory and limits.
Blamed(f, own) ==
  IF job.kind = "rtt_enc" THEN Erred(own)
  ELSE IF f = "nomem" THEN "OUT_OF_MEMORY"
  ELSE IF job.kind \in Framed THEN IF f = "limit" THEN "LIMIT_EXCEEDED" ELSE Erred(own)
  ELSE IF f = "argument" THEN "BAD_ARGUMENT"
  ELSE IF job.kind \in Encoding THEN "ERROR"
  ELSE IF job.kind = "one_dec" /\ f = "limit" THEN "LIMIT_EXCEEDED" ELSE "BAD_DATA"

\* What the work on a frame or a band leaves in the status of its thread.
Left(f, own) ==
  CASE f = "ok" -> own
    [] f = "nomem" -> "OUT_OF_MEMORY"
    [] f = "limit" -> "LIMIT_EXCEEDED"
    [] f = "foreign" -> "UNSUPPORTED_FORMAT"
    [] OTHER -> Erred(own)

-----------------------------------------------------------------------------
Running == {i \in Batch : task[i] \in {"caller", "helper"}}

Frames == {"anim_dec", "anim2_dec"}

(* The buffers.  A part i has one of its own, number i, in the kinds that are   *)
(* Buffered; beside them there is one for the job: the image, the table of      *)
(* frames, or the payload of an encoder, and at last the encoder's file.        *)
Whole == 0
File == -1
Buffered == Encoding \cup Frames \cup {"wide_dec"}

\* Kinds that have the image, or the table of frames, before the first task.
\* A decoder of one stream allocates the image with it.
Filled == {"tiles_dec", "rtt_dec", "wide_dec"} \cup Frames
Opened(j) == IF j.kind \in Filled THEN {Whole} ELSE {}

\* What a task may leave allocated.  A task that fails frees its own, but for a
\* frame that is encoded and slices with the wrong layout.
Made(i, how) ==
  IF how = "ok"
  THEN IF job.kind = "one_dec" THEN {{Whole}}
       ELSE IF job.kind \in Buffered /\ i \notin job.idle THEN {{i}} ELSE {{}}
  ELSE IF job.kind = "anim_enc" \/ (job.kind = "wide_dec" /\ how = "bad") THEN {{}, {i}} ELSE {{}}

\* What each function frees on its way out, after a failure at whatever point,
\* the encoders after a success as well.
Freed ==
  CASE job.kind \in {"tiles_enc", "rtt_enc"} \cup Frames -> {Whole} \cup 1..job.count
    [] job.kind = "anim_enc" -> {Whole} \cup Batch
    [] job.kind \in {"one_enc", "wide_enc"} -> {Whole, next}
    [] job.kind \in {"tiles_dec", "rtt_dec"} -> {Whole}
    [] job.kind = "wide_dec" ->
         {Whole} \cup IF job.workers = 1 THEN {next} ELSE next..job.count
    [] job.kind = "one_dec" -> {}

\* What is freed when the part has been appended: its own buffer, or those of
\* the batch with the last frame of it.
Spent ==
  CASE job.kind \in {"tiles_enc", "wide_enc", "wide_dec"} -> {next}
    [] job.kind = "anim_enc" -> IF next + 1 \in Batch THEN {} ELSE Batch
    [] OTHER -> {}

Fail(i) ==
  /\ phase' = "failed" /\ buffers' = buffers \ Freed
  /\ status' = Blamed(task[i], status)

Plan(j) ==
  /\ job' = j /\ phase' = "run"
  /\ task' = [i \in 1..j.count |-> "todo"]
  /\ base' = 1 /\ next' = 1 /\ buffers' = Opened(j)

\* The table of tasks cannot be had, the table of frames is damaged, or there
\* is no memory for the changed part of a frame.
PlanFails ==
  \E f \in {"nomem"} \cup IF job.kind \in Frames THEN {"bad"} ELSE {} :
    /\ phase = "run" /\ \A i \in Batch : task[i] = "todo"
    /\ base = 1 \/ (job.kind = "anim_enc") \/ (job.kind \in Frames /\ f = "bad")
    /\ phase' = "failed" /\ buffers' = buffers \ Freed
    /\ status' = IF f = "nomem" THEN "OUT_OF_MEMORY" ELSE Erred(status)
    /\ faults' = faults \cup {f}
    /\ UNCHANGED <<job, task, base, next>>

\* A worker takes the first task of the batch that is left.  A frame starts
\* with a clear status.
Take ==
  /\ phase = "run" /\ Cardinality(Running \ job.idle) < Outer
  /\ \E i \in Batch, who \in {"caller", "helper"} :
    /\ task[i] = "todo" /\ \A k \in Batch : k < i => task[k] # "todo"
    /\ IF who = "caller" THEN \A k \in Running : task[k] # "caller" ELSE Outer > 1
    /\ task' = [task EXCEPT ![i] = who]
    /\ status' = IF job.kind \in {"anim_enc", "anim_dec"} /\ who = "caller" /\ i \notin job.idle
                 THEN "OK" ELSE status
    /\ UNCHANGED <<job, phase, base, next, buffers, faults>>

\* The task ends.  Only the status of the calling thread is seen later.
End(i) ==
  \E how \in IF i \in job.idle THEN {"ok"} ELSE WorkOf[job.kind].ends :
    /\ task' = [task EXCEPT ![i] = how]
    /\ \E made \in Made(i, how) : buffers' = buffers \cup made
    /\ status' = IF task[i] = "caller" /\ how # "ok" /\ job.kind \in Framed \cup {"rtt_enc"}
                 THEN Left(how, status) ELSE status
    /\ faults' = faults \cup ({how} \ {"ok"})
    /\ UNCHANGED <<job, phase, base, next>>

EndTask == phase = "run" /\ \E i \in Running : End(i)

\* The loop over the batch has returned: the first part that failed fails the
\* job.  The bands of MODE_TILES are looked at one by one as they are appended.
Failed == {i \in Batch : task[i] \in Faults}

Judge ==
  /\ phase = "run" /\ \A i \in Batch : task[i] \notin {"todo", "caller", "helper"}
  /\ IF Failed # {} /\ job.kind # "tiles_enc"
     THEN \E i \in Failed : (\A k \in Failed : i <= k) /\ Fail(i)
     ELSE phase' = "append" /\ UNCHANGED <<buffers, status>>
  /\ UNCHANGED <<job, task, base, next, faults>>

\* The part is in the payload or in the pixels of the caller; after the last
\* one an encoder writes the file and frees the rest.
Appended ==
  /\ IF next < job.count
     THEN /\ next' = next + 1
          /\ IF next + 1 \in Batch THEN phase' = "append" /\ base' = base
             ELSE phase' = "run" /\ base' = next + 1
          /\ buffers' = (buffers \ Spent) \cup IF job.kind \in Encoding THEN {Whole} ELSE {}
     ELSE /\ next' = next /\ base' = base /\ phase' = "done"
          /\ buffers' = IF job.kind \in Encoding THEN (buffers \ Freed) \cup {File}
                        ELSE buffers \ Spent
  /\ UNCHANGED <<job, task, status, faults>>

\* Appending can fail as well, for decoders at the last part.
AppendFaults ==
  IF job.kind \in Encoding \/ next = job.count THEN WorkOf[job.kind].late ELSE {}

\* A file that could not be finished is left to the caller.
AppendFails(f) ==
  /\ phase' = "failed"
  /\ \E left \in SUBSET (IF job.kind \in Encoding /\ next = job.count THEN {File} ELSE {}) :
       buffers' = (buffers \ Freed) \cup left
  /\ status' = IF f = "nomem" THEN "OUT_OF_MEMORY" ELSE Erred(status)
  /\ faults' = faults \cup {f}
  /\ UNCHANGED <<job, task, base, next>>

AppendNext ==
  /\ phase = "append"
  /\ IF task[next] \in Faults
     THEN Fail(next) /\ UNCHANGED <<job, task, base, next, faults>>
     ELSE Appended \/ \E f \in AppendFaults : AppendFails(f)

\* The bands so far are larger than the best candidate: the job is given up,
\* which is no failure: the candidate becomes the file.
OverLimit ==
  /\ phase = "append" /\ job.kind = "tiles_enc" /\ task[next] = "ok"
  /\ phase' = "done" /\ buffers' = (buffers \ Freed) \cup {File}
  /\ UNCHANGED <<job, task, base, next, status, faults>>

\* A changed rectangle that saves little is encoded once more as a whole frame,
\* by the caller with the whole budget.
Again ==
  /\ phase = "append" /\ job.kind = "anim_enc" /\ task[next] = "ok" /\ next \notin job.idle /\ next > 1
  /\ \E how \in WorkOf[job.kind].ends :
       /\ faults' = faults \cup ({how} \ {"ok"})
       /\ IF how = "ok"
          THEN phase' = "again" /\ status' = "OK" /\ buffers' = buffers
          ELSE phase' = "failed" /\ buffers' = buffers \ Freed /\ status' = Blamed(how, Left(how, "OK"))
  /\ UNCHANGED <<job, task, base, next>>

AppendAgain == phase = "again" /\ (Appended \/ \E f \in AppendFaults : AppendFails(f))

JobStep ==
  \/ PlanFails \/ Take \/ EndTask \/ Judge \/ AppendNext \/ OverLimit \/ Again \/ AppendAgain

Init ==
  /\ job \in Jobs /\ phase = "run"
  /\ task = [i \in 1..job.count |-> "todo"]
  /\ base = 1 /\ next = 1 /\ buffers = Opened(job) /\ status = "OK" /\ faults = {}

Next == JobStep

Spec == Init /\ [][Next]_jvars

-----------------------------------------------------------------------------
\* Threads that the tasks in work may use together.
Load == Cardinality(Running \ job.idle) * Share + Cardinality(Running \cap Favoured)

\* The shares of the tasks that run at the same time never add up to more than
\* the threads of the call ("nested parallel work shares one budget to avoid
\* oversubscribing the machine").
BudgetKept ==
  phase = "run" => Load <= job.budget

\* Bands in work hold at most half of the rows of the image, or are one
\* ("cap simultaneous scratch at half of the image rows").
HalfTheRows ==
  phase = "run" /\ job.kind \in {"tiles_enc", "tiles_dec"} /\ Cardinality(Running) > 1
    => 2 * Cardinality(Running) * job.tileH <= job.parts
=============================================================================
