----------------------------- MODULE ParallelFor -----------------------------
(***************************************************************************)
(* One call of qlic_parallel_for (codec/src/parallel.c): the caller and up *)
(* to workers-1 helpers draw task indices from one atomic counter and the  *)
(* caller waits for the helpers before it returns.                         *)
(*                                                                         *)
(* Thread 0 is the caller.  A helper is a POSIX thread or one submission   *)
(* of the Windows thread-pool work object.  The record the helpers point   *)
(* to (QlicParallelRun) lives in the caller's stack frame.                 *)
(***************************************************************************)
EXTENDS Integers, FiniteSets

CONSTANTS
  MaxCount,     \* the most tasks a call of the model has
  MaxWorkers,   \* the largest worker count a call of the model asks for
  Platforms     \* the builds considered

ASSUME MaxCountAssumption == MaxCount \in Nat
ASSUME MaxWorkersAssumption == MaxWorkers \in Nat
ASSUME PlatformsAssumption == Platforms \subseteq {"posix", "windows", "wasm"}

Caller == 0
Helpers == 1..MaxWorkers
Threads == {Caller} \cup Helpers
Indices == 0..(MaxCount - 1)

VARIABLES
  platform,  \* the build
  count,     \* argument: number of tasks
  workers,   \* argument, then clamped to count
  next,      \* run.next, or the loop variable of the serial loop
  created,   \* helpers started so far: 1..created
  joined,    \* helpers the caller has waited for: 1..joined
  pc,        \* where each thread is
  item,      \* the index each thread drew last
  calls,     \* how often fn was called with each index
  finished   \* the indices each thread has finished, in its own memory order

vars == <<platform, count, workers, next, created, joined,
          pc, item, calls, finished>>

Smaller(a, b) == IF a < b THEN a ELSE b

\* The state before the call: every argument a caller can pass, 0 included.
Init ==
  /\ platform \in Platforms
  /\ count \in 0..MaxCount
  /\ workers \in 0..MaxWorkers
  /\ next = 0
  /\ created = 0
  /\ joined = 0
  /\ pc = [t \in Threads |-> IF t = Caller THEN "call" ELSE "none"]
  /\ item = [t \in Threads |-> 0]
  /\ calls = [i \in Indices |-> 0]
  /\ finished = [t \in Threads |-> {}]

\* if (!count) return, then the clamp of workers to count, then the choice
\* between the helpers and the serial loop.
Enter ==
  /\ pc[Caller] = "call"
  /\ workers' = Smaller(workers, count)
  /\ pc' = [pc EXCEPT ![Caller] =
              IF count = 0 THEN "returned"
              ELSE IF workers' > 1 /\ platform # "wasm" THEN "setup"
              ELSE "drain"]
  /\ UNCHANGED <<platform, count, next, created, joined, item, calls, finished>>

\* malloc of the thread array, or CreateThreadpoolWork: on failure the caller
\* runs every task itself.
Setup ==
  /\ pc[Caller] = "setup"
  /\ \E ok \in BOOLEAN :
       pc' = [pc EXCEPT ![Caller] = IF ok THEN "create" ELSE "drain"]
  /\ UNCHANGED <<platform, count, workers, next, created, joined,
                 item, calls, finished>>

\* Mutant: the loop starts at 0, as if the caller did not count as a worker.
CreateOneMore ==
  /\ pc[Caller] = "create"
  /\ created < workers
  /\ created' = created + 1
  /\ pc' = [pc EXCEPT ![created + 1] = "pending"]
  /\ UNCHANGED <<platform, count, workers, next, joined, item, calls, finished>>

\* One pthread_create or SubmitThreadpoolWork that succeeds.  The helper may
\* start much later, or on Windows never.
CreateHelper ==
  /\ pc[Caller] = "create"
  /\ created < workers - 1
  /\ created' = created + 1
  /\ pc' = [pc EXCEPT ![created + 1] = "pending"]
  /\ UNCHANGED <<platform, count, workers, next, joined, item, calls, finished>>

\* The loop ends with all helpers, or pthread_create fails and ends it early.
CreateDone ==
  /\ pc[Caller] = "create"
  /\ created = workers - 1 \/ platform = "posix"
  /\ pc' = [pc EXCEPT ![Caller] = "drain"]
  /\ UNCHANGED <<platform, count, workers, next, created, joined,
                 item, calls, finished>>

StartHelper(h) ==
  /\ pc[h] = "pending"
  /\ pc' = [pc EXCEPT ![h] = "drain"]
  /\ UNCHANGED <<platform, count, workers, next, created, joined,
                 item, calls, finished>>

\* Draw(t, i, n, limit): thread t has drawn i and left n in the counter.
Draw(t, i, n, limit) ==
  /\ pc[t] = "drain"
  /\ next' = n
  /\ \/ /\ i < limit
        /\ item' = [item EXCEPT ![t] = i]
        /\ calls' = [calls EXCEPT ![i] = @ + 1]
        /\ pc' = [pc EXCEPT ![t] = "run"]
     \/ /\ i >= limit
        /\ pc' = [pc EXCEPT ![t] = IF t = Caller THEN "wait" ELSE "exited"]
        /\ UNCHANGED <<item, calls>>
  /\ UNCHANGED <<platform, count, workers, created, joined, finished>>

\* Mutants: a plain increment that can be lost; a limit one short; the
\* incremented value used as the index (the "- 1" of parallel.c:22 left out).
ClaimLost(t) == \E n \in {next, next + 1} : Draw(t, next, n, count)
ClaimShort(t) == Draw(t, next, next + 1, count - 1)
ClaimShifted(t) == Draw(t, next + 1, next + 1, count + 1)

\* atomic_fetch_add / InterlockedIncrement draws an index: past the end the
\* thread leaves the loop, otherwise it calls fn with the index.
Claim(t) == Draw(t, next, next + 1, count)

\* fn returns: its result is in this thread's view of memory.
Finish(t) ==
  /\ pc[t] = "run"
  /\ finished' = [finished EXCEPT ![t] = @ \cup {item[t]}]
  /\ pc' = [pc EXCEPT ![t] = "drain"]
  /\ UNCHANGED <<platform, count, workers, next, created, joined, item, calls>>

\* Mutant: WaitForThreadpoolWorkCallbacks(work, FALSE).
KeepPending == FALSE

\* WaitForThreadpoolWorkCallbacks(work, TRUE): submissions no pool thread has
\* picked up are withdrawn.
CancelPending ==
  /\ pc[Caller] = "wait"
  /\ platform = "windows"
  /\ \E h \in Helpers : pc[h] = "pending"
  /\ pc' = [t \in Threads |->
              IF pc[t] = "pending" THEN "cancelled" ELSE pc[t]]
  /\ UNCHANGED <<platform, count, workers, next, created, joined,
                 item, calls, finished>>

\* Mutant: a helper that has not started yet is not waited for.
JoinStarted ==
  /\ pc[Caller] = "wait"
  /\ joined < created
  /\ pc[joined + 1] \in {"pending", "exited", "cancelled"}
  /\ joined' = joined + 1
  /\ UNCHANGED <<platform, count, workers, next, created, pc,
                 item, calls, finished>>

\* pthread_join of the next helper, or the pool's wait for a callback to end:
\* what that helper wrote is now ordered before the caller's next read.
Join ==
  /\ pc[Caller] = "wait"
  /\ joined < created
  /\ pc[joined + 1] \in {"exited", "cancelled"}
  /\ joined' = joined + 1
  /\ UNCHANGED <<platform, count, workers, next, created, pc,
                 item, calls, finished>>

\* Mutant: the call returns as soon as every index has been drawn.
ReturnUnjoined ==
  /\ pc[Caller] = "wait"
  /\ pc' = [pc EXCEPT ![Caller] = "returned"]
  /\ UNCHANGED <<platform, count, workers, next, created, joined,
                 item, calls, finished>>

Return ==
  /\ pc[Caller] = "wait"
  /\ joined = created
  /\ pc' = [pc EXCEPT ![Caller] = "returned"]
  /\ UNCHANGED <<platform, count, workers, next, created, joined,
                 item, calls, finished>>

CallerStep == Enter \/ Setup \/ CreateHelper \/ CreateDone
              \/ CancelPending \/ Join \/ Return

Next ==
  \/ CallerStep
  \/ \E t \in Threads : Claim(t) \/ Finish(t)
  \/ \E h \in Helpers : StartHelper(h)

\* The scheduler runs every thread that exists.  Only a POSIX thread exists as
\* soon as it is created: a pool submission may find no pool thread, so its
\* start is under no fairness at all.
Fairness ==
  /\ WF_vars(CallerStep)
  /\ \A t \in Threads : WF_vars(Claim(t) \/ Finish(t))
  /\ \A h \in Helpers : WF_vars(platform = "posix" /\ StartHelper(h))

Spec == Init /\ [][Next]_vars
FairSpec == Spec /\ Fairness

-----------------------------------------------------------------------------
Tasks == 0..(count - 1)
Running == {t \in Threads : pc[t] = "run"}
Returned == pc[Caller] = "returned"

\* What the caller may read without a race: its own results and those of the
\* helpers it has waited for.  The relaxed counter orders nothing.
Readable == UNION {finished[t] : t \in {Caller} \cup {h \in Helpers : h <= joined}}

TypeOK ==
  /\ platform \in Platforms
  /\ count \in 0..MaxCount
  /\ workers \in 0..MaxWorkers
  /\ next \in Nat
  /\ created \in 0..MaxWorkers
  /\ joined \in 0..MaxWorkers
  /\ pc \in [Threads -> {"call", "setup", "create", "drain", "run", "wait",
                         "returned", "none", "pending", "exited", "cancelled"}]
  /\ item \in [Threads -> Nat]
  /\ calls \in [Indices -> Nat]
  /\ finished \in [Threads -> SUBSET Indices]

\* No index is ever handed to two threads, and when the call returns none was
\* dropped: the claim that a thread loses, a partial pthread_create and a
\* withdrawn submission leave no task behind (parallel.c:19-27, 48-56).
ExactlyOnce ==
  /\ \A i \in Indices : calls[i] <= 1
  /\ Returned => \A i \in Tasks : calls[i] = 1

\* A caller that returns may read every result (decode_bands reads the result
\* array right after the call, codec/src/stream.c:6962-6969): the helpers that
\* produced them were all waited for.
ResultsReadable == Returned => Readable = Tasks

\* The helpers use the caller's stack frame; none is left that could touch it
\* after the call returned.
FrameOutlivesHelpers ==
  Returned => \A h \in Helpers : pc[h] \in {"none", "exited", "cancelled"}

\* The comment at parallel.c:82: the caller counts as one worker, so no more
\* tasks run at a time than workers were asked for.
WorkerLimit == Cardinality(Running) <= IF workers = 0 THEN 1 ELSE workers

\* The task set this call implements.
Todo == {i \in Tasks : calls[i] = 0}
Busy == {item[t] : t \in Running}
Handed == IF Returned THEN Readable ELSE {}

Abstract == INSTANCE TaskSet WITH
  tasks <- Tasks, todo <- Todo, busy <- Busy,
  readable <- Handed, returned <- Returned

\* Every behaviour of the threads is one of TaskSet: the call returns once,
\* after the last task ended, with every result readable.
ImplementsTaskSet == Abstract!Spec

\* The call returns, also when no pool thread is ever free to start a
\* submission: nested calls cannot starve each other (parallel.c:84 withdraws).
Termination == <>Returned
=============================================================================
