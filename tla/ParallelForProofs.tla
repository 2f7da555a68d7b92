-------------------------- MODULE ParallelForProofs --------------------------
(***************************************************************************)
(* Proofs that qlic_parallel_for keeps its promises for every number of    *)
(* tasks and workers and every build.                                      *)
(*                                                                         *)
(* ExactlyOnce says nothing of who holds an index while the call runs, so  *)
(* it is not inductive.  Inv adds the bookkeeping that makes it so: the    *)
(* counter splits the indices into drawn and not drawn, every drawn index  *)
(* is held by one running thread or finished, and a thread leaves the loop *)
(* only when the counter has passed the end.                               *)
(***************************************************************************)
EXTENDS ParallelFor, FiniteSetTheorems, TLAPS

\* The indices the counter has handed out.
Drawn == {i \in Indices : i < next /\ i < count}

\* Which program points each kind of thread can be at, and which helpers exist.
ThreadsInv ==
  /\ pc[Caller] \in {"call", "setup", "create", "drain", "run", "wait", "returned"}
  /\ \A h \in Helpers :
       /\ pc[h] \in {"none", "pending", "drain", "run", "exited", "cancelled"}
       /\ pc[h] = "none" <=> h > created
       /\ pc[h] = "none" => finished[h] = {}
  /\ pc[Caller] \in {"call", "setup"} => created = 0 /\ next = 0
  /\ created > 0 => created < workers
  /\ pc[Caller] \notin {"call", "returned"} => workers <= count /\ count > 0
  /\ pc[Caller] \in {"setup", "create"} => workers > 1

\* What the caller has waited for.
JoinInv ==
  /\ joined <= created
  /\ joined > 0 => pc[Caller] \in {"wait", "returned"}
  /\ \A h \in Helpers : h <= joined => pc[h] \in {"exited", "cancelled"}
  /\ Returned => joined = created

\* Every drawn index was passed to fn once, is held by one thread or finished.
CounterInv ==
  /\ \A i \in Indices : calls[i] = IF i \in Drawn THEN 1 ELSE 0
  /\ \A t \in Threads : finished[t] \subseteq Drawn
  /\ \A t \in Threads : pc[t] = "run" => item[t] \in Drawn
  /\ \A t, u \in Threads : pc[t] = "run" => item[t] \notin finished[u]
  /\ \A t, u \in Threads :
       pc[t] = "run" /\ pc[u] = "run" /\ item[t] = item[u] => t = u
  /\ \A i \in Drawn : \E t \in Threads :
       (pc[t] = "run" /\ item[t] = i) \/ i \in finished[t]
  /\ \A h \in Helpers : pc[h] = "exited" => next >= count
  /\ pc[Caller] \in {"wait", "returned"} => next >= count

Inv == TypeOK /\ ThreadsInv /\ JoinInv /\ CounterInv

-----------------------------------------------------------------------------
(* Every action keeps the types and the thread bookkeeping.                 *)

LEMMA InitInv == Init => Inv
<1> SUFFICES ASSUME Init PROVE Inv
  OBVIOUS
<1> USE MaxCountAssumption, MaxWorkersAssumption DEF Init, Threads, Helpers, Caller
<1>1. TypeOK
  BY DEF TypeOK, Indices
<1>2. ThreadsInv
  BY DEF ThreadsInv
<1>3. JoinInv
  BY DEF JoinInv, Returned
<1>4. CounterInv
  BY DEF CounterInv, Drawn, Indices
<1> QED
  BY <1>1, <1>2, <1>3, <1>4 DEF Inv

\* The actions of the caller that draw no index.
LEMMA CallerKeepsInv == Inv /\ CallerStep => Inv'
<1> SUFFICES ASSUME Inv, CallerStep PROVE Inv'
  OBVIOUS
<1> USE MaxCountAssumption, MaxWorkersAssumption DEF Inv, Threads, Helpers, Caller
<1>1. CASE Enter
  <2>1. TypeOK'
    BY <1>1 DEF Enter, TypeOK, Smaller
  <2>2. ThreadsInv'
    BY <1>1 DEF Enter, TypeOK, ThreadsInv, Smaller
  <2>3. JoinInv' /\ CounterInv'
    BY <1>1 DEF Enter, TypeOK, ThreadsInv, JoinInv, CounterInv, Drawn, Returned
  <2> QED
    BY <2>1, <2>2, <2>3
<1>2. CASE Setup
  <2>1. TypeOK' /\ ThreadsInv'
    BY <1>2 DEF Setup, TypeOK, ThreadsInv
  <2>2. JoinInv' /\ CounterInv'
    BY <1>2 DEF Setup, TypeOK, ThreadsInv, JoinInv, CounterInv, Drawn, Returned
  <2> QED
    BY <2>1, <2>2
<1>3. CASE CreateHelper
  <2>1. created' \in Helpers
    BY <1>3 DEF CreateHelper, TypeOK
  <2>2. pc' = [pc EXCEPT ![created'] = "pending"] /\ created' # Caller
    BY <1>3, <2>1 DEF CreateHelper
  <2>3. TypeOK' /\ ThreadsInv'
    BY <1>3, <2>1, <2>2 DEF CreateHelper, TypeOK, ThreadsInv
  <2>4. JoinInv' /\ CounterInv'
    BY <1>3, <2>1, <2>2
    DEF CreateHelper, TypeOK, ThreadsInv, JoinInv, CounterInv, Drawn, Returned
  <2> QED
    BY <2>3, <2>4
<1>4. CASE CreateDone
  <2>1. TypeOK' /\ ThreadsInv'
    BY <1>4 DEF CreateDone, TypeOK, ThreadsInv
  <2>2. JoinInv' /\ CounterInv'
    BY <1>4 DEF CreateDone, TypeOK, ThreadsInv, JoinInv, CounterInv, Drawn, Returned
  <2> QED
    BY <2>1, <2>2
<1>5. CASE CancelPending
  <2>1. TypeOK' /\ ThreadsInv'
    BY <1>5 DEF CancelPending, TypeOK, ThreadsInv
  <2>2. JoinInv' /\ CounterInv'
    BY <1>5 DEF CancelPending, TypeOK, ThreadsInv, JoinInv, CounterInv, Drawn, Returned
  <2> QED
    BY <2>1, <2>2
<1>6. CASE Join
  <2>1. TypeOK' /\ ThreadsInv'
    BY <1>6 DEF Join, TypeOK, ThreadsInv, JoinInv
  <2>2. JoinInv' /\ CounterInv'
    BY <1>6 DEF Join, TypeOK, ThreadsInv, JoinInv, CounterInv, Drawn, Returned
  <2> QED
    BY <2>1, <2>2
<1>7. CASE Return
  <2>1. TypeOK' /\ ThreadsInv'
    BY <1>7 DEF Return, TypeOK, ThreadsInv
  <2>2. JoinInv' /\ CounterInv'
    BY <1>7 DEF Return, TypeOK, ThreadsInv, JoinInv, CounterInv, Drawn, Returned
  <2> QED
    BY <2>1, <2>2
<1> QED
  BY <1>1, <1>2, <1>3, <1>4, <1>5, <1>6, <1>7 DEF CallerStep

\* Drawing an index hands it to one thread, or shows that none is left.
LEMMA ClaimKeepsInv ==
  ASSUME Inv, NEW t \in Threads, Claim(t)
  PROVE  Inv'
<1> USE MaxCountAssumption, MaxWorkersAssumption DEF Inv, Threads, Helpers, Caller
<1>1. /\ pc[t] = "drain" /\ next' = next + 1 /\ next \in Nat
      /\ UNCHANGED <<platform, count, workers, created, joined, finished>>
  BY DEF Claim, Draw, TypeOK
<1>2. CASE next < count
  <2>1. /\ item' = [item EXCEPT ![t] = next]
        /\ calls' = [calls EXCEPT ![next] = @ + 1]
        /\ pc' = [pc EXCEPT ![t] = "run"]
    BY <1>2 DEF Claim, Draw, TypeOK
  <2>2. next \in Indices /\ next \notin Drawn /\ Drawn' = Drawn \cup {next}
    BY <1>1, <1>2 DEF Drawn, Indices, TypeOK
  <2>3. TypeOK'
    BY <1>1, <2>1, <2>2 DEF TypeOK
  <2>4. ThreadsInv' /\ JoinInv'
    BY <1>1, <2>1 DEF TypeOK, ThreadsInv, JoinInv, Returned
  <2>5. CounterInv'
    <3>1. \A i \in Indices : calls'[i] = IF i \in Drawn' THEN 1 ELSE 0
      BY <2>1, <2>2 DEF CounterInv, TypeOK
    <3>2. \A u \in Threads : /\ finished'[u] \subseteq Drawn'
                             /\ pc'[u] = "run" => item'[u] \in Drawn'
      BY <1>1, <2>1, <2>2 DEF CounterInv, TypeOK
    <3>3. \A u, v \in Threads : pc'[u] = "run" => item'[u] \notin finished'[v]
      BY <1>1, <2>1, <2>2 DEF CounterInv, TypeOK
    <3>4. \A u, v \in Threads :
            pc'[u] = "run" /\ pc'[v] = "run" /\ item'[u] = item'[v] => u = v
      BY <1>1, <2>1, <2>2 DEF CounterInv, TypeOK
    <3>5. \A i \in Drawn' : \E u \in Threads :
            (pc'[u] = "run" /\ item'[u] = i) \/ i \in finished'[u]
      <4> SUFFICES ASSUME NEW i \in Drawn'
                   PROVE  \E u \in Threads :
                            (pc'[u] = "run" /\ item'[u] = i) \/ i \in finished'[u]
        OBVIOUS
      <4>1. CASE i = next
        BY <4>1, <2>1 DEF TypeOK
      <4>2. CASE i \in Drawn
        <5>1. PICK u \in Threads : (pc[u] = "run" /\ item[u] = i) \/ i \in finished[u]
          BY <4>2 DEF CounterInv
        <5> QED
          BY <5>1, <1>1, <2>1 DEF TypeOK
      <4> QED
        BY <4>1, <4>2, <2>2
    <3>6. /\ \A h \in Helpers : pc'[h] = "exited" => next' >= count'
          /\ pc'[Caller] \in {"wait", "returned"} => next' >= count'
      BY <1>1, <2>1 DEF CounterInv, TypeOK
    <3> QED
      BY <3>1, <3>2, <3>3, <3>4, <3>5, <3>6 DEF CounterInv
  <2> QED
    BY <2>3, <2>4, <2>5
<1>3. CASE next >= count
  <2>1. /\ pc' = [pc EXCEPT ![t] = IF t = Caller THEN "wait" ELSE "exited"]
        /\ UNCHANGED <<item, calls>>
    BY <1>3 DEF Claim, Draw, TypeOK
  <2>2. Drawn' = Drawn
    BY <1>1, <1>3 DEF Drawn, Indices, TypeOK
  <2>3. TypeOK'
    BY <1>1, <2>1 DEF TypeOK
  <2>4. ThreadsInv' /\ JoinInv'
    BY <1>1, <2>1 DEF TypeOK, ThreadsInv, JoinInv, Returned
  <2>5. CounterInv'
    BY <1>1, <1>3, <2>1, <2>2 DEF CounterInv, TypeOK
  <2> QED
    BY <2>3, <2>4, <2>5
<1> QED
  BY <1>2, <1>3 DEF TypeOK

\* A task that ends moves from the thread that held it to its finished set.
LEMMA FinishKeepsInv ==
  ASSUME Inv, NEW t \in Threads, Finish(t)
  PROVE  Inv'
<1> USE MaxCountAssumption, MaxWorkersAssumption DEF Inv, Threads, Helpers, Caller
<1>1. /\ pc[t] = "run" /\ item[t] \in Drawn
      /\ pc' = [pc EXCEPT ![t] = "drain"]
      /\ finished' = [finished EXCEPT ![t] = @ \cup {item[t]}]
      /\ UNCHANGED <<platform, count, workers, next, created, joined, item, calls>>
  BY DEF Finish, CounterInv
<1>2. Drawn' = Drawn /\ Drawn \subseteq Indices
  BY <1>1 DEF Drawn
<1>3. TypeOK'
  BY <1>1, <1>2 DEF TypeOK
<1>4. ThreadsInv' /\ JoinInv'
  BY <1>1 DEF TypeOK, ThreadsInv, JoinInv, Returned
<1>5. CounterInv'
  <2>1. \A i \in Indices : calls'[i] = IF i \in Drawn' THEN 1 ELSE 0
    BY <1>1, <1>2 DEF CounterInv
  <2>2. \A u \in Threads : /\ finished'[u] \subseteq Drawn'
                           /\ pc'[u] = "run" => item'[u] \in Drawn'
    BY <1>1, <1>2 DEF CounterInv, TypeOK
  <2>3. \A u, v \in Threads :
          /\ pc'[u] = "run" => item'[u] \notin finished'[v]
          /\ pc'[u] = "run" /\ pc'[v] = "run" /\ item'[u] = item'[v] => u = v
    BY <1>1 DEF CounterInv, TypeOK
  <2>4. \A i \in Drawn' : \E u \in Threads :
          (pc'[u] = "run" /\ item'[u] = i) \/ i \in finished'[u]
    <3> SUFFICES ASSUME NEW i \in Drawn
                 PROVE  \E u \in Threads :
                          (pc'[u] = "run" /\ item'[u] = i) \/ i \in finished'[u]
      BY <1>2
    <3>1. PICK u \in Threads : (pc[u] = "run" /\ item[u] = i) \/ i \in finished[u]
      BY DEF CounterInv
    <3> QED
      BY <3>1, <1>1 DEF TypeOK
  <2>5. /\ \A h \in Helpers : pc'[h] = "exited" => next' >= count'
        /\ pc'[Caller] \in {"wait", "returned"} => next' >= count'
    BY <1>1 DEF CounterInv, TypeOK
  <2> QED
    BY <2>1, <2>2, <2>3, <2>4, <2>5 DEF CounterInv
<1> QED
  BY <1>3, <1>4, <1>5

LEMMA StartKeepsInv ==
  ASSUME Inv, NEW h \in Helpers, StartHelper(h)
  PROVE  Inv'
<1> USE MaxCountAssumption, MaxWorkersAssumption DEF Inv, Threads, Helpers, Caller
<1>1. TypeOK'
  BY DEF StartHelper, TypeOK
<1>2. ThreadsInv' /\ JoinInv'
  BY DEF StartHelper, TypeOK, ThreadsInv, JoinInv, Returned
<1>3. CounterInv'
  BY DEF StartHelper, TypeOK, CounterInv, Drawn
<1> QED
  BY <1>1, <1>2, <1>3

LEMMA NextKeepsInv == Inv /\ [Next]_vars => Inv'
<1> SUFFICES ASSUME Inv, [Next]_vars PROVE Inv'
  OBVIOUS
<1>1. CASE Next
  BY <1>1, CallerKeepsInv, ClaimKeepsInv, FinishKeepsInv, StartKeepsInv DEF Next
<1>2. CASE UNCHANGED vars
  BY <1>2 DEF vars, Inv, TypeOK, ThreadsInv, JoinInv, CounterInv, Drawn, Returned
<1> QED
  BY <1>1, <1>2

LEMMA Invariance == Spec => []Inv
  BY InitInv, NextKeepsInv, PTL DEF Spec
-----------------------------------------------------------------------------
(* What the callers of qlic_parallel_for rely on.                           *)

\* The types hold for every number of tasks and workers.
THEOREM TypeCorrect == Spec => []TypeOK
<1>1. Inv => TypeOK
  BY DEF Inv
<1> QED
  BY <1>1, Invariance, PTL

\* Every task of the call is run, and none is run twice, whatever threads could
\* not be created and whatever submissions were withdrawn (parallel.c:64-118).
THEOREM EachTaskRunsOnce == Spec => []ExactlyOnce
<1>1. Inv => ExactlyOnce
  <2> SUFFICES ASSUME Inv PROVE ExactlyOnce
    OBVIOUS
  <2> USE MaxCountAssumption DEF Inv, TypeOK
  <2>1. \A i \in Indices : calls[i] = IF i \in Drawn THEN 1 ELSE 0
    BY DEF CounterInv
  <2>2. Returned => next >= count
    BY DEF CounterInv, Returned, Caller
  <2>3. Returned => Tasks \subseteq Drawn
    BY <2>2 DEF Tasks, Drawn, Indices
  <2>4. Tasks \subseteq Indices
    BY DEF Tasks, Indices
  <2> QED
    BY <2>1, <2>3, <2>4 DEF ExactlyOnce
<1> QED
  BY <1>1, Invariance, PTL

\* The invariant at the return: all tasks are finished by the caller or by a
\* helper it has waited for, and no helper is left inside the call.
LEMMA AtReturn ==
  ASSUME Inv, Returned
  PROVE  Readable = Tasks /\ FrameOutlivesHelpers /\ Todo = {} /\ Busy = {}
<1> USE MaxCountAssumption, MaxWorkersAssumption DEF Inv, TypeOK, Threads, Helpers, Caller
<1>1. joined = created /\ next >= count
  BY DEF JoinInv, CounterInv, Returned
<1>2. \A h \in Helpers : pc[h] \in {"none", "exited", "cancelled"}
  BY <1>1 DEF JoinInv, ThreadsInv
<1>3. Drawn = Tasks
  BY <1>1 DEF Drawn, Tasks, Indices
<1>4. \A t \in Threads : pc[t] # "run"
  BY <1>2 DEF Returned
<1>5. Readable \subseteq Tasks
  BY <1>3 DEF Readable, CounterInv
<1>6. Tasks \subseteq Readable
  <2> SUFFICES ASSUME NEW i \in Tasks PROVE i \in Readable
    OBVIOUS
  <2>1. PICK t \in Threads : i \in finished[t]
    BY <1>3, <1>4 DEF CounterInv
  <2>2. t = Caller \/ t <= joined
    BY <2>1, <1>1 DEF ThreadsInv
  <2> QED
    BY <2>1, <2>2 DEF Readable
<1>7. Todo = {} /\ Busy = {}
  <2>1. Tasks \subseteq Indices
    BY DEF Tasks, Indices
  <2>2. \A i \in Tasks : calls[i] = 1
    BY <1>3, <2>1 DEF CounterInv
  <2> QED
    BY <1>4, <2>2 DEF Todo, Busy, Running
<1> QED
  BY <1>2, <1>5, <1>6, <1>7 DEF FrameOutlivesHelpers

\* A caller that returns may read every result without a race.
THEOREM AllResultsReadable == Spec => []ResultsReadable
<1>1. Inv => ResultsReadable
  BY AtReturn DEF ResultsReadable
<1> QED
  BY <1>1, Invariance, PTL

\* No helper outlives the stack frame it points to.
THEOREM NoDanglingHelper == Spec => []FrameOutlivesHelpers
<1>1. Inv => FrameOutlivesHelpers
  BY AtReturn DEF FrameOutlivesHelpers
<1> QED
  BY <1>1, Invariance, PTL

\* No more tasks run at a time than workers were asked for: the caller is one
\* of them (comment at parallel.c:82).
THEOREM NoMoreThanWorkers == Spec => []WorkerLimit
<1>1. Inv => WorkerLimit
  <2> SUFFICES ASSUME Inv PROVE WorkerLimit
    OBVIOUS
  <2> USE MaxWorkersAssumption DEF Inv, TypeOK, Threads, Helpers, Caller
  <2>1. Running \subseteq 0..created
    BY DEF Running, ThreadsInv
  <2>2. IsFiniteSet(0..created) /\ Cardinality(0..created) = created + 1
    BY FS_Interval
  <2>3. IsFiniteSet(Running) /\ Cardinality(Running) <= created + 1
    BY <2>1, <2>2, FS_Subset
  <2>4. Cardinality(Running) \in Nat
    BY <2>3, FS_CardinalityType
  <2>5. created + 1 <= IF workers = 0 THEN 1 ELSE workers
    BY DEF ThreadsInv
  <2> QED
    BY <2>3, <2>4, <2>5 DEF WorkerLimit
<1> QED
  BY <1>1, Invariance, PTL

-----------------------------------------------------------------------------
(* The call implements TaskSet.                                             *)

\* Steps that neither draw nor end a task change nothing TaskSet can see,
\* except the return.
LEMMA CallerRefines ==
  ASSUME Inv, CallerStep
  PROVE  [Abstract!Next]_(Abstract!taskVars)
<1> USE MaxCountAssumption, MaxWorkersAssumption DEF Inv, Threads, Helpers, Caller
<1>1. UNCHANGED <<count, calls, item, finished>> /\ ~Returned
  BY DEF CallerStep, Enter, Setup, CreateHelper, CreateDone, CancelPending,
         Join, Return, Returned
<1>2. Running' = Running
  <2>1. CASE Enter \/ Setup \/ CreateDone \/ Return
    BY <2>1 DEF Enter, Setup, CreateDone, Return, Running, TypeOK
  <2>2. CASE CreateHelper
    <3>1. created + 1 \in Helpers /\ pc[created + 1] = "none"
      BY <2>2 DEF CreateHelper, TypeOK, ThreadsInv
    <3> QED
      BY <2>2, <3>1 DEF CreateHelper, Running, TypeOK
  <2>3. CASE CancelPending \/ Join
    BY <2>3 DEF CancelPending, Join, Running, TypeOK
  <2> QED
    BY <2>1, <2>2, <2>3 DEF CallerStep
<1>3. Tasks' = Tasks /\ Todo' = Todo /\ Busy' = Busy
  BY <1>1, <1>2 DEF Tasks, Todo, Busy
<1>4. CASE Returned'
  <2>1. Inv'
    BY CallerKeepsInv
  <2>2. (Readable = Tasks /\ Todo = {} /\ Busy = {})'
    <3>1. ASSUME Inv', Returned'
          PROVE  (Readable = Tasks /\ Todo = {} /\ Busy = {})'
      BY <3>1, AtReturn, PTL
    <3> QED
      BY <3>1, <2>1, <1>4
  <2>3. Handed' = Tasks
    BY <1>3, <1>4, <2>2 DEF Handed
  <2>4. Returned' = TRUE
    BY <1>4 DEF Returned
  <2> QED
    BY <1>1, <1>3, <2>2, <2>3, <2>4 DEF Abstract!Next, Abstract!Return
<1>5. CASE ~Returned'
  <2>1. Handed' = Handed /\ Returned' = Returned
    BY <1>1, <1>5 DEF Handed, Returned
  <2> QED
    BY <1>3, <2>1 DEF Abstract!taskVars
<1> QED
  BY <1>4, <1>5

\* While a thread is inside its loop the call has not returned, and neither
\* drawing an index nor ending a task makes it return.
LEMMA InsideLoop ==
  ASSUME Inv, NEW t \in Threads, Claim(t) \/ Finish(t)
  PROVE  /\ ~Returned /\ Returned' = Returned
         /\ Handed' = Handed /\ Tasks' = Tasks
<1> USE MaxWorkersAssumption DEF Inv, Threads, Helpers, Caller
<1>1. pc[t] \in {"drain", "run"} /\ count' = count
  BY DEF Claim, Draw, Finish
<1>2. ~Returned
  BY <1>1, AtReturn DEF FrameOutlivesHelpers, Returned
<1>3. ~Returned'
  BY <1>2 DEF Claim, Draw, Finish, Returned, TypeOK
<1>4. Returned' = Returned
  BY <1>2, <1>3 DEF Returned
<1> QED
  BY <1>1, <1>2, <1>3, <1>4 DEF Handed, Tasks

\* Drawing an index is Begin of that task, or invisible past the end.
LEMMA ClaimRefines ==
  ASSUME Inv, NEW t \in Threads, Claim(t)
  PROVE  [Abstract!Next]_(Abstract!taskVars)
<1> USE MaxCountAssumption, MaxWorkersAssumption DEF Inv, Threads, Helpers, Caller
<1>1. Returned' = Returned /\ Handed' = Handed /\ Tasks' = Tasks
  BY InsideLoop
<1>2. pc[t] = "drain" /\ next \in Nat /\ count \in Nat
  BY DEF Claim, Draw, TypeOK
<1>3. CASE next < count
  <2>1. /\ item' = [item EXCEPT ![t] = next]
        /\ calls' = [calls EXCEPT ![next] = @ + 1]
        /\ pc' = [pc EXCEPT ![t] = "run"]
    BY <1>2, <1>3 DEF Claim, Draw
  <2>2. next \in Tasks /\ next \in Indices /\ calls[next] = 0
    BY <1>2, <1>3 DEF Tasks, Indices, CounterInv, Drawn, TypeOK
  <2>3. \A i \in Tasks : calls'[i] = 0 <=> calls[i] = 0 /\ i # next
    BY <2>1, <2>2 DEF Tasks, Indices, TypeOK
  <2>4. Todo' = Todo \ {next} /\ next \in Todo
    BY <1>1, <2>2, <2>3 DEF Todo
  <2>5. Running' = Running \cup {t} /\ t \notin Running
    BY <1>2, <2>1 DEF Running, TypeOK
  <2>6. item'[t] = next /\ \A u \in Running : item'[u] = item[u]
    BY <2>1, <2>5 DEF Running, TypeOK
  <2>7. Busy' = Busy \cup {next}
    BY <2>5, <2>6 DEF Busy
  <2> QED
    BY <1>1, <2>4, <2>7 DEF Abstract!Next, Abstract!Begin
<1>4. CASE next >= count
  <2>1. /\ pc' = [pc EXCEPT ![t] = IF t = Caller THEN "wait" ELSE "exited"]
        /\ UNCHANGED <<item, calls>>
    BY <1>2, <1>4 DEF Claim, Draw
  <2>2. Running' = Running
    BY <1>2, <2>1 DEF Running, TypeOK
  <2>3. Todo' = Todo /\ Busy' = Busy
    BY <1>1, <2>1, <2>2 DEF Todo, Busy
  <2> QED
    BY <1>1, <2>3 DEF Abstract!taskVars
<1> QED
  BY <1>2, <1>3, <1>4

\* The end of fn is End of the task the thread holds.
LEMMA FinishRefines ==
  ASSUME Inv, NEW t \in Threads, Finish(t)
  PROVE  [Abstract!Next]_(Abstract!taskVars)
<1> USE MaxWorkersAssumption DEF Inv, Threads, Helpers, Caller
<1>1. Returned' = Returned /\ Handed' = Handed /\ Tasks' = Tasks
  BY InsideLoop
<1>2. /\ pc[t] = "run"
      /\ pc' = [pc EXCEPT ![t] = "drain"]
      /\ UNCHANGED <<count, item, calls>>
  BY DEF Finish
<1>3. Running' = Running \ {t} /\ t \in Running
  BY <1>2 DEF Running, TypeOK
<1>4. \A u \in Running : item[u] = item[t] => u = t
  BY <1>2 DEF Running, CounterInv
<1>5. Busy' = Busy \ {item[t]} /\ item[t] \in Busy
  BY <1>2, <1>3, <1>4 DEF Busy
<1>6. Todo' = Todo
  BY <1>1, <1>2 DEF Todo
<1> QED
  BY <1>1, <1>5, <1>6 DEF Abstract!Next, Abstract!End

LEMMA StartRefines ==
  ASSUME Inv, NEW h \in Helpers, StartHelper(h)
  PROVE  [Abstract!Next]_(Abstract!taskVars)
<1> USE MaxWorkersAssumption DEF Inv, Threads, Helpers, Caller
<1>1. UNCHANGED <<count, item, calls, finished, joined>>
  BY DEF StartHelper
<1>2. Running' = Running /\ pc'[Caller] = pc[Caller]
  BY DEF StartHelper, Running, TypeOK
<1>3. Returned' = Returned /\ Readable' = Readable
  BY <1>1, <1>2 DEF Returned, Readable
<1>4. Tasks' = Tasks /\ Todo' = Todo /\ Busy' = Busy /\ Handed' = Handed
  BY <1>1, <1>2, <1>3 DEF Tasks, Todo, Busy, Handed
<1> QED
  BY <1>3, <1>4 DEF Abstract!taskVars

\* Every step of the threads is a step of TaskSet or invisible to it.
LEMMA NextRefines == Inv /\ [Next]_vars => [Abstract!Next]_(Abstract!taskVars)
<1> SUFFICES ASSUME Inv, [Next]_vars PROVE [Abstract!Next]_(Abstract!taskVars)
  OBVIOUS
<1>1. CASE Next
  BY <1>1, CallerRefines, ClaimRefines, FinishRefines, StartRefines DEF Next
<1>2. CASE UNCHANGED vars
  <2>1. UNCHANGED <<Tasks, Running, Readable>> /\ Returned' = Returned
    BY <1>2 DEF vars, Tasks, Running, Returned, Readable
  <2>2. Todo' = Todo /\ Busy' = Busy /\ Handed' = Handed
    BY <1>2, <2>1 DEF vars, Todo, Busy, Handed
  <2> QED
    BY <2>1, <2>2 DEF Abstract!taskVars
<1> QED
  BY <1>1, <1>2

\* The threads implement the task set: a caller that sees only which tasks have
\* begun and ended cannot tell qlic_parallel_for from TaskSet.
THEOREM Refinement == Spec => ImplementsTaskSet
<1>1. Init => Abstract!Init
  <2> SUFFICES ASSUME Init PROVE Abstract!Init
    OBVIOUS
  <2> USE MaxCountAssumption, MaxWorkersAssumption DEF Init, Threads, Helpers, Caller
  <2>1. Tasks \in SUBSET Nat /\ Tasks \subseteq Indices
    BY DEF Tasks, Indices
  <2>2. Todo = Tasks
    BY <2>1 DEF Todo
  <2>3. Busy = {}
    BY DEF Busy, Running
  <2>4. Returned = FALSE
    BY DEF Returned
  <2>5. Handed = {}
    BY <2>4 DEF Handed
  <2> QED
    BY <2>1, <2>2, <2>3, <2>4, <2>5 DEF Abstract!Init
<1> QED
  BY <1>1, NextRefines, Invariance, PTL DEF Spec, ImplementsTaskSet, Abstract!Spec
=============================================================================
