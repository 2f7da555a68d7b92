---------------------------- MODULE ApiCallProofs ----------------------------
(***************************************************************************)
(* Proofs about one call of the public API: for any image, options, bands  *)
(* and budgets, and wherever a callback stops it or a part of the work     *)
(* fails, the call keeps to its threads, leaves nothing allocated but what *)
(* it gives to the caller, tells its progress step by step and returns the *)
(* code of something that did go wrong.                                    *)
(*                                                                         *)
(* The last one needs to know where the status of the calling thread comes *)
(* from while parts are still in work: CauseInv says that it is clear, or  *)
(* is explained by a fault of this call, and that a part that has failed   *)
(* has left its fault.                                                     *)
(*                                                                         *)
(* The threads and the rows in work are about the parts that are coded at  *)
(* the same time.  Both count the tasks in work, which no step of one task *)
(* bounds by itself.  JobInv says that these are at most Outer, that they  *)
(* are parts of the batch, and that none is left when the loop over it has *)
(* returned.                                                               *)
(*                                                                         *)
(* Each path frees the buffers it names, so what is left at the end needs  *)
(* to be known at every point before: BufferInv says for each kind of work *)
(* which buffers can exist, and that what a function frees on its way out  *)
(* is all of them; HeldInv says it for the call around the work.           *)
(***************************************************************************)
EXTENDS ApiCall, FiniteSetTheorems, TLAPS

Busy == {"caller", "helper"}
Marks == {"todo", "ok"} \cup Busy \cup Faults
AtWork == phase \in {"run", "append", "again"}

JobInv ==
  AtWork =>
    /\ job \in Jobs
    /\ base \in Nat \ {0} /\ next \in 1..job.count /\ next \in Batch
    /\ phase = "run" => next = base
    /\ task \in [1..job.count -> Marks]
    /\ \A i \in 1..job.count : task[i] \in Busy => phase = "run" /\ i \in Batch
    /\ phase = "run" => Cardinality(Running \ job.idle) <= Outer
    /\ job.kind # "tiles_enc" =>
         \A i \in 1..job.count : i < base \/ (phase # "run" /\ i \in Batch) => task[i] = "ok"

-----------------------------------------------------------------------------
(* What a job is.                                                           *)

\* The functions that plan a job, kind by kind.
LEMMA KindFacts ==
  ASSUME NEW k \in Kinds
  PROVE  /\ WorkOf[k].workers \in {"half", "budget", "one"}
         /\ WorkOf[k].batch \in {"workers", "double", "one", "all unless alone", "all"}
         /\ WorkOf[k].ends \subseteq {"ok"} \cup Faults
         /\ k \in {"tiles_enc", "tiles_dec"} => WorkOf[k].workers = "half"
         /\ k = "wide_enc" => WorkOf[k].workers = "one"
         /\ k \in {"one_enc", "wide_enc", "one_dec"} => WorkOf[k].batch = "one"
         /\ k = "wide_dec" => WorkOf[k].batch = "all unless alone"
<1>1. k \in {"tiles_enc", "tiles_dec", "rtt_enc", "rtt_dec", "anim_enc", "anim_dec", "anim2_dec",
             "one_enc", "one_dec", "wide_enc", "wide_dec"}
  BY DEF Kinds, WorkOf
<1> USE DEF WorkOf, Work, Faults
<1>2. CASE k = "tiles_enc"
  BY <1>2 DEF try_tile_height, tile_enc_one
<1>3. CASE k = "tiles_dec"
  BY <1>3 DEF dec_tile, tile_dec_one
<1>4. CASE k = "rtt_enc"
  BY <1>4 DEF try_rtt_height, rtt_enc_one
<1>5. CASE k = "rtt_dec"
  BY <1>5 DEF dec_rtt, rtt_dec_one
<1>6. CASE k = "anim_enc"
  BY <1>6 DEF enc_anim_mem, anim_enc_one
<1>7. CASE k = "anim_dec"
  BY <1>7 DEF dec_anim_payload, anim_dec_one
<1>8. CASE k = "anim2_dec"
  BY <1>8 DEF dec_anim2_payload, anim_dec_one
<1>9. CASE k = "one_enc"
  BY <1>9 DEF enc_mem, tile_enc_one
<1>10. CASE k = "one_dec"
  BY <1>10 DEF dec_qlic_limited, dec_direct_payload
<1>11. CASE k = "wide_enc"
  BY <1>11 DEF enc_wide_payload, append_wide_payload
<1>12. CASE k = "wide_dec"
  BY <1>12 DEF wide_payload_decode, wide_slice_decode
<1> QED
  BY <1>1, <1>2, <1>3, <1>4, <1>5, <1>6, <1>7, <1>8, <1>9, <1>10, <1>11, <1>12

\* Bands in work are one, or hold at most half of the rows.
LEMMA BandWorkersBound ==
  ASSUME NEW rows \in Nat \ {0}, NEW tileH \in Nat \ {0}, NEW count \in Nat \ {0},
         NEW requested \in Nat \ {0}
  PROVE  /\ BandWorkers(rows, tileH, count, requested) \in Nat \ {0}
         /\ BandWorkers(rows, tileH, count, requested) <= requested
         /\ BandWorkers(rows, tileH, count, requested) <= Most(1, rows \div (2 * tileH))
<1>1. rows \div (2 * tileH) \in Nat
  OBVIOUS
<1> QED
  BY <1>1 DEF BandWorkers, Least, Most

\* The numbers of a planned job.
LEMMA JobFacts ==
  ASSUME NEW j \in Jobs
  PROVE  /\ j.kind \in Kinds
         /\ j.budget \in Nat \ {0} /\ j.count \in Nat \ {0} /\ j.capacity \in Nat \ {0}
         /\ j.parts \in Nat \ {0} /\ j.tileH \in Nat \ {0}
         /\ j.workers \in 1..j.budget
         /\ j.kind \in {"tiles_enc", "tiles_dec"} =>
              j.idle = {} /\ j.workers <= Most(1, j.parts \div (2 * j.tileH))
         /\ j.kind = "wide_enc" => j.workers = 1
         /\ j.idle # {} => j.kind = "anim_enc"
         /\ j.kind \in {"one_enc", "one_dec"} => j.count = 1
         /\ j.kind \in {"one_enc", "wide_enc", "one_dec"} => j.capacity = 1
         /\ j.kind = "wide_dec" => j.capacity = IF j.workers = 1 THEN 1 ELSE j.count
<1>1. PICK w \in Wanted : j = Planned(w)
  BY DEF Jobs
<1>2. /\ w.kind \in Kinds /\ w.budget \in Nat \ {0}
      /\ w.parts \in Nat \ {0} /\ w.tileH \in Nat \ {0}
      /\ w.idle # {} => w.kind = "anim_enc"
      /\ w.kind \in {"one_enc", "one_dec"} => w.parts = 1
  BY <1>1, TileJobsAssumption DEF Wanted
<1>3. /\ j.kind = w.kind /\ j.budget = w.budget /\ j.parts = w.parts /\ j.tileH = w.tileH
      /\ j.idle = w.idle /\ j.count = Count(w) /\ j.workers = Workers(w) /\ j.capacity = Capacity(w)
  BY <1>1 DEF Planned
<1>4. Count(w) \in Nat \ {0}
  <2>1. (w.parts - 1) \div w.tileH \in Nat
    BY <1>2
  <2> QED
    BY <1>2, <2>1 DEF Count
<1>5. /\ Workers(w) \in 1..w.budget
      /\ w.kind \in {"tiles_enc", "tiles_dec"} => Workers(w) <= Most(1, w.parts \div (2 * w.tileH))
      /\ w.kind = "wide_enc" => Workers(w) = 1
  <2>1. CASE WorkOf[w.kind].workers = "half"
    <3>1. w.kind # "wide_enc" /\ Workers(w) = BandWorkers(w.parts, w.tileH, Count(w), w.budget)
      BY <2>1, <1>2, KindFacts DEF Workers
    <3> DEFINE n == BandWorkers(w.parts, w.tileH, Count(w), w.budget)
               most == Most(1, w.parts \div (2 * w.tileH))
    <3>2. n \in Nat \ {0} /\ n <= w.budget /\ n <= most
      BY <1>2, <1>4, BandWorkersBound
    <3> HIDE DEF n, most
    <3>3. n \in 1..w.budget
      BY <3>2, <1>2
    <3> QED
      BY <3>1, <3>2, <3>3 DEF n, most
  <2>2. CASE WorkOf[w.kind].workers = "budget"
    <3>1. /\ w.kind \notin {"tiles_enc", "tiles_dec", "wide_enc"}
          /\ Workers(w) = Least(w.budget, Count(w))
      BY <2>2, <1>2, KindFacts DEF Workers
    <3> QED
      BY <3>1, <1>2, <1>4 DEF Least
  <2>3. CASE WorkOf[w.kind].workers = "one"
    <3>1. w.kind \notin {"tiles_enc", "tiles_dec"} /\ Workers(w) = 1
      BY <2>3, <1>2, KindFacts DEF Workers
    <3> QED
      BY <3>1, <1>2
  <2> QED
    BY <2>1, <2>2, <2>3, <1>2, KindFacts
<1>6. Capacity(w) \in Nat \ {0}
  <2>1. /\ Workers(w) \in Nat \ {0} /\ Count(w) \in Nat \ {0}
        /\ Capacity(w) \in {Workers(w), Count(w), 2 * Workers(w), 1}
    <3>1. WorkOf[w.kind].batch \in {"workers", "double", "one", "all unless alone", "all"}
      BY <1>2, KindFacts
    <3>2. Capacity(w) \in {Workers(w), Count(w), 2 * Workers(w), 1}
      BY <3>1 DEF Capacity
    <3> QED
      BY <3>2, <1>2, <1>4, <1>5
  <2> QED
    BY <2>1
<1>7. w.kind \in {"tiles_enc", "tiles_dec"} => w.idle = {}
  BY <1>2
<1>8. w.kind \in {"one_enc", "one_dec"} => Count(w) = 1
  BY <1>2 DEF Count, Banded
<1>9. /\ w.kind \in {"one_enc", "wide_enc", "one_dec"} => Capacity(w) = 1
      /\ w.kind = "wide_dec" => Capacity(w) = IF Workers(w) = 1 THEN 1 ELSE Count(w)
  BY <1>2, KindFacts DEF Capacity
<1> QED
  BY <1>2, <1>3, <1>4, <1>5, <1>6, <1>7, <1>8, <1>9

-----------------------------------------------------------------------------
(* What a batch is.                                                         *)

\* The batch and the tasks in work are finite; Outer is within the budget.
LEMMA BatchFacts ==
  ASSUME JobInv, AtWork
  PROVE  /\ Batch \subseteq 1..job.count /\ IsFiniteSet(Batch)
         /\ IsFiniteSet(Running) /\ IsFiniteSet(Active)
         /\ Outer \in Nat \ {0} /\ Outer <= job.budget
         /\ Outer <= job.workers
<1>1. job \in Jobs /\ base \in Nat \ {0}
  BY DEF JobInv
<1>2. job.count \in Nat \ {0} /\ job.capacity \in Nat \ {0}
  BY <1>1, JobFacts
<1>3. job.workers \in Nat \ {0} /\ job.budget \in Nat \ {0} /\ job.workers <= job.budget
  BY <1>1, JobFacts
<1>4. Least(base + job.capacity - 1, job.count) \in Int /\ Least(base + job.capacity - 1, job.count) <= job.count
  BY <1>1, <1>2 DEF Least
<1>5. Batch \subseteq 1..job.count
  BY <1>1, <1>2, <1>4 DEF Batch
<1>6. IsFiniteSet(Batch)
  BY <1>1, <1>4, FS_Interval DEF Batch
<1>7. IsFiniteSet(Running) /\ IsFiniteSet(Active)
  BY <1>6, FS_Subset DEF Running, Active
<1>8. Cardinality(Active) \in Nat
  BY <1>7, FS_CardinalityType
<1> QED
  BY <1>3, <1>5, <1>6, <1>7, <1>8 DEF Outer, Least, Most

-----------------------------------------------------------------------------
(* Steps.                                                                   *)

\* A plan starts with nothing in work.
LEMMA PlanKeepsInv ==
  ASSUME NEW j \in Jobs, Plan(j)
  PROVE  JobInv'
<1>1. /\ job' = j /\ phase' = "run" /\ base' = 1 /\ next' = 1
      /\ task' = [i \in 1..job'.count |-> "todo"]
  BY DEF Plan
<1>2. task' \in [1..job'.count -> Marks] /\ \A i \in 1..job'.count : task'[i] \notin Busy
  BY <1>1 DEF Marks, Busy
<1>3. job'.count \in Nat \ {0} /\ job'.capacity \in Nat
  BY <1>1, JobFacts
<1>4. Batch' \subseteq 1..job'.count
  BY <1>1, <1>3 DEF Batch, Least
<1>5. Running' = {}
  BY <1>2, <1>4 DEF Running, Busy
<1>6. Cardinality(Running' \ job'.idle) = 0
  BY <1>5, FS_EmptySet
<1>7. Outer' \in Int /\ 0 <= Outer'
  <2>1. IsFiniteSet(Active')
    <3>1. IsFiniteSet(1..job'.count)
      BY <1>3, FS_Interval, SMTT(40)
    <3> QED
      BY <3>1, <1>4, FS_Subset DEF Active
  <2>2. Cardinality(Active') \in Nat
    BY <2>1, FS_CardinalityType
  <2>3. job'.workers \in Nat
    BY <1>1, JobFacts
  <2> QED
    BY <2>2, <2>3 DEF Outer, Least, Most
<1>8. next' \in Batch' /\ \A i \in 1..job'.count : ~(i < base')
  BY <1>1, <1>3, JobFacts DEF Batch, Least
<1> QED
  BY <1>1, <1>2, <1>3, <1>6, <1>7, <1>8 DEF JobInv

\* A task is taken only while fewer than Outer are in work.
LEMMA TakeKeepsInv ==
  ASSUME JobInv, Take
  PROVE  JobInv'
<1>1. /\ phase = "run" /\ phase' = "run" /\ Cardinality(Running \ job.idle) < Outer
      /\ UNCHANGED <<job, base, next>>
  BY DEF Take
<1>2. PICK i \in Batch, who \in Busy : task' = [task EXCEPT ![i] = who] /\ task[i] = "todo"
  BY DEF Take, Busy
<1>3. /\ Batch \subseteq 1..job.count /\ IsFiniteSet(Running) /\ Outer \in Nat
  BY <1>1, BatchFacts DEF AtWork
<1>4. Batch' = Batch /\ Outer' = Outer
  BY <1>1 DEF Batch, Outer, Active
<1>5. task' \in [1..job'.count -> Marks]
      /\ \A k \in 1..job.count : task'[k] \in Busy => k \in Batch'
  BY <1>1, <1>2, <1>3, <1>4 DEF JobInv, AtWork, Marks
<1>6. Running' \ job'.idle \subseteq (Running \ job.idle) \cup {i}
  BY <1>1, <1>2, <1>3, <1>4 DEF Running, JobInv, AtWork
<1>7. Cardinality(Running' \ job'.idle) <= Outer'
  <2>1. IsFiniteSet(Running \ job.idle) /\ Cardinality(Running \ job.idle) \in Nat
    BY <1>3, FS_Subset, FS_CardinalityType
  <2>2. /\ IsFiniteSet((Running \ job.idle) \cup {i})
        /\ Cardinality((Running \ job.idle) \cup {i}) <= Cardinality(Running \ job.idle) + 1
    <3>1. /\ IsFiniteSet((Running \ job.idle) \cup {i})
          /\ Cardinality((Running \ job.idle) \cup {i})
               \in {Cardinality(Running \ job.idle), Cardinality(Running \ job.idle) + 1}
      BY <2>1, FS_AddElement
    <3> QED
      BY <2>1, <3>1
  <2>3. /\ Cardinality(Running' \ job'.idle) <= Cardinality((Running \ job.idle) \cup {i})
        /\ Cardinality(Running' \ job'.idle) \in Nat /\ Cardinality((Running \ job.idle) \cup {i}) \in Nat
    BY <2>2, <1>6, FS_Subset, FS_CardinalityType
  <2> QED
    BY <1>1, <1>3, <1>4, <2>1, <2>2, <2>3
<1>8. \A k \in 1..job.count : task[k] = "ok" => task'[k] = "ok"
  BY <1>1, <1>2 DEF JobInv, AtWork
<1> QED
  BY <1>1, <1>4, <1>5, <1>7, <1>8 DEF JobInv, AtWork

\* A task that ends is no longer in work.
LEMMA EndKeepsInv ==
  ASSUME JobInv, EndTask
  PROVE  JobInv'
<1>1. phase = "run"
  BY DEF EndTask
<1>2. PICK i \in Running : End(i)
  BY DEF EndTask
<1>3. job \in Jobs /\ job.kind \in Kinds
  BY <1>1, JobFacts DEF JobInv, AtWork
<1>4. PICK how \in {"ok"} \cup Faults : task' = [task EXCEPT ![i] = how]
  BY <1>2, <1>3, KindFacts DEF End
<1>5. UNCHANGED <<job, phase, base, next>>
  BY <1>2 DEF End
<1>6. /\ Batch \subseteq 1..job.count /\ IsFiniteSet(Running) /\ Outer \in Nat
  BY <1>1, BatchFacts DEF AtWork
<1>7. Batch' = Batch /\ Outer' = Outer
  BY <1>5 DEF Batch, Outer, Active
<1>8. how \notin Busy /\ how \in Marks
  BY <1>4 DEF Busy, Marks, Faults
<1>9. task' \in [1..job'.count -> Marks]
      /\ \A k \in 1..job.count : task'[k] \in Busy => task[k] \in Busy
  BY <1>1, <1>4, <1>5, <1>8 DEF JobInv, AtWork
<1>10. Running' \ job'.idle \subseteq Running \ job.idle
  BY <1>5, <1>6, <1>7, <1>9 DEF Running, Busy
<1>11. Cardinality(Running' \ job'.idle) <= Outer'
  <2>1. IsFiniteSet(Running \ job.idle)
    BY <1>6, FS_Subset
  <2>2. /\ Cardinality(Running' \ job'.idle) <= Cardinality(Running \ job.idle)
        /\ Cardinality(Running' \ job'.idle) \in Nat /\ Cardinality(Running \ job.idle) \in Nat
    BY <2>1, <1>10, FS_Subset, FS_CardinalityType
  <2> QED
    BY <1>1, <1>6, <1>7, <2>2 DEF JobInv, AtWork
<1>12. \A k \in 1..job.count : task[k] = "ok" => task'[k] = "ok"
  BY <1>1, <1>2, <1>4 DEF JobInv, AtWork, Running
<1> QED
  BY <1>1, <1>5, <1>7, <1>9, <1>11, <1>12 DEF JobInv, AtWork

\* When all tasks of the batch have ended, none is in work.
LEMMA JudgeKeepsInv ==
  ASSUME JobInv, Judge
  PROVE  JobInv'
<1>1. phase = "run" /\ \A i \in Batch : task[i] \notin Busy /\ task[i] # "todo"
  BY DEF Judge, Busy
<1>2. \/ phase' = "failed"
      \/ phase' = "append" /\ UNCHANGED <<job, task, base, next>> /\ (Failed = {} \/ job.kind = "tiles_enc")
  BY DEF Judge, Fail
<1>3. \A i \in 1..job.count : task[i] \notin Busy
  BY <1>1 DEF JobInv, AtWork
<1>4. CASE phase' = "append" /\ UNCHANGED <<job, task, base, next>> /\ (Failed = {} \/ job.kind = "tiles_enc")
  <2>1. Batch' = Batch
    BY <1>4 DEF Batch
  <2>2. Batch \subseteq 1..job.count
    BY <1>1, BatchFacts DEF AtWork
  <2>3. Failed = {} => \A i \in Batch : task[i] = "ok"
    BY <1>1, <2>2 DEF Failed, JobInv, AtWork, Marks, Busy
  <2> QED
    BY <1>1, <1>3, <1>4, <2>1, <2>3 DEF JobInv, AtWork
<1> QED
  BY <1>2, <1>4 DEF JobInv, AtWork

\* What comes after the loop: the next part, the next batch, or the end.
LEMMA AppendedKeepsInv ==
  ASSUME JobInv, phase \in {"append", "again"}, Appended
  PROVE  JobInv'
<1>1. /\ job \in Jobs /\ base \in Nat \ {0} /\ next \in 1..job.count /\ task \in [1..job.count -> Marks]
      /\ \A i \in 1..job.count : task[i] \notin Busy
      /\ next \in Batch
      /\ job.kind # "tiles_enc" => \A i \in 1..job.count : i < base \/ i \in Batch => task[i] = "ok"
  BY DEF JobInv, AtWork
<1>2. UNCHANGED <<job, task>>
  BY DEF Appended
<1>3. CASE phase' = "done"
  BY <1>3 DEF JobInv, AtWork
<1>4. CASE phase' = "append"
  <2>1. base' = base /\ next' = next + 1 /\ next < job.count /\ next + 1 \in Batch
    BY <1>4 DEF Appended
  <2>2. job.count \in Nat
    BY <1>1, JobFacts
  <2>3. Batch' = Batch
    BY <1>2, <2>1 DEF Batch
  <2> QED
    BY <1>1, <1>2, <1>4, <2>1, <2>2, <2>3 DEF JobInv, AtWork
<1>5. CASE phase' = "run"
  <2>1. job.count \in Nat /\ job.capacity \in Nat /\ job.workers \in Nat
    BY <1>1, JobFacts
  <2>2. base' \in Nat \ {0} /\ next' \in 1..job.count
    BY <1>1, <1>5, <2>1 DEF Appended
  <2>3. Batch' \subseteq 1..job.count
    BY <1>2, <2>2, <2>1 DEF Batch, Least
  <2>4. Running' = {}
    BY <1>1, <1>2, <2>3 DEF Running, Busy
  <2>5. Cardinality(Running' \ job'.idle) = 0
    BY <2>4, FS_EmptySet
  <2>6. Outer' \in Int /\ 0 <= Outer'
    <3>1. IsFiniteSet(1..job.count)
      <4>1. job.count \in Int /\ 1 \in Int
        BY <2>1
      <4> QED
        BY <4>1, FS_Interval
    <3>2. IsFiniteSet(Active') /\ Cardinality(Active') \in Nat
      BY <3>1, <2>3, FS_Subset, FS_CardinalityType DEF Active
    <3> QED
      BY <1>2, <2>1, <3>2 DEF Outer, Least, Most
  <2>7. next' = next + 1 /\ base' = next + 1 /\ next' \in Batch'
    <3>1. next' = next + 1 /\ base' = next + 1 /\ next < job.count
      BY <1>5 DEF Appended
    <3>2. job.capacity \in Nat \ {0}
      BY <1>1, JobFacts
    <3> QED
      BY <1>1, <1>2, <2>1, <3>1, <3>2 DEF Batch, Least
  <2>8. \A i \in 1..job.count : i < base' => i < base \/ i \in Batch
    BY <1>1, <2>1, <2>7 DEF Batch, Least
  <2> QED
    BY <1>1, <1>2, <1>5, <2>2, <2>5, <2>6, <2>7, <2>8 DEF JobInv, AtWork
<1> QED
  BY <1>3, <1>4, <1>5 DEF Appended

LEMMA AppendKeepsInv ==
  ASSUME JobInv, AppendNext \/ AppendAgain \/ OverLimit \/ Again
  PROVE  JobInv'
<1>1. phase \in {"append", "again"}
  BY DEF AppendNext, AppendAgain, OverLimit, Again
<1>2. CASE phase' \in {"failed", "done"}
  BY <1>2 DEF JobInv, AtWork
<1>3. CASE Appended
  BY <1>1, <1>3, AppendedKeepsInv
<1>4. CASE phase' = "again" /\ UNCHANGED <<job, task, base, next>>
  <2>1. Batch' = Batch
    BY <1>4 DEF Batch
  <2> QED
    BY <1>1, <1>4, <2>1 DEF JobInv, AtWork
<1>5. phase' \in {"failed", "done"} \/ Appended \/ (phase' = "again" /\ UNCHANGED <<job, task, base, next>>)
  BY DEF AppendNext, AppendAgain, OverLimit, Again, Fail, AppendFails
<1> QED
  BY <1>2, <1>3, <1>4, <1>5

LEMMA JobStepKeepsInv ==
  ASSUME JobInv, JobStep
  PROVE  JobInv'
<1>1. CASE PlanFails
  BY <1>1 DEF PlanFails, JobInv, AtWork
<1> QED
  BY <1>1, TakeKeepsInv, EndKeepsInv, JudgeKeepsInv, AppendKeepsInv DEF JobStep

-----------------------------------------------------------------------------
(* What the invariant says about threads and rows.                          *)

\* A finite set of integers has a largest element.
LEMMA LargestElement ==
  ASSUME NEW F \in SUBSET Int, IsFiniteSet(F), F # {}
  PROVE  \E m \in F : \A k \in F : k <= m
<1> DEFINE Above(m) == {k \in F : k > m}
           All == {Above(m) : m \in F}
<1>1. IsWellFoundedOn(StrictSubsetOrdering(F), FiniteSubsetsOf(F))
  BY FS_StrictSubsetOrderingWellFounded
<1>2. All \subseteq FiniteSubsetsOf(F) /\ All # {}
  <2>1. ASSUME NEW m \in F
        PROVE  Above(m) \in FiniteSubsetsOf(F)
    <3>1. Above(m) \subseteq F
      OBVIOUS
    <3>2. IsFiniteSet(Above(m))
      BY <3>1, FS_Subset
    <3> QED
      BY <3>1, <3>2 DEF FiniteSubsetsOf
  <2> QED
    BY <2>1
<1>3. PICK U \in All : \A V \in All : ~ (<<V, U>> \in StrictSubsetOrdering(F))
  <2> HIDE DEF All
  <2> QED
    BY <1>1, <1>2, WFMin
<1>4. PICK m \in F : U = Above(m)
  OBVIOUS
<1>5. ASSUME NEW k \in F, k > m
      PROVE  FALSE
  <2>1. Above(k) \subseteq U /\ Above(k) # U
    <3>1. k \in U /\ k \notin Above(k)
      BY <1>4, <1>5
    <3>2. ASSUME NEW j \in Above(k)
          PROVE  j \in U
      <4>1. j \in F /\ j > k
        OBVIOUS
      <4>2. j \in Int /\ k \in Int /\ m \in Int
        BY <4>1
      <4> QED
        BY <1>4, <1>5, <4>1, <4>2
    <3> QED
      BY <3>1, <3>2
  <2>2. Above(k) \in All /\ <<Above(k), U>> \in (SUBSET F) \X (SUBSET F)
    BY <1>4
  <2>3. <<Above(k), U>> \in StrictSubsetOrdering(F)
    BY <2>1, <2>2 DEF StrictSubsetOrdering
  <2> QED
    BY <1>3, <2>2, <2>3
<1> QED
  BY <1>5

\* The first s elements of a set are at most s.
LEMMA FirstElements ==
  ASSUME NEW A \in SUBSET Int, IsFiniteSet(A), NEW s \in Nat,
         NEW F \in SUBSET A, \A i \in F : Cardinality({k \in A : k < i}) < s
  PROVE  Cardinality(F) <= s
<1>1. IsFiniteSet(F) /\ Cardinality(F) \in Nat
  BY FS_Subset, FS_CardinalityType
<1>2. CASE F = {}
  BY <1>2, FS_EmptySet
<1>3. CASE F # {}
  <2>1. PICK m \in F : \A k \in F : k <= m
    BY <1>1, <1>3, LargestElement
  <2>2. F \ {m} \in SUBSET {k \in A : k < m}
    BY <2>1
  <2>3. IsFiniteSet({k \in A : k < m}) /\ Cardinality({k \in A : k < m}) \in Nat
    BY FS_Subset, FS_CardinalityType
  <2>4. Cardinality(F \ {m}) = Cardinality(F) - 1
    BY <1>1, <2>1, FS_RemoveElement
  <2>5. Cardinality(F \ {m}) <= Cardinality({k \in A : k < m})
    BY <2>2, <2>3, FS_Subset
  <2>6. Cardinality({k \in A : k < m}) < s
    BY <2>1
  <2> QED
    BY <1>1, <2>3, <2>4, <2>5, <2>6
<1> QED
  BY <1>2, <1>3

\* So many shares of the budget, and one more thread for each that is left
\* over, are not more than the budget.
LEMMA Shares ==
  ASSUME NEW b \in Nat, NEW outer \in Nat \ {0}, NEW n \in 0..outer
  PROVE  n * (b \div outer) + (b % outer) <= b
<1>1. b = outer * (b \div outer) + (b % outer) /\ b \div outer \in Nat
  OBVIOUS
<1>2. n * (b \div outer) <= outer * (b \div outer)
  <2> DEFINE q == b \div outer
  <2>1. q \in Nat
    BY <1>1
  <2> HIDE DEF q
  <2>2. n * q <= outer * q
    BY <2>1
  <2> QED
    BY <2>2 DEF q
<1>3. n * (b \div outer) \in Int /\ b % outer \in Int /\ outer * (b \div outer) \in Int
  BY <1>1
<1> QED
  BY <1>1, <1>2, <1>3

LEMMA InvKeepsBudget == JobInv => BudgetKept
<1> SUFFICES ASSUME JobInv, phase = "run"
             PROVE  Load <= job.budget
  BY DEF BudgetKept
<1>1. /\ Batch \subseteq 1..job.count /\ IsFiniteSet(Running) /\ IsFiniteSet(Active)
      /\ Outer \in Nat \ {0} /\ Outer <= job.budget /\ Outer <= job.workers
  BY BatchFacts DEF AtWork
<1>2. job.budget \in Nat /\ job.count \in Nat /\ (job.kind = "wide_enc" => job.workers = 1)
  BY JobFacts DEF JobInv, AtWork
<1> DEFINE n == Cardinality(Running \ job.idle)
           extra == Cardinality(Running \cap Favoured)
<1>3. n \in 0..Outer
  <2>1. n \in Nat
    BY <1>1, FS_Subset, FS_CardinalityType
  <2> QED
    BY <1>1, <2>1 DEF JobInv, AtWork
<1>4. Spare \in Nat
  BY <1>1, <1>2 DEF Spare
<1>5. extra \in Nat /\ extra <= Spare
  <2>1. Running \cap Favoured \in SUBSET Active
    BY DEF Favoured
  <2>2. \A i \in Running \cap Favoured : Cardinality({k \in Active : k < i}) < Spare
    BY DEF Favoured
  <2>3. Active \in SUBSET Int
    <3>1. Batch \subseteq Int
      BY <1>1, <1>2
    <3> QED
      BY <3>1 DEF Active
  <2>4. extra <= Spare
    BY <1>1, <1>4, <2>1, <2>2, <2>3, FirstElements
  <2> QED
    BY <1>1, <2>4, FS_Subset, FS_CardinalityType
<1> HIDE DEF n, extra
<1>6. Load = n * Share + extra
  BY DEF Load, n, extra
<1>7. CASE job.kind = "wide_enc"
  <2>1. Share = 1 /\ Spare = 0 /\ Outer = 1
    BY <1>1, <1>2, <1>7 DEF Share, Spare
  <2> QED
    BY <1>1, <1>2, <1>3, <1>5, <1>6, <2>1
<1>8. CASE job.kind # "wide_enc"
  <2>1. Share = job.budget \div Outer /\ Spare \in {0, job.budget % Outer}
    BY <1>8 DEF Share, Spare
  <2>2. n * (job.budget \div Outer) + (job.budget % Outer) <= job.budget
    BY <1>1, <1>2, <1>3, Shares
  <2>3. job.budget % Outer \in Nat /\ n * (job.budget \div Outer) \in Int
    <3>1. job.budget \div Outer \in Nat /\ job.budget % Outer \in Nat
      BY <1>1, <1>2
    <3> QED
      BY <3>1, <1>3
  <2> QED
    BY <1>2, <1>4, <1>5, <1>6, <2>1, <2>2, <2>3
<1> QED
  BY <1>7, <1>8

LEMMA InvKeepsRows == JobInv => HalfTheRows
<1> SUFFICES ASSUME JobInv, phase = "run", job.kind \in {"tiles_enc", "tiles_dec"},
                    Cardinality(Running) > 1
             PROVE  2 * Cardinality(Running) * job.tileH <= job.parts
  BY DEF HalfTheRows
<1>1. IsFiniteSet(Running) /\ Outer \in Nat /\ Outer <= job.workers
  BY BatchFacts DEF AtWork
<1>2. /\ job.parts \in Nat /\ job.tileH \in Nat \ {0} /\ job.workers \in Nat
      /\ job.idle = {} /\ job.workers <= Most(1, job.parts \div (2 * job.tileH))
  BY JobFacts DEF JobInv, AtWork
<1> DEFINE n == Cardinality(Running)
           t == job.tileH
           q == job.parts \div (2 * t)
<1>3. n \in Nat /\ n <= Outer
  <2>1. Running \ job.idle = Running
    BY <1>2
  <2> QED
    BY <1>1, <2>1, FS_CardinalityType DEF JobInv, AtWork
<1>4. q \in Nat /\ (2 * t) * q <= job.parts
  BY <1>2
<1>5. n <= q
  BY <1>1, <1>2, <1>3, <1>4 DEF Most
<1>6. (2 * t) * n <= (2 * t) * q
  <2> HIDE DEF n, q
  <2> QED
    BY <1>2, <1>3, <1>4, <1>5
<1>7. 2 * n * t = (2 * t) * n /\ (2 * t) * n \in Int /\ (2 * t) * q \in Int
  BY <1>2, <1>3, <1>4
<1>8. 2 * n * t <= job.parts
  <2> HIDE DEF n, q, t
  <2> QED
    BY <1>2, <1>4, <1>6, <1>7
<1> QED
  BY <1>8

-----------------------------------------------------------------------------
(* The call around the job.                                                 *)

Statuses == {"OK", "ERROR", "OUT_OF_MEMORY", "LIMIT_EXCEEDED", "BAD_ARGUMENT", "BAD_DATA",
             "UNSUPPORTED_FORMAT"}

\* What has been told and given so far.
Progress ==
  /\ seen \in Seq(Nat) /\ \A n \in 1..Len(seen) : seen[n] = n - 1
  /\ ~call.observed => seen = <<>>
  /\ given \in Nat
  /\ pc \in {"enter", "header", "watch"} => seen = <<>> /\ given = 0
  /\ pc \in {"begin", "copy", "start", "core", "back", "watched"} =>
       given = 0 /\ (call.observed => Len(seen) = 1)
  /\ pc = "rows" => given <= Rows /\ (call.observed => Len(seen) = given + 2)
  /\ result = "OK" /\ call.observed => Len(seen) = Rows + 2

CallInv ==
  /\ call \in Calls
  /\ pc = "header" => op.early
  /\ pc = "watch" => op.watched
  /\ AtWork => pc = "core"
  /\ stopped \in BOOLEAN
  /\ pc \notin {"copy", "start", "core", "back"} => threads = before
  /\ pc # "returned" => out = "empty" /\ result = "none" /\ ~stopped /\ status \in Statuses
  /\ pc \in {"header", "watch", "begin", "copy", "start"} => status = "OK"
  /\ pc = "returned" =>
       (out = "filled" <=> result = "OK") /\ (stopped <=> result = "CANCELLED")
  /\ Progress

\* One of these faults explains the status s.
Explained(s, causes) == \E f \in causes : Code(s) \in CodesOf(f)

CauseInv ==
  /\ AtWork =>
       /\ job.kind \in KindsOf(call.op, call.form)
       /\ \A i \in 1..job.count :
            task[i] \in Faults => task[i] \in faults /\ task[i] \in WorkOf[job.kind].ends
  /\ pc = "core" => status = "OK" \/ Explained(status, faults)
  /\ pc = "core" /\ phase = "failed" => Explained(status, faults)
  /\ pc = "returned" /\ result # "OK" => \E f \in faults : result \in CodesOf(f)

-----------------------------------------------------------------------------
(* What an operation is.                                                    *)

\* The codes a call returns by itself are none that mean success or a stop.
LateCodes == {"UNSUPPORTED_FORMAT", "BAD_ARGUMENT", "OUT_OF_MEMORY"}

LEMMA DecoderFacts ==
  ASSUME NEW k \in DOMAIN Decoders
  PROVE  Decoders[k].late \subseteq LateCodes
<1>1. k \in {"decode_rgba", "decode_pixels", "decode_region", "decode_rows", "decode_wide",
            "decode_hdr", "decode_animation", "validate", "get_info"}
  BY DEF Decoders
<1> USE DEF Decoders, Operation, LateCodes, Still, Unsupported, Forms
<1>2. CASE k = "decode_rgba"
  BY <1>2 DEF qlic_decode_rgba
<1>3. CASE k = "decode_pixels"
  BY <1>3 DEF qlic_decode_pixels
<1>4. CASE k = "decode_region"
  BY <1>4 DEF qlic_decode_region_rgba
<1>5. CASE k = "decode_rows"
  BY <1>5 DEF qlic_decode_rows_rgba
<1>6. CASE k = "decode_wide"
  BY <1>6 DEF qlic_decode_wide
<1>7. CASE k = "decode_hdr"
  BY <1>7 DEF qlic_decode_hdr
<1>8. CASE k = "decode_animation"
  BY <1>8 DEF qlic_decode_animation
<1>9. CASE k = "validate"
  BY <1>9 DEF qlic_validate
<1>10. CASE k = "get_info"
  BY <1>10 DEF qlic_get_info
<1> QED
  BY <1>1, <1>2, <1>3, <1>4, <1>5, <1>6, <1>7, <1>8, <1>9, <1>10

LEMMA EncoderFacts ==
  ASSUME NEW k \in DOMAIN Encoders
  PROVE  /\ Encoders[k].late \subseteq LateCodes /\ ~Encoders[k].early /\ ~Encoders[k].watched
         /\ k \notin DOMAIN Decoders
<1>1. k \in {"encode_rgba", "encode_pixels", "encode_wide", "encode_hdr", "encode_animation"}
  BY DEF Encoders
<1>2. k \notin DOMAIN Decoders
  BY <1>1 DEF Decoders
<1> USE DEF Encoders, Operation, LateCodes, Still, Unsupported, Forms
<1>3. CASE k = "encode_rgba"
  BY <1>2, <1>3 DEF qlic_encode_rgba
<1>4. CASE k = "encode_pixels"
  BY <1>2, <1>4 DEF qlic_encode_pixels
<1>5. CASE k = "encode_wide"
  BY <1>2, <1>5 DEF qlic_encode_wide
<1>6. CASE k = "encode_hdr"
  BY <1>2, <1>6 DEF qlic_encode_hdr
<1>7. CASE k = "encode_animation"
  BY <1>2, <1>7 DEF qlic_encode_animation
<1> QED
  BY <1>1, <1>2, <1>3, <1>4, <1>5, <1>6, <1>7

\* Only decoders read the header first or are watched.
LEMMA OpFacts ==
  ASSUME call \in Calls
  PROVE  /\ op.late \subseteq LateCodes
         /\ op.early \/ op.watched => decoding
         /\ call.observed => op.watched
         /\ call.op \notin DOMAIN Decoders => call.op \in DOMAIN Encoders
<1>1. /\ call.op \in Ops
      /\ call.observed => call.op \in DOMAIN Decoders /\ Decoders[call.op].watched
  BY DEF Calls
<1>2. CASE decoding
  <2>1. op = Decoders[call.op]
    BY <1>2 DEF op
  <2>2. op.late \subseteq LateCodes
    BY <1>2, <2>1, DecoderFacts DEF decoding
  <2> QED
    BY <1>1, <1>2, <2>1, <2>2 DEF decoding
<1>3. CASE ~decoding
  <2>1. call.op \in DOMAIN Encoders /\ op = Encoders[call.op]
    BY <1>1, <1>3 DEF op, Ops, decoding
  <2> QED
    BY <1>1, <1>3, <2>1, EncoderFacts DEF decoding
<1> QED
  BY <1>2, <1>3

\* What each operation works on and copies.
LEMMA OperationFacts ==
  ASSUME call \in Calls
  PROVE  /\ call.form \in Forms
         /\ call.op \in {"decode_rgba", "decode_pixels", "decode_region", "decode_rows", "decode_wide",
                         "decode_hdr", "decode_animation", "validate", "get_info", "encode_rgba",
                         "encode_pixels", "encode_wide", "encode_hdr", "encode_animation"}
         /\ decoding <=> call.op \notin {"encode_rgba", "encode_pixels", "encode_wide", "encode_hdr",
                                         "encode_animation"}
         /\ op.watched <=> call.op \in {"decode_region", "decode_rows"}
         /\ op.copies = "inside" <=> call.op \in {"encode_rgba", "encode_animation"}
         /\ op.copies = "before" <=> call.op = "encode_pixels"
         /\ call.op \in {"decode_rgba", "decode_region", "decode_animation"} =>
              op.takes = {"still", "animation"}
         /\ call.op \in {"decode_pixels", "decode_rows"} => op.takes = {"still"}
         /\ call.op = "decode_wide" => op.takes = {"wide"}
         /\ call.op = "decode_hdr" => op.takes = {"hdr"}
<1>1. call.op \in Ops /\ call.form \in Forms
  BY DEF Calls
<1>2. call.op \in DOMAIN Decoders <=>
        call.op \in {"decode_rgba", "decode_pixels", "decode_region", "decode_rows", "decode_wide",
                     "decode_hdr", "decode_animation", "validate", "get_info"}
  BY DEF Decoders
<1>3. call.op \in DOMAIN Encoders <=>
        call.op \in {"encode_rgba", "encode_pixels", "encode_wide", "encode_hdr", "encode_animation"}
  BY DEF Encoders
<1>4. CASE call.op \in DOMAIN Decoders
  <2>1. op = Decoders[call.op] /\ decoding
    BY <1>4 DEF op, decoding
  <2> USE DEF Decoders, Operation, Still, Unsupported, Forms
  <2>2. CASE call.op = "decode_rgba"
    BY <1>1, <2>1, <2>2 DEF qlic_decode_rgba
  <2>3. CASE call.op = "decode_pixels"
    BY <1>1, <2>1, <2>3 DEF qlic_decode_pixels
  <2>4. CASE call.op = "decode_region"
    BY <1>1, <2>1, <2>4 DEF qlic_decode_region_rgba
  <2>5. CASE call.op = "decode_rows"
    BY <1>1, <2>1, <2>5 DEF qlic_decode_rows_rgba
  <2>6. CASE call.op = "decode_wide"
    BY <1>1, <2>1, <2>6 DEF qlic_decode_wide
  <2>7. CASE call.op = "decode_hdr"
    BY <1>1, <2>1, <2>7 DEF qlic_decode_hdr
  <2>8. CASE call.op = "decode_animation"
    BY <1>1, <2>1, <2>8 DEF qlic_decode_animation
  <2>9. CASE call.op = "validate"
    BY <1>1, <2>1, <2>9 DEF qlic_validate
  <2>10. CASE call.op = "get_info"
    BY <1>1, <2>1, <2>10 DEF qlic_get_info
  <2> QED
    BY <1>2, <1>4, <2>2, <2>3, <2>4, <2>5, <2>6, <2>7, <2>8, <2>9, <2>10
<1>5. CASE call.op \notin DOMAIN Decoders
  <2>1. op = Encoders[call.op] /\ ~decoding
    BY <1>5 DEF op, decoding
  <2>2. call.op \in {"encode_rgba", "encode_pixels", "encode_wide", "encode_hdr", "encode_animation"}
    BY <1>1, <1>3, <1>5 DEF Ops
  <2> USE DEF Encoders, Operation, Still, Forms
  <2>3. CASE call.op = "encode_rgba"
    BY <1>1, <2>1, <2>3 DEF qlic_encode_rgba
  <2>4. CASE call.op = "encode_pixels"
    BY <1>1, <2>1, <2>4 DEF qlic_encode_pixels
  <2>5. CASE call.op = "encode_wide"
    BY <1>1, <2>1, <2>5 DEF qlic_encode_wide
  <2>6. CASE call.op = "encode_hdr"
    BY <1>1, <2>1, <2>6 DEF qlic_encode_hdr
  <2>7. CASE call.op = "encode_animation"
    BY <1>1, <2>1, <2>7 DEF qlic_encode_animation
  <2> QED
    BY <2>2, <2>3, <2>4, <2>5, <2>6, <2>7
<1> QED
  BY <1>4, <1>5

\* A call that encodes does work that encodes, and the other way round.
LEMMA CallKinds ==
  ASSUME call \in Calls, NEW k \in KindsOf(call.op, call.form)
  PROVE  k \in Kinds /\ (k \in Encoding <=> ~decoding)
<1>1. call.form \in Forms
  BY DEF Calls
<1>2. CASE decoding
  <2>1. k \in {"one_dec", "tiles_dec", "rtt_dec", "anim_dec", "anim2_dec", "wide_dec"}
    BY <1>1, <1>2 DEF KindsOf, decoding, Forms
  <2> QED
    BY <1>2, <2>1 DEF Kinds, WorkOf, Encoding
<1>3. CASE ~decoding
  <2>1. k \in {"one_enc", "tiles_enc", "rtt_enc", "anim_enc", "wide_enc"}
    BY <1>1, <1>3 DEF KindsOf, decoding, Forms
  <2> QED
    BY <1>3, <2>1 DEF Kinds, WorkOf, Encoding
<1> QED
  BY <1>2, <1>3

\* How the work of each kind can end.
LEMMA EndFacts ==
  ASSUME NEW k \in Kinds
  PROVE  /\ WorkOf[k].late \subseteq {"nomem", "bad"}
         /\ "limit" \in WorkOf[k].ends => k \in Framed \cup {"one_dec"}
         /\ "foreign" \in WorkOf[k].ends => k \in Frames
         /\ "unnamed" \in WorkOf[k].ends => k = "rtt_dec"
         /\ "argument" \in WorkOf[k].ends => k = "wide_enc"
         /\ k = "one_dec" => WorkOf[k].late = {}
<1>1. k \in {"tiles_enc", "tiles_dec", "rtt_enc", "rtt_dec", "anim_enc", "anim_dec", "anim2_dec",
             "one_enc", "one_dec", "wide_enc", "wide_dec"}
  BY DEF Kinds, WorkOf
<1> USE DEF WorkOf, Work, Framed, Frames, Unappended
<1>2. CASE k = "tiles_enc"
  BY <1>2 DEF try_tile_height, tile_enc_one
<1>3. CASE k = "tiles_dec"
  BY <1>3 DEF dec_tile, tile_dec_one
<1>4. CASE k = "rtt_enc"
  BY <1>4 DEF try_rtt_height, rtt_enc_one
<1>5. CASE k = "rtt_dec"
  BY <1>5 DEF dec_rtt, rtt_dec_one
<1>6. CASE k = "anim_enc"
  BY <1>6 DEF enc_anim_mem, anim_enc_one
<1>7. CASE k = "anim_dec"
  BY <1>7 DEF dec_anim_payload, anim_dec_one
<1>8. CASE k = "anim2_dec"
  BY <1>8 DEF dec_anim2_payload, anim_dec_one
<1>9. CASE k = "one_enc"
  BY <1>9 DEF enc_mem, tile_enc_one
<1>10. CASE k = "one_dec"
  BY <1>10 DEF dec_qlic_limited, dec_direct_payload
<1>11. CASE k = "wide_enc"
  BY <1>11 DEF enc_wide_payload, append_wide_payload
<1>12. CASE k = "wide_dec"
  BY <1>12 DEF wide_payload_decode, wide_slice_decode
<1> QED
  BY <1>1, <1>2, <1>3, <1>4, <1>5, <1>6, <1>7, <1>8, <1>9, <1>10, <1>11, <1>12

-----------------------------------------------------------------------------
(* What a call leaves.                                                      *)

\* A code the core may have left is none that means success or a stop.
LEMMA CodeFacts ==
  ASSUME NEW s \in Statuses
  PROVE  Code(s) \notin {"OK", "CANCELLED"}
BY DEF Code, Statuses

\* The core keeps to these.
LEMMA JobStepFacts ==
  ASSUME JobStep, status \in Statuses
  PROVE  status' \in Statuses /\ AtWork /\ job' = job
<1>1. ASSUME NEW own \in Statuses
      PROVE  Erred(own) \in Statuses /\ \A f : Blamed(f, own) \in Statuses
  BY DEF Erred, Blamed, Statuses
<1>2. ASSUME NEW own \in Statuses
      PROVE  \A f : Left(f, own) \in Statuses
  BY <1>1, <1>2 DEF Left, Statuses
<1>3. CASE PlanFails
  BY <1>1, <1>3 DEF PlanFails, AtWork, Statuses
<1>4. CASE Take
  BY <1>4 DEF Take, AtWork, Statuses
<1>5. CASE EndTask
  BY <1>2, <1>5 DEF EndTask, End, AtWork
<1>6. CASE Judge
  BY <1>1, <1>6 DEF Judge, Fail, AtWork
<1>7. ASSUME Appended \/ \E f \in AppendFaults : AppendFails(f)
      PROVE  status' \in Statuses /\ job' = job
  BY <1>1, <1>7 DEF Appended, AppendFails, Statuses
<1>8. CASE AppendNext
  BY <1>1, <1>7, <1>8 DEF AppendNext, Fail, AtWork
<1>9. CASE OverLimit
  BY <1>9 DEF OverLimit, AtWork
<1>10. CASE Again
  <2>1. "OK" \in Statuses
    BY DEF Statuses
  <2> QED
    BY <1>1, <1>2, <1>10, <2>1 DEF Again, AtWork
<1>11. CASE AppendAgain
  BY <1>7, <1>11 DEF AppendAgain, AtWork
<1> QED
  BY <1>3, <1>4, <1>5, <1>6, <1>8, <1>9, <1>10, <1>11 DEF JobStep

\* One more value of the progress.
LEMMA Told ==
  ASSUME NEW s \in Seq(Nat), \A n \in 1..Len(s) : s[n] = n - 1, NEW m \in Nat, m = Len(s)
  PROVE  /\ Append(s, m) \in Seq(Nat) /\ Len(Append(s, m)) = m + 1
         /\ \A n \in 1..Len(Append(s, m)) : Append(s, m)[n] = n - 1
OBVIOUS

\* The end of a call, however it comes.
LEMMA ReturnKeepsInv ==
  ASSUME CallInv, pc' = "returned", UNCHANGED <<call, before>>,
         threads' = before, ~AtWork',
         out' = "filled" <=> result' = "OK",
         stopped' \in BOOLEAN, stopped' <=> result' = "CANCELLED",
         seen' = seen \/ (call.observed /\ seen' = Append(seen, Len(seen))),
         given' \in Nat,
         result' = "OK" /\ call.observed => Len(seen') = Rows + 2
  PROVE  CallInv'
<1>1. seen \in Seq(Nat) /\ \A n \in 1..Len(seen) : seen[n] = n - 1
  BY DEF CallInv, Progress
<1>2. seen' \in Seq(Nat) /\ \A n \in 1..Len(seen') : seen'[n] = n - 1
  <2>1. CASE seen' = seen
    BY <1>1, <2>1
  <2>2. CASE seen' = Append(seen, Len(seen))
    <3>1. Len(seen) \in Nat
      BY <1>1
    <3> QED
      BY <1>1, <2>2, <3>1, Told
  <2> QED
    BY <2>1, <2>2
<1>3. ~call'.observed => seen' = <<>>
  BY DEF CallInv, Progress
<1> QED
  BY <1>2, <1>3 DEF CallInv, Progress

\* A call that refuses by itself, or is stopped.
LEMMA RefuseKeepsInv ==
  ASSUME CallInv, NEW r, NEW f, NEW freed, Refuse(r, f, freed), pc # "returned",
         UNCHANGED <<call, before, out>>, threads' = before, ~AtWork', r # "OK",
         \/ UNCHANGED <<stopped, seen>> /\ r # "CANCELLED"
         \/ stopped' = TRUE /\ r = "CANCELLED"
            /\ (seen' = seen \/ (call.observed /\ seen' = Append(seen, Len(seen)))),
         given' \in Nat
  PROVE  CallInv'
<1>1. pc' = "returned" /\ result' = r
  BY DEF Refuse, Return
<1>2. out' = "empty"
  BY DEF CallInv
<1>3. stopped' \in BOOLEAN /\ (stopped' <=> result' = "CANCELLED")
  <2>1. CASE UNCHANGED stopped /\ r # "CANCELLED"
    <3>1. stopped \in BOOLEAN /\ ~stopped
      BY DEF CallInv
    <3> QED
      BY <1>1, <2>1, <3>1
  <2>2. CASE stopped' = TRUE /\ r = "CANCELLED"
    BY <1>1, <2>2
  <2> QED
    BY <2>1, <2>2
<1>4. seen' = seen \/ (call.observed /\ seen' = Append(seen, Len(seen)))
  OBVIOUS
<1> QED
  BY <1>1, <1>2, <1>3, <1>4, ReturnKeepsInv

\* What a step before or after the core leaves alone.
LEMMA OutsideCore ==
  ASSUME CallInv, pc \notin {"copy", "start", "core", "back"}, Same
  PROVE  ~AtWork /\ ~AtWork' /\ threads = before
BY DEF CallInv, Same, AtWork

LEMMA EnterKeepsInv ==
  ASSUME CallInv, Enter
  PROVE  CallInv'
<1>1. /\ pc = "enter" /\ Same /\ UNCHANGED <<call, before, out, seen, given, stopped, threads>>
  BY DEF Enter, Quiet
<1>2. ~AtWork' /\ threads' = before /\ phase' = phase
  BY <1>1, OutsideCore DEF Same
<1>3. given' \in Nat
  BY <1>1 DEF CallInv, Progress
<1>4. CASE \E r, f, freed : Refuse(r, f, freed) /\ r \in {"BAD_ARGUMENT", "OUT_OF_MEMORY"}
  <2>1. PICK r, f, freed : Refuse(r, f, freed) /\ r \in {"BAD_ARGUMENT", "OUT_OF_MEMORY"}
    BY <1>4
  <2>2. r # "OK" /\ r # "CANCELLED" /\ pc # "returned"
    BY <1>1, <2>1
  <2> QED
    BY <1>1, <1>2, <1>3, <2>1, <2>2, RefuseKeepsInv
<1>5. CASE /\ pc' = IF op.early THEN "header" ELSE IF op.watched THEN "watch" ELSE "begin"
           /\ status' = "OK" /\ result' = result
  <2>1. call.observed => op.watched
    BY OpFacts DEF CallInv
  <2>2. op' = op
    BY <1>1 DEF op, decoding
  <2>3. pc' \in {"header", "watch", "begin"} /\ (pc' = "header" => op'.early) /\ (pc' = "watch" => op'.watched)
    BY <1>5, <2>2
  <2>4. pc' = "begin" => ~call.observed
    BY <1>5, <2>1
  <2>5. Progress'
    BY <1>1, <1>5, <2>3, <2>4 DEF CallInv, Progress
  <2> QED
    BY <1>1, <1>2, <1>5, <2>3, <2>5 DEF CallInv, Statuses
<1> QED
  BY <1>4, <1>5 DEF Enter

LEMMA HeaderKeepsInv ==
  ASSUME CallInv, Header
  PROVE  CallInv'
<1>1. pc = "header" /\ Same /\ UNCHANGED <<call, before, seen, given, stopped, threads>>
  BY DEF Header
<1>2. ~AtWork' /\ threads' = before /\ phase' = phase
  BY <1>1, OutsideCore DEF Same
<1>3. given' \in Nat /\ op' = op
  BY <1>1 DEF CallInv, Progress, op, decoding
<1>4. CASE out' = out /\ \E r, f, freed : Refuse(r, f, freed) /\ r \in LateCodes \cup {"LIMIT_EXCEEDED"}
  <2>1. PICK r, f, freed : Refuse(r, f, freed) /\ r \in LateCodes \cup {"LIMIT_EXCEEDED"}
    BY <1>4
  <2>2. r # "OK" /\ r # "CANCELLED" /\ pc # "returned"
    BY <1>1, <2>1 DEF LateCodes
  <2> QED
    BY <1>1, <1>2, <1>3, <1>4, <2>1, <2>2, RefuseKeepsInv
<1>5. CASE Return("BAD_DATA", {}) /\ out' = out
  <2>1. out' = "empty" /\ pc' = "returned" /\ result' = "BAD_DATA"
    BY <1>1, <1>5 DEF CallInv, Return
  <2>2. stopped' \in BOOLEAN /\ ~stopped'
    BY <1>1 DEF CallInv
  <2> QED
    BY <1>1, <1>2, <1>3, <2>1, <2>2, ReturnKeepsInv
<1>6. CASE Return("OK", {}) /\ out' = "filled" /\ call.op = "get_info"
  <2>1. pc' = "returned" /\ result' = "OK"
    BY <1>6 DEF Return
  <2>2. stopped' \in BOOLEAN /\ ~stopped'
    BY <1>1 DEF CallInv
  <2>3. ~call.observed
    <3>1. call.observed => Decoders[call.op].watched
      BY DEF CallInv, Calls
    <3>2. ~Decoders["get_info"].watched
      BY DEF Decoders, qlic_get_info, Operation
    <3> QED
      BY <1>6, <3>1, <3>2
  <2> QED
    BY <1>1, <1>2, <1>3, <1>6, <2>1, <2>2, <2>3, ReturnKeepsInv
<1>7. CASE Continue(IF op.watched THEN "watch" ELSE "begin") /\ UNCHANGED out
  <2>1. call.observed => op.watched
    BY OpFacts DEF CallInv
  <2>2. pc' \in {"watch", "begin"} /\ (pc' = "watch" => op'.watched) /\ (pc' = "begin" => ~call.observed)
    BY <1>3, <1>7, <2>1 DEF Continue
  <2>3. Progress'
    BY <1>1, <1>7, <2>2 DEF CallInv, Progress, Continue
  <2> QED
    BY <1>1, <1>2, <1>7, <2>2, <2>3 DEF CallInv, Continue
<1>8. \/ out' = out /\ \E r, f, freed : Refuse(r, f, freed) /\ r \in LateCodes \cup {"LIMIT_EXCEEDED"}
      \/ Return("BAD_DATA", {}) /\ out' = out
      \/ Return("OK", {}) /\ out' = "filled" /\ call.op = "get_info"
      \/ Continue(IF op.watched THEN "watch" ELSE "begin") /\ UNCHANGED out
  <2> USE DEF LateCodes
  <2>1. CASE ~call.limits
    <3>1. Refuse("BAD_ARGUMENT", "argument", {}) /\ UNCHANGED out
      BY <2>1 DEF Header
    <3> QED
      BY <3>1
  <2>2. CASE call.limits /\ call.header = "bad"
    BY <2>2 DEF Header
  <2>3. CASE call.limits /\ call.header = "limit"
    <3>1. Refuse("LIMIT_EXCEEDED", "limit", {}) /\ UNCHANGED out
      BY <2>3 DEF Header
    <3> QED
      BY <3>1
  <2>4. CASE call.limits /\ call.header = "ok" /\ call.form \notin op.takes
    <3>1. Refuse("UNSUPPORTED_FORMAT", "foreign", {}) /\ UNCHANGED out
      BY <2>4 DEF Header
    <3> QED
      BY <3>1
  <2>5. CASE call.limits /\ call.header = "ok" /\ call.form \in op.takes
    <3>1. \/ Return("OK", {}) /\ out' = "filled" /\ call.op = "get_info"
          \/ Continue(IF op.watched THEN "watch" ELSE "begin") /\ UNCHANGED out
          \/ Refuse("BAD_ARGUMENT", "argument", {}) /\ UNCHANGED out
      BY <2>5 DEF Header
    <3> QED
      BY <3>1
  <2>6. call.header \in {"ok", "bad", "limit"} /\ call.limits \in BOOLEAN
    BY DEF CallInv, Calls
  <2> QED
    BY <2>1, <2>2, <2>3, <2>4, <2>5, <2>6
<1> QED
  BY <1>4, <1>5, <1>6, <1>7, <1>8

LEMMA WatchKeepsInv ==
  ASSUME CallInv, Watch
  PROVE  CallInv'
<1>1. pc = "watch" /\ Same /\ UNCHANGED <<call, before, threads, out, given>>
  BY DEF Watch
<1>2. ~AtWork' /\ threads' = before /\ phase' = phase
  BY <1>1, OutsideCore DEF Same
<1>3. given = 0 /\ seen = <<>> /\ Len(seen) = 0
  BY <1>1 DEF CallInv, Progress
<1>4. CASE /\ pc' = "begin" /\ UNCHANGED <<status, faults, result, stopped>>
           /\ seen' = IF call.observed THEN Append(seen, 0) ELSE seen
  <2>1. seen' \in Seq(Nat) /\ \A n \in 1..Len(seen') : seen'[n] = n - 1
    BY <1>3, <1>4, Told DEF CallInv, Progress
  <2>2. call.observed => Len(seen') = 1
    BY <1>3, <1>4, Told DEF CallInv, Progress
  <2>3. Progress'
    BY <1>1, <1>3, <1>4, <2>1, <2>2 DEF CallInv, Progress
  <2> QED
    BY <1>1, <1>2, <1>4, <2>3 DEF CallInv
<1>5. CASE /\ Refuse("CANCELLED", "stop", {}) /\ stopped' = TRUE
           /\ call.observed /\ seen' \in {seen, Append(seen, 0)}
  <2>1. given' \in Nat
    BY <1>1, <1>3
  <2> QED
    BY <1>1, <1>2, <1>3, <1>5, <2>1, RefuseKeepsInv
<1> QED
  BY <1>4, <1>5 DEF Watch, Checkpoint, Continue

LEMMA BeginKeepsInv ==
  ASSUME CallInv, Begin
  PROVE  CallInv'
<1>1. pc = "begin" /\ Same /\ UNCHANGED <<call, before, out, seen, given, stopped>>
  BY DEF Begin, Quiet
<1>2. ~AtWork' /\ threads = before /\ phase' = phase
  BY <1>1, OutsideCore DEF Same
<1>3. given' \in Nat
  BY <1>1 DEF CallInv, Progress
<1>4. CASE threads' = threads /\ Refuse("BAD_ARGUMENT", "argument", {Converted})
  BY <1>1, <1>2, <1>3, <1>4, RefuseKeepsInv
<1>5. CASE pc' \in {"start", "copy"} /\ UNCHANGED <<status, faults, result>>
  <2>1. Progress'
    BY <1>1, <1>5 DEF CallInv, Progress
  <2> QED
    BY <1>1, <1>2, <1>5, <2>1 DEF CallInv
<1> QED
  BY <1>4, <1>5 DEF Begin, Continue

LEMMA CopyKeepsInv ==
  ASSUME CallInv, Copy
  PROVE  CallInv'
<1>1. pc = "copy" /\ Same /\ UNCHANGED <<call, before, out, seen, given, stopped>>
  BY DEF Copy, Quiet
<1>2. ~AtWork' /\ given' \in Nat /\ out' = "empty" /\ stopped' \in BOOLEAN /\ ~stopped'
  BY <1>1 DEF CallInv, Progress, Same, AtWork
<1>3. CASE pc' = "start" /\ UNCHANGED <<status, result>>
  <2>1. Progress'
    BY <1>1, <1>3 DEF CallInv, Progress
  <2> QED
    BY <1>1, <1>2, <1>3, <2>1 DEF CallInv
<1>4. CASE pc' = "returned" /\ result' = "OUT_OF_MEMORY" /\ threads' = before
  BY <1>1, <1>2, <1>4, ReturnKeepsInv
<1> QED
  BY <1>3, <1>4 DEF Copy

LEMMA StartKeepsInv ==
  ASSUME CallInv, Start
  PROVE  CallInv'
<1>1. /\ pc = "start" /\ pc' = "core"
      /\ UNCHANGED <<call, before, out, seen, given, stopped, threads, held, result>>
  BY DEF Start, Quiet
<1>2. CASE \E own, f : CoreFails(own, f) /\ own \in Statuses
  BY <1>1, <1>2 DEF CoreFails, CallInv, Progress, AtWork
<1>3. CASE UNCHANGED <<status, faults>> /\ \E j \in Jobs : Plan(j)
  BY <1>1, <1>3 DEF Plan, CallInv, Progress, AtWork
<1>4. \/ \E own, f : CoreFails(own, f) /\ own \in Statuses
      \/ UNCHANGED <<status, faults>> /\ \E j \in Jobs : Plan(j)
  <2>1. \/ CoreFails("ERROR", "bad") \/ CoreFails("LIMIT_EXCEEDED", "limit")
        \/ CoreFails("UNSUPPORTED_FORMAT", "foreign")
        \/ UNCHANGED <<status, faults>> /\ \E j \in Jobs : Plan(j)
    BY DEF Start
  <2> QED
    BY <2>1 DEF Statuses
<1> QED
  BY <1>2, <1>3, <1>4

LEMMA CoreKeepsInv ==
  ASSUME CallInv, Core
  PROVE  CallInv'
<1>1. pc = "core" /\ JobStep /\ UNCHANGED avars
  BY DEF Core
<1>2. status' \in Statuses
  BY <1>1, JobStepFacts DEF CallInv
<1>3. UNCHANGED <<call, pc, before, threads, out, seen, given, stopped, result>>
  BY <1>1 DEF avars
<1>4. Progress'
  BY <1>1, <1>3 DEF CallInv, Progress
<1> QED
  BY <1>1, <1>2, <1>3, <1>4 DEF CallInv

LEMMA CoreFailedKeepsInv ==
  ASSUME CallInv, CoreFailed
  PROVE  CallInv'
<1>1. /\ pc = "core" /\ phase = "failed" /\ threads' = before /\ Return(Code(status), Unwound) /\ Same
      /\ UNCHANGED <<call, before, out, seen, given, stopped>>
  BY DEF CoreFailed, Quiet
<1>2. ~AtWork'
  BY <1>1 DEF CallInv, Same, AtWork
<1>3. pc' = "returned" /\ result' = Code(status)
  BY <1>1 DEF Return
<1>4. result' # "OK" /\ result' # "CANCELLED"
  BY <1>1, <1>3, CodeFacts DEF CallInv
<1>5. out' = "empty" /\ stopped' \in BOOLEAN /\ ~stopped' /\ given' \in Nat
  BY <1>1 DEF CallInv, Progress
<1> QED
  BY <1>1, <1>2, <1>3, <1>4, <1>5, ReturnKeepsInv

LEMMA CoreReturnsKeepsInv ==
  ASSUME CallInv, CoreReturns \/ CoreRunsOut
  PROVE  CallInv'
<1>1. /\ pc = "core" /\ pc' \in {"core", "back"} /\ phase' \in {"none", "failed"}
      /\ UNCHANGED <<call, before, out, seen, given, stopped, result>>
  BY DEF CoreReturns, CoreRunsOut, Quiet, avars
<1>2. ~AtWork' /\ status' \in Statuses
  <2>1. status' \in {status, "OUT_OF_MEMORY"}
    BY DEF CoreReturns, CoreRunsOut
  <2> QED
    BY <1>1, <2>1 DEF AtWork, CallInv, Statuses
<1>3. Progress'
  BY <1>1 DEF CallInv, Progress
<1> QED
  BY <1>1, <1>2, <1>3 DEF CallInv

LEMMA DeliverKeepsInv ==
  ASSUME CallInv, Deliver
  PROVE  CallInv'
<1>1. pc = "back" /\ threads' = before /\ Same /\ UNCHANGED <<call, before, seen, given, stopped>>
  BY DEF Deliver, DeliverWatched, DeliverImage, DeliverPixels, DeliverHdr, DeliverAnimation,
         DeliverVerdict, DeliverFile, Back
<1>2. ~AtWork' /\ given' \in Nat /\ stopped' \in BOOLEAN /\ ~stopped'
  BY <1>1 DEF Same, AtWork, CallInv, Progress
<1>3. CASE DeliverWatched
  <2>1. pc' = "watched" /\ UNCHANGED <<status, result, out>>
    BY <1>3 DEF DeliverWatched, Continue
  <2>2. Progress'
    BY <1>1, <2>1 DEF CallInv, Progress
  <2> QED
    BY <1>1, <1>2, <2>1, <2>2 DEF CallInv
<1>4. CASE ~op.watched /\ pc' = "returned" /\ result' = "OK" /\ out' = "filled"
  <2>1. ~call.observed
    BY <1>4, OpFacts DEF CallInv
  <2> QED
    BY <1>1, <1>2, <1>4, <2>1, ReturnKeepsInv
<1>5. CASE \E freed : Late(freed)
  <2>0. PICK freed : Late(freed)
    BY <1>5
  <2>1. PICK r \in op.late : Refuse(r, "late", freed) /\ UNCHANGED out
    BY <2>0 DEF Late
  <2>2. r # "OK" /\ r # "CANCELLED" /\ pc # "returned"
    BY <1>1, OpFacts DEF CallInv, LateCodes
  <2> QED
    BY <1>1, <1>2, <2>1, <2>2, RefuseKeepsInv
<1>6. \/ DeliverWatched \/ \E freed : Late(freed)
      \/ ~op.watched /\ pc' = "returned" /\ result' = "OK" /\ out' = "filled"
  <2>1. call.op \notin {"decode_region", "decode_rows"} => ~op.watched
    BY OperationFacts DEF CallInv
  <2>2. ~decoding => ~op.watched
    BY OpFacts DEF CallInv
  <2>3. CASE DeliverImage
    BY <2>1, <2>3 DEF DeliverImage, HandOver, Return
  <2>4. CASE DeliverPixels
    BY <2>1, <2>4 DEF DeliverPixels, HandOver, Return
  <2>5. CASE DeliverHdr
    BY <2>1, <2>5 DEF DeliverHdr, HandOver, Return
  <2>6. CASE DeliverAnimation
    BY <2>1, <2>6 DEF DeliverAnimation
  <2>7. CASE DeliverVerdict
    BY <2>1, <2>7 DEF DeliverVerdict, HandOver, Return
  <2>8. CASE DeliverFile
    BY <2>2, <2>8 DEF DeliverFile, HandOver, Return
  <2> QED
    BY <2>3, <2>4, <2>5, <2>6, <2>7, <2>8 DEF Deliver
<1> QED
  BY <1>3, <1>4, <1>5, <1>6

LEMMA WatchedKeepsInv ==
  ASSUME CallInv, Watched
  PROVE  CallInv'
<1>1. pc = "watched" /\ Same /\ UNCHANGED <<call, before, threads, out, given>>
  BY DEF Watched
<1>2. ~AtWork' /\ threads' = before /\ phase' = phase
  BY <1>1, OutsideCore DEF Same
<1>3. given = 0 /\ given' \in Nat /\ (call.observed => Len(seen) = 1)
  BY <1>1 DEF CallInv, Progress
<1>4. CASE /\ UNCHANGED stopped /\ seen' = IF call.observed THEN Append(seen, 1) ELSE seen
           /\ \/ pc' = "rows" /\ UNCHANGED <<status, faults, result>>
              \/ \E r \in op.late : Refuse(r, "late", image_free)
  <2>1. seen' \in Seq(Nat) /\ \A n \in 1..Len(seen') : seen'[n] = n - 1
    BY <1>3, <1>4, Told DEF CallInv, Progress
  <2>2. call.observed => Len(seen') = 2
    BY <1>3, <1>4, Told DEF CallInv, Progress
  <2>3. CASE pc' = "rows" /\ UNCHANGED <<status, faults, result>>
    <3>1. Progress'
      BY <1>1, <1>3, <1>4, <2>1, <2>2, <2>3, ApiAssumption DEF CallInv, Progress
    <3> QED
      BY <1>1, <1>2, <1>4, <2>3, <3>1 DEF CallInv
  <2>4. CASE \E r \in op.late : Refuse(r, "late", image_free)
    <3>1. PICK r \in op.late : Refuse(r, "late", image_free)
      BY <2>4
    <3>2. r # "OK" /\ r # "CANCELLED"
      BY OpFacts DEF CallInv, LateCodes
    <3>3. pc' = "returned" /\ result' = r
      BY <3>1 DEF Refuse, Return
    <3>4. out' = "empty" /\ stopped' \in BOOLEAN /\ ~stopped'
      BY <1>1, <1>4 DEF CallInv
    <3>5. seen' = seen \/ (call.observed /\ seen' = Append(seen, Len(seen)))
      BY <1>3, <1>4
    <3> QED
      BY <1>1, <1>2, <1>3, <3>2, <3>3, <3>4, <3>5, ReturnKeepsInv
  <2> QED
    BY <1>4, <2>3, <2>4
<1>5. CASE /\ Refuse("CANCELLED", "stop", image_free) /\ stopped' = TRUE
           /\ call.observed /\ seen' \in {seen, Append(seen, 1)}
  BY <1>1, <1>2, <1>3, <1>5, RefuseKeepsInv
<1> QED
  BY <1>4, <1>5 DEF Watched, Checkpoint, Continue

\* The rows, of a region or for the row callback.
LEMMA RowKeepsInv ==
  ASSUME CallInv, RegionRow \/ CallbackRow
  PROVE  CallInv'
<1>1. /\ pc = "rows" /\ given < Rows /\ Same /\ UNCHANGED <<call, before, threads, out>>
      /\ given' = given + 1 \/ (given' = given /\ pc' # "rows")
  BY DEF RegionRow, CallbackRow
<1>2. ~AtWork' /\ threads' = before /\ phase' = phase
  BY <1>1, OutsideCore DEF Same
<1>3. given \in Nat /\ given' \in Nat /\ Rows \in Nat /\ (call.observed => Len(seen) = given + 2)
  BY <1>1, ApiAssumption DEF CallInv, Progress
<1>4. CASE /\ pc' = "rows" /\ UNCHANGED <<status, faults, result, stopped>>
           /\ seen' = IF call.observed THEN Append(seen, given + 2) ELSE seen
  <2>1. seen' \in Seq(Nat) /\ \A n \in 1..Len(seen') : seen'[n] = n - 1
    BY <1>3, <1>4, Told DEF CallInv, Progress
  <2>2. call.observed => Len(seen') = given' + 2
    BY <1>1, <1>3, <1>4, Told DEF CallInv, Progress
  <2>3. Progress'
    BY <1>1, <1>3, <1>4, <2>1, <2>2 DEF CallInv, Progress
  <2> QED
    BY <1>1, <1>2, <1>4, <2>3 DEF CallInv
<1>5. CASE /\ Refuse("CANCELLED", "stop", image_free) /\ stopped' = TRUE
           /\ seen' = seen \/ (call.observed /\ seen' = Append(seen, given + 2))
  <2>1. seen' = seen \/ (call.observed /\ seen' = Append(seen, Len(seen)))
    BY <1>3, <1>5
  <2> QED
    BY <1>1, <1>2, <1>3, <1>5, <2>1, RefuseKeepsInv
<1>6. \/ /\ pc' = "rows" /\ UNCHANGED <<status, faults, result, stopped>>
         /\ seen' = IF call.observed THEN Append(seen, given + 2) ELSE seen
      \/ /\ Refuse("CANCELLED", "stop", image_free) /\ stopped' = TRUE
         /\ seen' = seen \/ (call.observed /\ seen' = Append(seen, given + 2))
  <2>1. CASE RegionRow
    BY <1>1, <2>1 DEF RegionRow, Checkpoint, Continue
  <2>2. CASE CallbackRow
    BY <1>1, <2>2 DEF CallbackRow, Checkpoint, Continue
  <2> QED
    BY <2>1, <2>2
<1> QED
  BY <1>4, <1>5, <1>6

LEMMA RowsDoneKeepsInv ==
  ASSUME CallInv, RowsDone
  PROVE  CallInv'
<1>1. /\ pc = "rows" /\ given = Rows /\ Return("OK", image_free) /\ out' = "filled" /\ Same
      /\ UNCHANGED <<call, before, threads, seen, given, stopped>>
  BY DEF RowsDone, HandOver
<1>2. ~AtWork' /\ threads' = before
  BY <1>1, OutsideCore
<1>3. pc' = "returned" /\ result' = "OK"
  BY <1>1 DEF Return
<1>4. stopped' \in BOOLEAN /\ ~stopped' /\ given' \in Nat /\ (call.observed => Len(seen') = Rows + 2)
  BY <1>1 DEF CallInv, Progress
<1> QED
  BY <1>1, <1>2, <1>3, <1>4, ReturnKeepsInv

LEMMA CallInvIsInductive == CallInv /\ [ApiNext]_vars => CallInv'
<1> SUFFICES ASSUME CallInv, [ApiNext]_vars
             PROVE  CallInv'
  OBVIOUS
<1>1. CASE UNCHANGED vars
  <2>1. UNCHANGED <<call, pc, before, threads, out, seen, given, stopped, result, phase, status>>
    BY <1>1 DEF vars, avars, jvars
  <2> QED
    BY <2>1 DEF CallInv, Progress, AtWork, op, decoding
<1> QED
  BY <1>1, EnterKeepsInv, HeaderKeepsInv, WatchKeepsInv, BeginKeepsInv, CopyKeepsInv, StartKeepsInv,
     CoreKeepsInv, CoreFailedKeepsInv, CoreReturnsKeepsInv, DeliverKeepsInv, WatchedKeepsInv,
     RowKeepsInv, RowsDoneKeepsInv
  DEF ApiNext

LEMMA ApiInitHasInv == ApiInit => JobInv /\ CallInv
<1> SUFFICES ASSUME ApiInit
             PROVE  JobInv /\ CallInv
  OBVIOUS
<1>1. phase = "none" /\ pc = "enter" /\ status \in Statuses
  BY DEF ApiInit, Statuses
<1>2. Progress
  BY DEF ApiInit, Progress
<1> QED
  BY <1>1, <1>2 DEF ApiInit, JobInv, CallInv, AtWork

LEMMA ApiKeepsJobInv == CallInv /\ JobInv /\ [ApiNext]_vars => JobInv'
<1> SUFFICES ASSUME CallInv, JobInv, [ApiNext]_vars
             PROVE  JobInv'
  OBVIOUS
<1>1. CASE ~AtWork'
  BY <1>1 DEF JobInv
<1>2. CASE Core
  BY <1>2, JobStepKeepsInv DEF Core
<1>3. CASE Start
  <2>1. (\E j \in Jobs : Plan(j)) \/ phase' = "failed"
    BY <1>3 DEF Start, CoreFails
  <2> QED
    BY <1>1, <2>1, PlanKeepsInv DEF AtWork
<1>4. CASE UNCHANGED <<job, phase, task, base, next>>
  BY <1>4 DEF JobInv, AtWork, Batch, Running, Outer, Active
<1>5. CASE CoreReturns \/ CoreRunsOut
  BY <1>1, <1>5 DEF CoreReturns, CoreRunsOut, AtWork
<1>6. UNCHANGED <<job, phase, task, base, next>> \/ Core \/ Start \/ CoreReturns \/ CoreRunsOut
  BY DEF ApiNext, vars, jvars, Same, Enter, Header, Watch, Begin, Copy, CoreFailed, Deliver,
         DeliverWatched, DeliverImage, DeliverPixels, DeliverHdr, DeliverAnimation, DeliverVerdict,
         DeliverFile, Back, Watched, RegionRow, CallbackRow, RowsDone
<1> QED
  BY <1>2, <1>3, <1>4, <1>5, <1>6

-----------------------------------------------------------------------------
(* What the work has allocated.                                             *)

\* The buffers that work in progress can have.
Room ==
  CASE job.kind \in {"tiles_dec", "rtt_dec", "one_dec"} -> {Whole}
    [] job.kind \in {"anim_enc", "one_enc", "wide_enc"} -> {Whole} \cup Batch
    [] job.kind = "wide_dec" -> {Whole} \cup {i \in Batch : next <= i}
    [] OTHER -> {Whole} \cup 1..job.count

BufferInv ==
  /\ AtWork =>
       /\ buffers \subseteq Room
       /\ job.kind \in Filled => Whole \in buffers
       /\ job.kind = "one_dec" => (Whole \in buffers <=> task[1] = "ok")
       /\ job.kind \in Frames => \A i \in 1..job.count : task[i] = "ok" => i \in buffers
  /\ phase = "failed" => buffers \subseteq {File} /\ (job.kind \notin Encoding => buffers = {})
  /\ phase = "done" =>
       buffers = IF job.kind \in Encoding THEN {File}
                 ELSE IF job.kind \in Frames THEN {Whole} \cup 1..job.count ELSE {Whole}

\* What is known of a job at work, kind by kind.
LEMMA AtWorkFacts ==
  ASSUME JobInv, AtWork
  PROVE  /\ job.kind \in {"tiles_enc", "tiles_dec", "rtt_enc", "rtt_dec", "anim_enc", "anim_dec",
                          "anim2_dec", "one_enc", "one_dec", "wide_enc", "wide_dec"}
         /\ job.count \in Nat \ {0} /\ base \in Nat \ {0} /\ next \in 1..job.count
         /\ next \in Batch /\ Batch \subseteq 1..job.count
         /\ \A i \in Batch : base <= i
         /\ \A i \in base..next : i \in Batch
         /\ \A i \in Batch : i > next => next + 1 \in Batch
         /\ job.kind \in {"one_enc", "one_dec"} => job.count = 1
         /\ job.kind \in {"one_enc", "wide_enc"} => Batch = {next}
         /\ job.kind = "wide_dec" /\ job.workers = 1 => Batch = {next}
         /\ job.kind # "anim_enc" => job.idle = {}
<1>1. job \in Jobs /\ base \in Nat \ {0} /\ next \in 1..job.count /\ next \in Batch
  BY DEF JobInv
<1>2. job.count \in Nat \ {0} /\ job.capacity \in Nat \ {0} /\ job.kind \in Kinds
  BY <1>1, JobFacts
<1>3. Batch = base..Least(base + job.capacity - 1, job.count)
  BY DEF Batch
<1>4. /\ \A i \in Batch : base <= i /\ i <= job.count
      /\ \A i \in base..next : i \in Batch
      /\ \A i \in Batch : i > next => next + 1 \in Batch
      /\ job.capacity = 1 => Batch = {next}
  BY <1>1, <1>2, <1>3 DEF Least
<1>5. job.kind \in {"tiles_enc", "tiles_dec", "rtt_enc", "rtt_dec", "anim_enc", "anim_dec",
                    "anim2_dec", "one_enc", "one_dec", "wide_enc", "wide_dec"}
  BY <1>2 DEF Kinds, WorkOf
<1> QED
  BY <1>1, <1>2, <1>4, <1>5, JobFacts, BatchFacts

\* What a function frees on its way out is all there can be, but for the image
\* of a stream that has been decoded.
LEMMA FailingFrees ==
  ASSUME JobInv, AtWork, BufferInv, job.kind = "one_dec" => task[1] # "ok"
  PROVE  buffers \ Freed = {}
<1>1. buffers \subseteq Room
  BY DEF BufferInv
<1>2. CASE job.kind = "one_dec"
  <2>1. buffers = {}
    BY <1>1, <1>2 DEF BufferInv, Room
  <2> QED
    BY <2>1
<1>3. CASE job.kind \in {"tiles_enc", "rtt_enc"} \cup Frames
  BY <1>1, <1>3 DEF Room, Freed, Frames
<1>4. CASE job.kind \in {"tiles_dec", "rtt_dec"}
  BY <1>1, <1>4 DEF Room, Freed, Frames
<1>5. CASE job.kind = "anim_enc"
  BY <1>1, <1>5 DEF Room, Freed, Frames
<1>6. CASE job.kind \in {"one_enc", "wide_enc"}
  BY <1>1, <1>6, AtWorkFacts DEF Room, Freed, Frames
<1>7. CASE job.kind = "wide_dec"
  <2>1. Room = {Whole} \cup {i \in Batch : next <= i}
    BY <1>7 DEF Room
  <2>2. Freed = {Whole} \cup IF job.workers = 1 THEN {next} ELSE next..job.count
    BY <1>7 DEF Freed, Frames
  <2>3. Batch \subseteq 1..job.count /\ next \in 1..job.count /\ job.count \in Nat
    BY AtWorkFacts
  <2>4. CASE job.workers = 1
    BY <1>1, <1>7, <2>1, <2>2, <2>4, AtWorkFacts
  <2>5. CASE job.workers # 1
    <3>1. \A i \in Batch : next <= i => i \in next..job.count
      BY <2>3
    <3> QED
      BY <1>1, <2>1, <2>2, <2>5, <3>1
  <2> QED
    BY <2>4, <2>5
<1> QED
  BY <1>2, <1>3, <1>4, <1>5, <1>6, <1>7, AtWorkFacts DEF Frames

\* A failure at whatever point.
LEMMA FailingKeepsBuffers ==
  ASSUME JobInv, AtWork, BufferInv, job.kind = "one_dec" => task[1] # "ok",
         phase' = "failed", job' = job,
         buffers' \subseteq (buffers \ Freed) \cup IF job.kind \in Encoding THEN {File} ELSE {}
  PROVE  BufferInv'
<1>1. buffers' \subseteq IF job.kind \in Encoding THEN {File} ELSE {}
  BY FailingFrees
<1> QED
  BY <1>1 DEF BufferInv, AtWork

LEMMA PlanKeepsBuffers ==
  ASSUME NEW j \in Jobs, Plan(j)
  PROVE  BufferInv'
<1>1. job' = j /\ phase' = "run" /\ task' = [i \in 1..j.count |-> "todo"] /\ buffers' = Opened(j)
  BY DEF Plan
<1>2. j.count \in Nat \ {0}
  BY JobFacts
<1>3. buffers' \subseteq {Whole} /\ (Whole \in buffers' <=> j.kind \in Filled)
  BY <1>1 DEF Opened
<1>4. Whole \in Room'
  BY <1>1 DEF Room, Whole
<1>5. \A i \in 1..j.count : task'[i] # "ok"
  BY <1>1
<1>6. "one_dec" \notin Filled
  BY DEF Filled, Frames
<1> QED
  BY <1>1, <1>2, <1>3, <1>4, <1>5, <1>6 DEF BufferInv, Whole

LEMMA PlanFailsKeepsBuffers ==
  ASSUME JobInv, BufferInv, PlanFails
  PROVE  BufferInv'
<1>1. /\ phase = "run" /\ phase' = "failed" /\ job' = job /\ buffers' = buffers \ Freed
      /\ \A i \in Batch : task[i] = "todo"
  BY DEF PlanFails
<1>2. AtWork
  BY <1>1 DEF AtWork
<1>3. job.kind = "one_dec" => task[1] # "ok"
  BY <1>1, <1>2, AtWorkFacts
<1> QED
  BY <1>1, <1>2, <1>3, FailingKeepsBuffers

LEMMA TakeKeepsBuffers ==
  ASSUME JobInv, BufferInv, Take
  PROVE  BufferInv'
<1>1. phase = "run" /\ UNCHANGED <<job, phase, base, next, buffers>>
  BY DEF Take
<1>2. PICK i \in Batch, who \in Busy : task' = [task EXCEPT ![i] = who] /\ task[i] = "todo"
  BY DEF Take, Busy
<1>3. Room' = Room
  BY <1>1 DEF Room, Batch
<1>4. \A k \in 1..job.count : task'[k] = "ok" <=> task[k] = "ok"
  BY <1>1, <1>2 DEF JobInv, AtWork, Busy
<1>5. job.kind = "one_dec" => 1 \in 1..job.count
  BY <1>1, AtWorkFacts DEF AtWork
<1> QED
  BY <1>1, <1>3, <1>4, <1>5 DEF BufferInv, AtWork

LEMMA EndKeepsBuffers ==
  ASSUME JobInv, BufferInv, EndTask
  PROVE  BufferInv'
<1>1. phase = "run"
  BY DEF EndTask
<1>2. PICK i \in Running : End(i)
  BY DEF EndTask
<1>0. PICK how : /\ task' = [task EXCEPT ![i] = how] /\ UNCHANGED <<job, phase, base, next>>
                 /\ \E made \in Made(i, how) : buffers' = buffers \cup made
  BY <1>2 DEF End
<1>3. PICK made \in Made(i, how) :
        task' = [task EXCEPT ![i] = how] /\ buffers' = buffers \cup made
        /\ UNCHANGED <<job, phase, base, next>>
  BY <1>0
<1>4. i \in Batch /\ i \in 1..job.count /\ task[i] # "ok" /\ base <= i /\ next = base /\ AtWork
  BY <1>1, <1>2, AtWorkFacts DEF Running, AtWork, JobInv
<1>5. Room' = Room
  BY <1>3 DEF Room, Batch
<1>6. /\ made \subseteq {Whole, i} /\ (i \in made => job.kind \in Buffered \/ i = Whole)
      /\ i # Whole => (Whole \in made <=> (job.kind = "one_dec" /\ how = "ok"))
  BY <1>3 DEF Made, Buffered, Encoding
<1>7. i # Whole /\ i \in Nat
  BY <1>4, AtWorkFacts DEF Whole
<1>8. job.kind \in Buffered => i \in Room
  BY <1>4, AtWorkFacts DEF Buffered, Encoding, Frames, Room
<1>9. buffers' \subseteq Room'
  <2>1. Whole \in Room
    BY DEF Room, Whole
  <2> QED
    BY <1>3, <1>4, <1>5, <1>6, <1>7, <1>8, <2>1 DEF BufferInv
<1>10. job.kind = "one_dec" => (Whole \in buffers' <=> task'[1] = "ok")
  <2> SUFFICES ASSUME job.kind = "one_dec"
               PROVE  Whole \in buffers' <=> task'[1] = "ok"
    OBVIOUS
  <2>1. i = 1
    BY <1>4, AtWorkFacts
  <2>2. task'[1] = how
    BY <1>3, <1>4, <2>1 DEF JobInv
  <2>3. Whole \notin buffers
    BY <1>4, <2>1 DEF BufferInv
  <2> QED
    BY <1>3, <1>6, <1>7, <2>2, <2>3
<1>11. job.kind \in Frames => \A k \in 1..job.count : task'[k] = "ok" => k \in buffers'
  <2> SUFFICES ASSUME job.kind \in Frames, NEW k \in 1..job.count, task'[k] = "ok"
               PROVE  k \in buffers'
    OBVIOUS
  <2>1. CASE k # i
    <3>1. task[k] = "ok"
      BY <1>3, <1>4, <2>1 DEF JobInv
    <3> QED
      BY <1>3, <1>4, <3>1 DEF BufferInv
  <2>2. CASE k = i
    <3>1. how = "ok"
      BY <1>3, <1>4, <2>2 DEF JobInv
    <3>2. job.kind \in Buffered /\ job.kind # "one_dec" /\ i \notin job.idle
      BY <1>4, AtWorkFacts DEF Buffered, Frames
    <3>3. made = {i}
      BY <1>3, <3>1, <3>2 DEF Made
    <3> QED
      BY <1>3, <2>2, <3>3
  <2> QED
    BY <2>1, <2>2
<1> QED
  BY <1>1, <1>3, <1>4, <1>9, <1>10, <1>11 DEF BufferInv

\* The first part that failed; one stream has no other part that succeeded.
LEMMA FailKeepsBuffers ==
  ASSUME JobInv, AtWork, BufferInv, NEW i \in Batch, task[i] \in Faults, Fail(i), job' = job
  PROVE  BufferInv'
<1>1. phase' = "failed" /\ buffers' = buffers \ Freed
  BY DEF Fail
<1>2. job.kind = "one_dec" => task[1] # "ok"
  BY AtWorkFacts DEF Faults
<1> QED
  BY <1>1, <1>2, FailingKeepsBuffers

LEMMA JudgeKeepsBuffers ==
  ASSUME JobInv, BufferInv, Judge
  PROVE  BufferInv'
<1>1. phase = "run" /\ UNCHANGED <<job, task, base, next>>
  BY DEF Judge
<1>2. CASE \E i \in Failed : Fail(i)
  <2>1. PICK i \in Failed : Fail(i)
    BY <1>2
  <2> QED
    BY <1>1, <2>1, FailKeepsBuffers DEF Failed, AtWork
<1>3. CASE phase' = "append" /\ UNCHANGED buffers
  <2>1. Room' = Room
    BY <1>1 DEF Room, Batch
  <2> QED
    BY <1>1, <1>3, <2>1 DEF BufferInv, AtWork
<1> QED
  BY <1>2, <1>3 DEF Judge

\* After the last part: the encoder has the file, the decoder the image or all
\* frames; between them: what belongs to the part, or to its batch, is freed.
LEMMA AppendedKeepsBuffers ==
  ASSUME JobInv, BufferInv, phase \in {"append", "again"}, Appended
  PROVE  BufferInv'
<1>1. AtWork /\ UNCHANGED <<job, task>>
  BY DEF AtWork, Appended
<1>2. /\ job.count \in Nat \ {0} /\ next \in 1..job.count /\ next \in Batch
      /\ Batch \subseteq 1..job.count
  BY <1>1, AtWorkFacts
<1>3. buffers \subseteq Room
  BY <1>1 DEF BufferInv
<1>4. Whole \notin Spent
  BY <1>2 DEF Spent, Whole
<1>5. CASE ~(next < job.count)
  <2>1. phase' = "done" /\ next = job.count
    BY <1>2, <1>5 DEF Appended
  <2>2. CASE job.kind \in Encoding
    <3>1. buffers' = (buffers \ Freed) \cup {File} /\ job.kind # "one_dec"
      BY <1>5, <2>2 DEF Appended, Encoding
    <3>2. buffers \ Freed = {}
      BY <1>1, <3>1, FailingFrees
    <3> QED
      BY <1>1, <2>1, <2>2, <3>1, <3>2 DEF BufferInv, AtWork
  <2>3. CASE job.kind \notin Encoding
    <3>1. buffers' = buffers \ Spent
      BY <1>5, <2>3 DEF Appended
    <3>2. CASE job.kind \in Frames
      <4>1. \A i \in 1..job.count : task[i] = "ok"
        <5> SUFFICES ASSUME NEW i \in 1..job.count
                     PROVE  task[i] = "ok"
          OBVIOUS
        <5>1. i < base \/ i \in Batch
          BY <1>1, <1>2, <2>1, AtWorkFacts
        <5>2. job.kind # "tiles_enc"
          BY <3>2 DEF Frames
        <5> QED
          BY <1>1, <5>1, <5>2 DEF JobInv
      <4>2. Spent = {} /\ Room = {Whole} \cup 1..job.count /\ job.kind \in Filled
        BY <3>2 DEF Spent, Room, Frames, Filled
      <4>3. buffers = {Whole} \cup 1..job.count
        BY <1>1, <1>3, <4>1, <4>2, <3>2 DEF BufferInv
      <4> QED
        BY <1>1, <2>1, <2>3, <3>1, <3>2, <4>2, <4>3 DEF BufferInv, AtWork
    <3>3. CASE job.kind \notin Frames
      <4>1. job.kind \in {"tiles_dec", "rtt_dec", "one_dec", "wide_dec"}
        BY <1>1, <2>3, <3>3, AtWorkFacts DEF Encoding, Frames
      <4>2. Whole \in buffers
        <5>1. job.kind = "one_dec" => task[1] = "ok"
          <6>1. job.kind = "one_dec" => 1 \in Batch /\ 1 \in 1..job.count
            BY <1>1, <1>2, AtWorkFacts
          <6> QED
            BY <1>1, <6>1 DEF JobInv
        <5> QED
          BY <1>1, <4>1, <5>1 DEF BufferInv, Filled
      <4>3. buffers \ Spent \subseteq {Whole}
        <5>1. CASE job.kind = "wide_dec"
          <6>1. Room = {Whole} \cup {i \in Batch : next <= i} /\ Spent = {next}
            BY <5>1 DEF Room, Spent
          <6>2. \A i \in Batch : next <= i => i = next
            BY <1>2, <2>1
          <6> QED
            BY <1>3, <6>1, <6>2
        <5>2. CASE job.kind # "wide_dec"
          BY <1>3, <4>1, <5>2 DEF Room
        <5> QED
          BY <5>1, <5>2
      <4>4. buffers' = {Whole}
        BY <1>4, <3>1, <4>2, <4>3
      <4> QED
        BY <1>1, <2>1, <2>3, <3>3, <4>4 DEF BufferInv, AtWork
    <3> QED
      BY <3>2, <3>3
  <2> QED
    BY <2>2, <2>3
<1>6. CASE next < job.count
  <2>1. /\ next' = next + 1 /\ job.kind # "one_dec"
        /\ buffers' = (buffers \ Spent) \cup IF job.kind \in Encoding THEN {Whole} ELSE {}
        /\ \/ phase' = "append" /\ base' = base /\ next + 1 \in Batch
           \/ phase' = "run" /\ base' = next + 1 /\ next + 1 \notin Batch
    <3>1. job.kind # "one_dec"
      BY <1>1, <1>2, <1>6, AtWorkFacts
    <3> QED
      BY <1>6, <3>1 DEF Appended
  <2>2. Whole \in Room'
    BY DEF Room, Whole
  <2>3. buffers' \subseteq Room'
    <3>1. CASE job.kind \in {"tiles_dec", "rtt_dec"}
      BY <1>1, <1>3, <2>1, <2>2, <3>1 DEF Room
    <3>2. CASE job.kind \in {"tiles_enc", "rtt_enc"} \cup Frames
      <4>1. Room = {Whole} \cup 1..job.count /\ Room' = {Whole} \cup 1..job.count
        BY <1>1, <3>2 DEF Room, Frames, Whole
      <4> QED
        BY <1>3, <2>1, <4>1
    <3>3. CASE job.kind \in {"anim_enc", "one_enc", "wide_enc"}
      <4>1. Room = {Whole} \cup Batch /\ Room' = {Whole} \cup Batch'
        BY <1>1, <3>3 DEF Room, Whole
      <4>2. CASE base' = base /\ next + 1 \in Batch
        <5>1. Batch' = Batch
          BY <1>1, <4>2 DEF Batch
        <5> QED
          BY <1>3, <2>1, <4>1, <5>1
      <4>3. CASE next + 1 \notin Batch
        <5>1. Spent = Batch
          <6>1. CASE job.kind = "anim_enc"
            BY <4>3, <6>1 DEF Spent
          <6>2. CASE job.kind = "wide_enc"
            BY <1>1, <6>2, AtWorkFacts DEF Spent
          <6>3. job.kind # "one_enc"
            BY <1>1, <1>2, <1>6, AtWorkFacts
          <6> QED
            BY <3>3, <6>1, <6>2, <6>3
        <5> QED
          BY <1>3, <2>1, <4>1, <5>1
      <4> QED
        BY <2>1, <4>2, <4>3
    <3>4. CASE job.kind = "wide_dec"
      <4>1. /\ Room = {Whole} \cup {i \in Batch : next <= i}
            /\ Room' = {Whole} \cup {i \in Batch' : next' <= i}
            /\ Spent = {next} /\ job.kind \notin Encoding
        BY <1>1, <3>4 DEF Room, Whole, Spent, Encoding
      <4>2. CASE base' = base
        <5>1. Batch' = Batch
          BY <1>1, <4>2 DEF Batch
        <5>2. \A i \in Batch : next <= i /\ i # next => next' <= i
          BY <1>2, <2>1
        <5> QED
          BY <1>3, <2>1, <4>1, <5>1, <5>2
      <4>3. CASE next + 1 \notin Batch
        <5>1. \A i \in Batch : next <= i => i = next
          BY <1>1, <1>2, <4>3, AtWorkFacts
        <5> QED
          BY <1>3, <2>1, <4>1, <5>1
      <4> QED
        BY <2>1, <4>2, <4>3
    <3> QED
      BY <1>1, <2>1, <3>1, <3>2, <3>3, <3>4, AtWorkFacts DEF Frames
  <2>4. job.kind \in Filled => Whole \in buffers'
    BY <1>1, <1>4, <2>1 DEF BufferInv
  <2>5. job.kind \in Frames => \A i \in 1..job.count : task[i] = "ok" => i \in buffers'
    <3>1. job.kind \in Frames => Spent = {}
      BY DEF Frames, Spent
    <3> QED
      BY <1>1, <2>1, <3>1 DEF BufferInv
  <2> QED
    BY <1>1, <2>1, <2>3, <2>4, <2>5 DEF BufferInv, AtWork
<1> QED
  BY <1>5, <1>6

\* Appending can fail; what is left then is the file that could not be finished.
LEMMA AppendFailsKeepsBuffers ==
  ASSUME JobInv, BufferInv, phase \in {"append", "again"}, NEW f \in AppendFaults, AppendFails(f)
  PROVE  BufferInv'
<1>1. AtWork
  BY DEF AtWork
<1>2. job.kind # "one_dec"
  <2> SUFFICES ASSUME job.kind = "one_dec"
               PROVE  FALSE
    OBVIOUS
  <2>1. "one_dec" \in Kinds
    BY DEF Kinds, WorkOf
  <2>2. WorkOf["one_dec"].late = {}
    BY <2>1, EndFacts
  <2> QED
    BY <2>2 DEF AppendFaults
<1>3. PICK left \in SUBSET (IF job.kind \in Encoding /\ next = job.count THEN {File} ELSE {}) :
        buffers' = (buffers \ Freed) \cup left
  BY DEF AppendFails
<1>4. phase' = "failed" /\ job' = job
  BY DEF AppendFails
<1>5. buffers' \subseteq (buffers \ Freed) \cup IF job.kind \in Encoding THEN {File} ELSE {}
  BY <1>3
<1> QED
  BY <1>1, <1>2, <1>3, <1>4, <1>5, FailingKeepsBuffers

LEMMA AppendNextKeepsBuffers ==
  ASSUME JobInv, BufferInv, AppendNext \/ AppendAgain
  PROVE  BufferInv'
<1>1. phase \in {"append", "again"} /\ AtWork
  BY DEF AppendNext, AppendAgain, AtWork
<1>2. next \in Batch /\ next \in 1..job.count
  BY <1>1, AtWorkFacts
<1>3. CASE task[next] \in Faults /\ Fail(next) /\ job' = job
  BY <1>1, <1>2, <1>3, FailKeepsBuffers
<1>4. CASE \E f \in AppendFaults : AppendFails(f)
  BY <1>1, <1>4, AppendFailsKeepsBuffers
<1>5. CASE Appended
  BY <1>1, <1>5, AppendedKeepsBuffers
<1> QED
  BY <1>3, <1>4, <1>5 DEF AppendNext, AppendAgain

LEMMA OverLimitKeepsBuffers ==
  ASSUME JobInv, BufferInv, OverLimit
  PROVE  BufferInv'
<1>1. /\ AtWork /\ job.kind = "tiles_enc" /\ job' = job
      /\ phase' = "done" /\ buffers' = (buffers \ Freed) \cup {File}
  BY DEF OverLimit, AtWork
<1>2. buffers \ Freed = {}
  BY <1>1, FailingFrees
<1> QED
  BY <1>1, <1>2 DEF BufferInv, AtWork, Encoding

LEMMA AgainKeepsBuffers ==
  ASSUME JobInv, BufferInv, Again
  PROVE  BufferInv'
<1>1. AtWork /\ job.kind = "anim_enc" /\ UNCHANGED <<job, task, base, next>>
  BY DEF Again, AtWork
<1>2. CASE phase' = "again" /\ buffers' = buffers
  <2>1. Room' = Room
    BY <1>1 DEF Room, Batch
  <2> QED
    BY <1>1, <1>2, <2>1 DEF BufferInv, AtWork
<1>3. CASE phase' = "failed" /\ buffers' = buffers \ Freed
  BY <1>1, <1>3, FailingKeepsBuffers
<1> QED
  BY <1>2, <1>3 DEF Again

LEMMA JobStepKeepsBuffers ==
  ASSUME JobInv, BufferInv, JobStep
  PROVE  BufferInv'
BY PlanFailsKeepsBuffers, TakeKeepsBuffers, EndKeepsBuffers, JudgeKeepsBuffers,
   AppendNextKeepsBuffers, OverLimitKeepsBuffers, AgainKeepsBuffers
DEF JobStep

-----------------------------------------------------------------------------
(* What the call has allocated.                                             *)

\* The buffers of the call while the core is at work, and those that the core
\* adds at its end.
Lent ==
  CASE call.op = "encode_rgba" -> {Packed}
    [] call.op = "encode_pixels" -> {Converted}
    [] call.op = "encode_animation" -> {Packed, Adapted, Listed}
    [] OTHER -> {}
Added ==
  CASE call.op = "decode_animation" /\ call.form = "still" -> {Listed}
    [] call.op \in {"decode_hdr", "validate"} /\ call.form = "hdr" -> {Profile, Metadata}
    [] OTHER -> {}

\* The buffers that the core returns.
Kept ==
  IF ~decoding THEN {File}
  ELSE IF call.form = "animation"
       THEN IF call.op \in {"decode_rgba", "decode_region"} THEN {1} ELSE {Whole} \cup 1..job.count
       ELSE {Whole}

HeldInv ==
  /\ phase = "done" => pc = "core"
  /\ pc \in {"enter", "header", "watch", "begin", "copy", "start"} => buffers = {}
  /\ pc \in {"enter", "header", "watch", "copy"} => held = {}
  /\ pc = "begin" => held \subseteq Lent \cap {Converted}
  /\ pc \in {"start", "core"} => held \subseteq Lent
  /\ pc = "core" /\ (AtWork \/ phase = "done") =>
       job.kind \in KindsOf(call.op, call.form) /\ call.form \in op.takes /\ job.count \in Nat \ {0}
  /\ pc = "core" /\ phase = "failed" => buffers \subseteq {File} /\ (decoding => buffers = {})
  /\ pc = "back" =>
       buffers = Kept /\ held \subseteq Lent \cup Added /\ call.form \in op.takes
       /\ job.count \in Nat \ {0}
  /\ pc \in {"watched", "rows"} => op.watched /\ buffers = image_free /\ held = {}
  /\ pc # "returned" => taken = {}
  /\ pc = "returned" => buffers \cup held = taken /\ (result # "OK" => taken = {})

\* What these depend on.
LEMMA SameCall ==
  ASSUME UNCHANGED call
  PROVE  op' = op /\ decoding' = decoding /\ Lent' = Lent /\ Added' = Added /\ image_free' = image_free
BY DEF op, decoding, Lent, Added, image_free

\* A call that has nothing allocated but what it frees now.
LEMMA RefusedLeavesNothing ==
  ASSUME HeldInv, NEW r, NEW f, NEW freed, Refuse(r, f, freed), pc # "returned",
         buffers \cup held \subseteq freed, phase' # "done"
  PROVE  HeldInv'
<1>1. /\ pc' = "returned" /\ buffers' = buffers \ freed /\ held' = held \ freed /\ taken' = taken
  BY DEF Refuse, Return
<1>2. taken = {}
  BY DEF HeldInv
<1> QED
  BY <1>1, <1>2 DEF HeldInv

LEMMA BeforeCoreKeepsHeld ==
  ASSUME CallInv, HeldInv, Enter \/ Header \/ Watch
  PROVE  HeldInv'
<1>1. /\ pc \in {"enter", "header", "watch"} /\ UNCHANGED call /\ phase' = phase
  BY DEF Enter, Header, Watch, Quiet, Same
<1>2. buffers = {} /\ held = {} /\ taken = {} /\ phase # "done"
  BY <1>1 DEF HeldInv
<1>3. CASE \E r, f : Refuse(r, f, {})
  BY <1>1, <1>2, <1>3, RefusedLeavesNothing
<1>4. CASE Return("BAD_DATA", {}) /\ UNCHANGED taken
  BY <1>1, <1>2, <1>4 DEF Return, HeldInv
<1>5. CASE Return("OK", {}) /\ UNCHANGED taken
  BY <1>1, <1>2, <1>5 DEF Return, HeldInv
<1>6. CASE pc' \in {"header", "watch", "begin"} /\ UNCHANGED <<buffers, held, taken>>
  BY <1>1, <1>2, <1>6 DEF HeldInv
<1>7. CASE /\ op.copies = "before" /\ pc' = IF op.early THEN "header" ELSE IF op.watched THEN "watch" ELSE "begin"
           /\ held' = held \cup {Converted} /\ UNCHANGED <<buffers, taken>>
  <2>1. call.op = "encode_pixels" /\ ~decoding
    BY <1>7, OperationFacts DEF CallInv
  <2>2. pc' = "begin"
    BY <1>7, <2>1, OpFacts DEF CallInv
  <2>3. Lent' = {Converted}
    BY <1>1, <2>1 DEF Lent
  <2> QED
    BY <1>1, <1>2, <1>7, <2>2, <2>3 DEF HeldInv
<1> QED
  <2>1. CASE Enter
    BY <1>3, <1>6, <1>7, <2>1 DEF Enter
  <2>2. CASE Header
    BY <1>3, <1>4, <1>5, <1>6, <2>2 DEF Header, Continue
  <2>3. CASE Watch
    BY <1>3, <1>6, <2>3 DEF Watch, Checkpoint, Continue
  <2> QED
    BY <2>1, <2>2, <2>3

LEMMA BeginKeepsHeld ==
  ASSUME CallInv, HeldInv, Begin
  PROVE  HeldInv'
<1>1. pc = "begin" /\ UNCHANGED call /\ phase' = phase
  BY DEF Begin, Quiet, Same
<1>2. buffers = {} /\ held \subseteq Lent \cap {Converted} /\ taken = {} /\ phase # "done"
  BY <1>1 DEF HeldInv
<1>3. CASE Refuse("BAD_ARGUMENT", "argument", {Converted})
  BY <1>1, <1>2, <1>3, RefusedLeavesNothing
<1>4. CASE Continue(IF Copies = {} THEN "start" ELSE "copy")
  <2>1. Copies # {} => held = {}
    <3>1. Copies # {} => call.op \in {"encode_rgba", "encode_animation"}
      BY OperationFacts DEF Copies, CallInv
    <3>2. call.op \in {"encode_rgba", "encode_animation"} => Converted \notin Lent
      BY DEF Lent, Converted, Packed, Adapted, Listed
    <3> QED
      BY <1>2, <3>1, <3>2
  <2> QED
    BY <1>1, <1>2, <1>4, <2>1, SameCall DEF Continue, HeldInv
<1> QED
  BY <1>3, <1>4 DEF Begin

LEMMA CopyKeepsHeld ==
  ASSUME CallInv, HeldInv, Copy
  PROVE  HeldInv'
<1>1. pc = "copy" /\ UNCHANGED <<call, buffers, taken>> /\ phase' = phase
  BY DEF Copy, Quiet, Same
<1>2. buffers = {} /\ held = {} /\ taken = {} /\ phase # "done"
  BY <1>1 DEF HeldInv
<1>3. Copies \subseteq Lent /\ Copies \subseteq {Packed, Adapted, Listed}
  BY OperationFacts DEF Copies, Lent, CallInv
<1>4. CASE pc' = "start" /\ held' = held \cup Copies
  BY <1>1, <1>2, <1>3, <1>4, SameCall DEF HeldInv
<1>5. CASE /\ pc' = "returned"
           /\ \E some \in SUBSET (Copies \ {Listed}) : held' = (held \cup some) \ {Packed, Adapted}
  <2>1. held' = {}
    BY <1>2, <1>3, <1>5
  <2> QED
    BY <1>1, <1>2, <1>5, <2>1 DEF HeldInv
<1> QED
  BY <1>4, <1>5 DEF Copy

LEMMA StartKeepsHeld ==
  ASSUME CallInv, HeldInv, Start
  PROVE  HeldInv'
<1>1. pc = "start" /\ pc' = "core" /\ UNCHANGED <<call, held, taken>>
  BY DEF Start, Quiet
<1>2. buffers = {} /\ held \subseteq Lent /\ taken = {}
  BY <1>1 DEF HeldInv
<1>3. CASE \E own, f : CoreFails(own, f)
  BY <1>1, <1>2, <1>3, SameCall DEF CoreFails, HeldInv, AtWork
<1>4. CASE call.form \in op.takes /\ \E j \in Jobs : j.kind = call.kind /\ Plan(j)
  <2>1. PICK j \in Jobs : j.kind = call.kind /\ Plan(j)
    BY <1>4
  <2>2. job' = j /\ phase' = "run" /\ j.count \in Nat \ {0}
    BY <2>1, JobFacts DEF Plan
  <2>3. call.kind \in KindsOf(call.op, call.form)
    BY DEF CallInv, Calls
  <2>4. (job'.kind \in KindsOf(call'.op, call'.form)) /\ call'.form \in op'.takes
    BY <1>1, <1>4, <2>1, <2>2, <2>3, SameCall
  <2> QED
    BY <1>1, <1>2, <2>2, <2>4, SameCall DEF HeldInv
<1> QED
  BY <1>3, <1>4 DEF Start, Calls, CallInv

\* While the core is at work, and when it has failed.
LEMMA CoreKeepsHeld ==
  ASSUME CallInv, HeldInv, Core, BufferInv'
  PROVE  HeldInv'
<1>1. pc = "core" /\ JobStep /\ UNCHANGED avars
  BY DEF Core
<1>2. UNCHANGED <<call, pc, held, taken, result>> /\ AtWork /\ job' = job
  BY <1>1, JobStepFacts DEF avars, CallInv
<1>3. job.kind \in KindsOf(call.op, call.form) /\ call.form \in op.takes /\ job.count \in Nat \ {0}
  BY <1>1, <1>2 DEF HeldInv
<1>4. job.kind \in Encoding <=> ~decoding
  BY <1>3, CallKinds DEF CallInv
<1>5. phase' = "failed" => buffers' \subseteq {File} /\ (decoding' => buffers' = {})
  BY <1>2, <1>4, SameCall DEF BufferInv
<1>6. (job'.kind \in KindsOf(call'.op, call'.form)) /\ call'.form \in op'.takes
  BY <1>2, <1>3, SameCall
<1> QED
  BY <1>1, <1>2, <1>3, <1>5, <1>6, SameCall DEF HeldInv

\* What a call frees when the core has failed is all there can be: the file of
\* an encoder, and what the call itself has allocated.
LEMMA UnwoundFrees ==
  ASSUME call \in Calls
  PROVE  /\ Lent \subseteq Unwound
         /\ ~decoding => File \in Unwound
<1> QED
  BY OperationFacts DEF Lent, Unwound

LEMMA CoreFailedKeepsHeld ==
  ASSUME CallInv, HeldInv, CoreFailed
  PROVE  HeldInv'
<1>1. /\ pc = "core" /\ phase = "failed" /\ phase' = phase /\ pc' = "returned" /\ UNCHANGED taken
      /\ buffers' = buffers \ Unwound /\ held' = held \ Unwound
  BY DEF CoreFailed, Return, Same
<1>2. held \subseteq Lent /\ taken = {} /\ buffers \subseteq {File} /\ (decoding => buffers = {})
  BY <1>1 DEF HeldInv
<1>3. buffers' = {} /\ held' = {}
  BY <1>1, <1>2, UnwoundFrees DEF CallInv
<1> QED
  BY <1>1, <1>2, <1>3 DEF HeldInv

\* The work is done: the buffers of the core are those of the form of image.
LEMMA DoneFacts ==
  ASSUME CallInv, HeldInv, BufferInv, pc = "core", phase = "done"
  PROVE  /\ call.form \in op.takes /\ job.count \in Nat \ {0} /\ held \subseteq Lent /\ taken = {}
         /\ ~decoding => buffers = {File}
         /\ decoding /\ call.form = "animation" => buffers = {Whole} \cup 1..job.count
         /\ decoding /\ call.form # "animation" => buffers = {Whole}
<1>1. /\ call.form \in op.takes /\ job.count \in Nat \ {0} /\ held \subseteq Lent /\ taken = {}
      /\ job.kind \in KindsOf(call.op, call.form)
  BY DEF HeldInv
<1>2. job.kind \in Encoding <=> ~decoding
  BY <1>1, CallKinds DEF CallInv
<1>3. decoding => (job.kind \in Frames <=> call.form = "animation")
  BY <1>1, OperationFacts DEF KindsOf, decoding, Frames, CallInv
<1> QED
  BY <1>1, <1>2, <1>3 DEF BufferInv

LEMMA CoreReturnsKeepsHeld ==
  ASSUME CallInv, HeldInv, BufferInv, CoreReturns
  PROVE  HeldInv'
<1>1. /\ pc = "core" /\ phase = "done" /\ pc' = "back" /\ phase' = "none"
      /\ UNCHANGED <<call, job, taken>>
  BY DEF CoreReturns, Quiet
<1>2. /\ call.form \in op.takes /\ job.count \in Nat \ {0} /\ held \subseteq Lent /\ taken = {}
      /\ ~decoding => buffers = {File}
      /\ decoding /\ call.form = "animation" => buffers = {Whole} \cup 1..job.count
      /\ decoding /\ call.form # "animation" => buffers = {Whole}
  BY <1>1, DoneFacts
<1>3. Kept' = Kept
  BY <1>1 DEF Kept, decoding
<1>4. buffers' = Kept /\ held' \subseteq Lent \cup Added
  <2>1. CASE FirstFrame
    <3>1. decoding /\ 1 \in 1..job.count
      BY <1>2, <2>1, OperationFacts DEF FirstFrame, CallInv
    <3>2. buffers' = {1} /\ held' = held /\ Kept = {1}
      BY <1>2, <2>1, <3>1 DEF FirstFrame, Kept
    <3> QED
      BY <1>2, <3>2
  <2>2. CASE OneFrame
    <3>1. decoding
      BY <2>2, OperationFacts DEF OneFrame, CallInv
    <3> QED
      BY <1>2, <2>2, <3>1 DEF OneFrame, Kept, Added
  <2>3. CASE Described
    <3>1. decoding
      BY <2>3, OperationFacts DEF Described, CallInv
    <3>2. Added = {Profile, Metadata}
      BY <2>3 DEF Described, Added
    <3> QED
      BY <1>2, <2>3, <3>1, <3>2 DEF Described, Kept
  <2>4. CASE AsItIs
    <3>1. decoding /\ call.form = "animation" => call.op \notin {"decode_rgba", "decode_region"}
      BY <2>4 DEF AsItIs
    <3> QED
      BY <1>2, <2>4, <3>1 DEF AsItIs, Kept
  <2> QED
    BY <2>1, <2>2, <2>3, <2>4 DEF CoreReturns
<1> QED
  BY <1>1, <1>2, <1>3, <1>4, SameCall DEF HeldInv, AtWork

LEMMA CoreRunsOutKeepsHeld ==
  ASSUME CallInv, HeldInv, BufferInv, CoreRunsOut
  PROVE  HeldInv' /\ buffers' = {}
<1>1. /\ pc = "core" /\ phase = "done" /\ phase' = "failed"
      /\ UNCHANGED <<call, pc, held, taken, result>>
  BY DEF CoreRunsOut, avars
<1>2. buffers' = {}
  <2>1. /\ decoding /\ call.form # "animation"
        /\ buffers' = buffers \ image_free \/ buffers' = buffers \ hdr_image_free
    BY <1>1, OperationFacts DEF CoreRunsOut, CallInv
  <2>2. buffers = {Whole}
    BY <1>1, <2>1, DoneFacts
  <2> QED
    BY <2>1, <2>2 DEF image_free, hdr_image_free
<1> QED
  BY <1>1, <1>2, SameCall DEF HeldInv, AtWork

\* The result goes to the caller, or is refused after all.
LEMMA DeliverKeepsHeld ==
  ASSUME CallInv, HeldInv, Deliver
  PROVE  HeldInv'
<1>1. pc = "back" /\ UNCHANGED call /\ UNCHANGED job /\ phase' = phase
  BY DEF Deliver, DeliverWatched, DeliverImage, DeliverPixels, DeliverHdr, DeliverAnimation,
         DeliverVerdict, DeliverFile, Back, Same
<1>2. /\ buffers = Kept /\ held \subseteq Lent \cup Added /\ call.form \in op.takes
      /\ job.count \in Nat \ {0} /\ taken = {} /\ phase # "done"
  BY <1>1 DEF HeldInv
<1>3. ASSUME NEW freed, Late(freed), buffers \cup held \subseteq freed
      PROVE  HeldInv'
  <2>1. PICK r \in op.late : Refuse(r, "late", freed)
    BY <1>3 DEF Late
  <2> QED
    BY <1>1, <1>2, <1>3, <2>1, RefusedLeavesNothing
<1>4. ASSUME NEW moved, NEW freed, HandOver(moved, freed), (buffers \cup held) \ freed = moved
      PROVE  HeldInv'
  <2>1. pc' = "returned" /\ result' = "OK" /\ buffers' \cup held' = taken'
    BY <1>4 DEF HandOver, Return
  <2> QED
    BY <1>1, <1>2, <2>1 DEF HeldInv
<1>5. CASE DeliverWatched
  <2>1. /\ call.op \in {"decode_region", "decode_rows"} /\ decoding /\ op.watched
        /\ call.op = "decode_rows" => call.form = "still"
    BY <1>2, <1>5, OperationFacts DEF DeliverWatched, CallInv
  <2>2. buffers = image_free /\ held = {}
    BY <1>2, <2>1 DEF Kept, Lent, Added, image_free
  <2> QED
    BY <1>1, <1>2, <1>5, <2>1, <2>2, SameCall DEF DeliverWatched, Continue, HeldInv
<1>6. CASE DeliverImage
  <2>1. /\ call.op \in {"decode_rgba", "decode_wide"} /\ decoding
        /\ call.op = "decode_wide" => call.form = "wide"
    BY <1>2, <1>6, OperationFacts DEF DeliverImage, CallInv
  <2>2. buffers = image_free /\ held = {}
    BY <1>2, <2>1 DEF Kept, Lent, Added, image_free
  <2> QED
    BY <1>4, <1>6, <2>2 DEF DeliverImage
<1>7. CASE DeliverPixels
  <2>1. call.op = "decode_pixels" /\ decoding /\ call.form = "still"
    BY <1>2, <1>7, OperationFacts DEF DeliverPixels, CallInv
  <2>2. buffers = image_free /\ held = {}
    BY <1>2, <2>1 DEF Kept, Lent, Added, image_free
  <2> QED
    BY <1>3, <1>4, <1>7, <2>2 DEF DeliverPixels
<1>8. CASE DeliverHdr
  <2>1. call.op = "decode_hdr" /\ decoding /\ call.form = "hdr"
    BY <1>2, <1>8, OperationFacts DEF DeliverHdr, CallInv
  <2>2. buffers \cup held \subseteq hdr_image_free
    BY <1>2, <2>1 DEF Kept, Lent, Added, hdr_image_free
  <2> QED
    BY <1>3, <1>4, <1>8, <2>2 DEF DeliverHdr
<1>9. CASE DeliverAnimation
  <2>1. call.op = "decode_animation" /\ decoding /\ call.form \in {"still", "animation"}
    BY <1>2, <1>9, OperationFacts DEF DeliverAnimation, CallInv
  <2> DEFINE images == IF call.form = "animation" THEN 1..job.count ELSE {Whole}
  <2>2. /\ held \subseteq {Listed} /\ buffers \subseteq {Whole} \cup 1..job.count
        /\ images \subseteq buffers
    BY <1>2, <2>1 DEF Kept, Lent, Added
  <2>3. \A b \in images : b >= 0
    BY <1>2 DEF Whole
  <2>4. CASE Late(anim_free)
    BY <1>3, <2>2, <2>4 DEF anim_free
  <2>5. CASE /\ pc' = "returned" /\ result' = "OK" /\ taken' = {Table} \cup images
             /\ buffers' = buffers \ (anim_free \ images)
             /\ held' = (held \cup {Table}) \ (anim_free \ images)
    <3> HIDE DEF images
    <3>1. Table \notin anim_free /\ Listed \notin images /\ Table \notin images
      BY <1>2, <2>3 DEF anim_free, Table, Listed, Whole
    <3>2. buffers' = images
      BY <2>2, <2>5 DEF anim_free
    <3>3. held' = {Table}
      BY <2>2, <2>5, <3>1 DEF anim_free
    <3> QED
      BY <1>1, <1>2, <2>5, <3>2, <3>3 DEF HeldInv
  <2> QED
    BY <1>9, <2>4, <2>5 DEF DeliverAnimation
<1>10. CASE DeliverVerdict
  <2>1. call.op = "validate" /\ decoding /\ call.form \in Forms
    BY <1>10, OperationFacts DEF DeliverVerdict, CallInv
  <2>2. buffers \cup held \subseteq Unwound
    BY <1>2, <2>1 DEF Kept, Lent, Added, Unwound, Forms, image_free, anim_free, wide_image_free,
                      hdr_image_free
  <2> QED
    BY <1>4, <1>10, <2>2 DEF DeliverVerdict
<1>11. CASE DeliverFile
  <2>1. ~decoding /\ buffers = {File} /\ held \subseteq Lent
    <3>1. ~decoding => Added = {}
      BY OperationFacts DEF Added, CallInv
    <3> QED
      BY <1>2, <1>11, <3>1 DEF DeliverFile, Kept
  <2>2. File \notin Lent /\ Lent \subseteq Unwound
    BY <2>1, UnwoundFrees DEF CallInv, Lent, File, Packed, Converted, Adapted, Listed
  <2> QED
    BY <1>4, <1>11, <2>1, <2>2 DEF DeliverFile
<1> QED
  BY <1>5, <1>6, <1>7, <1>8, <1>9, <1>10, <1>11 DEF Deliver

LEMMA RowsKeepHeld ==
  ASSUME CallInv, HeldInv, Watched \/ RegionRow \/ CallbackRow \/ RowsDone
  PROVE  HeldInv'
<1>1. pc \in {"watched", "rows"} /\ UNCHANGED call /\ phase' = phase
  BY DEF Watched, RegionRow, CallbackRow, RowsDone, Same
<1>2. op.watched /\ buffers = image_free /\ held = {} /\ taken = {} /\ phase # "done"
  BY <1>1 DEF HeldInv
<1>3. CASE \E r, f : Refuse(r, f, image_free)
  BY <1>1, <1>2, <1>3, RefusedLeavesNothing
<1>4. CASE Continue("rows")
  BY <1>1, <1>2, <1>4, SameCall DEF Continue, HeldInv
<1>5. CASE HandOver({}, image_free)
  BY <1>1, <1>2, <1>5 DEF HandOver, Return, HeldInv
<1> QED
  BY <1>3, <1>4, <1>5 DEF Watched, RegionRow, CallbackRow, RowsDone, Checkpoint

LEMMA ApiKeepsHeld == CallInv /\ HeldInv /\ BufferInv /\ BufferInv' /\ [ApiNext]_vars => HeldInv'
<1> SUFFICES ASSUME CallInv, HeldInv, BufferInv, BufferInv', [ApiNext]_vars
             PROVE  HeldInv'
  OBVIOUS
<1>1. CASE UNCHANGED vars
  BY <1>1 DEF HeldInv, vars, avars, jvars, Lent, Added, Kept, op, decoding, image_free, AtWork
<1> QED
  BY <1>1, BeforeCoreKeepsHeld, BeginKeepsHeld, CopyKeepsHeld, StartKeepsHeld, CoreKeepsHeld,
     CoreFailedKeepsHeld, CoreReturnsKeepsHeld, CoreRunsOutKeepsHeld, DeliverKeepsHeld, RowsKeepHeld
  DEF ApiNext

\* The steps of the call leave the buffers of the core, or free some.
LEMMA ApiKeepsBuffers ==
  JobInv /\ CallInv /\ HeldInv /\ BufferInv /\ [ApiNext]_vars => BufferInv'
<1> SUFFICES ASSUME JobInv, CallInv, HeldInv, BufferInv, [ApiNext]_vars
             PROVE  BufferInv'
  OBVIOUS
<1>1. CASE UNCHANGED vars
  BY <1>1 DEF BufferInv, Room, AtWork, Batch, vars, jvars
<1>2. CASE Core
  BY <1>2, JobStepKeepsBuffers DEF Core
<1>3. CASE Start
  <2>1. buffers = {} /\ ((phase' = "failed" /\ buffers' = buffers) \/ \E j \in Jobs : Plan(j))
    BY <1>3 DEF Start, CoreFails, HeldInv
  <2>2. CASE phase' = "failed" /\ buffers' = buffers
    BY <2>1, <2>2 DEF BufferInv, AtWork
  <2> QED
    BY <2>1, <2>2, PlanKeepsBuffers
<1>4. CASE CoreReturns
  BY <1>4 DEF CoreReturns, BufferInv, AtWork
<1>5. CASE CoreRunsOut
  <2>1. buffers' = {} /\ phase' = "failed"
    BY <1>5, CoreRunsOutKeepsHeld DEF CoreRunsOut
  <2> QED
    BY <2>1 DEF BufferInv, AtWork
<1>6. ASSUME Same, ~AtWork, phase # "done", buffers' \subseteq buffers
      PROVE  BufferInv'
  BY <1>6 DEF BufferInv, AtWork, Same
<1>7. CASE Enter \/ Header \/ Watch \/ Begin \/ Copy
  <2>1. pc \in {"enter", "header", "watch", "begin", "copy"} /\ Same /\ buffers' \subseteq buffers
    BY <1>7 DEF Enter, Header, Watch, Begin, Copy, Continue, Refuse, Return, Checkpoint
  <2> QED
    BY <1>6, <2>1 DEF CallInv, HeldInv
<1>8. CASE CoreFailed
  BY <1>6, <1>8 DEF CoreFailed, Return, AtWork
<1>9. CASE Deliver
  <2>1. pc = "back" /\ Same /\ buffers' \subseteq buffers
    BY <1>9 DEF Deliver, DeliverWatched, DeliverImage, DeliverPixels, DeliverHdr, DeliverAnimation,
                DeliverVerdict, DeliverFile, Back, Late, HandOver, Continue, Refuse, Return
  <2> QED
    BY <1>6, <2>1 DEF CallInv, HeldInv
<1>10. CASE Watched \/ RegionRow \/ CallbackRow \/ RowsDone
  <2>1. pc \in {"watched", "rows"} /\ Same /\ buffers' \subseteq buffers
    BY <1>10 DEF Watched, RegionRow, CallbackRow, RowsDone, Checkpoint, HandOver, Continue, Refuse, Return
  <2> QED
    BY <1>6, <2>1 DEF CallInv, HeldInv
<1> QED
  BY <1>1, <1>2, <1>3, <1>4, <1>5, <1>7, <1>8, <1>9, <1>10 DEF ApiNext

-----------------------------------------------------------------------------
(* Why a call fails.                                                        *)

\* Bad data of a call that decodes, an error of one that encodes.
LEMMA ErredExplained ==
  ASSUME NEW own, NEW causes, "bad" \in causes, own = "OK" \/ Explained(own, causes)
  PROVE  Explained(Erred(own), causes)
<1>1. CASE own = "OK"
  <2>1. Erred(own) = "ERROR"
    BY <1>1 DEF Erred
  <2>2. Code("ERROR") \in CodesOf("bad")
    BY DEF Code, CodesOf
  <2> QED
    BY <2>1, <2>2 DEF Explained
<1>2. CASE own # "OK"
  BY <1>2 DEF Erred
<1> QED
  BY <1>1, <1>2

\* What a frame or a band leaves in the status of its thread.
LEMMA LeftExplained ==
  ASSUME NEW how \in {"nomem", "bad", "limit", "foreign"}, NEW causes, how \in causes,
         NEW own, own = "OK" \/ Explained(own, causes)
  PROVE  Explained(Left(how, own), causes)
<1>1. CASE how = "bad"
  <2>1. Left(how, own) = Erred(own)
    BY <1>1 DEF Left
  <2> QED
    BY <1>1, <2>1, ErredExplained
<1>2. CASE how # "bad"
  <2>1. Code(Left(how, own)) \in CodesOf(how)
    <3>1. CASE how = "nomem"
      BY <3>1 DEF Left, Code, CodesOf
    <3>2. CASE how = "limit"
      BY <3>2 DEF Left, Code, CodesOf
    <3>3. CASE how = "foreign"
      BY <3>3 DEF Left, Code, CodesOf
    <3> QED
      BY <1>2, <3>1, <3>2, <3>3
  <2> QED
    BY <2>1 DEF Explained
<1> QED
  BY <1>1, <1>2

\* What the caller makes of a part that failed, with a status that is clear or
\* explained.
LEMMA BlamedExplained ==
  ASSUME call \in Calls, job.kind \in KindsOf(call.op, call.form),
         NEW causes, NEW f \in causes, f \in Faults, f \in WorkOf[job.kind].ends,
         NEW own, own = "OK" \/ Explained(own, causes)
  PROVE  Explained(Blamed(f, own), causes)
<1>1. job.kind \in Kinds /\ (job.kind \in Encoding <=> ~decoding)
  BY CallKinds
<1>2. /\ f = "limit" => job.kind \in Framed \cup {"one_dec"}
      /\ f = "foreign" => job.kind \in Frames
      /\ f = "unnamed" => job.kind = "rtt_dec"
      /\ f = "argument" => job.kind = "wide_enc"
  BY <1>1, EndFacts
<1>3. ASSUME NEW s, Code(s) \in CodesOf(f), Blamed(f, own) = s
      PROVE  Explained(Blamed(f, own), causes)
  BY <1>3 DEF Explained
<1>4. CASE Blamed(f, own) = Erred(own) /\ own # "OK"
  BY <1>4 DEF Erred
<1>5. CASE Blamed(f, own) = Erred(own) /\ own = "OK" /\ f \notin {"limit", "unnamed", "argument"}
           /\ (f = "nomem" => job.kind = "rtt_enc")
  <2>1. Blamed(f, own) = "ERROR"
    BY <1>5 DEF Erred
  <2>2. f \in {"nomem", "bad", "foreign"}
    BY <1>5 DEF Faults
  <2>3. f = "foreign" => decoding
    BY <1>1, <1>2 DEF Frames, Encoding
  <2>4. Code("ERROR") \in CodesOf(f)
    <3>1. CASE f = "nomem"
      <4>1. ~decoding
        BY <1>1, <1>5, <3>1 DEF Encoding
      <4> QED
        BY <1>5, <3>1, <4>1 DEF Code, CodesOf
    <3>2. CASE f = "bad"
      BY <3>2 DEF Code, CodesOf
    <3>3. CASE f = "foreign"
      BY <2>3, <3>3 DEF Code, CodesOf
    <3> QED
      BY <2>2, <3>1, <3>2, <3>3
  <2> QED
    BY <1>3, <2>1, <2>4
<1>6. CASE job.kind = "rtt_enc"
  <2>1. Blamed(f, own) = Erred(own) /\ f \notin {"limit", "unnamed", "argument"}
    BY <1>2, <1>6 DEF Blamed, Framed
  <2> QED
    BY <1>4, <1>5, <1>6, <2>1
<1>7. CASE job.kind # "rtt_enc" /\ f = "nomem"
  <2>1. Blamed(f, own) = "OUT_OF_MEMORY"
    BY <1>7 DEF Blamed
  <2>2. Code("OUT_OF_MEMORY") \in CodesOf(f)
    BY <1>7 DEF Code, CodesOf
  <2> QED
    BY <1>3, <2>1, <2>2
<1>8. CASE job.kind \in Framed /\ f # "nomem"
  <2>1. job.kind # "rtt_enc" /\ f \notin {"unnamed", "argument"}
    BY <1>2, <1>8 DEF Framed
  <2>2. CASE f = "limit"
    <3>1. Blamed(f, own) = "LIMIT_EXCEEDED"
      BY <1>8, <2>1, <2>2 DEF Blamed
    <3>2. Code("LIMIT_EXCEEDED") \in CodesOf(f)
      BY <2>2 DEF Code, CodesOf
    <3> QED
      BY <1>3, <3>1, <3>2
  <2>3. CASE f # "limit"
    <3>1. Blamed(f, own) = Erred(own)
      BY <1>8, <2>1, <2>3 DEF Blamed
    <3> QED
      BY <1>4, <1>5, <1>8, <2>1, <2>3, <3>1
  <2> QED
    BY <2>2, <2>3
<1>9. CASE job.kind \notin Framed \cup {"rtt_enc"} /\ f = "argument"
  <2>1. Blamed(f, own) = "BAD_ARGUMENT"
    BY <1>9 DEF Blamed
  <2>2. Code("BAD_ARGUMENT") \in CodesOf(f)
    BY <1>9 DEF Code, CodesOf
  <2> QED
    BY <1>3, <2>1, <2>2
<1>10. CASE job.kind \notin Framed \cup {"rtt_enc"} /\ f \notin {"nomem", "argument"} /\ job.kind \in Encoding
  <2>1. Blamed(f, own) = "ERROR"
    BY <1>10 DEF Blamed
  <2>2. f = "bad"
    BY <1>2, <1>10 DEF Faults, Frames, Encoding, Framed
  <2>3. Code("ERROR") \in CodesOf(f)
    BY <2>2 DEF Code, CodesOf
  <2> QED
    BY <1>3, <2>1, <2>3
<1>11. CASE job.kind \notin Framed \cup {"rtt_enc"} /\ f \notin {"nomem", "argument"} /\ job.kind \notin Encoding
  <2>1. decoding
    BY <1>1, <1>11
  <2>2. CASE f = "limit"
    <3>1. Blamed(f, own) = "LIMIT_EXCEEDED"
      BY <1>2, <1>11, <2>2 DEF Blamed
    <3>2. Code("LIMIT_EXCEEDED") \in CodesOf(f)
      BY <2>2 DEF Code, CodesOf
    <3> QED
      BY <1>3, <3>1, <3>2
  <2>3. CASE f # "limit"
    <3>1. Blamed(f, own) = "BAD_DATA"
      BY <1>11, <2>3 DEF Blamed
    <3>2. f \in {"bad", "unnamed"}
      BY <1>2, <1>11, <2>3 DEF Faults, Frames, Framed
    <3>3. Code("BAD_DATA") \in CodesOf(f)
      BY <2>1, <3>2 DEF Code, CodesOf
    <3> QED
      BY <1>3, <3>1, <3>3
  <2> QED
    BY <2>2, <2>3
<1> QED
  BY <1>6, <1>7, <1>8, <1>9, <1>10, <1>11

\* The step of the core keeps the status explained.
LEMMA JobStepExplained ==
  ASSUME JobInv, CallInv, CauseInv, pc = "core", JobStep
  PROVE  /\ status' = "OK" \/ Explained(status', faults')
         /\ phase' = "failed" => Explained(status', faults')
         /\ AtWork' => \A i \in 1..job.count :
              task'[i] \in Faults => task'[i] \in faults' /\ task'[i] \in WorkOf[job.kind].ends
<1>1. AtWork
  BY JobStepFacts DEF CallInv
<1>2. /\ job.kind \in KindsOf(call.op, call.form) /\ call \in Calls
      /\ \A i \in 1..job.count :
           task[i] \in Faults => task[i] \in faults /\ task[i] \in WorkOf[job.kind].ends
      /\ status = "OK" \/ Explained(status, faults)
      /\ task \in [1..job.count -> Marks] /\ next \in 1..job.count
  BY <1>1 DEF CauseInv, CallInv, JobInv
<1>3. job.kind \in Kinds
  BY <1>2, CallKinds
<1>4. Batch \subseteq 1..job.count
  BY <1>1, BatchFacts
<1>5. ASSUME NEW causes, faults \subseteq causes
      PROVE  status = "OK" \/ Explained(status, causes)
  BY <1>2, <1>5 DEF Explained
<1>6. ASSUME NEW f, f \in {"nomem", "bad"}, faults' = faults \cup {f},
             status' = IF f = "nomem" THEN "OUT_OF_MEMORY" ELSE Erred(status)
      PROVE  Explained(status', faults')
  <2>1. f \in faults' /\ faults \subseteq faults'
    BY <1>6
  <2>2. CASE f = "nomem"
    <3>1. status' = "OUT_OF_MEMORY" /\ Code("OUT_OF_MEMORY") \in CodesOf("nomem")
      BY <1>6, <2>2 DEF Code, CodesOf
    <3> QED
      BY <2>1, <2>2, <3>1 DEF Explained
  <2>3. CASE f = "bad"
    <3>1. status' = Erred(status)
      BY <1>6, <2>3
    <3>2. status = "OK" \/ Explained(status, faults')
      BY <1>5, <2>1
    <3> QED
      BY <2>1, <2>3, <3>1, <3>2, ErredExplained
  <2> QED
    BY <1>6, <2>2, <2>3
<1>7. ASSUME NEW i \in 1..job.count, Fail(i), task[i] \in Faults, faults' = faults
      PROVE  Explained(status', faults')
  <2>1. status' = Blamed(task[i], status)
    BY <1>7 DEF Fail
  <2> QED
    BY <1>2, <1>7, <2>1, BlamedExplained
<1>8. CASE PlanFails
  <2>1. PICK f : /\ f \in {"nomem", "bad"} /\ faults' = faults \cup {f} /\ phase' = "failed"
                 /\ status' = IF f = "nomem" THEN "OUT_OF_MEMORY" ELSE Erred(status)
    BY <1>8 DEF PlanFails
  <2> QED
    BY <1>6, <2>1 DEF AtWork
<1>9. CASE Take
  <2>1. PICK i \in Batch, who \in Busy : task' = [task EXCEPT ![i] = who]
    BY <1>9 DEF Take, Busy
  <2>2. faults' = faults /\ status' \in {"OK", status} /\ phase' = "run"
    BY <1>9 DEF Take
  <2>3. who \notin Faults
    BY <2>1 DEF Busy, Faults
  <2> QED
    BY <1>2, <1>4, <2>1, <2>2, <2>3
<1>10. CASE EndTask
  <2>1. PICK i \in Running : End(i)
    BY <1>10 DEF EndTask
  <2>2. PICK how \in IF i \in job.idle THEN {"ok"} ELSE WorkOf[job.kind].ends :
          /\ task' = [task EXCEPT ![i] = how] /\ faults' = faults \cup ({how} \ {"ok"}) /\ phase' = phase
          /\ status' = IF task[i] = "caller" /\ how # "ok" /\ job.kind \in Framed \cup {"rtt_enc"}
                       THEN Left(how, status) ELSE status
    BY <2>1 DEF End
  <2>3. how # "ok" => how \in WorkOf[job.kind].ends /\ how \in Faults /\ how \in faults'
    <3>1. WorkOf[job.kind].ends \subseteq {"ok"} \cup Faults
      BY <1>3, KindFacts
    <3> QED
      BY <2>2, <3>1
  <2>4. status' = "OK" \/ Explained(status', faults')
    <3>1. CASE task[i] = "caller" /\ how # "ok" /\ job.kind \in Framed \cup {"rtt_enc"}
      <4>1. status' = Left(how, status) /\ faults \subseteq faults'
        BY <2>2, <3>1
      <4>2. how \in {"nomem", "bad", "limit", "foreign"}
        BY <1>3, <2>3, <3>1, EndFacts DEF Faults, Framed
      <4>3. status = "OK" \/ Explained(status, faults')
        BY <1>5, <4>1
      <4> QED
        BY <2>3, <3>1, <4>1, <4>2, <4>3, LeftExplained
    <3>2. CASE ~(task[i] = "caller" /\ how # "ok" /\ job.kind \in Framed \cup {"rtt_enc"})
      <4>1. status' = status /\ faults \subseteq faults'
        BY <2>2, <3>2
      <4> QED
        BY <1>5, <4>1
    <3> QED
      BY <3>1, <3>2
  <2>5. phase' # "failed"
    BY <1>1, <2>2 DEF AtWork
  <2>6. \A k \in 1..job.count :
          task'[k] \in Faults => task'[k] \in faults' /\ task'[k] \in WorkOf[job.kind].ends
    <3>1. "ok" \notin Faults
      BY DEF Faults
    <3> QED
      BY <1>2, <2>2, <2>3, <3>1
  <2> QED
    BY <2>4, <2>5, <2>6
<1>11. CASE Judge
  <2>1. faults' = faults /\ task' = task
    BY <1>11 DEF Judge
  <2>2. CASE \E i \in Failed : Fail(i)
    <3>1. PICK i \in 1..job.count : Fail(i) /\ task[i] \in Faults
      BY <1>4, <2>2 DEF Failed
    <3>2. phase' = "failed"
      BY <3>1 DEF Fail
    <3> QED
      BY <1>7, <2>1, <3>1, <3>2 DEF AtWork
  <2>3. CASE phase' = "append" /\ status' = status
    BY <1>2, <2>1, <2>3
  <2> QED
    BY <1>11, <2>2, <2>3 DEF Judge
<1>12. CASE Appended
  <2>1. status' = status /\ faults' = faults /\ task' = task /\ phase' \in {"append", "run", "done"}
    BY <1>12 DEF Appended
  <2> QED
    BY <1>2, <2>1
<1>13. CASE \E f \in AppendFaults : AppendFails(f)
  <2>1. PICK f \in AppendFaults : AppendFails(f)
    BY <1>13
  <2>2. f \in {"nomem", "bad"}
    BY <1>3, EndFacts DEF AppendFaults
  <2>3. /\ faults' = faults \cup {f} /\ phase' = "failed"
        /\ status' = IF f = "nomem" THEN "OUT_OF_MEMORY" ELSE Erred(status)
    BY <2>1 DEF AppendFails
  <2> QED
    BY <1>6, <2>2, <2>3 DEF AtWork
<1>14. CASE AppendNext
  <2>1. CASE task[next] \in Faults
    <3>1. Fail(next) /\ faults' = faults
      BY <1>14, <2>1 DEF AppendNext
    <3>2. phase' = "failed"
      BY <3>1 DEF Fail
    <3> QED
      BY <1>2, <1>7, <2>1, <3>1, <3>2 DEF AtWork
  <2>2. CASE task[next] \notin Faults
    <3>1. Appended \/ \E f \in AppendFaults : AppendFails(f)
      BY <1>14, <2>2 DEF AppendNext
    <3> QED
      BY <1>12, <1>13, <3>1
  <2> QED
    BY <2>1, <2>2
<1>15. CASE OverLimit
  <2>1. status' = status /\ faults' = faults /\ task' = task /\ phase' = "done"
    BY <1>15 DEF OverLimit
  <2> QED
    BY <1>2, <2>1
<1>16. CASE Again
  <2>1. PICK how \in WorkOf[job.kind].ends :
          /\ faults' = faults \cup ({how} \ {"ok"})
          /\ IF how = "ok"
             THEN phase' = "again" /\ status' = "OK"
             ELSE phase' = "failed" /\ status' = Blamed(how, Left(how, "OK"))
    BY <1>16 DEF Again
  <2>2. task' = task /\ job.kind = "anim_enc"
    BY <1>16 DEF Again
  <2>3. CASE how = "ok"
    BY <1>2, <2>1, <2>2, <2>3
  <2>4. CASE how # "ok"
    <3>1. /\ phase' = "failed" /\ status' = Blamed(how, Left(how, "OK")) /\ how \in faults'
      BY <2>1, <2>4
    <3>2. how \in {"nomem", "bad", "limit", "foreign"} /\ how \in Faults
      <4>1. WorkOf[job.kind].ends \subseteq {"ok"} \cup Faults
        BY <1>3, KindFacts
      <4>2. how \in Faults /\ how \notin {"unnamed", "argument"}
        BY <1>3, <2>1, <2>2, <2>4, <4>1, EndFacts
      <4> QED
        BY <4>2 DEF Faults
    <3>3. Explained(Left(how, "OK"), faults')
      BY <3>1, <3>2, LeftExplained
    <3>4. Explained(status', faults')
      BY <1>2, <2>1, <3>1, <3>2, <3>3, BlamedExplained
    <3> QED
      BY <3>1, <3>4 DEF AtWork
  <2> QED
    BY <2>3, <2>4
<1>17. CASE AppendAgain
  <2>1. Appended \/ \E f \in AppendFaults : AppendFails(f)
    BY <1>17 DEF AppendAgain
  <2> QED
    BY <1>12, <1>13, <2>1
<1> QED
  BY <1>8, <1>9, <1>10, <1>11, <1>14, <1>15, <1>16, <1>17 DEF JobStep

\* The same call with the same job has the same codes.
LEMMA SameCodes ==
  ASSUME UNCHANGED <<call, job>>
  PROVE  /\ \A s : Code(s)' = Code(s)
         /\ \A f : CodesOf(f)' = CodesOf(f)
<1>1. decoding' = decoding /\ op' = op
  BY DEF decoding, op
<1> QED
  BY <1>1 DEF Code, CodesOf

\* A refusal names its own fault.
LEMMA RefuseExplained ==
  ASSUME UNCHANGED <<call, job>>, ~AtWork', NEW r, NEW f, NEW freed, Refuse(r, f, freed),
         r \in CodesOf(f)
  PROVE  CauseInv'
<1>1. pc' = "returned" /\ result' = r /\ f \in faults'
  BY DEF Refuse, Return
<1>2. \A g : CodesOf(g)' = CodesOf(g)
  BY SameCodes
<1>3. result' \in CodesOf(f)'
  BY <1>1, <1>2
<1> QED
  BY <1>1, <1>3 DEF CauseInv

\* Before and after the core: a call goes on, succeeds, or refuses.
LEMMA OutsideKeepsCause ==
  ASSUME CallInv,
         \/ Enter \/ Header \/ Watch \/ Begin \/ Copy \/ Deliver
         \/ Watched \/ RegionRow \/ CallbackRow \/ RowsDone
  PROVE  CauseInv'
<1>1. UNCHANGED <<call, job>> /\ ~AtWork'
  <2>1. pc \notin {"core", "start"} /\ Same /\ UNCHANGED call
    BY DEF Enter, Header, Watch, Begin, Copy, Deliver, DeliverWatched, DeliverImage, DeliverPixels,
           DeliverHdr, DeliverAnimation, DeliverVerdict, DeliverFile, Back, Watched, RegionRow,
           CallbackRow, RowsDone, Quiet
  <2> QED
    BY <2>1 DEF CallInv, Same, AtWork
<1>2. CASE pc' \notin {"core", "returned"}
  BY <1>1, <1>2 DEF CauseInv
<1>3. CASE pc' = "returned" /\ result' = "OK"
  BY <1>1, <1>3 DEF CauseInv
<1>4. CASE \E r, f, freed : Refuse(r, f, freed) /\ r \in CodesOf(f)
  BY <1>1, <1>4, RefuseExplained
<1>5. CASE pc = "header" /\ Return("BAD_DATA", {}) /\ faults' = faults \cup {"bad"}
  <2>1. decoding
    BY <1>5, OpFacts DEF CallInv
  <2>2. "BAD_DATA" \in CodesOf("bad")
    BY <2>1 DEF CodesOf
  <2>3. \A g : CodesOf(g)' = CodesOf(g)
    BY <1>1, SameCodes
  <2>4. pc' = "returned" /\ result' = "BAD_DATA" /\ "bad" \in faults'
    BY <1>5 DEF Return
  <2>5. "BAD_DATA" \in CodesOf("bad")'
    BY <2>2, <2>3
  <2> QED
    BY <1>1, <2>4, <2>5 DEF CauseInv
<1>6. /\ "BAD_ARGUMENT" \in CodesOf("argument") /\ "OUT_OF_MEMORY" \in CodesOf("nomem")
      /\ "LIMIT_EXCEEDED" \in CodesOf("limit") /\ "UNSUPPORTED_FORMAT" \in CodesOf("foreign")
      /\ "CANCELLED" \in CodesOf("stop") /\ \A r \in op.late : r \in CodesOf("late")
  <2>1. "BAD_ARGUMENT" \in CodesOf("argument")
    BY DEF CodesOf
  <2>2. "OUT_OF_MEMORY" \in CodesOf("nomem")
    BY DEF CodesOf
  <2>3. "LIMIT_EXCEEDED" \in CodesOf("limit")
    BY DEF CodesOf
  <2>4. "UNSUPPORTED_FORMAT" \in CodesOf("foreign")
    BY DEF CodesOf
  <2>5. "CANCELLED" \in CodesOf("stop")
    BY DEF CodesOf
  <2>6. CodesOf("late") = op.late
    BY DEF CodesOf
  <2> QED
    BY <2>1, <2>2, <2>3, <2>4, <2>5, <2>6
<1>7. CASE Enter
  <2>1. \/ pc' = IF op.early THEN "header" ELSE IF op.watched THEN "watch" ELSE "begin"
        \/ Refuse("BAD_ARGUMENT", "argument", {}) \/ Refuse("OUT_OF_MEMORY", "nomem", {})
    BY <1>7 DEF Enter
  <2> QED
    BY <1>2, <1>4, <1>6, <2>1
<1>8. CASE Header
  <2>1. call.header \in {"ok", "bad", "limit"} /\ call.limits \in BOOLEAN
    BY DEF CallInv, Calls
  <2>2. CASE ~call.limits
    BY <1>4, <1>6, <1>8, <2>2 DEF Header
  <2>3. CASE call.limits /\ call.header = "bad"
    BY <1>5, <1>8, <2>3 DEF Header
  <2>4. CASE call.limits /\ call.header = "limit"
    BY <1>4, <1>6, <1>8, <2>4 DEF Header
  <2>5. CASE call.limits /\ call.header = "ok" /\ call.form \notin op.takes
    BY <1>4, <1>6, <1>8, <2>5 DEF Header
  <2>6. CASE call.limits /\ call.header = "ok" /\ call.form \in op.takes
    <3>1. \/ Return("OK", {}) \/ pc' = (IF op.watched THEN "watch" ELSE "begin")
          \/ Refuse("BAD_ARGUMENT", "argument", {})
      BY <1>8, <2>6 DEF Header, Continue
    <3>2. Return("OK", {}) => pc' = "returned" /\ result' = "OK"
      BY DEF Return
    <3> QED
      BY <1>2, <1>3, <1>4, <1>6, <3>1, <3>2
  <2> QED
    BY <2>1, <2>2, <2>3, <2>4, <2>5, <2>6
<1>9. CASE Watch
  <2>1. pc' = "begin" \/ Refuse("CANCELLED", "stop", {})
    BY <1>9 DEF Watch, Checkpoint, Continue
  <2> QED
    BY <1>2, <1>4, <1>6, <2>1
<1>10. CASE Begin
  <2>1. pc' \in {"start", "copy"} \/ Refuse("BAD_ARGUMENT", "argument", {Converted})
    BY <1>10 DEF Begin, Continue
  <2> QED
    BY <1>2, <1>4, <1>6, <2>1
<1>11. CASE Deliver
  <2>1. pc' = "watched" \/ (pc' = "returned" /\ result' = "OK") \/ \E freed : Late(freed)
    <3>1. CASE DeliverWatched
      BY <3>1 DEF DeliverWatched, Continue
    <3>2. CASE DeliverImage \/ DeliverPixels \/ DeliverHdr
      BY <3>2 DEF DeliverImage, DeliverPixels, DeliverHdr, HandOver, Return
    <3>3. CASE DeliverAnimation \/ DeliverVerdict \/ DeliverFile
      BY <3>3 DEF DeliverAnimation, DeliverVerdict, DeliverFile, HandOver, Return
    <3> QED
      BY <1>11, <3>1, <3>2, <3>3 DEF Deliver
  <2> QED
    BY <1>2, <1>3, <1>4, <1>6, <2>1 DEF Late
<1>15. CASE Copy
  <2>1. CASE pc' = "start"
    BY <1>2, <2>1
  <2>2. CASE pc' = "returned" /\ result' = "OUT_OF_MEMORY" /\ "nomem" \in faults'
    <3>1. \A g : CodesOf(g)' = CodesOf(g)
      BY <1>1, SameCodes
    <3>2. result' \in CodesOf("nomem")'
      BY <1>6, <2>2, <3>1
    <3> QED
      BY <1>1, <2>2, <3>2 DEF CauseInv
  <2> QED
    BY <1>15, <2>1, <2>2 DEF Copy
<1>12. CASE Watched
  <2>1. \/ pc' = "rows" \/ Refuse("CANCELLED", "stop", image_free)
        \/ \E r \in op.late : Refuse(r, "late", image_free)
    BY <1>12 DEF Watched, Checkpoint, Continue
  <2> QED
    BY <1>2, <1>4, <1>6, <2>1
<1>13. CASE RegionRow \/ CallbackRow
  <2>1. CASE RegionRow
    <3>1. pc' = "rows" \/ Refuse("CANCELLED", "stop", image_free)
      BY <2>1 DEF RegionRow, Checkpoint, Continue
    <3> QED
      BY <1>2, <1>4, <1>6, <3>1
  <2>2. CASE CallbackRow
    <3>1. pc' = "rows" \/ Refuse("CANCELLED", "stop", image_free)
      BY <2>2 DEF CallbackRow, Checkpoint, Continue
    <3> QED
      BY <1>2, <1>4, <1>6, <3>1
  <2> QED
    BY <1>13, <2>1, <2>2
<1>14. CASE RowsDone
  <2>1. pc' = "returned" /\ result' = "OK"
    BY <1>14 DEF RowsDone, HandOver, Return
  <2> QED
    BY <1>3, <2>1
<1> QED
  BY <1>7, <1>8, <1>9, <1>10, <1>11, <1>12, <1>13, <1>14, <1>15

\* The core is started, and what the header says is a fault of the call.
LEMMA StartKeepsCause ==
  ASSUME CallInv, Start
  PROVE  CauseInv'
<1>1. pc = "start" /\ pc' = "core" /\ status = "OK" /\ UNCHANGED call
  BY DEF Start, Quiet, CallInv
<1>2. CASE \E j \in Jobs : j.kind = call.kind /\ Plan(j) /\ UNCHANGED <<status, faults>>
  <2>1. PICK j \in Jobs : j.kind = call.kind /\ Plan(j) /\ UNCHANGED <<status, faults>>
    BY <1>2
  <2>2. job' = j /\ phase' = "run" /\ task' = [i \in 1..j.count |-> "todo"] /\ status' = "OK"
    BY <1>1, <2>1 DEF Plan
  <2>3. call.kind \in KindsOf(call.op, call.form)
    BY DEF CallInv, Calls
  <2>4. job'.kind \in KindsOf(call'.op, call'.form)
    BY <1>1, <2>1, <2>2, <2>3
  <2>5. \A i \in 1..job'.count : task'[i] \notin Faults
    BY <2>2 DEF Faults
  <2> QED
    BY <1>1, <2>2, <2>4, <2>5 DEF CauseInv
<1>3. CASE \E own, f : CoreFails(own, f) /\ Code(own) \in CodesOf(f)
  <2>1. PICK own, f : CoreFails(own, f) /\ Code(own) \in CodesOf(f)
    BY <1>3
  <2>2. phase' = "failed" /\ status' = own /\ f \in faults' /\ job' = job
    BY <2>1 DEF CoreFails
  <2>3. ~AtWork'
    BY <2>2 DEF AtWork
  <2>4. (\A s : Code(s)' = Code(s)) /\ \A g : CodesOf(g)' = CodesOf(g)
    BY <1>1, <2>2, SameCodes
  <2>5. Explained(status, faults)'
    <3>1. Code(own) \in CodesOf(f)'
      BY <2>1, <2>4
    <3>2. Code(status)' = Code(own)
      <4>1. decoding' = decoding
        BY <1>1 DEF decoding
      <4> QED
        BY <2>2, <4>1 DEF Code
    <3> QED
      BY <2>2, <3>1, <3>2 DEF Explained
  <2> QED
    BY <1>1, <2>3, <2>5 DEF CauseInv
<1>4. \/ \E own, f : CoreFails(own, f) /\ Code(own) \in CodesOf(f)
      \/ \E j \in Jobs : j.kind = call.kind /\ Plan(j) /\ UNCHANGED <<status, faults>>
  <2>1. \/ CoreFails("ERROR", "bad") \/ CoreFails("LIMIT_EXCEEDED", "limit")
        \/ CoreFails("UNSUPPORTED_FORMAT", "foreign")
        \/ \E j \in Jobs : j.kind = call.kind /\ Plan(j) /\ UNCHANGED <<status, faults>>
    BY DEF Start
  <2>2. Code("ERROR") \in CodesOf("bad")
    BY DEF Code, CodesOf
  <2>3. Code("LIMIT_EXCEEDED") \in CodesOf("limit")
    BY DEF Code, CodesOf
  <2>4. Code("UNSUPPORTED_FORMAT") \in CodesOf("foreign")
    BY DEF Code, CodesOf
  <2> QED
    BY <2>1, <2>2, <2>3, <2>4
<1> QED
  BY <1>2, <1>3, <1>4

LEMMA CoreKeepsCause ==
  ASSUME JobInv, CallInv, CauseInv, Core
  PROVE  CauseInv'
<1>1. pc = "core" /\ pc' = "core" /\ JobStep /\ UNCHANGED call /\ job' = job
  BY JobStepFacts DEF Core, avars, CallInv
<1>2. /\ status' = "OK" \/ Explained(status', faults')
      /\ phase' = "failed" => Explained(status', faults')
      /\ AtWork' => \A i \in 1..job.count :
           task'[i] \in Faults => task'[i] \in faults' /\ task'[i] \in WorkOf[job.kind].ends
  BY <1>1, JobStepExplained
<1>3. job.kind \in KindsOf(call.op, call.form)
  BY <1>1, JobStepFacts DEF CauseInv, CallInv
<1>4. Explained(status', faults') => Explained(status, faults)'
  <2>1. \A g : CodesOf(g)' = CodesOf(g)
    BY <1>1, SameCodes
  <2>2. Code(status)' = Code(status')
    <3>1. decoding' = decoding
      BY <1>1 DEF decoding
    <3> QED
      BY <3>1 DEF Code
  <2> QED
    BY <2>1, <2>2 DEF Explained
<1> QED
  BY <1>1, <1>2, <1>3, <1>4 DEF CauseInv

LEMMA CoreFailedKeepsCause ==
  ASSUME CallInv, CauseInv, CoreFailed
  PROVE  CauseInv'
<1>1. /\ pc = "core" /\ phase = "failed" /\ Return(Code(status), Unwound)
      /\ UNCHANGED <<call, job, phase, faults>>
  BY DEF CoreFailed, Quiet, Same
<1>2. Explained(status, faults)
  BY <1>1 DEF CauseInv
<1>3. pc' = "returned" /\ result' = Code(status) /\ ~AtWork'
  BY <1>1 DEF Return, AtWork
<1>4. \A g : CodesOf(g)' = CodesOf(g)
  BY <1>1, SameCodes
<1>5. \E f \in faults' : result' \in CodesOf(f)'
  BY <1>1, <1>2, <1>3, <1>4 DEF Explained
<1> QED
  BY <1>3, <1>5 DEF CauseInv

\* What the core makes for the call, or has no memory for.
LEMMA CoreReturnsKeepsCause ==
  ASSUME CallInv, CauseInv, CoreReturns \/ CoreRunsOut
  PROVE  CauseInv'
<1>1. CASE CoreReturns
  BY <1>1 DEF CoreReturns, CauseInv, AtWork
<1>2. CASE CoreRunsOut
  <2>1. /\ pc' = "core" /\ phase' = "failed" /\ status' = "OUT_OF_MEMORY" /\ "nomem" \in faults'
        /\ UNCHANGED <<call, job>>
    BY <1>2 DEF CoreRunsOut, avars
  <2>2. Code("OUT_OF_MEMORY") \in CodesOf("nomem")
    BY DEF Code, CodesOf
  <2>3. (\A g : CodesOf(g)' = CodesOf(g)) /\ decoding' = decoding
    BY <2>1, SameCodes DEF decoding
  <2>4. Code(status)' = Code("OUT_OF_MEMORY")
    BY <2>1, <2>3 DEF Code
  <2>5. Explained(status, faults)'
    BY <2>1, <2>2, <2>3, <2>4 DEF Explained
  <2> QED
    BY <2>1, <2>5 DEF CauseInv, AtWork
<1> QED
  BY <1>1, <1>2

LEMMA ApiKeepsCause == JobInv /\ CallInv /\ CauseInv /\ [ApiNext]_vars => CauseInv'
<1> SUFFICES ASSUME JobInv, CallInv, CauseInv, [ApiNext]_vars
             PROVE  CauseInv'
  OBVIOUS
<1>1. CASE UNCHANGED vars
  <2>1. UNCHANGED <<call, pc, result, job, phase, task, status, faults>>
    BY <1>1 DEF vars, avars, jvars
  <2>2. (\A g : CodesOf(g)' = CodesOf(g)) /\ AtWork' = AtWork
    BY <2>1, SameCodes DEF AtWork
  <2>3. Explained(status, faults) => Explained(status, faults)'
    <3>1. Code(status)' = Code(status)
      BY <2>1 DEF Code, decoding
    <3> QED
      BY <2>1, <2>2, <3>1 DEF Explained
  <2> QED
    BY <2>1, <2>2, <2>3 DEF CauseInv
<1> QED
  BY <1>1, OutsideKeepsCause, StartKeepsCause, CoreKeepsCause, CoreFailedKeepsCause,
     CoreReturnsKeepsCause
  DEF ApiNext

-----------------------------------------------------------------------------
(* Theorems.                                                                *)

\* The invariants of the call and of its parts hold in every state.
THEOREM ApiInvariance == ApiSpec => [](JobInv /\ CallInv /\ CauseInv /\ BufferInv /\ HeldInv)
<1>1. ApiInit => CauseInv /\ BufferInv /\ HeldInv
  <2>1. ApiInit => phase = "none" /\ pc = "enter" /\ buffers = {} /\ held = {} /\ taken = {}
    BY DEF ApiInit
  <2> QED
    BY <2>1 DEF CauseInv, BufferInv, HeldInv, AtWork
<1>2. JobInv /\ CallInv /\ CauseInv /\ BufferInv /\ HeldInv /\ [ApiNext]_vars
        => (JobInv /\ CallInv /\ CauseInv /\ BufferInv /\ HeldInv)'
  BY ApiKeepsJobInv, CallInvIsInductive, ApiKeepsCause, ApiKeepsBuffers, ApiKeepsHeld
<1> QED
  BY <1>1, <1>2, ApiInitHasInv, PTL DEF ApiSpec

\* Whatever is coded with whatever budget, the shares of the parts in work
\* never add up to more threads than the call has: the division of g_threads
\* between the tasks of a batch and the trials of each.
THEOREM ApiKeepsBudget == ApiSpec => []BudgetKept
<1>1. ApiSpec => [](JobInv /\ CallInv /\ CauseInv /\ BufferInv /\ HeldInv)
  BY ApiInvariance
<1>2. JobInv => BudgetKept
  BY InvKeepsBudget
<1> QED
  BY <1>1, <1>2, PTL

\* Bands in work never hold more than half of the rows, unless there is one:
\* tile_band_worker_count.
THEOREM ApiKeepsRows == ApiSpec => []HalfTheRows
<1>1. ApiSpec => [](JobInv /\ CallInv /\ CauseInv /\ BufferInv /\ HeldInv)
  BY ApiInvariance
<1>2. JobInv => HalfTheRows
  BY InvKeepsRows
<1> QED
  BY <1>1, <1>2, PTL

\* When a call has returned, what is still allocated is what its output points
\* to, and nothing if it failed: on each path the frees of the core and of
\* qlic_api.c are those of the buffers that exist there.  It has restored the
\* thread count and has filled the output exactly if it succeeded.
THEOREM ApiLeavesNothing == ApiSpec => []CallLeavesNothing
<1>1. ApiSpec => [](JobInv /\ CallInv /\ CauseInv /\ BufferInv /\ HeldInv)
  BY ApiInvariance
<1>2. CallInv /\ HeldInv => CallLeavesNothing
  BY DEF CallInv, HeldInv, CallLeavesNothing
<1> QED
  BY <1>1, <1>2, PTL

\* A callback that stops the call is obeyed at once, and progress is told step
\* by step: observer_checkpoint and the loops over rows.
THEOREM ApiObeysCancel == ApiSpec => []CancelObeyed
<1>1. ApiSpec => [](JobInv /\ CallInv /\ CauseInv /\ BufferInv /\ HeldInv)
  BY ApiInvariance
<1>2. CallInv => CancelObeyed
  <2> SUFFICES ASSUME CallInv
               PROVE  CancelObeyed
    OBVIOUS
  <2>1. (stopped => pc = "returned") /\ (pc = "returned" => (stopped <=> result = "CANCELLED"))
    BY DEF CallInv
  <2>2. /\ \A n \in 1..Len(seen) : seen[n] = n - 1
        /\ result = "OK" /\ call.observed => Len(seen) = Rows + 2
    BY DEF CallInv, Progress
  <2> QED
    BY <2>1, <2>2 DEF CancelObeyed
<1> QED
  BY <1>1, <1>2, PTL

\* A call fails with the code of a fault of its own: the records the caller
\* reads after the loop, g_status of its thread, and result_code.
THEOREM ApiReportsCause == ApiSpec => []CauseReported
<1>1. ApiSpec => [](JobInv /\ CallInv /\ CauseInv /\ BufferInv /\ HeldInv)
  BY ApiInvariance
<1>2. CauseInv => CauseReported
  BY DEF CauseInv, CauseReported
<1> QED
  BY <1>1, <1>2, PTL
==============================================================================
