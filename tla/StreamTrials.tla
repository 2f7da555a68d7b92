----------------------------- MODULE StreamTrials -----------------------------
(***************************************************************************)
(* How the native stream encoder picks its bytes (codec/src/stream.c).  A  *)
(* first round tries several modes (run_trials), the winner is tried again *)
(* with other adaptation rates (try_improve_trials), and for samples on a  *)
(* coarse grid the result must beat the stream of the compacted samples.   *)
(* One thread runs a trial after the other, each limited to the best size  *)
(* so far; several threads run them together under one limit.              *)
(*                                                                         *)
(* What a trial would produce is its size, 0 if it fails whatever the      *)
(* limit (no memory).  Which trials a picture gets, the transform planes   *)
(* they share and the later refinements are left out.                      *)
(***************************************************************************)
EXTENDS Naturals, Sequences, FiniteSets, FiniteSetsExt

CONSTANTS
  MaxSize,     \* bound on the size of a stream
  SparseLimit, \* size up to which mode 39 is plausible
  MaxTrials,   \* bound on the trials of the first round
  MaxRetries,  \* bound on those of the second
  Modes        \* modes of the trials

ASSUME BoundAssumption ==
  {MaxSize, SparseLimit, MaxTrials, MaxRetries} \subseteq Nat \ {0}
ASSUME ModesAssumption == Modes \subseteq 0..54

SizeMax == MaxSize + 1  \* SIZE_MAX: no limit, no stream
None == MaxTrials + MaxRetries + 1  \* no buffer

VARIABLES
  threads,  \* 1 or more
  trials,   \* first round: mode and size of each
  retries,  \* second round: sizes
  compact,  \* size of the stream of the compacted samples, SizeMax without one
  pc,       \* "trials", "improve", "judge", "done"
  status,   \* of every trial, the retries after the first round
  cutoff,   \* best size so far, of one thread
  best,     \* buffer that leads: index of its trial
  live,     \* buffers allocated, 0 for the compacted stream
  returned  \* buffer returned, None for an error

input == <<threads, trials, retries, compact>>
vars == <<threads, trials, retries, compact, pc, status, cutoff, best, live,
          returned>>

First == 1..Len(trials)
Second == (Len(trials) + 1)..(Len(trials) + Len(retries))

SizeOf(b) ==
  IF b = 0 THEN compact
  ELSE IF b \in First THEN trials[b].size ELSE retries[b - Len(trials)]

Init ==
  /\ threads \in {1, 4}
  /\ trials \in UNION {[1..n -> [mode : Modes, size : 0..MaxSize]] : n \in 1..MaxTrials}
  /\ retries \in UNION {[1..n -> 0..MaxSize] : n \in 0..MaxRetries}
  /\ compact \in 1..SizeMax
  /\ pc = "trials"
  /\ status = [i \in First \cup Second |-> "waiting"]
  /\ cutoff = SizeMax /\ best = None
  /\ live = IF compact = SizeMax THEN {} ELSE {0}
  /\ returned = None

\* Mutant: the encoder is cut at the limit instead of above it.
OutcomeCutEarly(size, limit) ==
  IF size = 0 THEN "failed" ELSE IF size >= limit THEN "cut" ELSE "ok"

\* try_encode_limited: a stream longer than the limit is cut and discarded.
Outcome(size, limit) ==
  IF size = 0 THEN "failed" ELSE IF size > limit THEN "cut" ELSE "ok"

Kept(b, outcome) == IF outcome = "ok" THEN live \cup {b} ELSE live

\* event_order_trial_is_plausible
Plausible == cutoff = SizeMax \/ cutoff <= SparseLimit

-----------------------------------------------------------------------------
(* First round: run_trials.                                                 *)

\* One thread, or a single trial: in order, each limited to the best so far.
\* Mode 39 is skipped unless the best so far is small.
TrialAlone ==
  /\ pc = "trials" /\ (threads = 1 \/ Len(trials) = 1)
  /\ \E i \in First :
       /\ status[i] = "waiting" /\ \A j \in 1..(i - 1) : status[j] # "waiting"
       /\ LET o == IF trials[i].mode = 39 /\ ~Plausible THEN "skipped"
                   ELSE Outcome(trials[i].size, cutoff)
          IN  /\ status' = [status EXCEPT ![i] = o]
              /\ live' = Kept(i, o)
              /\ cutoff' = IF o = "ok" THEN trials[i].size ELSE cutoff
  /\ UNCHANGED <<input, pc, best, returned>>

\* Several threads: in any order, all under the limit of the call.
TrialTogether(i) ==
  /\ pc = "trials" /\ threads > 1 /\ Len(trials) > 1 /\ status[i] = "waiting"
  /\ LET o == Outcome(trials[i].size, compact)
     IN  status' = [status EXCEPT ![i] = o] /\ live' = Kept(i, o)
  /\ UNCHANGED <<input, pc, cutoff, best, returned>>

Succeeded == {i \in First : status[i] = "ok"}
Smallest(S) == Min({i \in S : \A j \in S : SizeOf(i) <= SizeOf(j)})

\* The winner: the first of the smallest, or another of its size of mode 42.
Pick ==
  /\ pc = "trials" /\ \A i \in First : status[i] # "waiting"
  /\ IF Succeeded = {} THEN pc' = "judge" /\ UNCHANGED best
     ELSE LET b == Smallest(Succeeded)
              tied == {i \in Succeeded \ {b} :
                         trials[i].mode = 42 /\ SizeOf(i) = SizeOf(b)}
          IN  pc' = "improve" /\ best' = IF tied = {} THEN b ELSE Min(tied)
  /\ UNCHANGED <<input, status, cutoff, live, returned>>

-----------------------------------------------------------------------------
(* Second round: try_improve_trials.                                        *)

\* try_improve, one after the other: a smaller stream replaces the best.
RetryAlone ==
  /\ pc = "improve" /\ (threads = 1 \/ Len(retries) = 1)
  /\ \E i \in Second :
       /\ status[i] = "waiting"
       /\ \A j \in Second : j < i => status[j] # "waiting"
       /\ LET o == Outcome(SizeOf(i), SizeOf(best))
              won == o = "ok" /\ SizeOf(i) < SizeOf(best)
          IN  /\ status' = [status EXCEPT ![i] = o]
              /\ best' = IF won THEN i ELSE best
              /\ live' = IF won THEN (live \ {best}) \cup {i} ELSE live
  /\ UNCHANGED <<input, pc, cutoff, returned>>

RetryTogether(i) ==
  /\ pc = "improve" /\ threads > 1 /\ Len(retries) > 1 /\ status[i] = "waiting"
  /\ LET o == Outcome(SizeOf(i), SizeOf(best))
     IN  status' = [status EXCEPT ![i] = o] /\ live' = Kept(i, o)
  /\ UNCHANGED <<input, pc, cutoff, best, returned>>

\* Mutant: the last of the smallest retries wins.
AcceptedLast(S) ==
  LET better == {i \in S : SizeOf(i) < SizeOf(best)}
  IN  IF better = {} THEN best
      ELSE Max({i \in better : \A j \in better : SizeOf(i) <= SizeOf(j)})

\* Retries are taken over in order, each if smaller than the best.
Accepted(S) ==
  LET better == {i \in S : SizeOf(i) < SizeOf(best)}
  IN  IF better = {} THEN best ELSE Smallest(better)

\* Mutant: the retries that are not smaller are not freed.
CloseLeaking ==
  /\ pc = "improve" /\ \A i \in Second : status[i] # "waiting"
  /\ best' = Accepted(live \cap Second)
  /\ live' = live \ (First \ {best'})
  /\ pc' = "judge"
  /\ UNCHANGED <<input, status, cutoff, returned>>

\* End of try_improve_trials and of stream_encode_strided_base: the results
\* of several threads are compared, and all buffers but the best are freed.
Close ==
  /\ pc = "improve" /\ \A i \in Second : status[i] # "waiting"
  /\ best' = Accepted(live \cap Second)
  /\ live' = live \ ((First \cup Second) \ {best'})
  /\ pc' = "judge"
  /\ UNCHANGED <<input, status, cutoff, returned>>

\* stream_encode_strided_threads: the original must beat the compacted stream.
\* A first trial that was cut or skipped counts as one that lost, one that
\* failed as an error.
Judge ==
  /\ pc = "judge"
  /\ returned' = IF best = None
                 THEN IF status[1] = "failed" \/ compact = SizeMax THEN None ELSE 0
                 ELSE IF SizeOf(best) < compact THEN best ELSE 0
  /\ live' = live \ ({0, best} \ {returned'})
  /\ pc' = "done"
  /\ UNCHANGED <<input, status, cutoff, best>>

Next ==
  \/ TrialAlone \/ Pick \/ RetryAlone \/ Close \/ Judge
  \/ \E i \in First : TrialTogether(i)
  \/ \E i \in Second : RetryTogether(i)

Spec == Init /\ [][Next]_vars

-----------------------------------------------------------------------------
Outcomes == {"waiting", "skipped", "failed", "cut", "ok"}

\* stream.c:7901: "the limit lets a candidate stop as soon as it cannot beat
\* the current best".  No stream that was cut by a limit is smaller than the
\* one returned, or as small.
CutsLoseNothing ==
  (pc = "done" /\ returned # None) =>
    \A i \in First \cup Second : status[i] = "cut" => SizeOf(i) > SizeOf(returned)

\* The returned stream is the only buffer left, and it is a completed one and
\* the smallest of those: no retry, tie or comparison keeps a larger stream,
\* loses one, or returns one that is freed.
OneStreamLeft ==
  pc = "done" =>
    /\ live = IF returned = None THEN {} ELSE {returned}
    /\ returned # None =>
         \A i \in First \cup Second : status[i] = "ok" => SizeOf(returned) <= SizeOf(i)

\* What one thread returns: the trials it completes, the first smallest of
\* them or a tie of mode 42, a retry that is smaller.
OneThread ==
  LET run[n \in 0..Len(trials)] ==
        IF n = 0 THEN [best |-> SizeMax, ok |-> {}]
        ELSE IF \/ trials[n].size \notin 1..run[n - 1].best
                \/ trials[n].mode = 39 /\ run[n - 1].best \in (SparseLimit + 1)..MaxSize
             THEN run[n - 1]
             ELSE [best |-> trials[n].size, ok |-> run[n - 1].ok \cup {n}]
      tried == run[Len(trials)].ok
      first == Smallest(tried)
      tied == {i \in tried \ {first} :
                 trials[i].mode = 42 /\ SizeOf(i) = SizeOf(first)}
      lead == IF tied = {} THEN first ELSE Min(tied)
      better == {i \in Second : SizeOf(i) \in 1..(SizeOf(lead) - 1)}
      won == IF better = {} THEN lead ELSE Smallest(better)
  IN  IF tried = {} THEN None ELSE IF SizeOf(won) < compact THEN won ELSE 0

\* The number of threads, and the order in which they finish, never change the
\* stream that try_improve_trials and the choice of the winner select, as long
\* as run_trials gave all trials the same chance.
ThreadsAgree ==
  (pc = "done" /\ compact = SizeMax /\ \A i \in First : trials[i].mode # 39) =>
    returned = OneThread

\* tests/api_test.c:231-247 encodes with one and with all threads and compares
\* ("deterministic output").  For the stream encoder by itself, without any
\* failure or compacted stream: what is returned is what one thread returns.
ThreadCountKeepsBytes ==
  (pc = "done" /\ compact = SizeMax /\ \A i \in First \cup Second : SizeOf(i) > 0) =>
    returned = OneThread
=============================================================================
