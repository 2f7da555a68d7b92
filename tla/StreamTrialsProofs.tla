-------------------------- MODULE StreamTrialsProofs --------------------------
(***************************************************************************)
(* What StreamTrials returns, for any number of trials and retries, any    *)
(* sizes and any modes: the best stream, whatever was cut                  *)
(* (NothingBetterCut, OneBufferLeft), and the same one for every number of *)
(* threads (SameStream).                                                   *)
(*                                                                         *)
(* The first two rest on Inv, which says of each phase who leads: the      *)
(* leader is a completed trial, none that completed is smaller, and one    *)
(* that was cut was larger.  The third adds Agreed, which says who leads   *)
(* in terms of the sizes alone: the first of the smallest usable trials,   *)
(* or a tie of mode 42, and then the first of the smallest retries below   *)
(* it.  What one thread would return is a recursive function of the sizes; *)
(* it keeps all trials of the least size (LeadersTried), so it picks the   *)
(* same.                                                                   *)
(***************************************************************************)
EXTENDS StreamTrials, SequenceTheorems, WellFoundedInduction, TLAPS

All == First \cup Second
Sizes == [b \in All \cup {0} |-> SizeOf(b)]
Alone == threads = 1 \/ Len(trials) = 1
AloneAgain == threads = 1 \/ Len(retries) = 1
Compacted == IF compact = SizeMax THEN {} ELSE {0}

Inputs ==
  /\ threads \in {1, 4}
  /\ trials \in Seq([mode : Modes, size : 0..MaxSize])
  /\ Len(trials) \in 1..MaxTrials
  /\ retries \in Seq(0..MaxSize)
  /\ Len(retries) \in 0..MaxRetries
  /\ compact \in 1..SizeMax

Typed ==
  /\ Inputs
  /\ pc \in {"trials", "improve", "judge", "done"}
  /\ status \in [All -> Outcomes]
  /\ cutoff \in 1..SizeMax
  /\ best \in All \cup {None}
  /\ live \subseteq All \cup {0}
  /\ returned \in All \cup {0, None}

\* A status says what the size allows: a failure is a size 0, and only a trial
\* of mode 39 is skipped.
Truthful ==
  \A i \in All :
    /\ status[i] \in {"ok", "cut"} => Sizes[i] > 0
    /\ status[i] = "failed" => Sizes[i] = 0
    /\ status[i] = "skipped" => i \in First /\ trials[i].mode = 39

\* b completed, no member of S that completed is smaller, and those that were
\* cut are larger.
Leads(b, S) ==
  /\ b \in All /\ status[b] = "ok"
  /\ \A i \in S : /\ status[i] = "ok" => Sizes[b] <= Sizes[i]
                  /\ status[i] = "cut" => Sizes[b] < Sizes[i]

InTrials ==
  pc = "trials" =>
    /\ best = None /\ returned = None
    /\ live = Compacted \cup Succeeded
    /\ \A i \in Second : status[i] = "waiting"
    /\ (Alone /\ Succeeded = {}) =>
         cutoff = SizeMax /\ \A i \in First : status[i] # "cut"
    /\ (Alone /\ Succeeded # {}) =>
         \E b \in Succeeded : cutoff = Sizes[b] /\ Leads(b, First)
    /\ ~Alone =>
         \A i \in First : /\ status[i] = "cut" => Sizes[i] > compact
                          /\ status[i] = "ok" => Sizes[i] <= compact

InImprove ==
  pc = "improve" =>
    /\ returned = None
    /\ Leads(best, First) /\ best \in live
    /\ Compacted \subseteq live /\ live \subseteq Compacted \cup All
    /\ \A i \in Second : status[i] = "cut" => Sizes[best] < Sizes[i]
    /\ AloneAgain =>
         /\ \A i \in Second : status[i] = "ok" => Sizes[best] <= Sizes[i]
         /\ live \cap Second \subseteq {best}
         /\ \A i, j \in Second :
              i < j /\ status[i] = "waiting" => status[j] = "waiting"
    /\ ~AloneAgain =>
         /\ best \in First
         /\ live \cap Second = {i \in Second : status[i] = "ok"}

InJudge ==
  pc = "judge" =>
    \/ /\ best = None /\ Succeeded = {} /\ live = Compacted
       /\ \A i \in Second : status[i] = "waiting"
       /\ \A i \in First : status[i] = "cut" => Sizes[i] > compact
    \/ Leads(best, All) /\ live = Compacted \cup {best}

InDone ==
  pc = "done" =>
    /\ live = IF returned = None THEN {} ELSE {returned}
    /\ returned # None =>
         \A i \in All :
           /\ status[i] = "ok" => Sizes[returned] <= Sizes[i]
           /\ status[i] = "cut" => Sizes[returned] < Sizes[i]

Inv == Typed /\ Truthful /\ InTrials /\ InImprove /\ InJudge /\ InDone

-----------------------------------------------------------------------------
(* Who leads, said of the sizes alone.                                      *)

Fair == compact = SizeMax /\ \A i \in First : trials[i].mode # 39

Usable == {i \in First : trials[i].size > 0}
Leaders == {i \in Usable : \A j \in Usable : trials[i].size <= trials[j].size}

\* What Pick and OneThread choose from the trials S.
Winner(S) ==
  LET b == Smallest(S)
      tied == {i \in S \ {b} : trials[i].mode = 42 /\ SizeOf(i) = SizeOf(b)}
  IN  IF tied = {} THEN b ELSE Min(tied)

Lead == Winner(Usable)
Better == {i \in Second : Sizes[i] > 0 /\ Sizes[i] < Sizes[Lead]}

\* b leads once the retries S have been compared: the first of the smallest of
\* those that are better, or still the first round's lead.
LeadsAfter(b, S) ==
  \/ b = Lead /\ Better \cap S = {}
  \/ /\ b \in Better \cap S
     /\ \A j \in Better \cap S :
          Sizes[b] < Sizes[j] \/ (Sizes[b] = Sizes[j] /\ b <= j)

Processed == {i \in Second : status[i] # "waiting"}

AgreedImprove ==
  pc = "improve" =>
    /\ Usable # {}
    /\ AloneAgain => LeadsAfter(best, Processed)
    /\ ~AloneAgain =>
         /\ best = Lead
         /\ \A i \in Processed :
              status[i] = "ok" <=> Sizes[i] \in 1..Sizes[Lead]

AgreedJudge ==
  pc = "judge" =>
    IF Usable = {} THEN best = None ELSE LeadsAfter(best, Second)

AgreedDone ==
  pc = "done" =>
    IF Usable = {} THEN returned = None ELSE LeadsAfter(returned, Second)

Agreed == Fair => AgreedImprove /\ AgreedJudge /\ AgreedDone

-----------------------------------------------------------------------------
(* The least of a set of sizes, and the first of the least.                 *)

\* The minimum of a set of natural numbers is the least member.
LEMMA MinIs ==
  ASSUME NEW S \in SUBSET Nat, S # {}
  PROVE  Min(S) \in S /\ \A y \in S : Min(S) <= y
<1>1. PICK m \in S : \A y \in S : ~(y < m)
  <2>1. IsWellFoundedOn(OpToRel(<, Nat), Nat)
    BY NatLessThanWellFounded
  <2>2. \E x \in S : \A y \in S : ~(<<y, x>> \in OpToRel(<, Nat))
    BY <2>1, WFMin
  <2> QED
    BY <2>2 DEF OpToRel
<1>2. m \in S /\ \A y \in S : m =< y
  BY <1>1
<1> QED
  BY <1>2 DEF Min

\* What holds of 0, and of the successor of each number it holds of, holds of
\* every number.
LEMMA Induction ==
  ASSUME NEW S \in SUBSET Nat, 0 \in S, \A n \in S : n + 1 \in S
  PROVE  S = Nat
<1> SUFFICES ASSUME Nat \ S # {} PROVE FALSE
  OBVIOUS
<1> DEFINE m == Min(Nat \ S)
<1>1. m \in Nat \ S /\ \A y \in Nat \ S : m <= y
  BY MinIs
<1>2. m # 0 /\ m - 1 \in Nat /\ m - 1 < m
  BY <1>1
<1>3. m - 1 \in S
  BY <1>1, <1>2
<1>4. (m - 1) + 1 = m
  BY <1>1
<1> QED
  BY <1>1, <1>3, <1>4

\* Indices and sizes are numbers; the size of a trial is at most MaxSize.
LEMMA SizesAreNat ==
  ASSUME Inputs
  PROVE  /\ MaxSize \in Nat /\ SizeMax \in Nat /\ MaxSize < SizeMax
         /\ SizeOf(0) = compact /\ compact \in Nat
         /\ None \in Nat /\ None \notin All /\ None # 0 /\ 0 \notin All
         /\ First \cap Second = {}
         /\ \A i \in All : i \in Nat /\ SizeOf(i) \in 0..MaxSize /\ SizeOf(i) \in Nat
         /\ \A i \in First : SizeOf(i) = trials[i].size
<1> DEFINE nt == Len(trials)
           nr == Len(retries)
<1>1. /\ MaxSize \in Nat /\ MaxTrials \in Nat /\ MaxRetries \in Nat
      /\ nt \in 1..MaxTrials /\ nr \in 0..MaxRetries /\ compact \in 1..(MaxSize + 1)
  BY BoundAssumption DEF Inputs, SizeMax
<1>2. \A i \in 1..nt : trials[i] \in [mode : Modes, size : 0..MaxSize]
  BY ElementOfSeq DEF Inputs
<1>3. \A i \in 1..nt : trials[i].size \in 0..MaxSize
  BY <1>2
<1>4. \A i \in 1..nr : retries[i] \in 0..MaxSize
  BY ElementOfSeq DEF Inputs
<1>5. First = 1..nt /\ Second = (nt + 1)..(nt + nr) /\ All = First \cup Second
  BY DEF First, Second, All
<1>6. /\ SizeOf(0) = compact
      /\ \A i \in First : SizeOf(i) = trials[i].size
      /\ \A i \in Second : SizeOf(i) = retries[i - nt]
  <2> HIDE DEF nt, nr
  <2> QED
    BY <1>1, <1>5 DEF SizeOf, nt
<1> HIDE DEF nt, nr
<1>7. \A i \in All : i \in Nat /\ SizeOf(i) \in 0..MaxSize
  <2>1. \A i \in Second : i - nt \in 1..nr
    BY <1>1, <1>5
  <2> QED
    BY <1>1, <1>3, <1>4, <1>5, <1>6, <2>1
<1>8. \A i \in All : SizeOf(i) \in Nat
  BY <1>1, <1>7
<1>9. None \in Nat /\ None \notin All /\ None # 0 /\ 0 \notin All /\ First \cap Second = {}
  BY <1>1, <1>5 DEF None
<1>10. SizeMax \in Nat /\ MaxSize < SizeMax /\ compact \in Nat
  BY <1>1 DEF SizeMax
<1> QED
  BY <1>1, <1>6, <1>7, <1>8, <1>9, <1>10

\* The smallest of some trials is one of them, none of them is smaller, and
\* it comes before the others of its size.
LEMMA SmallestIs ==
  ASSUME Inputs, NEW S \in SUBSET All, S # {}
  PROVE  /\ Smallest(S) \in S
         /\ \A j \in S : SizeOf(Smallest(S)) <= SizeOf(j)
         /\ \A j \in S : SizeOf(j) = SizeOf(Smallest(S)) => Smallest(S) <= j
<1> DEFINE sizes == {SizeOf(i) : i \in S}
           least == {i \in S : \A j \in S : SizeOf(i) <= SizeOf(j)}
<1>1. \A i \in S : SizeOf(i) \in Nat /\ i \in Nat
  BY SizesAreNat
<1>2. sizes \in SUBSET Nat /\ sizes # {}
  BY <1>1
<1>3. Min(sizes) \in sizes /\ \A y \in sizes : Min(sizes) <= y
  BY <1>2, MinIs
<1>4. least # {} /\ least \in SUBSET Nat
  <2>1. \E i \in S : SizeOf(i) = Min(sizes)
    BY <1>3
  <2> QED
    BY <1>1, <1>3, <2>1
<1>5. Min(least) \in least /\ \A y \in least : Min(least) <= y
  BY <1>4, MinIs
<1>6. \A j \in S : SizeOf(j) = SizeOf(Min(least)) => j \in least
  BY <1>5
<1> QED
  BY <1>5, <1>6 DEF Smallest

LEMMA SizesTyped ==
  ASSUME Inputs
  PROVE  /\ Sizes \in [All \cup {0} -> Nat] /\ Sizes[0] = compact
         /\ \A i \in All \cup {0} : Sizes[i] = SizeOf(i)
         /\ \A i \in All : Sizes[i] \in 0..MaxSize
         /\ \A i \in First : Sizes[i] = trials[i].size
  BY SizesAreNat DEF Sizes, All

\* The winner of a round is one of its smallest trials.
LEMMA WinnerIs ==
  ASSUME Inputs, NEW S \in SUBSET First, S # {}
  PROVE  /\ Winner(S) \in S
         /\ \A j \in S : Sizes[Winner(S)] <= Sizes[j]
<1> DEFINE b == Smallest(S)
           tied == {i \in S \ {b} : trials[i].mode = 42 /\ SizeOf(i) = SizeOf(b)}
<1>1. /\ b \in S /\ \A j \in S : SizeOf(b) <= SizeOf(j)
      /\ S \subseteq All /\ S \subseteq Nat
  BY SmallestIs, SizesAreNat DEF All
<1>2. \A j \in S : Sizes[j] = SizeOf(j)
  BY <1>1, SizesTyped
<1>3. CASE tied = {}
  BY <1>1, <1>2, <1>3 DEF Winner
<1>4. CASE tied # {}
  <2>1. Min(tied) \in tied
    BY <1>1, <1>4, MinIs
  <2>2. Winner(S) = Min(tied)
    BY <1>4 DEF Winner
  <2> QED
    BY <1>1, <1>2, <2>1, <2>2, ZenonT(40)
<1> QED
  BY <1>3, <1>4

-----------------------------------------------------------------------------
(* Inv is an invariant.                                                     *)

\* More than one is not one.
LEMMA Several ==
  ASSUME Inputs
  PROVE  /\ threads > 1 => threads # 1
         /\ Len(trials) > 1 => Len(trials) # 1
         /\ Len(retries) > 1 => Len(retries) # 1
<1>1. Len(trials) \in Nat /\ Len(retries) \in Nat
  BY LenProperties DEF Inputs
<1>2. threads \in {1, 4}
  BY DEF Inputs
<1>3. \A n \in Nat : n > 1 => n # 1
  OBVIOUS
<1> QED
  BY <1>1, <1>2, <1>3

\* The input never changes, nor does what is defined by it.
LEMMA SameInput ==
  ASSUME Inputs, UNCHANGED input
  PROVE  /\ Inputs' /\ First' = First /\ Second' = Second /\ All' = All
         /\ Sizes' = Sizes /\ Compacted' = Compacted
         /\ threads' = threads /\ trials' = trials
         /\ retries' = retries /\ compact' = compact
<1>1. threads' = threads /\ trials' = trials /\ retries' = retries /\ compact' = compact
  BY DEF input
<1>2. First' = First /\ Second' = Second /\ Compacted' = Compacted
  BY <1>1 DEF First, Second, Compacted
<1>3. All' = All
  BY <1>2 DEF All
<1>4. Sizes' = Sizes
  BY <1>1, <1>2, <1>3 DEF Sizes, SizeOf
<1>5. Inputs'
  BY <1>1 DEF Inputs
<1> QED
  BY <1>1, <1>2, <1>3, <1>4, <1>5

\* A function on 1..n is a sequence of n elements.
LEMMA SequenceOf ==
  ASSUME NEW D, NEW n \in Nat, NEW s \in [1..n -> D]
  PROVE  s \in Seq(D) /\ Len(s) = n
<1>1. s \in Seq(D)
  BY SeqDef
<1>2. Len(s) \in Nat /\ 1..Len(s) = 1..n
  BY <1>1, LenProperties
<1>3. \A k, l \in Nat : 1..k = 1..l => k = l
  <2> SUFFICES ASSUME NEW k \in Nat, NEW l \in Nat, 1..k = 1..l, k # l PROVE FALSE
    OBVIOUS
  <2>1. CASE k > l
    <3>1. k \in 1..k /\ k \notin 1..l
      BY <2>1
    <3> QED
      BY <3>1
  <2>2. CASE l > k
    <3>1. l \in 1..l /\ l \notin 1..k
      BY <2>2
    <3> QED
      BY <3>1
  <2> QED
    BY <2>1, <2>2
<1> QED
  BY <1>1, <1>2, <1>3

LEMMA InitKeeps ==
  ASSUME Init
  PROVE  Inv
<1>1. Inputs
  <2>1. PICK n \in 1..MaxTrials : trials \in [1..n -> [mode : Modes, size : 0..MaxSize]]
    BY DEF Init
  <2>2. PICK m \in 0..MaxRetries : retries \in [1..m -> 0..MaxSize]
    BY DEF Init
  <2>3. n \in Nat /\ m \in Nat
    BY BoundAssumption
  <2>4. trials \in Seq([mode : Modes, size : 0..MaxSize]) /\ Len(trials) = n
    <3> DEFINE D == [mode : Modes, size : 0..MaxSize]
    <3> HIDE DEF D
    <3>1. trials \in Seq(D) /\ Len(trials) = n
      BY <2>1, <2>3, SequenceOf DEF D
    <3> QED
      BY <3>1 DEF D
  <2>5. retries \in Seq(0..MaxSize) /\ Len(retries) = m
    BY <2>2, <2>3, SequenceOf
  <2> QED
    BY <2>1, <2>2, <2>4, <2>5 DEF Init, Inputs
<1>2. /\ pc = "trials" /\ cutoff = SizeMax /\ best = None /\ returned = None
      /\ status = [i \in All |-> "waiting"] /\ live = Compacted
  BY DEF Init, All, Compacted
<1>3. Typed
  BY <1>1, <1>2, SizesAreNat DEF Typed, Outcomes, Compacted
<1>4. Truthful /\ InTrials
  <2>1. \A i \in First \cup Second : status[i] = "waiting"
    BY <1>2 DEF All
  <2>2. Succeeded = {}
    BY <2>1 DEF Succeeded
  <2> QED
    BY <1>2, <2>1, <2>2 DEF Truthful, InTrials, All
<1>5. InImprove /\ InJudge /\ InDone
  BY <1>2 DEF InImprove, InJudge, InDone
<1> QED
  BY <1>3, <1>4, <1>5 DEF Inv

\* What a trial reports, by its size and its limit.
LEMMA OutcomeIs ==
  ASSUME NEW size \in Nat, NEW limit \in Nat
  PROVE  /\ Outcome(size, limit) \in {"failed", "cut", "ok"}
         /\ Outcome(size, limit) = "failed" <=> size = 0
         /\ Outcome(size, limit) = "ok" <=> size > 0 /\ size <= limit
         /\ Outcome(size, limit) = "cut" <=> size > limit
  BY DEF Outcome

LEMMA TrialAloneKeeps ==
  ASSUME Inv, TrialAlone
  PROVE  Inv'
<1> USE SameInput, SizesTyped
<1>1. Inputs /\ Typed /\ Truthful /\ InTrials
  BY DEF Inv, Typed
<1>2. UNCHANGED input
  BY DEF TrialAlone
<1>3. PICK i \in First :
        /\ status[i] = "waiting"
        /\ LET o == IF trials[i].mode = 39 /\ ~Plausible THEN "skipped"
                    ELSE Outcome(trials[i].size, cutoff)
           IN  /\ status' = [status EXCEPT ![i] = o]
               /\ live' = Kept(i, o)
               /\ cutoff' = IF o = "ok" THEN trials[i].size ELSE cutoff
  BY DEF TrialAlone
<1> DEFINE o == IF trials[i].mode = 39 /\ ~Plausible THEN "skipped"
                ELSE Outcome(trials[i].size, cutoff)
<1>4. /\ status' = [status EXCEPT ![i] = o]
      /\ live' = IF o = "ok" THEN live \cup {i} ELSE live
      /\ cutoff' = IF o = "ok" THEN trials[i].size ELSE cutoff
  BY <1>3 DEF Kept
<1>5. /\ pc = "trials" /\ pc' = "trials" /\ best' = best /\ returned' = returned
      /\ (threads = 1 \/ Len(trials) = 1)
  BY DEF TrialAlone
<1>6. /\ Sizes \in [All \cup {0} -> Nat] /\ Sizes[i] = trials[i].size
      /\ Sizes[i] \in 0..MaxSize /\ cutoff \in 1..SizeMax /\ i \in All
      /\ MaxSize \in Nat /\ SizeMax \in Nat /\ MaxSize < SizeMax
  BY <1>1, <1>3, SizesAreNat DEF Typed, All
<1>7. /\ o \in {"skipped", "failed", "cut", "ok"}
      /\ o = "failed" => Sizes[i] = 0
      /\ o = "ok" => Sizes[i] > 0 /\ Sizes[i] <= cutoff
      /\ o = "cut" => Sizes[i] > cutoff
      /\ o = "skipped" => trials[i].mode = 39
  BY <1>6, OutcomeIs
<1> HIDE DEF o
<1>8. /\ First' = First /\ Second' = Second /\ All' = All /\ Sizes' = Sizes
      /\ Compacted' = Compacted /\ trials' = trials /\ Inputs' /\ threads' = threads
      /\ compact' = compact
  BY <1>1, <1>2
<1>9. Typed'
  BY <1>1, <1>3, <1>4, <1>5, <1>6, <1>7, <1>8 DEF Typed, Outcomes
<1>10. \A j \in All : status'[j] = IF j = i THEN o ELSE status[j]
  BY <1>1, <1>4 DEF Typed
<1>11. Truthful'
  BY <1>1, <1>3, <1>6, <1>7, <1>8, <1>10 DEF Truthful
<1>12. Succeeded' = IF o = "ok" THEN Succeeded \cup {i} ELSE Succeeded
  BY <1>3, <1>8, <1>10 DEF Succeeded, All
<1>13. InTrials'
  <2>1. /\ best' = None /\ returned' = None /\ live' = Compacted' \cup Succeeded'
        /\ \A j \in Second' : status'[j] = "waiting"
    BY <1>1, <1>3, <1>4, <1>5, <1>8, <1>10, <1>12, SizesAreNat DEF InTrials, All
  <2>2. CASE Succeeded = {}
    <3>1. cutoff = SizeMax /\ \A j \in First : status[j] # "cut"
      BY <1>1, <1>5, <2>2 DEF InTrials, Alone
    <3>2. o # "cut"
      BY <1>6, <1>7, <3>1
    <3>3. \A j \in First : status'[j] # "cut"
      BY <1>10, <3>1, <3>2 DEF All
    <3>4. CASE o = "ok"
      <4>1. Succeeded' = {i} /\ cutoff' = Sizes[i] /\ status'[i] = "ok"
        BY <1>4, <1>6, <1>10, <1>12, <2>2, <3>4
      <4>2. \A j \in First : status'[j] = "ok" => j = i
        BY <1>8, <4>1 DEF Succeeded
      <4>3. Leads(i, First)'
        BY <1>6, <1>8, <3>3, <4>1, <4>2 DEF Leads
      <4> QED
        BY <1>5, <1>8, <2>1, <4>1, <4>3 DEF InTrials, Alone
    <3>5. CASE o # "ok"
      BY <1>4, <1>5, <1>8, <1>12, <2>1, <2>2, <3>1, <3>3, <3>5 DEF InTrials, Alone
    <3> QED
      BY <3>4, <3>5
  <2>3. CASE Succeeded # {}
    <3>1. PICK b \in Succeeded : cutoff = Sizes[b] /\ Leads(b, First)
      BY <1>1, <1>5, <2>3 DEF InTrials, Alone
    <3>2. b \in First /\ b \in All /\ b # i /\ status'[b] = "ok"
      BY <1>3, <1>10, <3>1 DEF Succeeded, All
    <3>3. \A j \in First : j \in All /\ Sizes[j] \in Nat
      BY <1>6 DEF All
    <3>4. CASE o = "ok"
      <4>1. Leads(i, First)'
        BY <1>6, <1>7, <1>8, <1>10, <3>1, <3>2, <3>3, <3>4 DEF Leads
      <4> QED
        BY <1>4, <1>5, <1>6, <1>8, <1>12, <2>1, <3>4, <4>1 DEF InTrials, Alone
    <3>5. CASE o # "ok"
      <4>1. Leads(b, First)'
        BY <1>6, <1>7, <1>8, <1>10, <3>1, <3>2, <3>3, <3>5 DEF Leads
      <4> QED
        BY <1>4, <1>5, <1>8, <1>12, <2>1, <3>1, <3>5, <4>1 DEF InTrials, Alone
    <3> QED
      BY <3>4, <3>5
  <2> QED
    BY <2>2, <2>3
<1> QED
  BY <1>5, <1>9, <1>11, <1>13
     DEF Inv, InImprove, InJudge, InDone

LEMMA TrialTogetherKeeps ==
  ASSUME Inv, NEW i \in First, TrialTogether(i)
  PROVE  Inv'
<1> USE SameInput, SizesTyped
<1> DEFINE o == Outcome(trials[i].size, compact)
<1>1. Inputs /\ Typed /\ Truthful /\ InTrials /\ UNCHANGED input
  BY DEF Inv, Typed, TrialTogether
<1>2. /\ status' = [status EXCEPT ![i] = o] /\ status[i] = "waiting"
      /\ live' = IF o = "ok" THEN live \cup {i} ELSE live
      /\ pc = "trials" /\ pc' = "trials" /\ best' = best /\ returned' = returned
      /\ cutoff' = cutoff /\ threads > 1 /\ Len(trials) > 1
  BY DEF TrialTogether, Kept
<1>3. /\ Sizes \in [All \cup {0} -> Nat] /\ Sizes[i] = trials[i].size
      /\ compact \in Nat /\ i \in All
  BY <1>1, SizesAreNat DEF Typed, All
<1>4. /\ o \in {"failed", "cut", "ok"}
      /\ o = "failed" => Sizes[i] = 0
      /\ o = "ok" => Sizes[i] > 0 /\ Sizes[i] <= compact
      /\ o = "cut" => Sizes[i] > compact
  BY <1>3, OutcomeIs
<1> HIDE DEF o
<1>5. /\ First' = First /\ Second' = Second /\ All' = All /\ Sizes' = Sizes
      /\ Compacted' = Compacted /\ trials' = trials /\ Inputs' /\ threads' = threads
      /\ compact' = compact
  BY <1>1
<1>6. Typed'
  BY <1>1, <1>2, <1>3, <1>4, <1>5 DEF Typed, Outcomes
<1>7. \A j \in All : status'[j] = IF j = i THEN o ELSE status[j]
  BY <1>1, <1>2 DEF Typed
<1>8. Truthful'
  BY <1>1, <1>2, <1>3, <1>4, <1>5, <1>7 DEF Truthful
<1>9. Succeeded' = IF o = "ok" THEN Succeeded \cup {i} ELSE Succeeded
  BY <1>2, <1>5, <1>7 DEF Succeeded, All
<1>11. threads # 1 /\ Len(trials) # 1
  BY <1>1, <1>2, Several
<1>10. InTrials'
  <2>1. /\ best' = None /\ returned' = None /\ live' = Compacted' \cup Succeeded'
        /\ \A j \in Second' : status'[j] = "waiting"
    BY <1>1, <1>2, <1>5, <1>7, <1>9, SizesAreNat DEF InTrials, All
  <2>2. \A j \in First : /\ status'[j] = "cut" => Sizes[j] > compact
                         /\ status'[j] = "ok" => Sizes[j] <= compact
    BY <1>1, <1>2, <1>3, <1>4, <1>7, <1>11 DEF InTrials, Alone, All
  <2>3. ~ Alone'
    BY <1>5, <1>11 DEF Alone
  <2> QED
    BY <1>5, <2>1, <2>2, <2>3 DEF InTrials
<1> QED
  BY <1>2, <1>6, <1>8, <1>10
     DEF Inv, InImprove, InJudge, InDone

LEMMA PickKeeps ==
  ASSUME Inv, Pick
  PROVE  Inv'
<1> USE SameInput, SizesTyped
<1>1. /\ Inputs /\ Typed /\ Truthful /\ InTrials /\ UNCHANGED input
      /\ pc = "trials" /\ status' = status /\ live' = live /\ returned' = returned
      /\ cutoff' = cutoff
  BY DEF Inv, Typed, Pick
<1>2. /\ First' = First /\ Second' = Second /\ All' = All /\ Sizes' = Sizes
      /\ Compacted' = Compacted /\ trials' = trials /\ Inputs' /\ threads' = threads
      /\ compact' = compact /\ retries' = retries
  BY <1>1
<1>3. Succeeded' = Succeeded /\ Succeeded \subseteq First /\ Succeeded \subseteq All
  BY <1>1, <1>2 DEF Succeeded, All
<1>4. /\ returned = None /\ best = None /\ live = Compacted \cup Succeeded
      /\ \A i \in Second : status[i] = "waiting"
  BY <1>1 DEF InTrials
<1>5. CASE Succeeded = {}
  <2>1. pc' = "judge" /\ best' = best
    BY <1>5 DEF Pick
  <2>2. \A i \in First : status[i] = "cut" => Sizes[i] > compact
    BY <1>1, <1>5 DEF InTrials
  <2>3. Typed' /\ Truthful'
    BY <1>1, <1>2, <2>1 DEF Typed, Truthful
  <2>4. InJudge'
    BY <1>1, <1>2, <1>3, <1>4, <1>5, <2>1, <2>2 DEF InJudge
  <2> QED
    BY <2>1, <2>3, <2>4
       DEF Inv, InTrials, InImprove, InDone
<1>6. CASE Succeeded # {}
  <2>1. pc' = "improve" /\ best' = Winner(Succeeded)
    BY <1>6 DEF Pick, Winner
  <2>2. /\ best' \in Succeeded
        /\ \A j \in Succeeded : Sizes[best'] <= Sizes[j]
    BY <1>1, <1>3, <1>6, <2>1, WinnerIs
  <2>3. Leads(best', First)
    <3>1. \A i \in First : status[i] = "ok" => i \in Succeeded
      BY DEF Succeeded
    <3>2. \A i \in All : Sizes[i] \in Nat
      BY <1>1
    <3>3. CASE Alone
      <4>1. PICK b \in Succeeded : Leads(b, First)
        BY <1>1, <1>6, <3>3 DEF InTrials
      <4>2. \A i \in First : status[i] = "cut" => Sizes[best'] < Sizes[i]
        BY <1>3, <2>2, <3>2, <4>1 DEF Leads, All
      <4> QED
        BY <1>3, <2>2, <3>1, <4>2 DEF Leads, Succeeded
    <3>4. CASE ~ Alone
      <4>1. \A i \in First : /\ status[i] = "cut" => Sizes[i] > compact
                             /\ status[i] = "ok" => Sizes[i] <= compact
        BY <1>1, <3>4 DEF InTrials
      <4>2. Sizes[best'] <= compact /\ compact \in Nat
        BY <1>1, <2>2, <4>1, SizesAreNat DEF Succeeded
      <4>3. \A i \in First : status[i] = "cut" => Sizes[best'] < Sizes[i]
        BY <1>3, <2>2, <3>2, <4>1, <4>2 DEF All
      <4> QED
        BY <1>3, <2>2, <3>1, <4>3 DEF Leads, Succeeded
    <3> QED
      BY <3>3, <3>4
  <2>4. Leads(best, First)'
    BY <1>1, <1>2, <2>3 DEF Leads
  <2>5. Typed' /\ Truthful'
    BY <1>1, <1>2, <1>3, <2>1, <2>2 DEF Typed, Truthful
  <2>6. First \cap Second = {}
    BY <1>1, SizesAreNat
  <2>7. /\ best' \in live' /\ Compacted' \subseteq live'
        /\ live' \subseteq Compacted' \cup All'
        /\ live' \cap Second' = {} /\ best' \in First
    BY <1>1, <1>2, <1>3, <1>4, <2>2, <2>6, SizesAreNat DEF Compacted, All
  <2>8. InImprove'
    BY <1>1, <1>2, <1>4, <2>4, <2>7 DEF InImprove
  <2> QED
    BY <2>1, <2>5, <2>8
       DEF Inv, InTrials, InJudge, InDone
<1> QED
  BY <1>5, <1>6

LEMMA RetryAloneKeeps ==
  ASSUME Inv, RetryAlone
  PROVE  Inv'
<1> USE SameInput, SizesTyped
<1>1. /\ Inputs /\ Typed /\ Truthful /\ InImprove /\ UNCHANGED input
      /\ pc = "improve" /\ pc' = "improve" /\ returned' = returned
      /\ cutoff' = cutoff /\ (threads = 1 \/ Len(retries) = 1)
  BY DEF Inv, Typed, RetryAlone
<1>2. /\ First' = First /\ Second' = Second /\ All' = All /\ Sizes' = Sizes
      /\ Compacted' = Compacted /\ trials' = trials /\ Inputs' /\ threads' = threads
      /\ compact' = compact /\ retries' = retries
  BY <1>1
<1>3. PICK i \in Second :
        /\ status[i] = "waiting"
        /\ \A j \in Second : j < i => status[j] # "waiting"
        /\ LET o == Outcome(SizeOf(i), SizeOf(best))
               won == o = "ok" /\ SizeOf(i) < SizeOf(best)
           IN  /\ status' = [status EXCEPT ![i] = o]
               /\ best' = IF won THEN i ELSE best
               /\ live' = IF won THEN (live \ {best}) \cup {i} ELSE live
  BY DEF RetryAlone
<1>4. /\ Leads(best, First) /\ best \in live /\ returned = None
      /\ Compacted \subseteq live /\ live \subseteq Compacted \cup All
      /\ \A j \in Second : status[j] = "cut" => Sizes[best] < Sizes[j]
      /\ \A j \in Second : status[j] = "ok" => Sizes[best] <= Sizes[j]
      /\ live \cap Second \subseteq {best}
      /\ \A k, j \in Second : k < j /\ status[k] = "waiting" => status[j] = "waiting"
  BY <1>1 DEF InImprove, AloneAgain
<1>5. /\ best \in All /\ i \in All /\ First \cap Second = {} /\ i \notin First /\ i # 0
      /\ Sizes \in [All \cup {0} -> Nat] /\ i # best
      /\ Sizes[i] = SizeOf(i) /\ Sizes[best] = SizeOf(best)
      /\ \A j \in All : Sizes[j] \in Nat /\ j \in Nat
  BY <1>1, <1>3, <1>4, SizesAreNat DEF Leads, All
<1> DEFINE o == Outcome(Sizes[i], Sizes[best])
           won == o = "ok" /\ Sizes[i] < Sizes[best]
<1>6. /\ status' = [status EXCEPT ![i] = o]
      /\ best' = IF won THEN i ELSE best
      /\ live' = IF won THEN (live \ {best}) \cup {i} ELSE live
  BY <1>3, <1>5
<1>7. /\ o \in {"failed", "cut", "ok"}
      /\ o = "failed" => Sizes[i] = 0
      /\ o = "ok" => Sizes[i] > 0 /\ Sizes[i] <= Sizes[best]
      /\ o = "cut" => Sizes[i] > Sizes[best]
  BY <1>5, OutcomeIs
<1> HIDE DEF o
<1>8. \A j \in All : status'[j] = IF j = i THEN o ELSE status[j]
  BY <1>1, <1>6 DEF Typed
<1>9. Typed'
  BY <1>1, <1>2, <1>3, <1>5, <1>6, <1>7 DEF Typed, Outcomes
<1>10. Truthful'
  BY <1>1, <1>2, <1>5, <1>7, <1>8 DEF Truthful
<1>11. Sizes[best'] <= Sizes[best] /\ best' \in All /\ best' \in live'
  BY <1>4, <1>5, <1>6
<1>12. Leads(best, First)'
  <2>1. status'[best'] = "ok"
    BY <1>4, <1>5, <1>6, <1>8 DEF Leads
  <2>2. \A j \in First : /\ status'[j] = "ok" => Sizes[best'] <= Sizes[j]
                         /\ status'[j] = "cut" => Sizes[best'] < Sizes[j]
    BY <1>4, <1>5, <1>8, <1>11 DEF Leads, All
  <2> QED
    BY <1>2, <1>11, <2>1, <2>2 DEF Leads
<1>13. \A j \in Second : /\ status'[j] = "cut" => Sizes[best'] < Sizes[j]
                         /\ status'[j] = "ok" => Sizes[best'] <= Sizes[j]
  <2> SUFFICES ASSUME NEW j \in Second
               PROVE  /\ status'[j] = "cut" => Sizes[best'] < Sizes[j]
                      /\ status'[j] = "ok" => Sizes[best'] <= Sizes[j]
    OBVIOUS
  <2>1. j \in All /\ Sizes[j] \in Nat /\ Sizes[best'] \in Nat /\ Sizes[best] \in Nat
    BY <1>5, <1>11 DEF All
  <2>2. CASE j = i
    BY <1>5, <1>6, <1>7, <1>8, <1>11, <2>1, <2>2
  <2>3. CASE j # i
    BY <1>4, <1>8, <1>11, <2>1, <2>3
  <2> QED
    BY <2>2, <2>3
<1>14. \A k, j \in Second : k < j /\ status'[k] = "waiting" => status'[j] = "waiting"
  <2> SUFFICES ASSUME NEW k \in Second, NEW j \in Second, k < j, status'[k] = "waiting"
               PROVE  status'[j] = "waiting"
    OBVIOUS
  <2>1. k \in All /\ j \in All /\ k \in Nat /\ j \in Nat /\ i \in Nat
    BY <1>5 DEF All
  <2>2. k # i /\ status[k] = "waiting"
    BY <1>7, <1>8, <2>1
  <2>3. j # i
    BY <1>3, <2>2
  <2> QED
    BY <1>4, <1>8, <2>1, <2>2, <2>3
<1>15. /\ live' \cap Second \subseteq {best'}
       /\ Compacted \subseteq live' /\ live' \subseteq Compacted \cup All
  BY <1>1, <1>4, <1>5, <1>6, SizesAreNat DEF Compacted
<1>16. InImprove'
  BY <1>1, <1>2, <1>4, <1>11, <1>12, <1>13, <1>14, <1>15 DEF InImprove, AloneAgain
<1> QED
  BY <1>1, <1>9, <1>10, <1>16
     DEF Inv, InTrials, InJudge, InDone

LEMMA RetryTogetherKeeps ==
  ASSUME Inv, NEW i \in Second, RetryTogether(i)
  PROVE  Inv'
<1> USE SameInput, SizesTyped
<1>1. /\ Inputs /\ Typed /\ Truthful /\ InImprove /\ UNCHANGED input
      /\ pc = "improve" /\ pc' = "improve" /\ returned' = returned
      /\ cutoff' = cutoff /\ best' = best /\ status[i] = "waiting"
      /\ threads > 1 /\ Len(retries) > 1
  BY DEF Inv, Typed, RetryTogether
<1>2. /\ First' = First /\ Second' = Second /\ All' = All /\ Sizes' = Sizes
      /\ Compacted' = Compacted /\ trials' = trials /\ Inputs' /\ threads' = threads
      /\ compact' = compact /\ retries' = retries
  BY <1>1
<1>3. threads # 1 /\ Len(retries) # 1
  BY <1>1, Several
<1>4. /\ Leads(best, First) /\ best \in live /\ returned = None
      /\ Compacted \subseteq live /\ live \subseteq Compacted \cup All
      /\ \A j \in Second : status[j] = "cut" => Sizes[best] < Sizes[j]
      /\ best \in First
      /\ live \cap Second = {j \in Second : status[j] = "ok"}
  BY <1>1, <1>3 DEF InImprove, AloneAgain
<1>5. /\ best \in All /\ i \in All /\ First \cap Second = {} /\ i \notin First /\ i # 0
      /\ Sizes \in [All \cup {0} -> Nat] /\ i # best
      /\ Sizes[i] = SizeOf(i) /\ Sizes[best] = SizeOf(best)
      /\ \A j \in All : Sizes[j] \in Nat
  BY <1>1, <1>4, SizesAreNat DEF Leads, All
<1> DEFINE o == Outcome(Sizes[i], Sizes[best])
<1>6. /\ status' = [status EXCEPT ![i] = o]
      /\ live' = IF o = "ok" THEN live \cup {i} ELSE live
  BY <1>5 DEF RetryTogether, Kept
<1>7. /\ o \in {"failed", "cut", "ok"}
      /\ o = "failed" => Sizes[i] = 0
      /\ o = "ok" => Sizes[i] > 0
      /\ o = "cut" => Sizes[i] > Sizes[best]
  BY <1>5, OutcomeIs
<1> HIDE DEF o
<1>8. \A j \in All : status'[j] = IF j = i THEN o ELSE status[j]
  BY <1>1, <1>6 DEF Typed
<1>9. Typed'
  BY <1>1, <1>2, <1>5, <1>6, <1>7 DEF Typed, Outcomes
<1>10. Truthful'
  BY <1>1, <1>2, <1>5, <1>7, <1>8 DEF Truthful
<1>11. Leads(best, First)'
  BY <1>1, <1>2, <1>4, <1>5, <1>8 DEF Leads, All
<1>12. \A j \in Second : status'[j] = "cut" => Sizes[best] < Sizes[j]
  BY <1>4, <1>5, <1>7, <1>8 DEF All
<1>13. live' \cap Second = {j \in Second : status'[j] = "ok"}
  <2>1. \A j \in Second : j \in All
    BY DEF All
  <2>2. CASE o = "ok"
    BY <1>4, <1>6, <1>8, <2>1, <2>2
  <2>3. CASE o # "ok"
    BY <1>1, <1>4, <1>5, <1>6, <1>8, <2>1, <2>3
  <2> QED
    BY <2>2, <2>3
<1>14. ~ AloneAgain'
  BY <1>2, <1>3 DEF AloneAgain
<1>15. InImprove'
  BY <1>1, <1>2, <1>4, <1>5, <1>6, <1>11, <1>12, <1>13, <1>14 DEF InImprove
<1> QED
  BY <1>1, <1>9, <1>10, <1>15
     DEF Inv, InTrials, InJudge, InDone

\* What is taken over is the best retry if it is smaller, or what led before.
LEMMA AcceptedIs ==
  ASSUME Inputs, best \in All, NEW S \in SUBSET Second
  PROVE  /\ Accepted(S) \in S \cup {best}
         /\ Sizes[Accepted(S)] <= Sizes[best]
         /\ \A j \in S : Sizes[Accepted(S)] <= Sizes[j]
<1> DEFINE better == {i \in S : SizeOf(i) < SizeOf(best)}
<1>1. /\ S \subseteq All /\ Sizes[best] = SizeOf(best)
      /\ \A j \in All : Sizes[j] = SizeOf(j) /\ SizeOf(j) \in Nat
  BY SizesTyped, SizesAreNat DEF All
<1>2. CASE better = {}
  <2>1. Accepted(S) = best
    BY <1>2 DEF Accepted
  <2>2. \A j \in S : ~(SizeOf(j) < SizeOf(best))
    BY <1>2
  <2> QED
    BY <1>1, <2>1, <2>2
<1>3. CASE better # {}
  <2>1. Accepted(S) = Smallest(better)
    BY <1>3 DEF Accepted
  <2>2. /\ Smallest(better) \in better
        /\ \A j \in better : SizeOf(Smallest(better)) <= SizeOf(j)
    BY <1>1, <1>3, SmallestIs
  <2> QED
    BY <1>1, <2>1, <2>2
<1> QED
  BY <1>2, <1>3

LEMMA CloseKeeps ==
  ASSUME Inv, Close
  PROVE  Inv'
<1> USE SameInput, SizesTyped
<1>1. /\ Inputs /\ Typed /\ Truthful /\ InImprove /\ UNCHANGED input
      /\ pc = "improve" /\ pc' = "judge" /\ returned' = returned
      /\ cutoff' = cutoff /\ status' = status
      /\ \A i \in Second : status[i] # "waiting"
      /\ best' = Accepted(live \cap Second)
      /\ live' = live \ (All \ {best'})
  BY DEF Inv, Typed, Close, All
<1>2. /\ First' = First /\ Second' = Second /\ All' = All /\ Sizes' = Sizes
      /\ Compacted' = Compacted /\ trials' = trials /\ Inputs' /\ threads' = threads
      /\ compact' = compact /\ retries' = retries
  BY <1>1
<1>3. /\ Leads(best, First) /\ best \in live /\ returned = None /\ best \in All
      /\ Compacted \subseteq live /\ live \subseteq Compacted \cup All
      /\ \A j \in Second : status[j] = "cut" => Sizes[best] < Sizes[j]
      /\ status[best] = "ok"
  BY <1>1 DEF InImprove, Leads
<1>4. /\ best' \in (live \cap Second) \cup {best} /\ Sizes[best'] <= Sizes[best]
      /\ \A j \in live \cap Second : Sizes[best'] <= Sizes[j]
  BY <1>1, <1>3, AcceptedIs
<1>5. /\ best' \in live /\ best' \in All
      /\ \A j \in All : Sizes[j] \in Nat
  BY <1>1, <1>3, <1>4 DEF All
<1>6. status[best'] = "ok" /\ \A j \in Second : status[j] = "ok" => Sizes[best'] <= Sizes[j]
  <2>1. CASE AloneAgain
    <3>1. /\ live \cap Second \subseteq {best}
          /\ \A j \in Second : status[j] = "ok" => Sizes[best] <= Sizes[j]
      BY <1>1, <2>1 DEF InImprove
    <3> QED
      BY <1>3, <1>4, <3>1
  <2>2. CASE ~ AloneAgain
    <3>1. live \cap Second = {j \in Second : status[j] = "ok"}
      BY <1>1, <2>2 DEF InImprove
    <3> QED
      BY <1>3, <1>4, <3>1
  <2> QED
    BY <2>1, <2>2
<1>7. \A j \in All : /\ status[j] = "ok" => Sizes[best'] <= Sizes[j]
                     /\ status[j] = "cut" => Sizes[best'] < Sizes[j]
  BY <1>3, <1>4, <1>5, <1>6 DEF Leads, All
<1>8. Leads(best, All)'
  BY <1>1, <1>2, <1>5, <1>6, <1>7 DEF Leads
<1>9. live' = Compacted \cup {best'}
  BY <1>1, <1>3, <1>5, SizesAreNat DEF Compacted
<1>10. Typed' /\ Truthful'
  BY <1>1, <1>2, <1>5 DEF Typed, Truthful
<1>11. InJudge'
  BY <1>2, <1>8, <1>9 DEF InJudge
<1> QED
  BY <1>1, <1>10, <1>11
     DEF Inv, InTrials, InImprove, InDone

LEMMA JudgeKeeps ==
  ASSUME Inv, Judge
  PROVE  Inv'
<1> USE SameInput, SizesTyped
<1>1. /\ Inputs /\ Typed /\ Truthful /\ InJudge /\ UNCHANGED input
      /\ pc = "judge" /\ pc' = "done" /\ status' = status
      /\ cutoff' = cutoff /\ best' = best
      /\ live' = live \ ({0, best} \ {returned'})
  BY DEF Inv, Typed, Judge
<1>2. /\ First' = First /\ Second' = Second /\ All' = All /\ Sizes' = Sizes
      /\ Compacted' = Compacted /\ trials' = trials /\ Inputs' /\ threads' = threads
      /\ compact' = compact /\ retries' = retries
  BY <1>1
<1>3. /\ MaxSize \in Nat /\ SizeMax \in Nat /\ MaxSize < SizeMax
      /\ None \notin All /\ None # 0 /\ 0 \notin All /\ compact \in Nat
      /\ Sizes[0] = compact
      /\ \A j \in All : Sizes[j] \in Nat /\ Sizes[j] < SizeMax
  BY <1>1, SizesAreNat
<1>4. CASE best = None
  <2>1. /\ Succeeded = {} /\ live = Compacted
        /\ \A i \in Second : status[i] = "waiting"
        /\ \A i \in First : status[i] = "cut" => Sizes[i] > compact
    BY <1>1, <1>3, <1>4 DEF InJudge, Leads
  <2>2. /\ returned' \in {None, 0}
        /\ compact = SizeMax => returned' = None
    BY <1>4 DEF Judge
  <2>3. live' = IF returned' = None THEN {} ELSE {returned'}
    BY <1>1, <1>3, <1>4, <2>1, <2>2 DEF Compacted
  <2>4. \A i \in All : /\ status[i] # "ok"
                       /\ status[i] = "cut" => compact < Sizes[i]
    BY <2>1 DEF All, Succeeded
  <2>5. \A i \in All' : status'[i] = "ok" => Sizes'[returned'] <= Sizes'[i]
    BY <1>1, <1>2, <2>4
  <2>6. returned' # None =>
          \A i \in All' : status'[i] = "cut" => Sizes'[returned'] < Sizes'[i]
    BY <1>1, <1>2, <1>3, <2>2, <2>4
  <2>8. InDone'
    BY <1>2, <2>3, <2>5, <2>6 DEF InDone
  <2>9. Typed' /\ Truthful'
    BY <1>1, <1>2, <1>3, <2>2, <2>3 DEF Typed, Truthful
  <2> QED
    BY <1>1, <2>8, <2>9 DEF Inv, InTrials, InImprove, InJudge
<1>5. CASE best # None
  <2>1. Leads(best, All) /\ live = Compacted \cup {best} /\ best \in All
    BY <1>1, <1>5 DEF InJudge, Leads
  <2>2. returned' = IF Sizes[best] < compact THEN best ELSE 0
    BY <1>1, <1>5, <2>1 DEF Judge
  <2>3. /\ returned' \in {0, best} /\ returned' # None
        /\ Sizes[returned'] <= Sizes[best]
        /\ returned' = 0 => compact # SizeMax
    BY <1>3, <2>1, <2>2
  <2>4. live' = {returned'}
    BY <1>1, <1>3, <2>1, <2>3 DEF Compacted
  <2>5. \A i \in All : /\ status[i] = "ok" => Sizes[returned'] <= Sizes[i]
                       /\ status[i] = "cut" => Sizes[returned'] < Sizes[i]
    BY <1>1, <1>3, <2>1, <2>3 DEF Leads
  <2>6. InDone'
    BY <1>1, <1>2, <2>3, <2>4, <2>5 DEF InDone
  <2>7. Typed' /\ Truthful'
    BY <1>1, <1>2, <1>3, <2>1, <2>3, <2>4 DEF Typed, Truthful
  <2> QED
    BY <1>1, <2>6, <2>7 DEF Inv, InTrials, InImprove, InJudge
<1> QED
  BY <1>4, <1>5

\* In every phase the leader is a completed trial, none that completed is
\* smaller, none that was cut is as small, and the buffers are accounted for.
THEOREM Invariance ==
  Spec => []Inv
<1>1. Init => Inv
  BY InitKeeps
<1>2. Inv /\ [Next]_vars => Inv'
  <2> SUFFICES ASSUME Inv, [Next]_vars PROVE Inv'
    OBVIOUS
  <2>1. CASE UNCHANGED vars
    <3>1. Inputs /\ UNCHANGED input
      BY <2>1 DEF Inv, Typed, vars, input
    <3>2. /\ First' = First /\ Second' = Second /\ All' = All /\ Sizes' = Sizes
          /\ Compacted' = Compacted /\ Inputs'
          /\ threads' = threads /\ trials' = trials
          /\ retries' = retries /\ compact' = compact
      BY <3>1, SameInput
    <3>3. Succeeded' = Succeeded
      BY <2>1, <3>2 DEF Succeeded, vars
    <3>4. Typed' /\ Truthful' /\ InTrials' /\ InImprove' /\ InJudge'
      BY <2>1, <3>2, <3>3
         DEF vars, Inv, Typed, Truthful, InTrials, InImprove, InJudge, Leads,
             Alone, AloneAgain
    <3>5. InDone'
      BY <2>1, <3>2 DEF vars, Inv, InDone
    <3> QED
      BY <3>4, <3>5 DEF Inv
  <2> QED
    BY <2>1, TrialAloneKeeps, TrialTogetherKeeps, PickKeeps, RetryAloneKeeps,
       RetryTogetherKeeps, CloseKeeps, JudgeKeeps DEF Next
<1> QED
  BY <1>1, <1>2, PTL DEF Spec

\* What the sizes are once the types are known.
LEMMA SizesKnown ==
  ASSUME Inv
  PROVE  /\ Typed
         /\ InDone
         /\ None \notin All \cup {0}
         /\ \A i \in All \cup {0} : Sizes[i] = SizeOf(i)
         /\ \A i \in All \cup {0} : SizeOf(i) \in Nat
<1>1. Typed /\ Inputs /\ InDone
  BY DEF Inv, Typed
<1> QED
  BY <1>1, SizesTyped, SizesAreNat

\* Nothing that a limit cut is as small as what is returned: limits that are
\* taken from other trials, in any order on any threads, lose nothing.
THEOREM NothingBetterCut == Spec => []CutsLoseNothing
<1>1. ASSUME Inv PROVE CutsLoseNothing
  BY <1>1, SizesKnown DEF InDone, CutsLoseNothing, Typed, All
<1> QED
  BY <1>1, Invariance, PTL

\* What is returned is the smallest stream that was completed, and no other
\* buffer is left, whatever the trials, their sizes, their failures and the
\* threads.
THEOREM OneBufferLeft == Spec => []OneStreamLeft
<1>1. ASSUME Inv PROVE OneStreamLeft
  <2> SUFFICES ASSUME pc = "done"
               PROVE  /\ live = IF returned = None THEN {} ELSE {returned}
                      /\ returned # None => \A i \in First \cup Second :
                           status[i] = "ok" => SizeOf(returned) <= SizeOf(i)
    BY DEF OneStreamLeft
  <2>1. /\ Typed
        /\ InDone
        /\ None \notin All \cup {0}
        /\ \A i \in All \cup {0} : Sizes[i] = SizeOf(i)
    BY <1>1, SizesKnown
  <2>2. live = IF returned = None THEN {} ELSE {returned}
    BY <2>1 DEF InDone
  <2>3. returned # None => \A i \in All : status[i] = "ok" => Sizes[returned] <= Sizes[i]
    BY <2>1 DEF InDone
  <2>4. returned \in All \cup {0, None}
    BY <2>1 DEF Typed
  <2>5. returned # None => \A i \in First \cup Second :
          status[i] = "ok" => SizeOf(returned) <= SizeOf(i)
    BY <2>1, <2>3, <2>4 DEF All
  <2> QED
    BY <2>2, <2>5
<1> QED
  BY <1>1, Invariance, PTL

-----------------------------------------------------------------------------
(* Who leads follows from the sizes.                                        *)

LEMMA SameLead ==
  ASSUME Inputs, UNCHANGED input
  PROVE  Usable' = Usable /\ Lead' = Lead /\ Better' = Better
<1>1. /\ First' = First /\ Second' = Second /\ Sizes' = Sizes
      /\ trials' = trials /\ retries' = retries /\ compact' = compact
  BY SameInput
<1>2. Usable' = Usable
  BY <1>1 DEF Usable
<1>3. Lead' = Lead
  BY <1>1, <1>2 DEF Lead, Winner, Smallest, SizeOf
<1> QED
  BY <1>1, <1>2, <1>3 DEF Better

\* All the usable trials of the least size among some is all that decides who
\* wins among them.
LEMMA LeadersDecide ==
  ASSUME Inputs, NEW S \in SUBSET Usable, Leaders \subseteq S, Usable # {}
  PROVE  Winner(S) = Lead /\ S # {}
<1>1. /\ Usable \subseteq First /\ Usable \subseteq All /\ Usable \subseteq Nat
      /\ \A i \in Usable : SizeOf(i) = trials[i].size /\ SizeOf(i) \in Nat
  BY SizesAreNat DEF Usable, All
<1>2. /\ Smallest(Usable) \in Usable
      /\ \A j \in Usable : SizeOf(Smallest(Usable)) <= SizeOf(j)
  BY <1>1, SmallestIs
<1>3. Smallest(Usable) \in Leaders
  BY <1>1, <1>2 DEF Leaders
<1> DEFINE m == Smallest(Usable)
<1> HIDE DEF m
<1>4. /\ m \in Leaders /\ m \in Usable /\ \A i \in Usable : SizeOf(m) <= SizeOf(i)
      /\ \A i \in Usable : i \in Leaders <=> SizeOf(i) = SizeOf(m)
      /\ Leaders \subseteq Usable
  <2>1. m \in Leaders /\ m \in Usable /\ \A i \in Usable : SizeOf(m) <= SizeOf(i)
    BY <1>2, <1>3 DEF m
  <2>2. \A i \in Usable : i \in Leaders <=> \A j \in Usable : SizeOf(i) <= SizeOf(j)
    BY <1>1 DEF Leaders
  <2>3. \A i \in Usable : i \in Leaders <=> SizeOf(i) = SizeOf(m)
    BY <1>1, <2>1, <2>2
  <2> QED
    BY <2>1, <2>3 DEF Leaders
<1>5. ASSUME NEW T \in SUBSET Usable, Leaders \subseteq T
      PROVE  {i \in T : \A j \in T : SizeOf(i) <= SizeOf(j)} = Leaders
  <2>1. m \in T
    BY <1>4, <1>5
  <2>2. \A i \in T : (\A j \in T : SizeOf(i) <= SizeOf(j)) <=> SizeOf(i) = SizeOf(m)
    BY <1>1, <1>4, <2>1
  <2> QED
    BY <1>4, <1>5, <2>2
<1>6. Smallest(S) = Min(Leaders) /\ Smallest(Usable) = Min(Leaders)
  <2>1. Leaders \subseteq Usable
    BY DEF Leaders
  <2>2. {i \in S : \A j \in S : SizeOf(i) <= SizeOf(j)} = Leaders
    BY <1>5
  <2>3. {i \in Usable : \A j \in Usable : SizeOf(i) <= SizeOf(j)} = Leaders
    BY <1>5, <2>1
  <2> QED
    BY <2>2, <2>3 DEF Smallest
<1>7. Min(Leaders) = m
  BY <1>6 DEF m
<1> DEFINE tied == {i \in Leaders \ {m} : trials[i].mode = 42}
           ties(T) == {i \in T \ {m} : trials[i].mode = 42 /\ SizeOf(i) = SizeOf(m)}
<1>8. ASSUME NEW T \in SUBSET Usable, Leaders \subseteq T
      PROVE  ties(T) = tied
  BY <1>4, <1>8
<1>9. ties(S) = tied /\ ties(Usable) = tied
  BY <1>4, <1>8
<1>10. /\ Winner(S) = IF ties(S) = {} THEN m ELSE Min(ties(S))
       /\ Winner(Usable) = IF ties(Usable) = {} THEN m ELSE Min(ties(Usable))
  BY <1>6, <1>7 DEF Winner
<1> HIDE DEF tied, ties
<1> QED
  BY <1>4, <1>9, <1>10 DEF Lead

\* The lead is a usable trial.
LEMMA LeadIs ==
  ASSUME Inputs, Usable # {}
  PROVE  Lead \in Usable /\ Lead \in First /\ Lead \in All /\ Sizes[Lead] > 0
<1>1. Usable \in SUBSET First
  BY DEF Usable
<1>2. Lead \in Usable
  BY <1>1, WinnerIs DEF Lead
<1> QED
  BY <1>1, <1>2, SizesTyped DEF Usable, All

\* One leads at most.
LEMMA OneLeads ==
  ASSUME Inputs, Usable # {}, NEW S, NEW a, NEW b, LeadsAfter(a, S), LeadsAfter(b, S)
  PROVE  a = b
<1>1. \A i \in Better : i \in Nat /\ Sizes[i] \in Nat
  BY SizesTyped, SizesAreNat DEF Better, All
<1> QED
  BY <1>1 DEF LeadsAfter

-----------------------------------------------------------------------------
(* Agreed is an invariant.                                                  *)

LEMMA PickAgrees ==
  ASSUME Inv, Inv', Fair, Pick
  PROVE  AgreedImprove' /\ AgreedJudge' /\ AgreedDone'
<1>1. /\ Inputs /\ Typed /\ Truthful /\ InTrials /\ UNCHANGED input
      /\ pc = "trials" /\ status' = status
      /\ \A i \in First : status[i] # "waiting"
      /\ compact = SizeMax /\ \A i \in First : trials[i].mode # 39
  BY DEF Inv, Typed, Pick, Fair
<1>2. /\ First' = First /\ Second' = Second /\ Sizes' = Sizes /\ trials' = trials
      /\ Usable' = Usable /\ Lead' = Lead /\ Better' = Better
  BY <1>1, SameInput, SameLead
<1>3. /\ \A i \in First : Sizes[i] = trials[i].size /\ i \in All
      /\ \A i \in All : Sizes[i] \in Nat /\ Sizes[i] < SizeMax
      /\ SizeMax \in Nat
  BY <1>1, SizesTyped, SizesAreNat DEF All
<1>4. \A i \in First :
        status[i] \in {"ok", "cut"} \/ (status[i] = "failed" /\ trials[i].size = 0)
  BY <1>1, <1>3 DEF Typed, Truthful, Outcomes
<1>5. CASE Succeeded = {}
  <2>1. pc' = "judge" /\ best' = best /\ best = None
    BY <1>1, <1>5 DEF Pick, InTrials
  <2>2. \A i \in First : status[i] # "cut"
    BY <1>1, <1>3, <1>5 DEF InTrials
  <2>3. Usable = {}
    BY <1>3, <1>4, <1>5, <2>2 DEF Usable, Succeeded
  <2> QED
    BY <1>2, <2>1, <2>3 DEF AgreedImprove, AgreedJudge, AgreedDone
<1>6. CASE Succeeded # {}
  <2>1. pc' = "improve" /\ best' = Winner(Succeeded)
    BY <1>6 DEF Pick, Winner
  <2>2. best' \in Succeeded /\ Succeeded \subseteq First
    BY <1>1, <1>6, <2>1, WinnerIs DEF Succeeded
  <2>3. Succeeded \subseteq Usable
    BY <1>1, <1>3 DEF Truthful, Succeeded, Usable
  <2>4. \A i \in First : status[i] = "cut" => Sizes[best'] < Sizes[i]
    BY <1>1, <1>2, <2>1 DEF Inv, InImprove, Leads
  <2>5. Leaders \subseteq Succeeded
    <3> SUFFICES ASSUME NEW i \in Leaders PROVE i \in Succeeded
      OBVIOUS
    <3>1. /\ i \in First /\ trials[i].size > 0
          /\ trials[i].size <= trials[best'].size
      BY <2>2, <2>3 DEF Leaders, Usable
    <3>2. Sizes[i] <= Sizes[best'] /\ Sizes[i] \in Nat /\ Sizes[best'] \in Nat
          /\ Sizes[i] > 0
      BY <1>3, <2>2, <3>1
    <3>3. status[i] = "ok"
      BY <1>3, <1>4, <2>4, <3>1, <3>2
    <3> QED
      BY <3>1, <3>3 DEF Succeeded
  <2>6. Usable # {} /\ best' = Lead
    BY <1>1, <1>6, <2>1, <2>3, <2>5, LeadersDecide
  <2>7. Processed' = {}
    BY <1>1, <1>2 DEF Processed, InTrials
  <2>8. LeadsAfter(best, Processed)'
    BY <1>2, <2>6, <2>7 DEF LeadsAfter
  <2>9. AgreedImprove'
    BY <1>2, <2>6, <2>7, <2>8 DEF AgreedImprove
  <2> QED
    BY <2>1, <2>9 DEF AgreedJudge, AgreedDone
<1> QED
  BY <1>5, <1>6

LEMMA RetryAloneAgrees ==
  ASSUME Inv, Inv', AgreedImprove, RetryAlone
  PROVE  AgreedImprove' /\ AgreedJudge' /\ AgreedDone'
<1>1. /\ Inputs /\ Typed /\ Truthful /\ InImprove /\ UNCHANGED input
      /\ pc = "improve" /\ pc' = "improve"
      /\ (threads = 1 \/ Len(retries) = 1)
  BY DEF Inv, Typed, RetryAlone
<1>2. /\ First' = First /\ Second' = Second /\ Sizes' = Sizes
      /\ Usable' = Usable /\ Lead' = Lead /\ Better' = Better
      /\ threads' = threads /\ retries' = retries
  BY <1>1, SameInput, SameLead
<1>3. PICK i \in Second :
        /\ status[i] = "waiting"
        /\ \A j \in Second : j < i => status[j] # "waiting"
        /\ LET o == Outcome(SizeOf(i), SizeOf(best))
               won == o = "ok" /\ SizeOf(i) < SizeOf(best)
           IN  /\ status' = [status EXCEPT ![i] = o]
               /\ best' = IF won THEN i ELSE best
               /\ live' = IF won THEN (live \ {best}) \cup {i} ELSE live
  BY DEF RetryAlone
<1>4. /\ Usable # {} /\ LeadsAfter(best, Processed)
      /\ best \in All
      /\ \A k, j \in Second : k < j /\ status[k] = "waiting" => status[j] = "waiting"
  BY <1>1 DEF AgreedImprove, AloneAgain, InImprove, Leads
<1>5. /\ i \in All /\ Second \subseteq All
      /\ Sizes[i] = SizeOf(i) /\ Sizes[best] = SizeOf(best)
      /\ \A j \in All : Sizes[j] \in Nat /\ j \in Nat
      /\ Lead \in All /\ best \in All
  BY <1>1, <1>3, <1>4, SizesTyped, SizesAreNat, LeadIs DEF All
<1> DEFINE o == Outcome(Sizes[i], Sizes[best])
           won == o = "ok" /\ Sizes[i] < Sizes[best]
<1>6. /\ status' = [status EXCEPT ![i] = o]
      /\ best' = IF won THEN i ELSE best
  BY <1>3, <1>5
<1>7. /\ o \in {"failed", "cut", "ok"}
      /\ o = "ok" <=> Sizes[i] > 0 /\ Sizes[i] <= Sizes[best]
  BY <1>5, OutcomeIs
<1> HIDE DEF o
<1>8. \A j \in All : status'[j] = IF j = i THEN o ELSE status[j]
  BY <1>1, <1>6 DEF Typed
<1>9. Processed' = Processed \cup {i} /\ i \notin Processed
  BY <1>2, <1>3, <1>5, <1>7, <1>8 DEF Processed
<1>10. \A j \in Processed : j < i /\ j \in All
  <2> SUFFICES ASSUME NEW j \in Processed PROVE j < i /\ j \in All
    OBVIOUS
  <2>1. j \in Second /\ status[j] # "waiting" /\ j \in All /\ j \in Nat /\ i \in Nat
    BY <1>5 DEF Processed
  <2>2. ~(i < j) /\ i # j
    BY <1>3, <1>4, <2>1
  <2> QED
    BY <2>1, <2>2
<1>11. Sizes[best] <= Sizes[Lead]
  BY <1>4, <1>5 DEF LeadsAfter, Better
<1>12. LeadsAfter(best', Processed \cup {i})
  <2>1. CASE won
    <3>1. i \in Better
      BY <1>5, <1>7, <1>11, <2>1 DEF Better
    <3>2. \A j \in Better \cap Processed : Sizes[best] <= Sizes[j]
      BY <1>4, <1>5, <1>10 DEF LeadsAfter, Better
    <3>3. \A j \in Better \cap Processed : Sizes[i] < Sizes[j]
      BY <1>5, <1>10, <2>1, <3>2
    <3> QED
      BY <1>5, <1>6, <2>1, <3>1, <3>3 DEF LeadsAfter
  <2>2. CASE ~won
    <3>1. best' = best /\ (Sizes[i] = 0 \/ Sizes[i] >= Sizes[best])
      BY <1>5, <1>6, <1>7, <2>2
    <3>2. CASE best = Lead /\ Better \cap Processed = {}
      <4>1. i \notin Better
        BY <1>5, <3>1, <3>2 DEF Better
      <4> QED
        BY <3>1, <3>2, <4>1 DEF LeadsAfter
    <3>3. CASE /\ best \in Better \cap Processed
               /\ \A j \in Better \cap Processed :
                    Sizes[best] < Sizes[j] \/ (Sizes[best] = Sizes[j] /\ best <= j)
      <4>1. best < i
        BY <1>10, <3>3
      <4>2. i \in Better =>
              Sizes[best] < Sizes[i] \/ (Sizes[best] = Sizes[i] /\ best <= i)
        BY <1>5, <3>1, <4>1 DEF Better
      <4> QED
        BY <3>1, <3>3, <4>2 DEF LeadsAfter
    <3> QED
      BY <1>4, <3>2, <3>3 DEF LeadsAfter
  <2> QED
    BY <2>1, <2>2
<1>13. LeadsAfter(best, Processed)'
  BY <1>2, <1>9, <1>12 DEF LeadsAfter
<1>14. AloneAgain'
  BY <1>1, <1>2 DEF AloneAgain
<1>15. AgreedImprove'
  BY <1>2, <1>4, <1>13, <1>14 DEF AgreedImprove
<1> QED
  BY <1>1, <1>15 DEF AgreedJudge, AgreedDone

LEMMA RetryTogetherAgrees ==
  ASSUME Inv, AgreedImprove, NEW i \in Second, RetryTogether(i)
  PROVE  AgreedImprove' /\ AgreedJudge' /\ AgreedDone'
<1>1. /\ Inputs /\ Typed /\ InImprove /\ UNCHANGED input
      /\ pc = "improve" /\ pc' = "improve" /\ best' = best
      /\ threads > 1 /\ Len(retries) > 1
      /\ status' = [status EXCEPT ![i] = Outcome(SizeOf(i), SizeOf(best))]
  BY DEF Inv, Typed, RetryTogether
<1>2. /\ First' = First /\ Second' = Second /\ Sizes' = Sizes
      /\ Usable' = Usable /\ Lead' = Lead /\ Better' = Better
      /\ threads' = threads /\ retries' = retries
  BY <1>1, SameInput, SameLead
<1>3. threads # 1 /\ Len(retries) # 1
  BY <1>1, Several
<1>4. /\ Usable # {} /\ best = Lead
      /\ \A j \in Processed : status[j] = "ok" <=> Sizes[j] \in 1..Sizes[Lead]
  BY <1>1, <1>3 DEF AgreedImprove, AloneAgain
<1>5. /\ i \in All /\ Second \subseteq All /\ Lead \in All
      /\ Sizes[i] = SizeOf(i) /\ Sizes[best] = SizeOf(best)
      /\ Sizes[i] \in Nat /\ Sizes[Lead] \in Nat
  BY <1>1, <1>4, SizesTyped, SizesAreNat, LeadIs DEF All
<1> DEFINE o == Outcome(Sizes[i], Sizes[Lead])
<1>6. status' = [status EXCEPT ![i] = o]
  BY <1>1, <1>4, <1>5
<1>7. o \in {"failed", "cut", "ok"} /\ (o = "ok" <=> Sizes[i] \in 1..Sizes[Lead])
  BY <1>5, OutcomeIs
<1> HIDE DEF o
<1>8. \A j \in Second : status'[j] = IF j = i THEN o ELSE status[j]
  BY <1>1, <1>5, <1>6 DEF Typed
<1>9. \A j \in Processed' : status'[j] = "ok" <=> Sizes[j] \in 1..Sizes[Lead]
  BY <1>2, <1>4, <1>7, <1>8 DEF Processed
<1>10. ~ AloneAgain'
  BY <1>2, <1>3 DEF AloneAgain
<1>11. AgreedImprove'
  BY <1>1, <1>2, <1>4, <1>9, <1>10 DEF AgreedImprove
<1> QED
  BY <1>1, <1>11 DEF AgreedJudge, AgreedDone

LEMMA CloseAgrees ==
  ASSUME Inv, AgreedImprove, Close
  PROVE  AgreedImprove' /\ AgreedJudge' /\ AgreedDone'
<1>1. /\ Inputs /\ Typed /\ InImprove /\ UNCHANGED input
      /\ pc = "improve" /\ pc' = "judge"
      /\ \A i \in Second : status[i] # "waiting"
      /\ best' = Accepted(live \cap Second)
  BY DEF Inv, Typed, Close
<1>2. /\ Second' = Second /\ Sizes' = Sizes
      /\ Usable' = Usable /\ Lead' = Lead /\ Better' = Better
  BY <1>1, SameInput, SameLead
<1>3. Processed = Second
  BY <1>1 DEF Processed
<1>4. /\ Usable # {} /\ best \in All /\ Lead \in All /\ Second \subseteq All
      /\ \A j \in All : Sizes[j] = SizeOf(j) /\ Sizes[j] \in Nat /\ j \in Nat
  BY <1>1, LeadIs, SizesTyped, SizesAreNat DEF AgreedImprove, InImprove, Leads, All
<1> DEFINE S == live \cap Second
           better == {i \in S : SizeOf(i) < SizeOf(best)}
<1>5. LeadsAfter(best', Second)
  <2>1. CASE AloneAgain
    <3>1. LeadsAfter(best, Second) /\ S \subseteq {best}
      BY <1>1, <1>3, <2>1 DEF AgreedImprove, InImprove
    <3>2. better = {}
      BY <1>4, <3>1
    <3>3. best' = best
      BY <1>1, <3>2 DEF Accepted
    <3> QED
      BY <3>1, <3>3
  <2>2. CASE ~ AloneAgain
    <3>1. /\ best = Lead
          /\ \A j \in Second : status[j] = "ok" <=> Sizes[j] \in 1..Sizes[Lead]
          /\ S = {j \in Second : status[j] = "ok"}
      BY <1>1, <1>3, <2>2 DEF AgreedImprove, InImprove
    <3>2. better = Better
      <4>1. \A j \in Second : j \in better <=> j \in Better
        BY <1>4, <3>1 DEF Better
      <4> QED
        BY <4>1 DEF Better
    <3> HIDE DEF better
    <3>3. CASE better = {}
      <4>1. best' = best
        BY <1>1, <3>3 DEF Accepted, better
      <4> QED
        BY <3>1, <3>2, <3>3, <4>1 DEF LeadsAfter
    <3>4. CASE better # {}
      <4>1. best' = Smallest(better)
        BY <1>1, <3>4 DEF Accepted, better
      <4>2. better \in SUBSET All /\ better \subseteq Second
        BY <1>4 DEF better
      <4>3. /\ best' \in better
            /\ \A j \in better : SizeOf(best') <= SizeOf(j)
            /\ \A j \in better : SizeOf(j) = SizeOf(best') => best' <= j
        BY <1>1, <3>4, <4>1, <4>2, SmallestIs
      <4>4. \A j \in better : Sizes[best'] < Sizes[j]
                               \/ (Sizes[best'] = Sizes[j] /\ best' <= j)
        BY <1>4, <4>2, <4>3
      <4> QED
        BY <3>2, <4>2, <4>3, <4>4 DEF LeadsAfter
    <3> QED
      BY <3>3, <3>4
  <2> QED
    BY <2>1, <2>2
<1>6. AgreedJudge'
  BY <1>2, <1>4, <1>5 DEF AgreedJudge, LeadsAfter
<1> QED
  BY <1>1, <1>6 DEF AgreedImprove, AgreedDone

LEMMA JudgeAgrees ==
  ASSUME Inv, Fair, AgreedJudge, Judge
  PROVE  AgreedImprove' /\ AgreedJudge' /\ AgreedDone'
<1>1. /\ Inputs /\ Typed /\ InJudge /\ UNCHANGED input
      /\ pc = "judge" /\ pc' = "done" /\ compact = SizeMax
  BY DEF Inv, Typed, Judge, Fair
<1>2. /\ Second' = Second /\ Sizes' = Sizes
      /\ Usable' = Usable /\ Lead' = Lead /\ Better' = Better
  BY <1>1, SameInput, SameLead
<1>3. /\ None \notin All /\ SizeMax \in Nat
      /\ \A j \in All : Sizes[j] = SizeOf(j) /\ Sizes[j] \in Nat /\ Sizes[j] < SizeMax
      /\ None' = None
  BY <1>1, SizesTyped, SizesAreNat DEF None
<1>4. CASE Usable = {}
  <2>1. best = None
    BY <1>1, <1>4 DEF AgreedJudge
  <2>2. returned' = None
    BY <1>1, <2>1 DEF Judge
  <2> QED
    BY <1>1, <1>2, <1>3, <1>4, <2>2 DEF AgreedImprove, AgreedJudge, AgreedDone
<1>5. CASE Usable # {}
  <2>1. LeadsAfter(best, Second)
    BY <1>1, <1>5 DEF AgreedJudge
  <2>2. best \in All
    BY <1>1, <1>5, <2>1, LeadIs DEF LeadsAfter, Better, All
  <2>3. returned' = best
    BY <1>1, <1>3, <2>2 DEF Judge
  <2> QED
    BY <1>1, <1>2, <1>5, <2>1, <2>3
       DEF AgreedImprove, AgreedJudge, AgreedDone, LeadsAfter
<1> QED
  BY <1>4, <1>5

LEMMA AgreedStays ==
  ASSUME Inv, Inv', Agreed, [Next]_vars
  PROVE  Agreed'
<1>1. Inputs
  BY DEF Inv, Typed
<1>2. UNCHANGED input
  BY DEF Next, vars, input, TrialAlone, TrialTogether, Pick, RetryAlone,
         RetryTogether, Close, Judge
<1>3. Fair' => Fair
  BY <1>1, <1>2, SameInput DEF Fair, SizeMax
<1> SUFFICES ASSUME Fair, AgreedImprove, AgreedJudge, AgreedDone
             PROVE  AgreedImprove' /\ AgreedJudge' /\ AgreedDone'
  BY <1>3 DEF Agreed
<1>4. CASE pc' = "trials"
  BY <1>4 DEF AgreedImprove, AgreedJudge, AgreedDone
<1>5. CASE UNCHANGED vars
  <2>1. /\ Second' = Second /\ Sizes' = Sizes /\ threads' = threads /\ retries' = retries
        /\ Usable' = Usable /\ Lead' = Lead /\ Better' = Better /\ None' = None
    BY <1>1, <1>2, SameInput, SameLead DEF None
  <2> QED
    BY <1>5, <2>1 DEF vars, AgreedImprove, AgreedJudge, AgreedDone, LeadsAfter,
                      AloneAgain, Processed
<1>6. CASE TrialAlone \/ \E i \in First : TrialTogether(i)
  BY <1>4, <1>6 DEF TrialAlone, TrialTogether, Inv, InTrials
<1> QED
  BY <1>5, <1>6, PickAgrees, RetryAloneAgrees, RetryTogetherAgrees, CloseAgrees,
     JudgeAgrees DEF Next

-----------------------------------------------------------------------------
(* What one thread would return.                                            *)

\* Of the first n trials: the usable ones, the least of their sizes, and those
\* that one thread completes, because none before them is smaller.
Seen(n) == {i \in 1..n : i \in Usable}
Lowest(n) ==
  IF Seen(n) = {} THEN SizeMax ELSE Min({trials[i].size : i \in Seen(n)})
Front(n) ==
  {i \in Seen(n) : \A j \in Seen(n) : j < i => trials[i].size <= trials[j].size}

LEMMA LowestIs ==
  ASSUME Inputs, NEW n \in 0..Len(trials)
  PROVE  /\ Seen(n) = {} => Lowest(n) = SizeMax
         /\ Seen(n) # {} => \E i \in Seen(n) : Lowest(n) = trials[i].size
         /\ \A i \in Seen(n) : Lowest(n) <= trials[i].size
         /\ Lowest(n) \in Nat
<1> DEFINE sizes == {trials[i].size : i \in Seen(n)}
<1>1. sizes \in SUBSET Nat /\ SizeMax \in Nat
  BY SizesTyped, SizesAreNat DEF Seen, Usable, All
<1>2. CASE Seen(n) = {}
  BY <1>1, <1>2 DEF Lowest
<1>3. CASE Seen(n) # {}
  <2>1. Min(sizes) \in sizes /\ \A y \in sizes : Min(sizes) <= y
    <3>1. sizes # {}
      BY <1>3
    <3> HIDE DEF sizes
    <3> QED
      BY <1>1, <3>1, MinIs
  <2>2. Lowest(n) = Min(sizes)
    BY <1>3 DEF Lowest
  <2> QED
    BY <1>1, <1>3, <2>1, <2>2
<1> QED
  BY <1>2, <1>3

\* One thread comes to the next trial.
RunStep(r, n) ==
  IF \/ trials[n].size \notin 1..r.best
     \/ trials[n].mode = 39 /\ r.best \in (SparseLimit + 1)..MaxSize
  THEN r
  ELSE [best |-> trials[n].size, ok |-> r.ok \cup {n}]

LEMMA NextTrial ==
  ASSUME Inputs, Fair, NEW n \in 1..Len(trials)
  PROVE  RunStep([best |-> Lowest(n - 1), ok |-> Front(n - 1)], n)
           = [best |-> Lowest(n), ok |-> Front(n)]
<1>1. /\ Len(trials) \in Nat /\ n \in Nat /\ n - 1 \in Nat /\ n - 1 \in 0..Len(trials)
      /\ n \in 0..Len(trials) /\ 1..n = (1..(n - 1)) \cup {n} /\ n \notin 1..(n - 1)
      /\ n \in First
  <2>1. Len(trials) \in Nat
    BY LenProperties DEF Inputs
  <2> QED
    BY <2>1 DEF First
<1>2. /\ trials[n].size \in Nat /\ trials[n].size < SizeMax /\ SizeMax \in Nat
      /\ trials[n].mode # 39
      /\ \A i \in First : trials[i].size \in Nat
  BY <1>1, SizesTyped, SizesAreNat DEF Fair, All
<1> DEFINE size == trials[n].size
           p == n - 1
<1>3. n \in Usable <=> size > 0
  BY <1>1 DEF Usable
<1>4. Seen(n) = IF size > 0 THEN Seen(p) \cup {n} ELSE Seen(p)
  BY <1>1, <1>3 DEF Seen
<1>5. \A i \in Seen(p) : i \in Nat /\ i < n /\ i \in First /\ trials[i].size \in Nat
  BY <1>1, <1>2 DEF Seen, Usable
<1>6. /\ Seen(p) = {} => Lowest(p) = SizeMax
      /\ Seen(p) # {} => \E i \in Seen(p) : Lowest(p) = trials[i].size
      /\ \A i \in Seen(p) : Lowest(p) <= trials[i].size
      /\ Lowest(p) \in Nat
  BY <1>1, LowestIs
<1>7. /\ Seen(n) = {} => Lowest(n) = SizeMax
      /\ Seen(n) # {} => \E i \in Seen(n) : Lowest(n) = trials[i].size
      /\ \A i \in Seen(n) : Lowest(n) <= trials[i].size
      /\ Lowest(n) \in Nat
  BY <1>1, LowestIs
<1> HIDE DEF p, size
<1>8. RunStep([best |-> Lowest(p), ok |-> Front(p)], n)
        = IF size \in 1..Lowest(p)
          THEN [best |-> size, ok |-> Front(p) \cup {n}]
          ELSE [best |-> Lowest(p), ok |-> Front(p)]
  BY <1>2 DEF RunStep, size
<1>9. CASE size = 0
  <2>1. Seen(n) = Seen(p)
    BY <1>4, <1>9
  <2>2. Lowest(n) = Lowest(p) /\ Front(n) = Front(p)
    BY <2>1 DEF Lowest, Front
  <2> QED
    BY <1>6, <1>8, <1>9, <2>2 DEF p
<1>10. CASE size > 0 /\ size <= Lowest(p)
  <2>1. Seen(n) = Seen(p) \cup {n}
    BY <1>4, <1>10
  <2>2. Lowest(n) = size
    <3>1. \A i \in Seen(n) : size <= trials[i].size
      BY <1>2, <1>5, <1>6, <1>10, <2>1 DEF size
    <3>2. n \in Seen(n) /\ Lowest(n) <= size
      BY <1>7, <2>1 DEF size
    <3> QED
      BY <1>2, <1>7, <3>1, <3>2 DEF size
  <2>3. Front(n) = Front(p) \cup {n}
    <3>1. \A i \in Seen(p) : i \in Front(n) <=> i \in Front(p)
      BY <1>1, <1>5, <2>1 DEF Front
    <3>2. n \in Front(n)
      BY <1>1, <1>2, <1>5, <1>6, <1>10, <2>1 DEF Front, size
    <3>3. Front(n) \subseteq Seen(n) /\ Front(p) \subseteq Seen(p)
      BY DEF Front
    <3> QED
      BY <2>1, <3>1, <3>2, <3>3
  <2>4. size \in 1..Lowest(p)
    BY <1>2, <1>6, <1>10 DEF size
  <2> QED
    BY <1>8, <2>2, <2>3, <2>4 DEF p
<1>11. CASE size > Lowest(p)
  <2>1. Seen(n) = Seen(p) \cup {n}
    BY <1>2, <1>4, <1>6, <1>11 DEF size
  <2>2. PICK k \in Seen(p) : Lowest(p) = trials[k].size
    BY <1>2, <1>6, <1>11 DEF size
  <2>3. Lowest(n) = Lowest(p)
    <3>1. \A i \in Seen(n) : Lowest(p) <= trials[i].size
      BY <1>2, <1>5, <1>6, <1>11, <2>1 DEF size
    <3>2. Lowest(n) <= Lowest(p)
      BY <1>7, <2>1, <2>2
    <3>3. Lowest(p) <= Lowest(n)
      BY <1>7, <2>1, <2>2, <3>1
    <3> QED
      BY <1>6, <1>7, <3>2, <3>3
  <2>4. Front(n) = Front(p)
    <3>1. \A i \in Seen(p) : i \in Front(n) <=> i \in Front(p)
      BY <1>1, <1>5, <2>1 DEF Front
    <3>2. n \notin Front(n)
      BY <1>1, <1>2, <1>5, <1>11, <2>1, <2>2 DEF Front, size
    <3>3. Front(n) \subseteq Seen(n) /\ Front(p) \subseteq Seen(p)
      BY DEF Front
    <3> QED
      BY <2>1, <3>1, <3>2, <3>3
  <2>5. size \notin 1..Lowest(p)
    BY <1>2, <1>6, <1>11 DEF size
  <2> QED
    BY <1>8, <2>3, <2>4, <2>5 DEF p
<1>12. size \in Nat /\ Lowest(p) \in Nat
  BY <1>2, <1>6 DEF size
<1> QED
  BY <1>9, <1>10, <1>11, <1>12

LEMMA OneThreadIs ==
  ASSUME Inputs, Fair
  PROVE  IF Usable = {} THEN OneThread = None ELSE LeadsAfter(OneThread, Second)
<1> DEFINE from(g) == [n \in 0..Len(trials) |->
                         IF n = 0 THEN [best |-> SizeMax, ok |-> {}]
                         ELSE RunStep(g[n - 1], n)]
           run == CHOOSE g : g = from(g)
           told == [n \in 0..Len(trials) |-> [best |-> Lowest(n), ok |-> Front(n)]]
           tried == run[Len(trials)].ok
           first == Winner(tried)
           better == {i \in Second : SizeOf(i) \in 1..(SizeOf(first) - 1)}
           won == IF better = {} THEN first ELSE Smallest(better)
<1>1. OneThread = IF tried = {} THEN None ELSE IF SizeOf(won) < compact THEN won ELSE 0
  BY DEF OneThread, RunStep, Winner
<1>2. Len(trials) \in Nat
  BY LenProperties DEF Inputs
<1>3. told = from(told)
  <2>1. ASSUME NEW n \in 0..Len(trials)
        PROVE  told[n] = IF n = 0 THEN [best |-> SizeMax, ok |-> {}]
                         ELSE RunStep(told[n - 1], n)
    <3>1. CASE n = 0
      <4>1. Seen(n) = {}
        BY <3>1 DEF Seen
      <4> QED
        BY <3>1, <4>1 DEF Lowest, Front
    <3>2. CASE n # 0
      <4>1. n \in 1..Len(trials) /\ n - 1 \in 0..Len(trials)
        BY <1>2, <3>2
      <4> QED
        BY <3>2, <4>1, NextTrial
    <3> QED
      BY <3>1, <3>2
  <2> HIDE DEF told
  <2>2. told = [n \in 0..Len(trials) |-> told[n]]
    BY DEF told
  <2> QED
    BY <2>1, <2>2
<1>4. run = from(run)
  <2>1. \E g : g = from(g)
    BY <1>3
  <2> HIDE DEF from
  <2> QED
    BY <2>1
<1> HIDE DEF run, told
<1>5. tried = Front(Len(trials))
  <2> DEFINE Same == {n \in Nat : n \in 0..Len(trials) => run[n] = told[n]}
  <2>1. 0 \in Same
    <3>1. 0 \in 0..Len(trials)
      BY <1>2
    <3> QED
      BY <1>3, <1>4, <3>1
  <2>2. ASSUME NEW n \in Same PROVE n + 1 \in Same
    <3> SUFFICES ASSUME n + 1 \in 0..Len(trials) PROVE run[n + 1] = told[n + 1]
      OBVIOUS
    <3>1. n \in Nat /\ n \in 0..Len(trials) /\ (n + 1) - 1 = n /\ n + 1 # 0
      BY <1>2
    <3>2. run[n] = told[n]
      BY <3>1
    <3>3. run[n + 1] = RunStep(run[n], n + 1)
      BY <1>4, <3>1
    <3>4. told[n + 1] = RunStep(told[n], n + 1)
      BY <1>3, <3>1
    <3> QED
      BY <3>2, <3>3, <3>4
  <2>3. Same = Nat
    <3> HIDE DEF Same
    <3>1. Same \in SUBSET Nat
      BY DEF Same
    <3> QED
      BY <2>1, <2>2, <3>1, Induction
  <2>4. Len(trials) \in Same /\ Len(trials) \in 0..Len(trials)
    BY <1>2, <2>3
  <2> QED
    BY <2>4 DEF told
<1>6. Seen(Len(trials)) = Usable
  BY DEF Seen, Usable, First
<1>7. tried \subseteq Usable /\ Leaders \subseteq tried
  <2>1. Usable \subseteq Nat /\ \A i \in Usable : trials[i].size \in Nat
    BY SizesTyped, SizesAreNat DEF Usable, All
  <2> QED
    BY <1>5, <1>6, <2>1 DEF Front, Leaders
<1> HIDE DEF tried
<1>8. CASE Usable = {}
  BY <1>1, <1>7, <1>8
<1>9. CASE Usable # {}
  <2>1. tried # {} /\ first = Lead
    BY <1>7, <1>9, LeadersDecide
  <2>2. /\ Lead \in All /\ Second \subseteq All /\ SizeMax \in Nat
        /\ \A j \in All : /\ Sizes[j] = SizeOf(j) /\ Sizes[j] \in Nat /\ j \in Nat
                          /\ Sizes[j] < SizeMax
    BY <1>9, LeadIs, SizesTyped, SizesAreNat DEF All
  <2>3. better = Better
    BY <2>1, <2>2 DEF Better
  <2> HIDE DEF first, better
  <2>4. LeadsAfter(won, Second) /\ won \in All
    <3>1. CASE better = {}
      BY <2>1, <2>2, <2>3, <3>1 DEF LeadsAfter
    <3>2. CASE better # {}
      <4>1. better \in SUBSET All /\ better \subseteq Second
        BY <2>2 DEF better
      <4>2. /\ won \in better
            /\ \A j \in better : SizeOf(won) <= SizeOf(j)
            /\ \A j \in better : SizeOf(j) = SizeOf(won) => won <= j
        BY <3>2, <4>1, SmallestIs
      <4>3. \A j \in better : Sizes[won] < Sizes[j]
                               \/ (Sizes[won] = Sizes[j] /\ won <= j)
        BY <2>2, <4>1, <4>2
      <4> QED
        BY <2>3, <4>1, <4>2, <4>3 DEF LeadsAfter
    <3> QED
      BY <3>1, <3>2
  <2>5. SizeOf(won) < compact
    BY <2>2, <2>4 DEF Fair
  <2> HIDE DEF won
  <2> QED
    BY <1>1, <1>9, <2>1, <2>4, <2>5
<1> QED
  BY <1>8, <1>9

THEOREM Agreement ==
  Spec => []Agreed
<1>1. Init => Agreed
  BY DEF Init, Agreed, AgreedImprove, AgreedJudge, AgreedDone
<1>2. Inv /\ Inv' /\ Agreed /\ [Next]_vars => Agreed'
  BY AgreedStays
<1> QED
  BY <1>1, <1>2, Invariance, PTL DEF Spec

\* The stream that is returned is the one a single thread returns, whatever
\* the number of threads and the order in which they finish, for every picture
\* whose trials all had the same chance.
THEOREM SameStream ==
  Spec => []ThreadsAgree
<1>1. ASSUME Inv, Agreed PROVE ThreadsAgree
  <2> SUFFICES ASSUME pc = "done", Fair PROVE returned = OneThread
    BY DEF ThreadsAgree, Fair
  <2>1. Inputs
    BY <1>1 DEF Inv, Typed
  <2>2. IF Usable = {} THEN returned = None ELSE LeadsAfter(returned, Second)
    BY <1>1 DEF Agreed, AgreedDone
  <2> QED
    BY <2>1, <2>2, OneThreadIs, OneLeads
<1> QED
  BY <1>1, Invariance, Agreement, PTL
===============================================================================
