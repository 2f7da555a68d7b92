---------------------------- MODULE GuiViewerProofs ----------------------------
(***************************************************************************)
(* Proofs for any number of results, of decodes under way and of frames:   *)
(* each live result has one owner while the window exists, and the bitmap  *)
(* on screen is the current frame of the result on display.                *)
(*                                                                         *)
(* OneResultOwner counts owners; with it go that a thread which has not    *)
(* begun uses memory nobody has (Inv), and facts about the number of       *)
(* messages with a result when one is added or taken.                      *)
(***************************************************************************)
EXTENDS GuiViewer, SequenceTheorems, FiniteSetTheorems, TLAPS

Results == Slots \cup {None}
States == {"free", "live", "freed twice"}

TypeInv ==
  /\ window \in {"open", "destroyed"}
  /\ view \in Results /\ frame \in Nat
  /\ worker \in [Slots -> {"none", "begin", "decode"}]
  /\ queue \in Seq(Results)
  /\ memory \in [Slots -> [state : States, frames : Nat]]

\* The messages that carry s.
Held(q, s) == {i \in 1..Len(q) : q[i] = s}

\* No memory is freed twice, and a thread that has not begun has free memory.
MemoryInv ==
  window = "open" => \A s \in Slots :
    /\ memory[s].state # "freed twice"
    /\ worker[s] = "begin" => memory[s].state = "free"

Inv ==
  /\ TypeInv /\ MemoryInv /\ OneResultOwner /\ PictureIsCurrentFrame
  /\ picture # None => window = "open"

-----------------------------------------------------------------------------
(* Messages.                                                                *)

LEMMA HeldFinite ==
  ASSUME NEW q \in Seq(Results), NEW s
  PROVE  IsFiniteSet(Held(q, s)) /\ Cardinality(Held(q, s)) \in Nat
<1>1. Len(q) \in Nat
  BY LenProperties
<1>2. IsFiniteSet(1..Len(q)) /\ Held(q, s) \in SUBSET (1..Len(q))
  BY <1>1, FS_Interval DEF Held
<1> QED
  BY <1>2, FS_Subset, FS_CardinalityType

LEMMA HeldNone ==
  ASSUME NEW s
  PROVE  Cardinality(Held(<<>>, s)) = 0
<1>1. Held(<<>>, s) = {}
  BY DEF Held
<1> QED
  BY <1>1, FS_EmptySet

\* A message more.
LEMMA HeldAppend ==
  ASSUME NEW q \in Seq(Results), NEW r \in Results, NEW s
  PROVE  Cardinality(Held(Append(q, r), s)) = Cardinality(Held(q, s)) + (IF r = s THEN 1 ELSE 0)
<1> DEFINE n == Len(q) + 1
<1>1. /\ Len(q) \in Nat /\ Len(Append(q, r)) = n /\ Append(q, r)[n] = r
      /\ \A i \in 1..Len(q) : Append(q, r)[i] = q[i]
  BY AppendProperties, LenProperties
<1>2. n \notin Held(q, s)
  BY <1>1 DEF Held
<1>3. CASE r = s
  <2>1. Held(Append(q, r), s) = Held(q, s) \cup {n}
    BY <1>1, <1>3 DEF Held
  <2> QED
    BY <1>2, <1>3, <2>1, HeldFinite, FS_AddElement
<1>4. CASE r # s
  <2>1. Held(Append(q, r), s) = Held(q, s)
    BY <1>1, <1>4 DEF Held
  <2> QED
    BY <1>4, <2>1, HeldFinite
<1> QED
  BY <1>3, <1>4

\* A message less.
LEMMA HeldTail ==
  ASSUME NEW q \in Seq(Results), q # <<>>, NEW s
  PROVE  Cardinality(Held(q, s)) = Cardinality(Held(Tail(q), s)) + (IF Head(q) = s THEN 1 ELSE 0)
<1> DEFINE rest == Held(Tail(q), s)
           later == {i \in Held(q, s) : i # 1}
<1>1. /\ Tail(q) \in Seq(Results) /\ Len(q) \in Nat \ {0} /\ Len(Tail(q)) = Len(q) - 1
      /\ \A i \in 1..Len(Tail(q)) : Tail(q)[i] = q[i + 1]
      /\ Head(q) = q[1]
  BY HeadTailProperties, EmptySeq, LenProperties
<1>2. [i \in rest |-> i + 1] \in Bijection(rest, later)
  <2> DEFINE f == [i \in rest |-> i + 1]
  <2>1. \A i \in rest : i \in Int /\ i + 1 \in later
    BY <1>1 DEF Held
  <2>2. f \in [rest -> later]
    BY <2>1
  <2>3. \A i, j \in rest : f[i] = f[j] => i = j
    BY <2>1
  <2>4. \A k \in later : k - 1 \in rest /\ f[k - 1] = k
    <3> SUFFICES ASSUME NEW k \in later PROVE k - 1 \in rest /\ f[k - 1] = k
      OBVIOUS
    <3>1. k \in 2..Len(q) /\ q[k] = s
      BY <1>1 DEF Held
    <3>2. k - 1 \in 1..Len(Tail(q)) /\ (k - 1) + 1 = k
      BY <1>1, <3>1
    <3>3. k - 1 \in rest
      BY <1>1, <3>1, <3>2 DEF Held
    <3> QED
      BY <3>2, <3>3
  <2>5. f \in Surjection(rest, later)
    BY <2>2, <2>4 DEF Surjection
  <2> QED
    BY <2>2, <2>3, <2>5 DEF Bijection, Injection, IsInjective
<1>3. IsFiniteSet(rest) /\ Cardinality(rest) \in Nat
  BY <1>1, HeldFinite
<1>4. IsFiniteSet(later) /\ Cardinality(later) = Cardinality(rest)
  BY <1>2, <1>3, FS_Bijection DEF ExistsBijection
<1>5. 1 \notin later
  OBVIOUS
<1>6. IF Head(q) = s THEN Held(q, s) = later \cup {1} ELSE Held(q, s) = later
  BY <1>1 DEF Held
<1> HIDE DEF rest, later
<1>7. Cardinality(Held(q, s)) = Cardinality(rest) + (IF Head(q) = s THEN 1 ELSE 0)
  <2>1. Cardinality(later \cup {1}) = Cardinality(later) + 1
    BY <1>4, <1>5, FS_AddElement
  <2>2. CASE Head(q) = s
    BY <1>4, <1>6, <2>1, <2>2
  <2>3. CASE Head(q) # s
    BY <1>3, <1>4, <1>6, <2>3
  <2> QED
    BY <2>2, <2>3
<1> QED
  BY <1>7 DEF rest

-----------------------------------------------------------------------------
(* Owners.                                                                  *)

\* How many own the result s.
Owners(s) ==
  Cardinality(Held(queue, s)) + (IF worker[s] = "decode" THEN 1 ELSE 0)
    + (IF view = s THEN 1 ELSE 0)

LEMMA Owned ==
  OneResultOwner <=>
    (window = "open" => \A s \in Slots : Owners(s) = IF memory[s].state = "live" THEN 1 ELSE 0)
BY DEF OneResultOwner, Owners, Held

LEMMA OwnedNext ==
  OneResultOwner' <=>
    (window' = "open" => \A s \in Slots :
       Cardinality(Held(queue', s)) + (IF worker'[s] = "decode" THEN 1 ELSE 0)
         + (IF view' = s THEN 1 ELSE 0) = IF memory'[s].state = "live" THEN 1 ELSE 0)
BY DEF OneResultOwner, Held

\* The result on display is live, and nobody else has it.
LEMMA Displayed ==
  ASSUME Inv, window = "open", view # None
  PROVE  /\ view \in Slots /\ memory[view].state = "live" /\ worker[view] = "none"
         /\ Cardinality(Held(queue, view)) = 0
<1>1. view \in Slots /\ Cardinality(Held(queue, view)) \in Nat
  BY HeldFinite DEF Inv, TypeInv, Results
<1>2. Owners(view) = IF memory[view].state = "live" THEN 1 ELSE 0
  BY <1>1, Owned DEF Inv
<1>3. memory[view].state = "live" /\ worker[view] # "decode" /\ Cardinality(Held(queue, view)) = 0
  BY <1>1, <1>2 DEF Owners
<1>4. worker[view] \in {"none", "begin", "decode"}
  BY <1>1 DEF Inv, TypeInv
<1> QED
  BY <1>1, <1>3, <1>4 DEF Inv, MemoryInv

\* free_view_result of the result on display.
LEMMA FreedView ==
  ASSUME Inv, window = "open"
  PROVE  /\ Freed(view) \in [Slots -> [state : States, frames : Nat]]
         /\ \A s \in Slots : s # view => Freed(view)[s] = memory[s]
         /\ \A s \in Slots : s = view => Freed(view)[s].state = "free"
<1>1. CASE view = None
  BY <1>1, SlotsAssumption DEF Freed, Inv, TypeInv
<1>2. CASE view # None
  <2>1. view \in Slots /\ memory[view].state = "live"
    BY <1>2, Displayed
  <2>2. Freed(view) = [memory EXCEPT ![view] = Unused("free")]
    BY <1>2, <2>1 DEF Freed, Inv, TypeInv
  <2>3. Unused("free") \in [state : States, frames : Nat] /\ Unused("free").state = "free"
    BY DEF Unused, States
  <2> QED
    BY <2>1, <2>2, <2>3 DEF Inv, TypeInv
<1> QED
  BY <1>1, <1>2

LEMMA InitInv == Init => Inv
<1> SUFFICES ASSUME Init PROVE Inv
  OBVIOUS
<1> USE DEF Init
<1>1. TypeInv
  BY EmptySeq DEF TypeInv, Results, Unused, States
<1>2. MemoryInv /\ PictureIsCurrentFrame
  BY DEF MemoryInv, PictureIsCurrentFrame, Unused
<1>3. OneResultOwner
  <2>1. \A s \in Slots : Owners(s) = 0
    BY HeldNone, SlotsAssumption DEF Owners
  <2>2. \A s \in Slots : memory[s].state = "free"
    BY DEF Unused
  <2> QED
    BY <2>1, <2>2, Owned
<1> QED
  BY <1>1, <1>2, <1>3 DEF Inv

\* The page is left, or the next file is opened: the old result goes.
LEMMA OpenKeepsInv ==
  ASSUME Inv, Open \/ Leave
  PROVE  Inv'
<1>1. /\ window = "open" /\ view' = None /\ memory' = Freed(view)
      /\ frame' = 0 /\ picture' = None /\ UNCHANGED <<window, queue>>
  BY DEF Open, Leave
<1>2. \/ UNCHANGED worker
      \/ \E s \in Available : worker' = [worker EXCEPT ![s] = "begin"]
  BY DEF Open, Leave
<1>3. /\ memory' \in [Slots -> [state : States, frames : Nat]]
      /\ \A s \in Slots : s # view => memory'[s] = memory[s]
      /\ \A s \in Slots : s = view => memory'[s].state = "free"
  BY <1>1, FreedView
<1>4. /\ worker' \in [Slots -> {"none", "begin", "decode"}]
      /\ \A s \in Slots : \/ worker'[s] = worker[s]
                          \/ worker'[s] = "begin" /\ worker[s] = "none" /\ memory[s].state = "free"
  BY <1>2 DEF Available, Working, Inv, TypeInv
<1>5. TypeInv'
  BY <1>1, <1>3, <1>4 DEF Inv, TypeInv, Results
<1>6. MemoryInv'
  BY <1>1, <1>3, <1>4 DEF Inv, MemoryInv
<1>7. OneResultOwner'
  <2> SUFFICES ASSUME NEW s \in Slots
               PROVE  Cardinality(Held(queue, s)) + (IF worker'[s] = "decode" THEN 1 ELSE 0)
                        = IF memory'[s].state = "live" THEN 1 ELSE 0
    BY <1>1, OwnedNext, SlotsAssumption
  <2>1. worker'[s] = "decode" <=> worker[s] = "decode"
    BY <1>4
  <2>2. CASE s = view
    BY <1>1, <1>3, <2>1, <2>2, Displayed, SlotsAssumption
  <2>3. CASE s # view
    <3>1. Owners(s) = IF memory[s].state = "live" THEN 1 ELSE 0
      BY <1>1, Owned DEF Inv
    <3>2. Cardinality(Held(queue, s)) \in Nat
      BY HeldFinite DEF Inv, TypeInv
    <3> QED
      BY <1>3, <2>1, <2>3, <3>1, <3>2 DEF Owners
  <2> QED
    BY <2>2, <2>3
<1> QED
  BY <1>1, <1>5, <1>6, <1>7 DEF Inv, PictureIsCurrentFrame

\* The message hands its result to the window.
LEMMA ViewDoneKeepsInv ==
  ASSUME Inv, ViewDone
  PROVE  Inv'
<1> DEFINE r == Head(queue)
<1>1. /\ window = "open" /\ queue # <<>> /\ queue' = Tail(queue) /\ memory' = Freed(view)
      /\ view' = r /\ UNCHANGED <<window, worker>>
      /\ \/ r # None /\ memory[r].frames > 0 /\ picture' = <<r, 0>> /\ frame' = 0
         \/ picture' = None /\ UNCHANGED frame
  BY DEF ViewDone, Installed
<1>2. queue \in Seq(Results) /\ r \in Results /\ queue' \in Seq(Results)
  BY <1>1, HeadTailProperties DEF Inv, TypeInv
<1>3. /\ memory' \in [Slots -> [state : States, frames : Nat]]
      /\ \A s \in Slots : s # view => memory'[s] = memory[s]
      /\ \A s \in Slots : s = view => memory'[s].state = "free"
  BY <1>1, FreedView
<1>4. \A s \in Slots :
        /\ Cardinality(Held(queue, s)) = Cardinality(Held(queue', s)) + (IF r = s THEN 1 ELSE 0)
        /\ Cardinality(Held(queue, s)) \in Nat /\ Cardinality(Held(queue', s)) \in Nat
        /\ Owners(s) = IF memory[s].state = "live" THEN 1 ELSE 0
  BY <1>1, <1>2, HeldTail, HeldFinite, Owned DEF Inv
<1> HIDE DEF r
<1>5. ASSUME r # None
      PROVE  r \in Slots /\ r # view /\ memory'[r] = memory[r] /\ memory[r].state = "live"
  <2>1. r \in Slots /\ Cardinality(Held(queue, r)) >= 1
    BY <1>2, <1>4, <1>5 DEF Results
  <2>2. Owners(r) >= 1 /\ (r = view => Owners(r) >= 2)
    BY <1>4, <2>1 DEF Owners
  <2> QED
    BY <1>3, <1>4, <2>1, <2>2
<1>6. TypeInv'
  <2>1. frame' \in Nat
    BY <1>1 DEF Inv, TypeInv
  <2> QED
    BY <1>1, <1>2, <1>3, <2>1 DEF Inv, TypeInv
<1>7. MemoryInv'
  BY <1>1, <1>3 DEF Inv, MemoryInv
<1>8. OneResultOwner'
  <2> SUFFICES ASSUME NEW s \in Slots
               PROVE  Cardinality(Held(queue', s)) + (IF worker[s] = "decode" THEN 1 ELSE 0)
                        + (IF r = s THEN 1 ELSE 0) = IF memory'[s].state = "live" THEN 1 ELSE 0
    BY <1>1, OwnedNext
  <2>1. CASE s = view
    <3>1. Cardinality(Held(queue, s)) = 0 /\ worker[s] = "none" /\ memory'[s].state = "free"
      BY <1>1, <1>3, <2>1, Displayed, SlotsAssumption
    <3> QED
      BY <1>4, <3>1
  <2>2. CASE s # view
    BY <1>3, <1>4, <2>2 DEF Owners
  <2> QED
    BY <2>1, <2>2
<1>9. PictureIsCurrentFrame'
  BY <1>1, <1>5 DEF PictureIsCurrentFrame, Count
<1> QED
  BY <1>1, <1>6, <1>7, <1>8, <1>9 DEF Inv

\* Another frame of the same result.
LEMMA FrameKeepsInv ==
  ASSUME Inv, window = "open", Count > 1, UNCHANGED <<window, view, worker, queue, memory>>,
         \/ UNCHANGED <<picture, frame>>
         \/ picture' = None /\ UNCHANGED frame
         \/ \E i \in Nat : i < Count /\ picture' = <<view, i>> /\ frame' = i
  PROVE  Inv'
<1>1. view # None
  BY DEF Count
<1>2. memory[view].state = "live"
  BY <1>1, Displayed
<1>3. TypeInv'
  BY DEF Inv, TypeInv
<1>4. MemoryInv' /\ OneResultOwner'
  BY DEF Inv, MemoryInv, OneResultOwner
<1>5. PictureIsCurrentFrame'
  BY <1>1, <1>2 DEF Inv, PictureIsCurrentFrame, Count
<1> QED
  BY <1>3, <1>4, <1>5 DEF Inv

LEMMA CountRange ==
  ASSUME Inv, Count > 1
  PROVE  /\ Count \in Nat
         /\ (IF frame > 0 THEN frame - 1 ELSE Count - 1) \in Nat
         /\ (frame + 1) % Count \in Nat /\ (frame + 1) % Count < Count
<1>1. Count \in Nat /\ frame \in Nat
  BY DEF Inv, TypeInv, Count, Results
<1> QED
  BY <1>1

LEMMA StepKeepsInv ==
  ASSUME Inv, Step \/ Play \/ Timer
  PROVE  Inv'
<1>1. /\ window = "open" /\ Count > 1
      /\ UNCHANGED <<window, view, worker, queue, memory>>
  BY DEF Step, Play, Timer
<1>2. ASSUME NEW i \in Nat, NEW failed \in BOOLEAN, Select(i, failed)
      PROVE  Inv'
  <2>1. \/ UNCHANGED <<picture, frame>>
        \/ picture' = None /\ UNCHANGED frame
        \/ i < Count /\ picture' = <<view, i>> /\ frame' = i
    BY <1>1, <1>2, CountRange DEF Select
  <2> QED
    BY <1>1, <2>1, FrameKeepsInv
<1>3. CASE Step
  BY <1>1, <1>2, <1>3, CountRange DEF Step
<1>4. CASE Play
  BY <1>1, <1>4, FrameKeepsInv DEF Play
<1>5. CASE Timer
  BY <1>1, <1>2, <1>5, CountRange DEF Timer
<1> QED
  BY <1>3, <1>4, <1>5

LEMMA DestroyKeepsInv ==
  ASSUME Inv, Destroy
  PROVE  Inv'
<1>1. /\ window = "open" /\ window' = "destroyed" /\ picture' = None /\ view' = None
      /\ memory' = Freed(view) /\ queue' = <<>> /\ UNCHANGED <<frame, worker>>
  BY DEF Destroy
<1>2. TypeInv'
  BY <1>1, FreedView, EmptySeq DEF Inv, TypeInv, Results
<1> QED
  BY <1>1, <1>2 DEF Inv, MemoryInv, OneResultOwner, PictureIsCurrentFrame

\* What a thread does to its result leaves the one on display alone.
LEMMA ThreadPicture ==
  ASSUME Inv, NEW s \in Slots, worker[s] # "none",
         UNCHANGED <<window, view, picture, frame>>,
         \A t \in Slots : t # s => memory'[t] = memory[t]
  PROVE  PictureIsCurrentFrame'
<1> SUFFICES ASSUME picture # None PROVE PictureIsCurrentFrame'
  BY DEF PictureIsCurrentFrame
<1>1. window = "open" /\ frame < Count /\ memory[view].state = "live" /\ picture = <<view, frame>>
  BY DEF Inv, PictureIsCurrentFrame
<1>2. view # None
  BY <1>1 DEF Count, Inv, TypeInv
<1>3. view \in Slots /\ view # s
  BY <1>1, <1>2, Displayed
<1> QED
  BY <1>1, <1>3 DEF PictureIsCurrentFrame, Count

LEMMA BeginKeepsInv ==
  ASSUME Inv, NEW s \in Slots, Begin(s)
  PROVE  Inv'
<1>1. worker[s] = "begin" /\ UNCHANGED <<window, view, frame, picture>>
  BY DEF Begin, page
<1>2. CASE worker' = [worker EXCEPT ![s] = "decode"] /\ memory' = [memory EXCEPT ![s].state = "live"]
           /\ UNCHANGED queue
  <2>1. /\ memory' \in [Slots -> [state : States, frames : Nat]]
        /\ \A t \in Slots : t # s => memory'[t] = memory[t]
        /\ memory'[s].state = "live"
    BY <1>2 DEF Inv, TypeInv, States
  <2>2. /\ worker' \in [Slots -> {"none", "begin", "decode"}]
        /\ worker'[s] = "decode" /\ \A t \in Slots : t # s => worker'[t] = worker[t]
    BY <1>2 DEF Inv, TypeInv
  <2>3. TypeInv'
    BY <1>1, <1>2, <2>1, <2>2 DEF Inv, TypeInv
  <2>4. MemoryInv'
    BY <1>1, <2>1, <2>2 DEF Inv, MemoryInv
  <2>5. OneResultOwner'
    <3> SUFFICES ASSUME window = "open", NEW t \in Slots
                 PROVE  Cardinality(Held(queue, t)) + (IF worker'[t] = "decode" THEN 1 ELSE 0)
                          + (IF view = t THEN 1 ELSE 0) = IF memory'[t].state = "live" THEN 1 ELSE 0
      BY <1>1, <1>2, OwnedNext
    <3>1. Owners(t) = (IF memory[t].state = "live" THEN 1 ELSE 0) /\ Cardinality(Held(queue, t)) \in Nat
      BY Owned, HeldFinite DEF Inv, TypeInv
    <3>2. t = s => memory[t].state = "free"
      BY <1>1 DEF Inv, MemoryInv
    <3> QED
      BY <1>1, <2>1, <2>2, <3>1, <3>2 DEF Owners
  <2>6. PictureIsCurrentFrame'
    BY <1>1, <2>1, ThreadPicture
  <2> QED
    BY <1>1, <2>3, <2>4, <2>5, <2>6 DEF Inv
<1>3. CASE Post(s, None, memory)
  <2>1. /\ worker' = [worker EXCEPT ![s] = "none"] /\ UNCHANGED memory
        /\ \/ window = "open" /\ queue' = Append(queue, None)
           \/ UNCHANGED queue
    BY <1>3 DEF Post
  <2>2. /\ queue' \in Seq(Results)
        /\ \A t \in Slots : Cardinality(Held(queue', t)) = Cardinality(Held(queue, t))
    <3>1. queue \in Seq(Results) /\ None \in Results
      BY DEF Inv, TypeInv, Results
    <3>2. CASE queue' = Append(queue, None)
      <4>1. \A t \in Slots : Cardinality(Held(queue', t)) = Cardinality(Held(queue, t)) + 0
        BY <3>1, <3>2, HeldAppend, SlotsAssumption
      <4> QED
        BY <3>1, <3>2, <4>1, HeldFinite, AppendProperties
    <3> QED
      BY <2>1, <3>1, <3>2
  <2>3. /\ worker' \in [Slots -> {"none", "begin", "decode"}]
        /\ worker'[s] = "none" /\ \A t \in Slots : t # s => worker'[t] = worker[t]
    BY <2>1 DEF Inv, TypeInv
  <2>4. TypeInv'
    BY <1>1, <2>1, <2>2, <2>3 DEF Inv, TypeInv
  <2>5. MemoryInv'
    BY <1>1, <2>1, <2>3 DEF Inv, MemoryInv
  <2>6. OneResultOwner'
    <3> SUFFICES ASSUME window = "open", NEW t \in Slots
                 PROVE  Cardinality(Held(queue', t)) + (IF worker'[t] = "decode" THEN 1 ELSE 0)
                          + (IF view = t THEN 1 ELSE 0) = IF memory[t].state = "live" THEN 1 ELSE 0
      BY <1>1, <2>1, OwnedNext
    <3>1. Owners(t) = IF memory[t].state = "live" THEN 1 ELSE 0
      BY Owned DEF Inv
    <3>2. worker'[t] = "decode" <=> worker[t] = "decode"
      BY <1>1, <2>3
    <3> QED
      BY <2>2, <3>1, <3>2 DEF Owners
  <2>7. PictureIsCurrentFrame'
    BY <1>1, <2>1, ThreadPicture
  <2> QED
    BY <1>1, <2>4, <2>5, <2>6, <2>7 DEF Inv
<1> QED
  BY <1>2, <1>3 DEF Begin

LEMMA DecodeKeepsInv ==
  ASSUME Inv, NEW s \in Slots, Decode(s)
  PROVE  Inv'
<1>1. worker[s] = "decode" /\ UNCHANGED <<window, view, frame, picture>>
  BY DEF Decode, page
<1>2. PICK n \in 0..MaxFrames : Post(s, s, [memory EXCEPT ![s].frames = n])
  BY DEF Decode
<1>3. n \in Nat
  BY BoundAssumption
<1> DEFINE results == [memory EXCEPT ![s].frames = n]
<1>4. /\ results \in [Slots -> [state : States, frames : Nat]]
      /\ results[s].state = memory[s].state /\ \A t \in Slots : t # s => results[t] = memory[t]
  BY <1>3 DEF Inv, TypeInv
<1>5. Unused("free") \in [state : States, frames : Nat] /\ Unused("free").state = "free"
  BY DEF Unused, States
<1>6. /\ worker' = [worker EXCEPT ![s] = "none"]
      /\ \/ window = "open" /\ queue' = Append(queue, s) /\ memory' = results
         \/ UNCHANGED queue /\ memory' = [results EXCEPT ![s] = Unused("free")]
  BY <1>2, SlotsAssumption DEF Post
<1> HIDE DEF results
<1>7. /\ memory' \in [Slots -> [state : States, frames : Nat]]
      /\ \A t \in Slots : t # s => memory'[t] = memory[t]
      /\ memory'[s].state \in {memory[s].state, "free"}
  BY <1>4, <1>5, <1>6
<1>8. /\ worker' \in [Slots -> {"none", "begin", "decode"}]
      /\ worker'[s] = "none" /\ \A t \in Slots : t # s => worker'[t] = worker[t]
  BY <1>6 DEF Inv, TypeInv
<1>9. queue \in Seq(Results) /\ s \in Results
  BY DEF Inv, TypeInv, Results
<1>10. TypeInv'
  <2>1. queue' \in Seq(Results)
    BY <1>6, <1>9, AppendProperties, SMTT(40)
  <2> QED
    BY <1>1, <1>7, <1>8, <2>1 DEF Inv, TypeInv
<1>11. MemoryInv'
  BY <1>1, <1>7, <1>8 DEF Inv, MemoryInv
<1>12. OneResultOwner'
  <2> SUFFICES ASSUME window = "open", NEW t \in Slots
               PROVE  Cardinality(Held(queue', t)) + (IF worker'[t] = "decode" THEN 1 ELSE 0)
                        + (IF view = t THEN 1 ELSE 0) = IF memory'[t].state = "live" THEN 1 ELSE 0
    BY <1>1, OwnedNext
  <2>1. Owners(t) = (IF memory[t].state = "live" THEN 1 ELSE 0) /\ Cardinality(Held(queue, t)) \in Nat
    BY <1>9, Owned, HeldFinite DEF Inv
  <2>2. CASE queue' = Append(queue, s) /\ memory' = results
    <3>1. Cardinality(Held(queue', t)) = Cardinality(Held(queue, t)) + (IF s = t THEN 1 ELSE 0)
      BY <1>9, <2>2, HeldAppend
    <3>2. memory'[t].state = memory[t].state
      BY <1>4, <2>2
    <3> QED
      BY <1>1, <1>8, <2>1, <3>1, <3>2 DEF Owners
  <2>3. CASE UNCHANGED queue /\ memory' = [results EXCEPT ![s] = Unused("free")]
    <3>1. memory'[s].state = "free"
      BY <1>4, <1>5, <2>3
    <3> QED
      BY <1>1, <1>7, <1>8, <2>1, <2>3, <3>1 DEF Owners
  <2> QED
    BY <1>6, <2>2, <2>3
<1>13. PictureIsCurrentFrame'
  BY <1>1, <1>7, ThreadPicture
<1> QED
  BY <1>1, <1>10, <1>11, <1>12, <1>13 DEF Inv

-----------------------------------------------------------------------------
\* Inv is inductive.
LEMMA NextKeepsInv ==
  ASSUME Inv, [Next]_vars
  PROVE  Inv'
<1>1. CASE UNCHANGED vars
  BY <1>1, ZenonT(40) DEF vars, Inv, TypeInv, MemoryInv, OneResultOwner, PictureIsCurrentFrame, Count
<1>2. CASE Window
  BY <1>2, OpenKeepsInv, ViewDoneKeepsInv, StepKeepsInv, DestroyKeepsInv DEF Window
<1>3. CASE \E s \in Slots : Begin(s) \/ Decode(s)
  BY <1>3, BeginKeepsInv, DecodeKeepsInv
<1> QED
  BY <1>1, <1>2, <1>3 DEF Next, InSession

LEMMA Invariance == Spec => []Inv
<1>1. Init => Inv
  BY InitInv
<1>2. Inv /\ [Next]_vars => Inv'
  BY NextKeepsInv
<1> QED
  BY <1>1, <1>2, PTL DEF Spec

\* start_viewer, decode_view, post_view_result, WM_QLIC_VIEW_DONE and
\* leave_viewer_mode, with any number of decodes under way: each live result is
\* freed or handed on exactly once.
THEOREM ResultsAreOwned == Spec => []OneResultOwner
<1>1. Inv => OneResultOwner
  BY DEF Inv
<1> QED
  BY <1>1, Invariance, PTL

\* select_view_frame, the timer and late results: the bitmap is the current
\* frame of g_view, for any number of frames.
THEOREM PictureIsCurrent == Spec => []PictureIsCurrentFrame
<1>1. Inv => PictureIsCurrentFrame
  BY DEF Inv
<1> QED
  BY <1>1, Invariance, PTL
=============================================================================
