---------------------------- MODULE CliFileProofs ----------------------------
(***************************************************************************)
(* Proofs that the command line never puts a file in place that was not    *)
(* written in full, never uses the temporary file of somebody else, leaves *)
(* none behind and reports success truthfully: for any commands, paths,    *)
(* process numbers and number of temporary names, any failing system call  *)
(* and any command killed.                                                 *)
(*                                                                         *)
(* TargetWhole by itself is not inductive: rename moves whatever file has  *)
(* the temporary name.  Inv adds whose file that is, that a file at a path *)
(* is not written to any more, and that two items of a batch that are not  *)
(* dropped have two paths.                                                 *)
(*                                                                         *)
(* The threads of a batch (BudgetHolds) are an invariant of their own: the *)
(* items at work hold the jobs that were handed out (JobsHeld), each its   *)
(* share, and one thread more if it is among the first, so that the shares *)
(* of all jobs, and hence of any of them, fit the budget.                  *)
(***************************************************************************)
EXTENDS CliFile, SequenceTheorems, FiniteSetTheorems, WellFoundedInduction, TLAPS

\* A file to be renamed is whole.
RenamingWhole ==
  \A c \in Commands : \A i \in Items(c) :
    at[c][i] = "renaming" => data[<<c, i>>] = "whole"

\* A file at a path was put there by an item that is done.
TargetDone ==
  \A t \in Targets : \A c \in Commands : \A i \in Slots(c) :
    target[t] = <<c, i>> =>
      i \in Items(c) /\ at[c][i] = "ok" /\ data[<<c, i>>] = "whole"

\* An item that is done finds its file at its path, or another command's.
OkInPlace ==
  \A c \in Commands : \A i \in Items(c) : at[c][i] = "ok" =>
    /\ target[work[c][i]] # Old
    /\ target[work[c][i]][1] = c => target[work[c][i]] = <<c, i>>

\* Items that are dropped do no work.
DroppedIdle ==
  \A c \in Commands : \A i \in Items(c) :
    at[c][i] \notin {"waiting", "dropped"} => i \notin Dropped(c)

\* A command that was not started has done nothing.
NewWaits ==
  \A c \in Commands : phase[c] = "new" => \A i \in Slots(c) : at[c][i] = "waiting"

\* A command that succeeded did all its items.
SuccessDone ==
  \A c \in Commands : phase[c] = "succeeded" => \A i \in Items(c) : at[c][i] = "ok"

Inv ==
  /\ TypeOK /\ OwnTemporary /\ NoTempLeft /\ RenamingWhole /\ TargetDone
  /\ OkInPlace /\ DroppedIdle /\ NewWaits /\ SuccessDone

-----------------------------------------------------------------------------
(* Items, files and names.                                                  *)

\* An item of a command is one of its slots, and its file has an identity of its own.
LEMMA ItemFile ==
  ASSUME TypeOK, NEW c \in Commands, NEW i \in Items(c)
  PROVE  /\ i \in Slots(c) /\ i \in Nat /\ <<c, i>> \in FileIds
         /\ <<c, i>> # None /\ <<c, i>> # Old
         /\ work[c][i] \in Targets
<1>1. work[c] \in Seq(Targets) /\ Len(work[c]) \in Nat /\ Len(work[c]) <= MaxItems[c]
  BY LenProperties DEF TypeOK
<1>2. i \in Slots(c) /\ i \in Nat
  BY <1>1, BoundAssumption DEF Items, Slots
<1>3. <<c, i>> \in FileIds
  BY <1>2 DEF FileIds
<1>4. work[c][i] \in Targets
  BY <1>1, ElementOfSeq DEF Items
<1> QED
  BY <1>2, <1>3, <1>4, FileAssumption

\* A temporary name is in the directory's range.
LEMMA NameInRange ==
  ASSUME TypeOK, NEW c \in Commands, NEW i \in Items(c)
  PROVE  TempName(c, i) \in TempNames
<1>1. i \in Slots(c) /\ work[c][i] \in Targets
  BY ItemFile
<1>2. attempt[c][i] \in 0..Attempts - 1 /\ pid[c] \in Pids
  BY <1>1 DEF TypeOK
<1> QED
  BY <1>1, <1>2 DEF TempName, TempNames

\* Two items of a command that were not dropped have different paths.
LEMMA PathsDiffer ==
  ASSUME NEW c \in Commands, NEW i \in Items(c), NEW j \in Items(c),
         TypeOK, i \notin Dropped(c), j \notin Dropped(c), work[c][i] = work[c][j]
  PROVE  i = j
<1>1. i \in Nat /\ j \in Nat
  BY ItemFile
<1>2. ~(j < i)
  BY <1>1 DEF Dropped, Items
<1>3. ~(i < j)
  BY <1>1 DEF Dropped, Items
<1> QED
  BY <1>1, <1>2, <1>3

Places == AtWork \cup {"waiting", "ok", "failed", "dropped"}
Quiet == {"waiting", "dropped", "encoding", "opening", "failed"}

\* Item i of c is at a new place, everything else where it was.
Moved(c, i, place) ==
  /\ at'[c][i] = place
  /\ \A d \in Commands : \A j \in Slots(d) :
       (d # c \/ j # i) => at'[d][j] = at[d][j]
  /\ DOMAIN at' = Commands
  /\ \A d \in Commands : at'[d] \in [Slots(d) -> Places]

\* That is what Go does.
LEMMA GoEffect ==
  ASSUME TypeOK, NEW c \in Commands, NEW i \in Slots(c), NEW place \in Places,
         Go(c, i, place)
  PROVE  Moved(c, i, place)
  BY DEF TypeOK, Go, Moved, Places

-----------------------------------------------------------------------------
(* Each action keeps Inv.                                                   *)

\* An item that moves between places where it holds no file disturbs nothing.
LEMMA QuietMove ==
  ASSUME Inv, NEW c \in Commands, NEW i \in Items(c), NEW place \in Quiet,
         phase[c] = "running", at[c][i] \in Quiet, Moved(c, i, place),
         place \notin {"waiting", "dropped"} => i \notin Dropped(c),
         UNCHANGED <<phase, command, target, temp, data>>,
         \A d \in Commands : attempt'[d] \in [Slots(d) -> 0..Attempts - 1],
         DOMAIN attempt' = Commands,
         \A d \in Commands : \A j \in Slots(d) :
           (d # c \/ j # i) => attempt'[d][j] = attempt[d][j]
  PROVE  Inv'
<1> USE DEF Inv
<1>1. i \in Slots(c) /\ \A d \in Commands : \A j \in Items(d) : j \in Slots(d)
  BY ItemFile
<1>2. /\ at'[c][i] = place
      /\ \A d \in Commands : \A j \in Slots(d) :
           (d # c \/ j # i) => at'[d][j] = at[d][j]
      /\ DOMAIN at' = Commands
      /\ \A d \in Commands : at'[d] \in [Slots(d) -> Places]
  BY DEF Moved
<1>3. \A d \in Commands : Items(d)' = Items(d) /\ Dropped(d)' = Dropped(d)
  BY DEF Items, Dropped, command
<1>4. \A d \in Commands : \A j \in Items(d) :
        (d # c \/ j # i) => TempName(d, j)' = TempName(d, j)
  BY <1>1 DEF TempName, command
<1>5. \A d \in Commands : \A j \in Items(d) :
        at'[d][j] \in Holding \cup {"ok"} =>
          (d # c \/ j # i) /\ at[d][j] = at'[d][j]
  BY <1>1, <1>2 DEF Quiet, Holding
<1>6. \A d \in Commands : \A j \in Items(d) :
        at[d][j] \in Holding \cup {"ok"} =>
          (d # c \/ j # i) /\ at[d][j] = at'[d][j]
  BY <1>1, <1>2 DEF Quiet, Holding
<1>7. TypeOK'
  BY <1>2 DEF TypeOK, Places, command
<1>8. OwnTemporary'
  BY <1>3, <1>4, <1>5 DEF OwnTemporary
<1>9. NoTempLeft'
  BY <1>3, <1>4, <1>6 DEF NoTempLeft
<1>10. RenamingWhole'
  BY <1>3, <1>5 DEF RenamingWhole, Holding
<1>11. TargetDone'
  BY <1>3, <1>6 DEF TargetDone
<1>12. OkInPlace'
  BY <1>3, <1>5 DEF OkInPlace, command
<1>13. DroppedIdle'
  BY <1>1, <1>2, <1>3 DEF DroppedIdle
<1>14. NewWaits'
  BY <1>2 DEF NewWaits
<1>15. SuccessDone'
  BY <1>1, <1>2, <1>3 DEF SuccessDone
<1> QED
  BY <1>7, <1>8, <1>9, <1>10, <1>11, <1>12, <1>13, <1>14, <1>15

LEMMA BeginKeeps ==
  ASSUME Inv, NEW c \in Commands, NEW i \in Items(c), Begin(c, i)
  PROVE  Inv'
<1> DEFINE place == IF i \in Dropped(c) THEN "dropped" ELSE "encoding"
<1>1. Moved(c, i, place)
  BY ItemFile, GoEffect DEF Begin, Inv, Places, AtWork
<1> QED
  BY <1>1, QuietMove DEF Begin, Quiet, Inv, TypeOK

LEMMA ConvertKeeps ==
  ASSUME Inv, NEW c \in Commands, NEW i \in Items(c), Convert(c, i) \/ OpenFails(c, i)
  PROVE  Inv'
<1>1. at[c][i] \in {"encoding", "opening"} /\ i \notin Dropped(c)
  BY DEF Convert, OpenFails, Inv, DroppedIdle
<1>2. \E place \in {"opening", "failed"} : Moved(c, i, place)
  BY ItemFile, GoEffect DEF Convert, OpenFails, Inv, Places, AtWork
<1> QED
  BY <1>1, <1>2, QuietMove, ZenonT(40) DEF Convert, OpenFails, Quiet, Inv, TypeOK

LEMMA OpenKeeps ==
  ASSUME Inv, NEW c \in Commands, NEW i \in Items(c), Open(c, i)
  PROVE  Inv'
<1> USE DEF Inv
<1> DEFINE n == TempName(c, i)
<1>1. /\ i \in Slots(c) /\ i \notin Dropped(c) /\ at[c][i] = "opening"
      /\ \A d \in Commands : \A j \in Items(d) : j \in Slots(d)
  BY ItemFile DEF Open, DroppedIdle
<1>2. n \in TempNames /\ <<c, i>> \in FileIds /\ <<c, i>> # None
  BY NameInRange, ItemFile
<1>3. CASE temp[n] # None /\ attempt[c][i] + 1 < Attempts
  <2>1. attempt' = [attempt EXCEPT ![c][i] = @ + 1] /\ UNCHANGED at
    BY <1>3 DEF Open
  <2>2. attempt[c][i] \in 0..Attempts - 1
    BY <1>1 DEF TypeOK
  <2>3. Moved(c, i, "opening")
    BY <1>1, <2>1 DEF Moved, TypeOK, Places
  <2>4. attempt[c][i] + 1 \in 0..Attempts - 1
    BY <1>3, <2>2, BoundAssumption
  <2>5. /\ \A d \in Commands : attempt'[d] \in [Slots(d) -> 0..Attempts - 1]
        /\ DOMAIN attempt' = Commands
        /\ \A d \in Commands : \A j \in Slots(d) :
             (d # c \/ j # i) => attempt'[d][j] = attempt[d][j]
    BY <1>1, <2>1, <2>4 DEF TypeOK
  <2> QED
    BY <1>1, <1>3, <2>3, <2>5, QuietMove DEF Open, Quiet
<1>4. CASE temp[n] # None /\ ~(attempt[c][i] + 1 < Attempts)
  <2>1. Moved(c, i, "failed")
    BY <1>1, <1>4, GoEffect DEF Open, Places
  <2> QED
    BY <1>1, <1>4, <2>1, QuietMove DEF Open, Quiet, TypeOK
<1>5. CASE temp[n] = None
  <2>1. /\ temp' = [temp EXCEPT ![n] = <<c, i>>]
        /\ Go(c, i, "writing") /\ phase[c] = "running"
        /\ UNCHANGED <<phase, command, attempt, target, data>>
    BY <1>5 DEF Open
  <2>2. /\ at'[c][i] = "writing"
        /\ \A d \in Commands : \A j \in Slots(d) :
             (d # c \/ j # i) => at'[d][j] = at[d][j]
        /\ DOMAIN at' = Commands
        /\ \A d \in Commands : at'[d] \in [Slots(d) -> Places]
    BY <1>1, <2>1, GoEffect DEF Moved, Places, AtWork, Holding
  <2>3. \A d \in Commands : \A j \in Items(d) : TempName(d, j)' = TempName(d, j)
    BY <2>1 DEF TempName, command
  <2>4. \A d \in Commands : Items(d)' = Items(d) /\ Dropped(d)' = Dropped(d)
    BY <2>1 DEF Items, Dropped, command
  <2>5. temp'[n] = <<c, i>> /\ \A m \in TempNames : m # n => temp'[m] = temp[m]
    BY <1>2, <2>1 DEF TypeOK
  <2>6. TypeOK'
    BY <1>2, <2>1, <2>2 DEF TypeOK, Places, command
  <2>7. OwnTemporary'
    <3> SUFFICES ASSUME NEW d \in Commands, NEW j \in Items(d), at'[d][j] \in Holding
                 PROVE  temp'[TempName(d, j)] = <<d, j>>
      BY <2>3, <2>4 DEF OwnTemporary
    <3>1. CASE d = c /\ j = i
      BY <3>1, <2>5
    <3>2. CASE d # c \/ j # i
      <4>1. temp[TempName(d, j)] = <<d, j>>
        BY <1>1, <2>2, <3>2 DEF OwnTemporary
      <4>2. TempName(d, j) # n /\ TempName(d, j) \in TempNames
        BY <4>1, <1>5, ItemFile, NameInRange
      <4> QED
        BY <4>1, <4>2, <2>5
    <3> QED
      BY <3>1, <3>2
  <2>8. NoTempLeft'
    <3> SUFFICES ASSUME NEW m \in TempNames, temp'[m] \notin {None, Old}
                 PROVE  \E d \in Commands : \E j \in Items(d) :
                          /\ temp'[m] = <<d, j>> /\ m = TempName(d, j)
                          /\ at'[d][j] \in Holding /\ phase[d] \in {"running", "killed"}
      BY <2>1, <2>3, <2>4 DEF NoTempLeft
    <3>1. CASE m = n
      BY <3>1, <2>1, <2>2, <2>5 DEF Holding
    <3>2. CASE m # n
      <4>1. temp'[m] = temp[m]
        BY <3>2, <2>5
      <4>2. PICK d \in Commands : \E j \in Items(d) :
              /\ temp[m] = <<d, j>> /\ m = TempName(d, j)
              /\ at[d][j] \in Holding /\ phase[d] \in {"running", "killed"}
        BY <4>1 DEF NoTempLeft
      <4>3. \A j \in Items(d) : at[d][j] \in Holding => at'[d][j] = at[d][j]
        BY <1>1, <2>2 DEF Holding
      <4> QED
        BY <4>1, <4>2, <4>3
    <3> QED
      BY <3>1, <3>2
  <2>9. RenamingWhole'
    BY <1>1, <2>1, <2>2, <2>4 DEF RenamingWhole
  <2>10. TargetDone'
    BY <1>1, <2>1, <2>2, <2>4 DEF TargetDone
  <2>11. OkInPlace'
    BY <1>1, <2>1, <2>2, <2>4 DEF OkInPlace, command
  <2>12. DroppedIdle'
    BY <1>1, <2>1, <2>2, <2>4 DEF DroppedIdle
  <2>13. NewWaits' /\ SuccessDone'
    BY <1>1, <2>1, <2>2, <2>4 DEF NewWaits, SuccessDone
  <2> QED
    BY <2>6, <2>7, <2>8, <2>9, <2>10, <2>11, <2>12, <2>13
<1> QED
  BY <1>3, <1>4, <1>5

\* An item that goes on with its temporary file.
LEMMA HoldingMove ==
  ASSUME Inv, NEW c \in Commands, NEW i \in Items(c), NEW place \in Holding,
         phase[c] = "running", at[c][i] \in Holding, Moved(c, i, place),
         UNCHANGED <<phase, command, attempt, target, temp>>,
         data' \in [FileIds -> {"none", "partial", "whole"}],
         \A f \in FileIds : f # <<c, i>> => data'[f] = data[f],
         place = "renaming" => data'[<<c, i>>] = "whole"
  PROVE  Inv'
<1> USE DEF Inv
<1>1. /\ i \in Slots(c) /\ i \notin Dropped(c)
      /\ \A d \in Commands : \A j \in Items(d) : j \in Slots(d)
  BY ItemFile DEF DroppedIdle, Holding
<1>2. \A d \in Commands :
        Items(d)' = Items(d) /\ Dropped(d)' = Dropped(d) /\ Slots(d)' = Slots(d)
  BY DEF Items, Dropped, Slots, command
<1>3. \A d \in Commands : \A j \in Items(d) : TempName(d, j)' = TempName(d, j)
  BY DEF TempName, command
<1>4. \A d \in Commands : \A j \in Slots(d) :
        at'[d][j] \in Holding <=> at[d][j] \in Holding
  BY <1>1 DEF Moved
<1>5. \A d \in Commands : \A j \in Slots(d) :
        \/ at'[d][j] = at[d][j]
        \/ at'[d][j] \in Holding /\ at[d][j] \in Holding
  BY <1>1 DEF Moved
<1>6. \A d \in Commands : \A j \in Slots(d) :
        (d # c \/ j # i) => data'[<<d, j>>] = data[<<d, j>>]
  BY <1>1 DEF FileIds
<1>0. \A d \in Commands : \A j \in Slots(d) :
        (d # c \/ j # i) => at'[d][j] = at[d][j]
  BY DEF Moved
<1>7. TypeOK'
  BY DEF TypeOK, Moved, Places, command
<1>8. OwnTemporary'
  BY <1>1, <1>2, <1>3, <1>4 DEF OwnTemporary
<1>9. NoTempLeft'
  BY <1>1, <1>2, <1>3, <1>4 DEF NoTempLeft
<1>10. RenamingWhole'
  BY <1>0, <1>1, <1>2, <1>6 DEF RenamingWhole, Moved
<1>11. TargetDone'
  BY <1>0, <1>1, <1>2, <1>6 DEF TargetDone, Holding
<1>12. OkInPlace'
  BY <1>1, <1>2, <1>5 DEF OkInPlace, command, Holding
<1>13. DroppedIdle'
  BY <1>0, <1>1, <1>2 DEF DroppedIdle
<1>14. NewWaits'
  BY <1>0 DEF NewWaits
<1>15. SuccessDone'
  BY <1>0, <1>1, <1>2 DEF SuccessDone
<1> QED
  BY <1>7, <1>8, <1>9, <1>10, <1>11, <1>12, <1>13, <1>14, <1>15

LEMMA WriteKeeps ==
  ASSUME Inv, NEW c \in Commands, NEW i \in Items(c), Write(c, i) \/ Close(c, i)
  PROVE  Inv'
<1>1. i \in Slots(c) /\ <<c, i>> \in FileIds /\ at[c][i] \in Holding
  BY ItemFile DEF Write, Close, Inv, Holding
<1>2. /\ data' \in [FileIds -> {"none", "partial", "whole"}]
      /\ \A f \in FileIds : f # <<c, i>> => data'[f] = data[f]
  BY <1>1 DEF Write, Close, Inv, TypeOK
<1>3. \E place \in Holding :
        Go(c, i, place) /\ (place = "renaming" => data'[<<c, i>>] = "whole")
  BY <1>1 DEF Write, Close, Holding, Inv, TypeOK
<1>4. \E place \in Holding :
        Moved(c, i, place) /\ (place = "renaming" => data'[<<c, i>>] = "whole")
  BY <1>1, <1>3, GoEffect DEF Inv, Places, AtWork
<1> QED
  BY <1>1, <1>2, <1>4, HoldingMove DEF Write, Close

\* An item gives up its temporary name, without or with success.
LEMMA CleanKeeps ==
  ASSUME Inv, NEW c \in Commands, NEW i \in Items(c), Clean(c, i) \/ Rename(c, i)
  PROVE  Inv'
<1> USE DEF Inv
<1> DEFINE n == TempName(c, i)
<1>1. /\ i \in Slots(c) /\ <<c, i>> \in FileIds /\ work[c][i] \in Targets
      /\ \A d \in Commands : \A j \in Items(d) :
           j \in Slots(d) /\ work[d][j] \in Targets /\ TempName(d, j) \in TempNames
  BY ItemFile, NameInRange
<1>2. /\ at[c][i] \in Holding /\ temp[n] = <<c, i>> /\ phase[c] = "running"
      /\ i \notin Dropped(c)
  BY DEF Clean, Rename, Holding, OwnTemporary, DroppedIdle
<1>3. CASE UNCHANGED <<target, temp>> /\ Go(c, i, "cleaning") /\ Rename(c, i)
  <2>1. Moved(c, i, "cleaning")
    BY <1>1, <1>3, GoEffect DEF Places, AtWork, Holding
  <2> QED
    BY <1>2, <1>3, <2>1, HoldingMove DEF Rename, Holding, TypeOK
<1>4. ASSUME NEW place \in {"ok", "failed"}, Go(c, i, place),
             temp' = [temp EXCEPT ![n] = None],
             UNCHANGED <<phase, command, attempt, data>>,
             IF place = "ok"
             THEN target' = [target EXCEPT ![work[c][i]] = <<c, i>>]
             ELSE UNCHANGED target,
             place = "ok" => data[<<c, i>>] = "whole"
      PROVE  Inv'
  <2>1. Moved(c, i, place)
    BY <1>1, <1>4, GoEffect DEF Places
  <2>2. \A d \in Commands :
          Items(d)' = Items(d) /\ Dropped(d)' = Dropped(d) /\ Slots(d)' = Slots(d)
    BY <1>4 DEF Items, Dropped, Slots, command
  <2>3. \A d \in Commands : \A j \in Items(d) : TempName(d, j)' = TempName(d, j)
    BY <1>4 DEF TempName, command
  <2>4. temp'[n] = None /\ \A m \in TempNames : m # n => temp'[m] = temp[m]
    BY <1>1, <1>4 DEF TypeOK
  <2>5. \A d \in Commands : \A j \in Slots(d) :
          (d # c \/ j # i) => at'[d][j] = at[d][j]
    BY <2>1 DEF Moved
  <2>6. at'[c][i] = place
    BY <2>1 DEF Moved
  <2>7. TypeOK'
    BY <1>1, <1>4, <2>1 DEF TypeOK, Moved, Places, command
  <2>8. OwnTemporary'
    <3> SUFFICES ASSUME NEW d \in Commands, NEW j \in Items(d), at'[d][j] \in Holding
                 PROVE  temp'[TempName(d, j)] = <<d, j>>
      BY <2>2, <2>3 DEF OwnTemporary
    <3>1. d # c \/ j # i
      BY <2>6 DEF Holding
    <3>2. temp[TempName(d, j)] = <<d, j>>
      BY <1>1, <2>5, <3>1 DEF OwnTemporary
    <3>3. TempName(d, j) # n
      BY <1>2, <3>1, <3>2
    <3> QED
      BY <1>1, <2>4, <3>2, <3>3
  <2>9. NoTempLeft'
    <3> SUFFICES ASSUME NEW m \in TempNames, temp'[m] \notin {None, Old}
                 PROVE  \E d \in Commands : \E j \in Items(d) :
                          /\ temp'[m] = <<d, j>> /\ m = TempName(d, j)
                          /\ at'[d][j] \in Holding /\ phase[d] \in {"running", "killed"}
      BY <1>4, <2>2, <2>3 DEF NoTempLeft
    <3>1. m # n /\ temp'[m] = temp[m]
      BY <2>4
    <3>2. PICK d \in Commands : \E j \in Items(d) :
            /\ temp[m] = <<d, j>> /\ m = TempName(d, j)
            /\ at[d][j] \in Holding /\ phase[d] \in {"running", "killed"}
      BY <3>1 DEF NoTempLeft
    <3>3. \A j \in Items(d) : m = TempName(d, j) => at'[d][j] = at[d][j]
      BY <1>1, <2>5, <3>1
    <3> QED
      BY <3>1, <3>2, <3>3
  <2>10. RenamingWhole'
    BY <1>1, <1>4, <2>2, <2>5, <2>6 DEF RenamingWhole
  <2>11. TargetDone'
    <3> SUFFICES ASSUME NEW t \in Targets, NEW d \in Commands, NEW j \in Slots(d),
                        target'[t] = <<d, j>>
                 PROVE  j \in Items(d) /\ at'[d][j] = "ok" /\ data[<<d, j>>] = "whole"
      BY <1>4, <2>2 DEF TargetDone
    <3>1. CASE target[t] = <<d, j>>
      BY <1>2, <2>5, <3>1 DEF TargetDone, Holding
    <3>2. CASE target[t] # <<d, j>>
      <4>1. place = "ok" /\ target'[t] = <<c, i>>
        BY <1>1, <1>4, <3>2 DEF TypeOK
      <4>2. d = c /\ j = i
        BY <4>1
      <4> QED
        BY <1>4, <2>6, <4>1, <4>2
    <3> QED
      BY <3>1, <3>2
  <2>12. OkInPlace'
    <3>0. work' = work
      BY <1>4 DEF command
    <3> SUFFICES ASSUME NEW d \in Commands, NEW j \in Items(d), at'[d][j] = "ok"
                 PROVE  /\ target'[work[d][j]] # Old
                        /\ target'[work[d][j]][1] = d => target'[work[d][j]] = <<d, j>>
      BY <2>2, <3>0 DEF OkInPlace
    <3>1. CASE d = c /\ j = i
      <4>1. place = "ok"
        BY <2>6, <3>1
      <4>2. target'[work[c][i]] = <<c, i>>
        BY <1>1, <1>4, <4>1 DEF TypeOK
      <4> QED
        BY <3>1, <4>2, ItemFile
    <3>2. CASE (d # c \/ j # i) /\ target'[work[d][j]] = target[work[d][j]]
      BY <1>1, <2>5, <3>2 DEF OkInPlace
    <3>3. CASE (d # c \/ j # i) /\ target'[work[d][j]] # target[work[d][j]]
      <4>1. work[d][j] = work[c][i] /\ target'[work[d][j]] = <<c, i>>
        BY <1>1, <1>4, <3>3 DEF TypeOK
      <4>2. at[d][j] = "ok"
        BY <1>1, <2>5, <3>3
      <4>3. j \notin Dropped(d)
        BY <4>2 DEF DroppedIdle
      <4>4. d # c
        BY <1>2, <3>3, <4>1, <4>3, PathsDiffer
      <4> QED
        BY <1>1, <4>1, <4>4, ItemFile
    <3> QED
      BY <3>1, <3>2, <3>3
  <2>13. DroppedIdle'
    BY <1>1, <1>2, <2>2, <2>5 DEF DroppedIdle
  <2>14. NewWaits' /\ SuccessDone'
    BY <1>1, <1>2, <1>4, <2>2, <2>5 DEF NewWaits, SuccessDone
  <2> QED
    BY <2>7, <2>8, <2>9, <2>10, <2>11, <2>12, <2>13, <2>14
<1>5. CASE Clean(c, i)
  BY <1>4, <1>5 DEF Clean
<1>6. CASE Rename(c, i) /\ Go(c, i, "ok")
  <2>1. data[<<c, i>>] = "whole"
    BY <1>6 DEF Rename, RenamingWhole
  <2>2. "ok" # "cleaning"
    OBVIOUS
  <2>3. at'[c][i] = "ok"
    BY <1>1, <1>6, GoEffect DEF Moved, Places
  <2>4. ~Go(c, i, "cleaning")
    BY <1>1, <2>3, GoEffect DEF Moved, Places, AtWork, Holding
  <2> QED
    BY <1>2, <1>4, <1>6, <2>1, <2>4 DEF Rename
<1> QED
  BY <1>3, <1>5, <1>6 DEF Rename

\* The items of a command are a sequence.
LEMMA TupleIsSeq ==
  ASSUME NEW n \in Nat, NEW w \in [1..n -> Targets]
  PROVE  w \in Seq(Targets) /\ Len(w) = n
  OBVIOUS

\* What a command does outside its items.
LEMMA StartKeeps ==
  ASSUME Inv, NEW c \in Commands, Start(c)
  PROVE  Inv'
<1> USE DEF Inv
<1>1. /\ phase[c] = "new" /\ \A j \in Slots(c) : at[c][j] = "waiting"
      /\ UNCHANGED <<pid, at, attempt, target, temp, data>>
      /\ phase'[c] \in {"running", "failed"}
      /\ \A d \in Commands : d # c => phase'[d] = phase[d] /\ work'[d] = work[d]
                                      /\ unnamed'[d] = unnamed[d]
  BY DEF Start, NewWaits, TypeOK
<1>2. TypeOK'
  <2>1. PICK n \in Slots(c) : \E w \in [1..n -> Targets] : work' = [work EXCEPT ![c] = w]
    BY DEF Start
  <2>2. n \in Nat /\ n <= MaxItems[c]
    BY <2>1, BoundAssumption DEF Slots
  <2>3. PICK w \in [1..n -> Targets] : work' = [work EXCEPT ![c] = w]
    BY <2>1
  <2>4. w \in Seq(Targets) /\ Len(w) = n
    BY <2>2, <2>3, TupleIsSeq
  <2>5. work' \in [Commands -> Seq(Targets)] /\ \A d \in Commands : Len(work'[d]) <= MaxItems[d]
    BY <2>2, <2>3, <2>4 DEF TypeOK
  <2>6. threads' \in [Commands -> Nat]
    BY BoundAssumption DEF Start, TypeOK
  <2>7. unnamed' \in [Commands -> SUBSET Nat]
    <3>1. \/ \E m \in Slots(c) : \E lost \in IF m = 1 THEN {{}} ELSE SUBSET (1..m) :
               unnamed' = [unnamed EXCEPT ![c] = lost]
          \/ UNCHANGED unnamed
      BY DEF Start
    <3>2. \A m \in Slots(c) : \A lost \in IF m = 1 THEN {{}} ELSE SUBSET (1..m) :
            lost \in SUBSET Nat
      BY DEF Slots
    <3>3. \E lost \in SUBSET Nat : unnamed' = [unnamed EXCEPT ![c] = lost] \/ UNCHANGED unnamed
      BY <3>1, <3>2
    <3>4. unnamed \in [Commands -> SUBSET Nat]
      BY DEF TypeOK
    <3> QED
      BY <3>3, <3>4
  <2>8. phase' \in [Commands -> {"new", "running", "succeeded", "failed", "killed"}]
    <3>1. \/ phase' = [phase EXCEPT ![c] = "running"]
          \/ phase' = [phase EXCEPT ![c] = "failed"]
      BY DEF Start
    <3> QED
      BY <3>1 DEF TypeOK
  <2> QED
    BY <1>1, <2>5, <2>6, <2>7, <2>8 DEF TypeOK
<1>3. \A d \in Commands : d # c =>
        /\ Items(d)' = Items(d) /\ Dropped(d)' = Dropped(d)
        /\ \A j \in Items(d) : TempName(d, j)' = TempName(d, j)
  BY <1>1 DEF Items, Dropped, TempName
<1>4. \A j \in Items(c)' : at[c][j] = "waiting"
  <2>1. Len(work'[c]) \in Nat /\ Len(work'[c]) <= MaxItems[c]
    BY <1>2, LenProperties DEF TypeOK
  <2>2. \A j \in Items(c)' : j \in Slots(c)
    BY <2>1, BoundAssumption DEF Items, Slots
  <2> QED
    BY <1>1, <2>2
<1>5. \A d \in Commands : \A j \in Items(d) : j \in Slots(d)
  BY ItemFile
<1>6. OwnTemporary'
  BY <1>1, <1>3, <1>4 DEF OwnTemporary, Holding
<1>7. NoTempLeft'
  <2> SUFFICES ASSUME NEW m \in TempNames, temp[m] \notin {None, Old}
               PROVE  \E d \in Commands : \E j \in Items(d)' :
                        /\ temp[m] = <<d, j>> /\ m = TempName(d, j)'
                        /\ at[d][j] \in Holding /\ phase'[d] \in {"running", "killed"}
    BY <1>1 DEF NoTempLeft
  <2>1. PICK d \in Commands : \E j \in Items(d) :
          /\ temp[m] = <<d, j>> /\ m = TempName(d, j)
          /\ at[d][j] \in Holding /\ phase[d] \in {"running", "killed"}
    BY DEF NoTempLeft
  <2>2. d # c
    BY <1>1, <2>1
  <2> QED
    BY <1>1, <1>3, <2>1, <2>2
<1>8. RenamingWhole'
  BY <1>1, <1>3, <1>4 DEF RenamingWhole
<1>9. TargetDone'
  BY <1>1, <1>3, <1>5 DEF TargetDone
<1>10. OkInPlace'
  BY <1>1, <1>3, <1>4, SMTT(40) DEF OkInPlace
<1>11. DroppedIdle'
  BY <1>1, <1>3, <1>4 DEF DroppedIdle
<1>12. NewWaits'
  BY <1>1 DEF NewWaits
<1>13. SuccessDone'
  BY <1>1, <1>3 DEF SuccessDone
<1> QED
  BY <1>2, <1>6, <1>7, <1>8, <1>9, <1>10, <1>11, <1>12, <1>13

LEMMA ExitKeeps ==
  ASSUME Inv, NEW c \in Commands, Exit(c) \/ Kill(c)
  PROVE  Inv'
<1> USE DEF Inv
<1>1. /\ phase[c] = "running" /\ phase'[c] \in {"succeeded", "failed", "killed"}
      /\ \A d \in Commands : d # c => phase'[d] = phase[d]
      /\ UNCHANGED <<command, at, attempt, target, temp, data>>
      /\ phase' \in [Commands -> {"new", "running", "succeeded", "failed", "killed"}]
  BY DEF Exit, Kill, TypeOK
<1>2. \A d \in Commands :
        /\ Items(d)' = Items(d) /\ Dropped(d)' = Dropped(d)
        /\ \A j \in Items(d) : TempName(d, j)' = TempName(d, j)
  BY <1>1 DEF Items, Dropped, TempName, command
<1>3. phase'[c] # "killed" => \A j \in Items(c) : at[c][j] \notin Holding
  BY DEF Exit, Kill, Holding, TypeOK
<1>4. phase'[c] = "succeeded" => \A j \in Items(c) : at[c][j] = "ok"
  BY DEF Exit, Kill, TypeOK
<1>5. TypeOK'
  BY <1>1 DEF TypeOK, command
<1>6. OwnTemporary' /\ RenamingWhole' /\ DroppedIdle'
  BY <1>1, <1>2 DEF OwnTemporary, RenamingWhole, DroppedIdle
<1>7. NoTempLeft'
  <2> SUFFICES ASSUME NEW m \in TempNames, temp[m] \notin {None, Old}
               PROVE  \E d \in Commands : \E j \in Items(d) :
                        /\ temp[m] = <<d, j>> /\ m = TempName(d, j)
                        /\ at[d][j] \in Holding /\ phase'[d] \in {"running", "killed"}
    BY <1>1, <1>2 DEF NoTempLeft
  <2>1. PICK d \in Commands : \E j \in Items(d) :
          /\ temp[m] = <<d, j>> /\ m = TempName(d, j)
          /\ at[d][j] \in Holding /\ phase[d] \in {"running", "killed"}
    BY DEF NoTempLeft
  <2> QED
    BY <1>1, <1>3, <2>1
<1>8. TargetDone' /\ OkInPlace'
  BY <1>1, <1>2 DEF TargetDone, OkInPlace, command
<1>9. NewWaits' /\ SuccessDone'
  BY <1>1, <1>2, <1>4 DEF NewWaits, SuccessDone
<1> QED
  BY <1>5, <1>6, <1>7, <1>8, <1>9

-----------------------------------------------------------------------------
(* The theorems.                                                            *)

LEMMA InitInv == Init => Inv
<1> SUFFICES ASSUME Init PROVE Inv
  OBVIOUS
<1>1. \A c \in Commands : Items(c) = {}
  BY DEF Init, Items
<1>2. TypeOK
  BY BoundAssumption, FileAssumption DEF Init, TypeOK, Slots
<1>3. OwnTemporary /\ RenamingWhole /\ OkInPlace /\ DroppedIdle
  BY <1>1 DEF OwnTemporary, RenamingWhole, OkInPlace, DroppedIdle
<1>4. NoTempLeft
  BY DEF Init, NoTempLeft, TempNames
<1>5. TargetDone
  BY FileAssumption DEF Init, TargetDone, FileIds
<1>6. NewWaits /\ SuccessDone
  BY DEF Init, NewWaits, SuccessDone
<1> QED
  BY <1>2, <1>3, <1>4, <1>5, <1>6 DEF Inv

LEMMA StutterKeeps == Inv /\ UNCHANGED vars => Inv'
  BY DEF Inv, vars, TypeOK, OwnTemporary, NoTempLeft, RenamingWhole, TargetDone,
         OkInPlace, DroppedIdle, NewWaits, SuccessDone, TempName, Items, Dropped

\* In every state Inv holds: what the properties below are read off from.
THEOREM Invariance == Spec => []Inv
<1>1. Inv /\ [Next]_vars => Inv'
  <2> SUFFICES ASSUME Inv, [Next]_vars PROVE Inv'
    OBVIOUS
  <2>1. ASSUME NEW c \in Commands, Start(c) PROVE Inv'
    BY <2>1, StartKeeps
  <2>2. ASSUME NEW c \in Commands, Exit(c) \/ Kill(c) PROVE Inv'
    BY <2>2, ExitKeeps
  <2>3. ASSUME NEW c \in Commands, NEW i \in Items(c), ItemStep(c, i) PROVE Inv'
    BY <2>3, BeginKeeps, ConvertKeeps, OpenKeeps, WriteKeeps, CleanKeeps DEF ItemStep, NextCall
  <2>4. CASE UNCHANGED vars
    BY <2>4, StutterKeeps
  <2> QED
    BY <2>1, <2>2, <2>3, <2>4 DEF Next, Work
<1> QED
  BY InitInv, <1>1, PTL DEF Spec

\* Every variable keeps its type, the attempts their bound.
THEOREM Typed == Spec => []TypeOK
<1>1. Inv => TypeOK
  BY DEF Inv
<1> QED
  BY <1>1, Invariance, PTL

\* A path never holds a file that was not written and closed in full.
THEOREM TargetsAreWhole == Spec => []TargetWhole
<1>1. Inv => TargetWhole
  <2> SUFFICES ASSUME Inv, NEW t \in Targets, target[t] # Old
               PROVE  data[target[t]] = "whole"
    BY DEF TargetWhole
  <2>1. target[t] \in FileIds
    BY DEF Inv, TypeOK
  <2>2. PICK c \in Commands : \E i \in Slots(c) : target[t] = <<c, i>>
    BY <2>1 DEF FileIds
  <2> QED
    BY <2>2 DEF Inv, TargetDone
<1> QED
  BY <1>1, Invariance, PTL

\* The file under the temporary name of an item is the item's own.
THEOREM TemporariesAreOwn == Spec => []OwnTemporary
<1>1. Inv => OwnTemporary
  BY DEF Inv
<1> QED
  BY <1>1, Invariance, PTL

\* No error path leaves a temporary file behind.
THEOREM TemporariesGo == Spec => []NoTempLeft
<1>1. Inv => NoTempLeft
  BY DEF Inv
<1> QED
  BY <1>1, Invariance, PTL

\* A command that reports success has put all its files in place.
THEOREM SuccessIsTrue == Spec => []SuccessMeansWritten
<1>1. Inv => SuccessMeansWritten
  BY DEF Inv, SuccessMeansWritten, SuccessDone, OkInPlace
<1> QED
  BY <1>1, Invariance, PTL

-----------------------------------------------------------------------------
(* The threads of the items that run at once.                               *)

\* Shares of q, one more for the favoured, are so many threads together.
LEMMA SumOfShares ==
  ASSUME NEW c \in Commands, NEW W, IsFiniteSet(W), NEW q \in Nat, NEW E \in SUBSET W,
         \A i \in W : Share(c, i) = q + (IF i \in E THEN 1 ELSE 0)
  PROVE  MapThenSumSet(LAMBDA i : Share(c, i), W) = Cardinality(W) * q + Cardinality(E)
<1> DEFINE some(s) == CHOOSE x \in s : TRUE
           from(g) == [s \in SUBSET W |->
                         IF s = {} THEN 0 ELSE Share(c, some(s)) + g[s \ {some(s)}]]
           iter == CHOOSE g : g = from(g)
           told(s) == Cardinality(s) * q + Cardinality(s \cap E)
           all == [s \in SUBSET W |-> told(s)]
<1>1. MapThenSumSet(LAMBDA i : Share(c, i), W) = iter[W]
  BY DEF MapThenSumSet, MapThenFoldSet
<1>2. told({}) = 0
  <2>1. Cardinality({}) = 0 /\ {} \cap E = {}
    BY FS_EmptySet
  <2> QED
    BY <2>1
<1>3. ASSUME NEW s \in SUBSET W, s # {}
      PROVE  /\ some(s) \in s /\ s \ {some(s)} \in SUBSET W
             /\ told(s) = Share(c, some(s)) + told(s \ {some(s)})
  <2>1. PICK x \in s : x = some(s)
    BY <1>3
  <2>2. /\ IsFiniteSet(s) /\ Cardinality(s) \in Nat
        /\ Cardinality(s \ {x}) = Cardinality(s) - 1
        /\ Cardinality(s \ {x}) \in Nat
    BY <2>1, FS_Subset, FS_RemoveElement, FS_CardinalityType
  <2>3. /\ IsFiniteSet(s \cap E) /\ Cardinality(s \cap E) \in Nat
        /\ Cardinality((s \cap E) \ {x})
             = IF x \in E THEN Cardinality(s \cap E) - 1 ELSE Cardinality(s \cap E)
    BY <2>1, <2>2, FS_Subset, FS_RemoveElement, FS_CardinalityType
  <2>4. (s \ {x}) \cap E = (s \cap E) \ {x}
    OBVIOUS
  <2>5. Share(c, x) = q + (IF x \in E THEN 1 ELSE 0)
    BY <2>1
  <2> DEFINE n == Cardinality(s)
             e == Cardinality(s \cap E)
  <2>6. told(s) = n * q + e
    OBVIOUS
  <2>7. told(s \ {x}) = (n - 1) * q + (IF x \in E THEN e - 1 ELSE e)
    BY <2>2, <2>3, <2>4
  <2>8. n \in Nat /\ e \in Nat
    BY <2>2, <2>3
  <2> HIDE DEF n, e, told
  <2>9. n * q = (n - 1) * q + q /\ (n - 1) * q \in Int
    BY <2>8
  <2> DEFINE rest == (n - 1) * q
  <2>10. told(s) = Share(c, x) + told(s \ {x})
    <3>1. told(s) = (rest + q) + e /\ rest \in Int
      BY <2>6, <2>9
    <3>2. told(s \ {x}) = rest + (IF x \in E THEN e - 1 ELSE e)
      BY <2>7
    <3> HIDE DEF rest
    <3> QED
      BY <3>1, <3>2, <2>5, <2>8
  <2> QED
    BY <2>1, <2>10
<1>4. all = from(all)
  <2>1. ASSUME NEW s \in SUBSET W
        PROVE  all[s] = IF s = {} THEN 0 ELSE Share(c, some(s)) + all[s \ {some(s)}]
    <3> HIDE DEF told, some
    <3> QED
      BY <1>2, <1>3
  <2> HIDE DEF all
  <2>2. all = [s \in SUBSET W |-> all[s]]
    BY DEF all
  <2> QED
    BY <2>1, <2>2
<1>5. iter = from(iter)
  <2>1. \E g : g = from(g)
    BY <1>4
  <2> HIDE DEF from
  <2> QED
    BY <2>1
<1> HIDE DEF iter, all, told, some
<1>6. \A s \in SUBSET W : iter[s] = all[s]
  <2> DEFINE Differ == {s \in SUBSET W : iter[s] # all[s]}
  <2> SUFFICES ASSUME Differ # {} PROVE FALSE
    OBVIOUS
  <2>1. Differ \subseteq FiniteSubsetsOf(W)
    BY FS_Subset DEF FiniteSubsetsOf
  <2>2. PICK s \in Differ : \A t \in Differ : ~ (<<t, s>> \in StrictSubsetOrdering(W))
    <3> HIDE DEF Differ
    <3> QED
      BY <2>1, FS_StrictSubsetOrderingWellFounded, WFMin
  <2>3. s # {}
    BY <1>4, <1>5
  <2>4. /\ some(s) \in s /\ s \ {some(s)} \in SUBSET W
    BY <1>3, <2>3
  <2>5. s \ {some(s)} \notin Differ
    <3> DEFINE t == s \ {some(s)}
    <3>1. t \in SUBSET W /\ s \in SUBSET W /\ t \subseteq s /\ t # s
      BY <2>4
    <3> HIDE DEF t
    <3>2. <<t, s>> \in StrictSubsetOrdering(W)
      BY <3>1 DEF StrictSubsetOrdering
    <3>3. t \notin Differ
      BY <2>2, <3>2
    <3> QED
      BY <3>3 DEF t
  <2>6. iter[s \ {some(s)}] = all[s \ {some(s)}]
    BY <2>4, <2>5
  <2>7. /\ iter[s] = Share(c, some(s)) + iter[s \ {some(s)}]
        /\ all[s] = Share(c, some(s)) + all[s \ {some(s)}]
    BY <1>4, <1>5, <2>3
  <2> QED
    BY <2>6, <2>7
<1>7. iter[W] = all[W] /\ W \cap E = E
  BY <1>6
<1> QED
  BY <1>1, <1>7 DEF all, told

\* At most s elements of a set have fewer than s elements before them.
LEMMA FirstElements ==
  ASSUME NEW A \in SUBSET Nat, IsFiniteSet(A), NEW s \in Nat,
         NEW F \in SUBSET A, \A i \in F : Cardinality({k \in A : k < i}) < s
  PROVE  Cardinality(F) <= s
<1> DEFINE rank == [i \in F |-> Cardinality({k \in A : k < i}) + 1]
<1>1. \A i \in A : /\ IsFiniteSet({k \in A : k < i})
                   /\ Cardinality({k \in A : k < i}) \in Nat
  <2> SUFFICES ASSUME NEW i \in A
               PROVE  /\ IsFiniteSet({k \in A : k < i})
                      /\ Cardinality({k \in A : k < i}) \in Nat
    OBVIOUS
  <2>1. {k \in A : k < i} \in SUBSET A
    OBVIOUS
  <2> QED
    BY <2>1, FS_Subset, FS_CardinalityType
<1>2. ASSUME NEW i \in F, NEW j \in F, i < j
      PROVE  Cardinality({k \in A : k < i}) < Cardinality({k \in A : k < j})
  <2> DEFINE I == {k \in A : k < i}
             J == {k \in A : k < j}
  <2>1. I \in SUBSET J /\ i \in J /\ i \notin I
    <3>1. i \in Nat /\ j \in Nat /\ i \in A
      OBVIOUS
    <3>2. \A k \in A : k < i => k < j
      BY <1>2, <3>1
    <3>3. I \in SUBSET J
      BY <3>2
    <3>4. i \in J
      BY <1>2, <3>1
    <3>5. i \notin I
      BY <3>1
    <3> QED
      BY <3>3, <3>4, <3>5
  <2>2. /\ IsFiniteSet(J) /\ Cardinality(I) <= Cardinality(J)
        /\ Cardinality(J) = Cardinality(I) => J = I
    <3>1. IsFiniteSet(J)
      BY <1>1
    <3> HIDE DEF I, J
    <3> QED
      BY <2>1, <3>1, FS_Subset
  <2>3. Cardinality(I) \in Nat /\ Cardinality(J) \in Nat
    BY <1>1
  <2> HIDE DEF I, J
  <2>4. Cardinality(I) < Cardinality(J)
    BY <2>1, <2>2, <2>3
  <2> QED
    BY <2>4 DEF I, J
<1>3. rank \in Injection(F, 1..s)
  <2>1. rank \in [F -> 1..s]
    BY <1>1
  <2>2. \A i, j \in F : rank[i] = rank[j] => i = j
    <3> SUFFICES ASSUME NEW i \in F, NEW j \in F, rank[i] = rank[j], i # j PROVE FALSE
      OBVIOUS
    <3>1. i \in A /\ j \in A /\ (i < j \/ j < i)
      OBVIOUS
    <3>2. Cardinality({k \in A : k < i}) = Cardinality({k \in A : k < j})
      BY <1>1, <3>1
    <3> QED
      BY <1>1, <1>2, <3>1, <3>2
  <2> HIDE DEF rank
  <2> QED
    BY <2>1, <2>2 DEF Injection, IsInjective
<1>4. IsFiniteSet(1..s) /\ Cardinality(1..s) = s
  BY FS_Interval
<1> QED
  BY <1>3, <1>4, FS_Injection

\* So many shares, and one more thread for each that is left over, are not
\* more than all threads.
LEMMA SharesFit ==
  ASSUME NEW t \in Nat, NEW jobs \in Nat \ {0}, NEW n \in 0..jobs, NEW e \in 0..(t % jobs)
  PROVE  n * (t \div jobs) + e <= t
<1> DEFINE q == t \div jobs
           r == t % jobs
<1>1. t = jobs * q + r /\ q \in Nat /\ r \in Nat
  OBVIOUS
<1> HIDE DEF q, r
<1>2. n * q <= jobs * q /\ n * q \in Nat /\ jobs * q \in Nat
  BY <1>1
<1>3. e \in Nat /\ e <= r
  BY <1>1 DEF r
<1>4. n * q + e <= t
  <2> DEFINE a == n * q
             b == jobs * q
  <2>1. a \in Nat /\ b \in Nat /\ a <= b /\ t = b + r
    BY <1>1, <1>2
  <2> HIDE DEF a, b
  <2>2. a + e <= t
    BY <1>1, <1>3, <2>1
  <2> QED
    BY <2>2 DEF a
<1> QED
  BY <1>4 DEF q

\* At least one thread is there, and no more items work at once than may.
JobsHeld ==
  \A c \in Commands :
    /\ threads[c] \in Nat \ {0}
    /\ IsFiniteSet(Working(c))
    /\ Cardinality(Working(c)) <= Jobs(c)

\* The number of items that may work at once.
LEMMA JobsIs ==
  ASSUME NEW t \in Nat, NEW n \in Nat
  PROVE  Min({t, n}) \in {t, n} /\ Min({t, n}) <= t /\ Min({t, n}) <= n
<1>1. \E x \in {t, n} : \A y \in {t, n} : x =< y
  OBVIOUS
<1>2. Min({t, n}) \in {t, n} /\ \A y \in {t, n} : Min({t, n}) =< y
  BY <1>1 DEF Min
<1> QED
  BY <1>2

LEMMA BudgetFits ==
  ASSUME Inv, JobsHeld
  PROVE  ThreadBudget
<1> SUFFICES ASSUME NEW c \in Commands
             PROVE  /\ MapThenSumSet(LAMBDA i : Share(c, i), Working(c)) <= threads[c]
                    /\ \A i \in Working(c) : Share(c, i) >= 1
  BY DEF ThreadBudget
<1> DEFINE W == Working(c)
           t == threads[c]
           jobs == Jobs(c)
           q == t \div jobs
           A == {j \in Items(c) : j \notin Dropped(c)}
           before(i) == {j \in 1..(i - 1) : j \notin Dropped(c)}
           E == {i \in W : Cardinality(before(i)) < t % jobs}
<1>1. /\ t \in Nat \ {0} /\ IsFiniteSet(W) /\ Cardinality(W) \in Nat
      /\ Cardinality(W) <= jobs
  BY FS_CardinalityType DEF JobsHeld
<1>2. work[c] \in Seq(Targets) /\ Len(work[c]) \in Nat
  BY LenProperties DEF Inv, TypeOK
<1>3. jobs \in Nat /\ jobs <= t
  BY <1>1, <1>2, JobsIs DEF Jobs
<1>4. CASE jobs = 0
  <2>1. W = {}
    BY <1>1, <1>4, FS_EmptySet
  <2>2. MapThenSumSet(LAMBDA i : Share(c, i), W) = Cardinality(W) * 0 + Cardinality({})
    <3>1. {} \in SUBSET W /\ 0 \in Nat
      OBVIOUS
    <3>2. \A i \in W : Share(c, i) = 0 + (IF i \in {} THEN 1 ELSE 0)
      BY <2>1
    <3> QED
      BY <1>1, <3>1, <3>2, SumOfShares, ZenonT(40)
  <2>3. Cardinality(W) * 0 + Cardinality({}) = 0
    BY <1>1, FS_EmptySet
  <2> QED
    BY <1>1, <2>1, <2>2, <2>3
<1>5. CASE jobs # 0
  <2>1. q \in Nat /\ q >= 1 /\ t % jobs \in Nat
    BY <1>1, <1>3, <1>5
  <2>2. A \in SUBSET Nat /\ IsFiniteSet(A) /\ W \subseteq A
    <3>1. Items(c) \subseteq Nat /\ IsFiniteSet(Items(c))
      BY <1>2, FS_Interval, SMTT(40) DEF Items
    <3>2. A \in SUBSET Items(c)
      OBVIOUS
    <3>3. W \subseteq A
      BY DEF Inv, DroppedIdle, Working, AtWork, Holding
    <3> QED
      BY <3>1, <3>2, <3>3, FS_Subset
  <2>3. ASSUME NEW i \in A PROVE before(i) = {k \in A : k < i}
    <3>1. \A k : k \in before(i) <=> k \in A /\ k < i
      BY <1>2, <2>2 DEF Items
    <3> QED
      BY <3>1
  <2>4. \A i \in W : Share(c, i) = q + (IF i \in E THEN 1 ELSE 0)
    BY DEF Share
  <2>5. Cardinality(E) \in 0..(t % jobs)
    <3>1. E \in SUBSET A /\ E \in SUBSET W
      BY <2>2
    <3>2. \A i \in E : Cardinality({k \in A : k < i}) < t % jobs
      BY <2>3, <3>1
    <3> HIDE DEF E, A, W
    <3>3. Cardinality(E) <= t % jobs
      BY <2>1, <2>2, <3>1, <3>2, FirstElements
    <3>4. Cardinality(E) \in Nat
      BY <1>1, <3>1, FS_Subset, FS_CardinalityType
    <3> QED
      BY <2>1, <3>3, <3>4
  <2>6. MapThenSumSet(LAMBDA i : Share(c, i), W) = Cardinality(W) * q + Cardinality(E)
    <3>1. E \in SUBSET W
      OBVIOUS
    <3> HIDE DEF E, W, q
    <3> QED
      BY <1>1, <2>1, <2>4, <3>1, SumOfShares, ZenonT(40)
  <2>7. Cardinality(W) * q + Cardinality(E) <= t
    <3>1. Cardinality(W) \in 0..jobs /\ jobs \in Nat \ {0} /\ t \in Nat
      BY <1>1, <1>3, <1>5
    <3> HIDE DEF E, W, jobs, t
    <3> QED
      BY <2>5, <3>1, SharesFit
  <2>8. \A i \in W : Share(c, i) >= 1
    <3> HIDE DEF E, W, q
    <3> QED
      BY <2>1, <2>4
  <2> QED
    BY <2>6, <2>7, <2>8
<1> QED
  BY <1>4, <1>5

LEMMA JobsStay ==
  ASSUME Inv, JobsHeld, [Next]_vars
  PROVE  JobsHeld'
<1> SUFFICES ASSUME NEW d \in Commands
             PROVE  /\ threads'[d] \in Nat \ {0}
                    /\ IsFiniteSet(Working(d)')
                    /\ Cardinality(Working(d)') <= Jobs(d)'
  BY DEF JobsHeld
<1>1. /\ threads[d] \in Nat \ {0}
      /\ IsFiniteSet(Working(d)) /\ Cardinality(Working(d)) \in Nat
      /\ Cardinality(Working(d)) <= Jobs(d)
      /\ Len(work[d]) \in Nat
  BY FS_CardinalityType, LenProperties DEF JobsHeld, Inv, TypeOK
<1>2. Jobs(d) \in Nat
  BY <1>1, JobsIs DEF Jobs
\* An item that does not start to work adds nothing.
<1>3. ASSUME threads'[d] = threads[d], work'[d] = work[d],
             \A j \in Items(d) : at'[d][j] \in AtWork => at[d][j] \in AtWork
      PROVE  /\ threads'[d] \in Nat \ {0}
             /\ IsFiniteSet(Working(d)')
             /\ Cardinality(Working(d)') <= Jobs(d)'
  <2>1. Jobs(d)' = Jobs(d) /\ Working(d)' \in SUBSET Working(d)
    BY <1>3 DEF Jobs, Working, Items
  <2>2. IsFiniteSet(Working(d)') /\ Cardinality(Working(d)') \in Nat
        /\ Cardinality(Working(d)') <= Cardinality(Working(d))
    BY <1>1, <2>1, FS_Subset, FS_CardinalityType
  <2> QED
    BY <1>1, <1>2, <1>3, <2>1, <2>2
<1>4. CASE UNCHANGED vars
  BY <1>3, <1>4 DEF vars
<1>5. ASSUME NEW c \in Commands, Start(c)
      PROVE  /\ threads'[d] \in Nat \ {0}
             /\ IsFiniteSet(Working(d)')
             /\ Cardinality(Working(d)') <= Jobs(d)'
  <2>1. CASE d # c
    <3>1. threads'[d] = threads[d] /\ work'[d] = work[d] /\ at' = at
      BY <1>5, <2>1 DEF Start, Inv, TypeOK
    <3> QED
      BY <1>3, <3>1
  <2>2. CASE d = c
    <3>1. PICK n \in Slots(c), t \in Counts :
            /\ \E w \in [1..n -> Targets] : work' = [work EXCEPT ![c] = w]
            /\ threads' = [threads EXCEPT ![c] = t]
      BY <1>5 DEF Start
    <3>2. PICK w \in [1..n -> Targets] : work' = [work EXCEPT ![c] = w]
      BY <3>1
    <3>3. threads'[c] = t /\ work'[c] = w /\ t \in Nat \ {0} /\ n \in Nat /\ at' = at
      BY <1>5, <3>1, <3>2, BoundAssumption DEF Inv, TypeOK, Slots, Start
    <3>4. w \in Seq(Targets) /\ Len(w) = n
      BY <3>3, SeqDef
    <3>5. Working(c)' = {}
      <4>1. \A j \in Slots(c) : at[c][j] = "waiting"
        BY <1>5 DEF Start, Inv, NewWaits
      <4>2. Items(c)' \subseteq Slots(c)
        BY <3>1, <3>3, <3>4, BoundAssumption DEF Items, Slots
      <4> QED
        BY <3>3, <4>1, <4>2 DEF Working, AtWork, Holding
    <3>6. Jobs(c)' \in Nat
      BY <3>3, <3>4, JobsIs DEF Jobs
    <3> QED
      BY <2>2, <3>3, <3>5, <3>6, FS_EmptySet
  <2> QED
    BY <2>1, <2>2
<1>6. ASSUME NEW c \in Commands, Exit(c) \/ Kill(c)
      PROVE  threads' = threads /\ work' = work /\ at' = at
  BY <1>6 DEF Exit, Kill, command
<1>7. ASSUME NEW c \in Commands, NEW i \in Items(c),
             Convert(c, i) \/ Open(c, i) \/ OpenFails(c, i) \/ Write(c, i)
             \/ Close(c, i) \/ Rename(c, i) \/ Clean(c, i)
      PROVE  /\ threads' = threads /\ work' = work
             /\ \A j \in Items(d) : at'[d][j] \in AtWork => at[d][j] \in AtWork
  <2>1. threads' = threads /\ work' = work
    BY <1>7 DEF Convert, Open, OpenFails, Write, Close, Rename, Clean, command
  <2>2. at' = at \/ (at[c][i] \in AtWork /\ \E place : Go(c, i, place))
    BY <1>7 DEF Convert, Open, OpenFails, Write, Close, Rename, Clean, AtWork, Holding
  <2>3. i \in Slots(c) /\ \A j \in Items(d) : j \in Slots(d)
    BY ItemFile DEF Inv
  <2>4. CASE at' = at
    BY <2>1, <2>4
  <2>5. CASE at[c][i] \in AtWork /\ \E place : Go(c, i, place)
    <3>1. PICK place : at' = [at EXCEPT ![c][i] = place]
      BY <2>5 DEF Go
    <3>2. \A j \in Slots(d) : (d # c \/ j # i) => at'[d][j] = at[d][j]
      BY <2>3, <3>1 DEF Inv, TypeOK
    <3> QED
      BY <2>1, <2>3, <2>5, <3>2
  <2> QED
    BY <2>2, <2>4, <2>5
<1>8. ASSUME NEW c \in Commands, NEW i \in Items(c), Begin(c, i)
      PROVE  /\ threads'[d] \in Nat \ {0}
             /\ IsFiniteSet(Working(d)')
             /\ Cardinality(Working(d)') <= Jobs(d)'
  <2>1. threads' = threads /\ work' = work
    BY <1>8 DEF Begin, command
  <2>2. PICK place : Go(c, i, place)
    BY <1>8 DEF Begin
  <2>3. i \in Slots(c) /\ \A j \in Items(d) : j \in Slots(d)
    BY ItemFile DEF Inv
  <2>4. CASE d # c
    <3>1. at'[d] = at[d]
      BY <2>2, <2>3, <2>4 DEF Go, Inv, TypeOK
    <3> QED
      BY <1>3, <2>1, <3>1
  <2>5. CASE d = c
    <3>1. \A j \in Slots(c) : j # i => at'[c][j] = at[c][j]
      BY <2>2, <2>3 DEF Go, Inv, TypeOK
    <3>2. Working(c)' \subseteq Working(c) \cup {i}
      BY <2>1, <2>3, <2>5, <3>1 DEF Working, Items
    <3>3. Cardinality(Working(c)) < Jobs(c)
      BY <1>8 DEF Begin
    <3>4. /\ IsFiniteSet(Working(c) \cup {i})
          /\ Cardinality(Working(c) \cup {i}) <= Cardinality(Working(c)) + 1
      <4>1. IsFiniteSet(Working(c)) /\ Cardinality(Working(c)) \in Nat
        BY <1>1, <2>5
      <4>2. /\ IsFiniteSet(Working(c) \cup {i})
            /\ Cardinality(Working(c) \cup {i})
                 \in {Cardinality(Working(c)), Cardinality(Working(c)) + 1}
        BY <4>1, FS_AddElement
      <4> QED
        BY <4>1, <4>2
    <3>5. /\ IsFiniteSet(Working(c)')
          /\ Cardinality(Working(c)') <= Cardinality(Working(c) \cup {i})
      BY <3>2, <3>4, FS_Subset
    <3>6. Cardinality(Working(c)') \in Nat /\ Cardinality(Working(c) \cup {i}) \in Nat
      BY <3>4, <3>5, FS_CardinalityType
    <3>7. Jobs(c)' = Jobs(c) /\ threads'[c] = threads[c]
      BY <2>1 DEF Jobs
    <3> QED
      BY <1>1, <1>2, <2>5, <3>3, <3>4, <3>5, <3>6, <3>7
  <2> QED
    BY <2>4, <2>5
<1> QED
  BY <1>3, <1>4, <1>5, <1>6, <1>7, <1>8 DEF Next, Work, ItemStep, NextCall

\* The items of a batch that run at once share the threads they were given,
\* and each of them has one.
THEOREM BudgetHolds ==
  Spec => []ThreadBudget
<1>1. Init => JobsHeld
  <2> SUFFICES ASSUME Init, NEW c \in Commands
               PROVE  /\ threads[c] \in Nat \ {0}
                      /\ IsFiniteSet(Working(c)) /\ Cardinality(Working(c)) <= Jobs(c)
    BY DEF JobsHeld
  <2>1. threads[c] = 1 /\ work[c] = <<>> /\ Len(work[c]) = 0
    BY DEF Init
  <2>2. Working(c) = {}
    BY <2>1 DEF Working, Items
  <2>3. Jobs(c) \in Nat
    BY <2>1, JobsIs DEF Jobs
  <2> QED
    BY <2>1, <2>2, <2>3, FS_EmptySet
<1>2. Inv /\ JobsHeld /\ [Next]_vars => JobsHeld'
  BY JobsStay
<1>3. Inv /\ JobsHeld => ThreadBudget
  BY BudgetFits
<1> QED
  BY <1>1, <1>2, <1>3, Invariance, PTL DEF Spec
===============================================================================
