------------------------------- MODULE CliFile -------------------------------
(***************************************************************************)
(* How the command line writes files (codec/src/cli_posix.c): `qlic pack`, *)
(* `qlic unpack` and `qlic batch` write a temporary file beside the target *)
(* and rename it into place.  Several commands may run at once on the same *)
(* directory, a batch writes several files at once, every system call may  *)
(* fail, and a command may be killed between any two of them.              *)
(*                                                                         *)
(* A command is a sequence of items; pack and unpack have one.  The image  *)
(* and its encoding are left out but for their failure.  A file is named   *)
(* after the item that created it.  Two commands may have the same process *)
(* number, because one was killed earlier or because the directory is      *)
(* shared between machines or containers.                                  *)
(***************************************************************************)
EXTENDS Naturals, Sequences, FiniteSets, FiniteSetsExt

CONSTANTS
  Commands,    \* runs of the program
  Targets,     \* output paths
  Pids,        \* values of getpid
  Attempts,    \* names open_temporary tries, 100 in the code
  MaxItems,    \* bound on the items of each command
  Counts,      \* values of --threads, at most qlic_hardware_thread_count
  None,        \* no file
  Old          \* what was there before: a file, or nothing at a target

Slots(c) == 1..MaxItems[c]
FileIds == UNION {{c} \X Slots(c) : c \in Commands}

ASSUME BoundAssumption ==
  /\ Attempts \in Nat \ {0}
  /\ Counts \subseteq Nat \ {0}
  /\ MaxItems \in [Commands -> Nat \ {0}]
ASSUME FileAssumption == None \notin FileIds /\ Old \notin FileIds /\ None # Old

VARIABLES
  phase,    \* of a command: "new", "running", "succeeded", "failed", "killed"
  pid,      \* its process number
  work,     \* the target of each item
  threads,  \* --threads
  unnamed,  \* items whose output path could not be made
  at,       \* where each item is
  attempt,  \* number of the temporary name an item tries or holds
  target,   \* the file at each path
  temp,     \* the file under each temporary name
  data      \* what the file of an item holds: "none", "partial", "whole"

command == <<pid, work, threads, unnamed>>
vars == <<phase, pid, work, threads, unnamed, at, attempt, target, temp, data>>

Items(c) == 1..Len(work[c])
TempNames == Targets \X Pids \X (0..Attempts - 1)

\* "<target>.tmp.<pid>.<attempt>"
TempName(c, i) == <<work[c][i], pid[c], attempt[c][i]>>

\* command_batch: an item without an output, because its path could not be
\* made or an earlier item has the same, is counted as a failure and skipped.
\* Mutant: the outputs are not compared.
DroppedUnlessNamed(c) == unnamed[c]
Dropped(c) ==
  unnamed[c] \cup
    {i \in Items(c) : \E j \in 1..(i - 1) \ unnamed[c] : work[c][j] = work[c][i]}

\* The tasks of a batch that run at once, and the threads each of them gets.
Jobs(c) == Min({threads[c], Len(work[c])})

\* Mutant: one thread too many is handed out.
ShareRoundedUp(c, i) ==
  LET before == {j \in 1..(i - 1) : j \notin Dropped(c)}
  IN  threads[c] \div Jobs(c)
        + IF Cardinality(before) <= threads[c] % Jobs(c) THEN 1 ELSE 0

Share(c, i) ==
  LET before == {j \in 1..(i - 1) : j \notin Dropped(c)}
  IN  threads[c] \div Jobs(c)
        + IF Cardinality(before) < threads[c] % Jobs(c) THEN 1 ELSE 0

Holding == {"writing", "closing", "renaming", "cleaning"}
AtWork == {"encoding", "opening"} \cup Holding
Working(c) == {i \in Items(c) : at[c][i] \in AtWork}

Init ==
  /\ phase = [c \in Commands |-> "new"]
  /\ pid \in [Commands -> Pids]
  /\ work = [c \in Commands |-> <<>>]
  /\ threads = [c \in Commands |-> 1]
  /\ unnamed = [c \in Commands |-> {}]
  /\ at = [c \in Commands |-> [i \in Slots(c) |-> "waiting"]]
  /\ attempt = [c \in Commands |-> [i \in Slots(c) |-> 0]]
  /\ target = [t \in Targets |-> Old]
  /\ \E left \in {None, Old} :
       temp = [n \in TempNames |-> IF n[3] = 0 THEN left ELSE None]
  /\ data = [f \in FileIds |-> "none"]

Go(c, i, place) == at' = [at EXCEPT ![c][i] = place]

-----------------------------------------------------------------------------
(* An item, from its image to its file.                                     *)

\* The batch loop hands out the items in order, at most Jobs(c) at a time.
Begin(c, i) ==
  /\ phase[c] = "running" /\ at[c][i] = "waiting"
  /\ \A j \in 1..(i - 1) : at[c][j] # "waiting"
  /\ Cardinality(Working(c)) < Jobs(c)
  /\ Go(c, i, IF i \in Dropped(c) THEN "dropped" ELSE "encoding")
  /\ UNCHANGED <<phase, command, attempt, target, temp, data>>

\* load_image and qlic_encode_rgba, or read_file and qlic_decode_rgba.
Convert(c, i) ==
  /\ phase[c] = "running" /\ at[c][i] = "encoding"
  /\ \/ Go(c, i, "opening")
     \/ Go(c, i, "failed")
  /\ UNCHANGED <<phase, command, attempt, target, temp, data>>

\* One turn of the loop in open_temporary: O_EXCL refuses a name in use.
\* Mutant: the file is opened without O_EXCL.
OpenAny(c, i) ==
  /\ phase[c] = "running" /\ at[c][i] = "opening"
  /\ temp' = [temp EXCEPT ![TempName(c, i)] = <<c, i>>]
  /\ Go(c, i, "writing")
  /\ UNCHANGED <<phase, command, attempt, target, data>>

\* Mutant: the names never run out.
OpenEndless(c, i) ==
  /\ phase[c] = "running" /\ at[c][i] = "opening"
  /\ IF temp[TempName(c, i)] = None
     THEN /\ temp' = [temp EXCEPT ![TempName(c, i)] = <<c, i>>]
          /\ Go(c, i, "writing")
          /\ UNCHANGED attempt
     ELSE attempt' = [attempt EXCEPT ![c][i] = @ + 1] /\ UNCHANGED <<at, temp>>
  /\ UNCHANGED <<phase, command, target, data>>

\* Mutant: a name in use is tried again.
OpenSame(c, i) ==
  /\ phase[c] = "running" /\ at[c][i] = "opening"
  /\ IF temp[TempName(c, i)] = None
     THEN /\ temp' = [temp EXCEPT ![TempName(c, i)] = <<c, i>>]
          /\ Go(c, i, "writing")
     ELSE UNCHANGED <<temp, at>>
  /\ UNCHANGED <<phase, command, attempt, target, data>>

Open(c, i) ==
  /\ phase[c] = "running" /\ at[c][i] = "opening"
  /\ IF temp[TempName(c, i)] = None
     THEN /\ temp' = [temp EXCEPT ![TempName(c, i)] = <<c, i>>]
          /\ Go(c, i, "writing")
          /\ UNCHANGED attempt
     ELSE /\ IF attempt[c][i] + 1 < Attempts
             THEN attempt' = [attempt EXCEPT ![c][i] = @ + 1] /\ UNCHANGED at
             ELSE Go(c, i, "failed") /\ UNCHANGED attempt
          /\ UNCHANGED temp
  /\ UNCHANGED <<phase, command, target, data>>

\* open or malloc fails for another reason.
OpenFails(c, i) ==
  /\ phase[c] = "running" /\ at[c][i] = "opening"
  /\ Go(c, i, "failed")
  /\ UNCHANGED <<phase, command, attempt, target, temp, data>>

\* fwrite or png_image_write_to_stdio; fdopen may fail before them.  A file
\* that was not written in full is closed and removed.
Write(c, i) ==
  /\ phase[c] = "running" /\ at[c][i] = "writing"
  /\ \/ Go(c, i, "closing") /\ data' = [data EXCEPT ![<<c, i>>] = "partial"]
     \/ /\ Go(c, i, "cleaning")
        /\ \E d \in {"none", "partial"} : data' = [data EXCEPT ![<<c, i>>] = d]
  /\ UNCHANGED <<phase, command, attempt, target, temp>>

\* fclose writes what is buffered.
\* Mutant: its result is not looked at.
CloseUnchecked(c, i) ==
  /\ phase[c] = "running" /\ at[c][i] = "closing"
  /\ \E d \in {"partial", "whole"} : data' = [data EXCEPT ![<<c, i>>] = d]
  /\ Go(c, i, "renaming")
  /\ UNCHANGED <<phase, command, attempt, target, temp>>

Close(c, i) ==
  /\ phase[c] = "running" /\ at[c][i] = "closing"
  /\ \/ Go(c, i, "renaming") /\ data' = [data EXCEPT ![<<c, i>>] = "whole"]
     \/ Go(c, i, "cleaning") /\ UNCHANGED data
  /\ UNCHANGED <<phase, command, attempt, target, temp>>

\* rename moves whatever file has the temporary name.
\* Mutant: the temporary file stays when rename fails.
RenameOnly(c, i) ==
  /\ phase[c] = "running" /\ at[c][i] = "renaming"
  /\ \/ /\ target' = [target EXCEPT ![work[c][i]] = temp[TempName(c, i)]]
        /\ temp' = [temp EXCEPT ![TempName(c, i)] = None]
        /\ Go(c, i, "ok")
     \/ Go(c, i, "failed") /\ UNCHANGED <<target, temp>>
  /\ UNCHANGED <<phase, command, attempt, data>>

Rename(c, i) ==
  /\ phase[c] = "running" /\ at[c][i] = "renaming"
  /\ \/ /\ target' = [target EXCEPT ![work[c][i]] = temp[TempName(c, i)]]
        /\ temp' = [temp EXCEPT ![TempName(c, i)] = None]
        /\ Go(c, i, "ok")
     \/ Go(c, i, "cleaning") /\ UNCHANGED <<target, temp>>
  /\ UNCHANGED <<phase, command, attempt, data>>

\* unlink
Clean(c, i) ==
  /\ phase[c] = "running" /\ at[c][i] = "cleaning"
  /\ temp' = [temp EXCEPT ![TempName(c, i)] = None]
  /\ Go(c, i, "failed")
  /\ UNCHANGED <<phase, command, attempt, target, data>>

\* What an item does next if open is never refused.
NextCall(c, i) ==
  \/ Begin(c, i) \/ Convert(c, i) \/ Open(c, i)
  \/ Write(c, i) \/ Close(c, i) \/ Rename(c, i) \/ Clean(c, i)

ItemStep(c, i) == NextCall(c, i) \/ OpenFails(c, i)

-----------------------------------------------------------------------------
(* A command.                                                               *)

\* main: the arguments are read; a batch makes its directory and its list,
\* and ends when it cannot.  The threads of a single item share nothing.
Start(c) ==
  /\ phase[c] = "new"
  /\ \E n \in Slots(c), t \in Counts :
       /\ n = 1 => t = Min(Counts)
       /\ \E w \in [1..n -> Targets] : work' = [work EXCEPT ![c] = w]
       /\ threads' = [threads EXCEPT ![c] = t]
       /\ \/ /\ phase' = [phase EXCEPT ![c] = "running"]
             /\ \E lost \in IF n = 1 THEN {{}} ELSE SUBSET (1..n) :
                  unnamed' = [unnamed EXCEPT ![c] = lost]
          \/ /\ n > 1 /\ phase' = [phase EXCEPT ![c] = "failed"]
             /\ UNCHANGED unnamed
  /\ UNCHANGED <<pid, at, attempt, target, temp, data>>

\* The exit status: 1 if an item failed or was dropped.
Exit(c) ==
  /\ phase[c] = "running"
  /\ \A i \in Items(c) : at[c][i] \in {"ok", "failed", "dropped"}
  /\ phase' = [phase EXCEPT ![c] = IF \A i \in Items(c) : at[c][i] = "ok"
                                   THEN "succeeded" ELSE "failed"]
  /\ UNCHANGED <<command, at, attempt, target, temp, data>>

\* A signal, or the end of the machine's memory.
Kill(c) ==
  /\ phase[c] = "running"
  /\ phase' = [phase EXCEPT ![c] = "killed"]
  /\ UNCHANGED <<command, at, attempt, target, temp, data>>

Work(c) == Exit(c) \/ \E i \in Items(c) : ItemStep(c, i)
Progress(c) == Exit(c) \/ \E i \in Items(c) : NextCall(c, i)

Next == \E c \in Commands : Start(c) \/ Work(c) \/ Kill(c)

\* Every command that runs is scheduled and its system calls return.  Nothing
\* makes open fail in the end: a command may not count on that to stop.
Spec == Init /\ [][Next]_vars /\ \A c \in Commands : WF_vars(Progress(c))

-----------------------------------------------------------------------------
(* Properties.                                                              *)

\* Every value is one the program can have.
TypeOK ==
  /\ phase \in [Commands -> {"new", "running", "succeeded", "failed", "killed"}]
  /\ pid \in [Commands -> Pids] /\ work \in [Commands -> Seq(Targets)]
  /\ threads \in [Commands -> Nat] /\ unnamed \in [Commands -> SUBSET Nat]
  /\ DOMAIN at = Commands /\ DOMAIN attempt = Commands
  /\ \A c \in Commands :
       /\ at[c] \in [Slots(c) -> AtWork \cup {"waiting", "ok", "failed", "dropped"}]
       /\ Len(work[c]) <= MaxItems[c]
       /\ attempt[c] \in [Slots(c) -> 0..Attempts - 1]
  /\ target \in [Targets -> FileIds \cup {Old}]
  /\ temp \in [TempNames -> FileIds \cup {None, Old}]
  /\ data \in [FileIds -> {"none", "partial", "whole"}]

\* Whatever fails and whoever is killed, the file at a path is the one that was
\* there or one that was written and closed in full: write_file and save_png
\* rename nothing else into place.
TargetWhole ==
  \A t \in Targets : target[t] = Old \/ data[target[t]] = "whole"

\* While an item holds a temporary name, the file under that name is its own:
\* open_temporary never takes over the file of another item or command.
OwnTemporary ==
  \A c \in Commands : \A i \in Items(c) :
    at[c][i] \in Holding =>
      temp[TempName(c, i)] = <<c, i>>

\* A temporary file is the one of an item that is still to rename or remove it,
\* or was when its command was killed, now or before: no error path leaves a
\* file behind, and a command that exited has none.
NoTempLeft ==
  \A n \in TempNames : temp[n] \notin {None, Old} =>
    \E c \in Commands : \E i \in Items(c) :
      /\ temp[n] = <<c, i>> /\ n = TempName(c, i)
      /\ at[c][i] \in Holding /\ phase[c] \in {"running", "killed"}

\* A command that reports success has put every output in place: at the end the
\* path of an item holds that item's file, unless another command replaced it.
\* In a batch no item overwrites another one's file.
SuccessMeansWritten ==
  \A c \in Commands : phase[c] = "succeeded" =>
    \A i \in Items(c) :
      LET f == target[work[c][i]]
      IN  f # Old /\ (f[1] = c => f = <<c, i>>)

\* The items of a batch that run at once use no more threads together than
\* --threads allows, and none of them is left without one.
ThreadBudget ==
  \A c \in Commands :
    /\ MapThenSumSet(LAMBDA i : Share(c, i), Working(c)) <= threads[c]
    /\ \A i \in Working(c) : Share(c, i) >= 1

\* A command that started ends, also when temporary files of killed commands
\* are in its way.
CommandEnds ==
  \A c \in Commands : phase[c] = "running" ~> phase[c] # "running"
=============================================================================
