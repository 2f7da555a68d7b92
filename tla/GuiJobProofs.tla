----------------------------- MODULE GuiJobProofs -----------------------------
(***************************************************************************)
(* Proofs for any number of images and temporary names: the window offers  *)
(* only files that verify has decoded, no job leaves a file behind, the    *)
(* handle of a child is closed once, and the window goes only when nothing *)
(* of a job is left.                                                       *)
(*                                                                         *)
(* The four properties are about single moments; Inv adds how a job goes   *)
(* through them: it is busy from its start to its message (BusyInv), what  *)
(* the child of each stage has done (ChildInv), and which handles exist    *)
(* (HandleInv).                                                            *)
(***************************************************************************)
EXTENDS GuiJob, SequenceTheorems, TLAPS

Contents == {"absent", "empty", "partial", "corrupt", "packed"}
Messages == [ok : BOOLEAN, cancelled : BOOLEAN, output : Files]

TypeInv ==
  /\ window \in {"open", "destroyed"} /\ ui \in {"idle", "taking", "killing"}
  /\ dialog \in BOOLEAN /\ busy \in BOOLEAN /\ canSave \in BOOLEAN
  /\ temp \in Files \cup {None} /\ job \in Files \cup {None}
  /\ cancelFlag \in BOOLEAN
  /\ process \in Stages \cup {None} /\ taken \in Stages \cup {None}
  /\ pc \in {"idle", "begin", "spawn", "publish", "wait", "check", "verdict"}
  /\ stage \in Stages
  /\ result \in [packed : BOOLEAN, verified : BOOLEAN, cancelled : BOOLEAN]
  /\ child \in [Stages -> {"none", "running", "ok", "bad", "killed"}]
  /\ handles \in [Stages -> {"none", "open", "closed"}]
  /\ content \in [Files -> Contents]

\* A job's message, if there is one, comes when its worker is gone.  A result
\* that is ok has a file that verify has decoded.
QueueInv ==
  queue = <<>> \/ \E m \in Messages :
    queue = <<m>> /\ pc = "idle" /\ busy /\ (m.ok => content[m.output] = "packed")

\* While a job is under way there is no result on display.
BusyInv ==
  /\ pc # "idle" => busy /\ queue = <<>>
  /\ pc # "idle" <=> job # None
  /\ busy => temp = None /\ ~canSave /\ window = "open"
  /\ ui # "idle" => window = "open" /\ ~dialog

\* What is on display exists and was verified.
DisplayInv ==
  /\ temp # None => content[temp] = "packed"
  /\ window = "open" /\ canSave => temp # None
  /\ dialog => temp # None /\ window = "open"

\* Only the child of the stage runs, and only while the worker waits for it;
\* verify passes only on a file that decodes, and pack is over by then.
ChildInv ==
  /\ \A s \in Stages :
       child[s] = "running" => s = stage /\ pc \in {"publish", "wait"}
  /\ pc = "begin" => ~result.verified /\ child = [s \in Stages |-> "none"]
  /\ pc # "idle" /\ stage = "pack" => ~result.verified /\ child["verify"] = "none"
  /\ pc # "idle" /\ (child["verify"] = "ok" \/ result.verified) => content[job] = "packed"

\* A child has a handle from its publication on.
HandleInv ==
  /\ ui = "killing" <=> taken # None
  /\ process # None => pc = "wait" /\ process = stage
  /\ pc = "begin" => handles = [s \in Stages |-> "none"]
  /\ pc \in {"spawn", "publish"} => handles[stage] = "none"
  /\ pc \in {"spawn", "publish", "wait", "check"} /\ stage = "pack" =>
       handles["verify"] = "none"
  /\ pc = "check" => stage = "pack"

Inv ==
  /\ TypeInv /\ QueueInv /\ BusyInv /\ DisplayInv /\ ChildInv
  /\ HandleInv /\ OneHandleOwner /\ NoOrphanFile

-----------------------------------------------------------------------------
LEMMA InitInv == Init => Inv
<1> SUFFICES ASSUME Init PROVE Inv
  OBVIOUS
<1> USE NoneAssumption DEF Init, Stages
<1>1. TypeInv
  BY DEF TypeInv, NoResult, Contents
<1>2. QueueInv /\ BusyInv /\ DisplayInv /\ ChildInv /\ HandleInv
  BY DEF QueueInv, BusyInv, DisplayInv, ChildInv, HandleInv
<1>3. OneHandleOwner /\ NoOrphanFile
  BY DEF OneHandleOwner, NoOrphanFile
<1> QED
  BY <1>1, <1>2, <1>3 DEF Inv

\* The removal of a file leaves the others.
LEMMA RemovedFile ==
  ASSUME TypeInv, NEW f \in Files \cup {None}
  PROVE  /\ Removed(f) \in [Files -> Contents]
         /\ \A g \in Files : Removed(f)[g] = IF g = f THEN "absent" ELSE content[g]
BY NoneAssumption DEF Removed, TypeInv, Contents

\* An empty queue and one of one message.
LEMMA OneMessage ==
  ASSUME NEW m \in Messages
  PROVE  /\ Append(<<>>, m) = <<m>> /\ Head(<<m>>) = m /\ Tail(<<m>>) = <<>>
         /\ Len(<<m>>) = 1 /\ <<m>>[1] = m /\ <<m>> # <<>>
OBVIOUS

\* A file is shown, in work or under way: the same, said of at most one message.
LEMMA Orphans ==
  ASSUME QueueInv
  PROVE  NoOrphanFile <=>
           \A f \in Files : content[f] # "absent" =>
             f = temp \/ f = job \/ (queue # <<>> /\ queue[1].output = f /\ queue[1].ok)
<1>1. CASE queue = <<>>
  <2>1. Len(queue) = 0
    BY <1>1
  <2> QED
    BY <1>1, <2>1 DEF NoOrphanFile
<1>2. ASSUME NEW m \in Messages, queue = <<m>>
      PROVE  1..Len(queue) = {1} /\ queue # <<>>
  BY <1>2, OneMessage
<1> QED
  BY <1>1, <1>2 DEF NoOrphanFile, QueueInv

-----------------------------------------------------------------------------
(* The window thread.                                                       *)

LEMMA ChooseInputKeepsInv ==
  ASSUME Inv, NEW i \in Inputs, ChooseInput(i)
  PROVE  Inv'
<1> USE DEF Inv
<1>1. content' = Removed(temp) /\ temp' = None /\ canSave' = FALSE /\ ~dialog /\ window = "open"
  BY DEF ChooseInput, Listening
<1>2. UNCHANGED <<window, ui, dialog, busy, cancelFlag, process, taken, queue, pc, stage, job, result, child, handles>>
  BY DEF ChooseInput, workVars
<1>3. Removed(temp) \in [Files -> Contents] /\ \A g \in Files : Removed(temp)[g] = IF g = temp THEN "absent" ELSE content[g]
  BY RemovedFile DEF TypeInv
<1>4. busy => content' = content
  BY <1>1 DEF BusyInv, Removed
<1>5. TypeInv'
  <2>1. content' \in [Files -> Contents] /\ temp' \in Files \cup {None} /\ canSave' \in BOOLEAN
    BY <1>1, <1>3
  <2> QED
    BY <1>2, <2>1 DEF TypeInv
<1>6. QueueInv'
  BY <1>2, <1>4 DEF QueueInv
<1>7. BusyInv' /\ DisplayInv' /\ HandleInv' /\ OneHandleOwner'
  BY <1>1, <1>2 DEF BusyInv, DisplayInv, HandleInv, OneHandleOwner
<1>8. ChildInv'
  BY <1>1, <1>2, <1>4 DEF ChildInv, BusyInv
<1>9. NoOrphanFile'
  BY <1>1, <1>2, <1>3 DEF NoOrphanFile
<1> QED
  BY <1>5, <1>6, <1>7, <1>8, <1>9

\* Nothing of a job is left when the window is not busy and no dialog of
\* cancel_compression is open.
LEMMA Idle ==
  ASSUME Inv, ~busy, ui = "idle"
  PROVE  /\ pc = "idle" /\ job = None /\ queue = <<>> /\ process = None /\ taken = None
         /\ \A s \in Stages : child[s] # "running"
BY DEF Inv, BusyInv, QueueInv, HandleInv, ChildInv, TypeInv

LEMMA StartKeepsInv ==
  ASSUME Inv, Start
  PROVE  Inv'
<1> USE DEF Inv
<1>1. /\ ~busy /\ ui = "idle" /\ ~dialog /\ window = "open"
      /\ temp' = None /\ canSave' = FALSE
      /\ UNCHANGED <<window, ui, dialog, process, taken, queue, stage>>
  BY DEF Start, StartIf, Listening
<1>2. /\ pc = "idle" /\ job = None /\ queue = <<>> /\ process = None /\ taken = None
      /\ \A s \in Stages : child[s] # "running"
  BY <1>1, Idle
<1>3. Removed(temp) \in [Files -> Contents] /\ \A g \in Files : Removed(temp)[g] = IF g = temp THEN "absent" ELSE content[g]
  BY RemovedFile DEF TypeInv
<1>4. \A g \in Files : Removed(temp)[g] = "absent"
  BY <1>2, <1>3, Orphans, NoneAssumption
<1>5. CASE UNCHANGED <<busy, job, pc, result, child, handles>> /\ content' = Removed(temp) /\ cancelFlag' \in {cancelFlag, FALSE}
  <2>1. TypeInv'
    <3>1. /\ content' \in [Files -> Contents] /\ temp' \in Files \cup {None}
          /\ canSave' \in BOOLEAN /\ cancelFlag' \in BOOLEAN
      BY <1>1, <1>3, <1>5 DEF TypeInv
    <3> QED
      BY <1>1, <1>5, <3>1 DEF TypeInv
  <2>2. QueueInv' /\ BusyInv' /\ DisplayInv' /\ ChildInv' /\ HandleInv' /\ OneHandleOwner'
    BY <1>1, <1>2, <1>5 DEF QueueInv, BusyInv, DisplayInv, ChildInv, HandleInv, OneHandleOwner
  <2>3. NoOrphanFile'
    BY <1>4, <1>5 DEF NoOrphanFile
  <2> QED
    BY <2>1, <2>2, <2>3
<1>6. ASSUME NEW f \in Files,
             /\ content' = [Removed(temp) EXCEPT ![f] = "empty"]
             /\ job' = f /\ cancelFlag' = FALSE /\ busy' = TRUE /\ pc' = "begin"
             /\ result' = NoResult
             /\ child' = [s \in Stages |-> "none"] /\ handles' = [s \in Stages |-> "none"]
      PROVE  Inv'
  <2>1. TypeInv'
    <3>1. content' \in [Files -> Contents]
      BY <1>3, <1>6 DEF Contents
    <3>2. result' \in [packed : BOOLEAN, verified : BOOLEAN, cancelled : BOOLEAN]
      BY <1>6 DEF NoResult
    <3> QED
      BY <1>1, <1>6, <3>1, <3>2 DEF TypeInv
  <2>2. QueueInv' /\ BusyInv' /\ DisplayInv'
    BY <1>1, <1>2, <1>6, NoneAssumption DEF QueueInv, BusyInv, DisplayInv
  <2>3. ChildInv'
    BY <1>6 DEF ChildInv, NoResult, Stages
  <2>4. HandleInv' /\ OneHandleOwner'
    BY <1>1, <1>2, <1>6, NoneAssumption DEF HandleInv, OneHandleOwner, Stages
  <2>5. NoOrphanFile'
    BY <1>3, <1>4, <1>6 DEF NoOrphanFile
  <2> QED
    BY <2>1, <2>2, <2>3, <2>4, <2>5
<1> QED
  BY <1>5, <1>6 DEF Start, StartIf

\* The three steps of cancel_compression change no file.
LEMMA CancelKeepsInv ==
  ASSUME Inv, CancelFlag \/ CancelTake \/ CancelKill
  PROVE  Inv'
<1> USE DEF Inv
<1>1. CASE CancelFlag
  <2> USE <1>1 DEF CancelFlag, Listening, workVars
  <2>1. TypeInv'
    BY DEF TypeInv
  <2>2. QueueInv' /\ BusyInv' /\ DisplayInv' /\ ChildInv'
    BY DEF QueueInv, BusyInv, DisplayInv, ChildInv
  <2>3. HandleInv' /\ OneHandleOwner' /\ NoOrphanFile'
    BY DEF HandleInv, OneHandleOwner, NoOrphanFile
  <2> QED
    BY <2>1, <2>2, <2>3
<1>2. CASE CancelTake
  <2> USE <1>2 DEF CancelTake, workVars
  <2>1. TypeInv'
    BY DEF TypeInv
  <2>2. QueueInv' /\ BusyInv' /\ DisplayInv' /\ ChildInv'
    BY DEF QueueInv, BusyInv, DisplayInv, ChildInv
  <2>3. taken = None
    BY DEF HandleInv
  <2>4. HandleInv' /\ OneHandleOwner'
    BY <2>3, NoneAssumption DEF HandleInv, OneHandleOwner, Stages
  <2>5. NoOrphanFile'
    BY DEF NoOrphanFile
  <2> QED
    BY <2>1, <2>2, <2>4, <2>5
<1>3. CASE CancelKill
  <2> USE <1>3 DEF CancelKill, workVars
  <2>1. taken \in Stages /\ taken # None /\ process # taken /\ handles[taken] = "open"
    BY DEF HandleInv, OneHandleOwner, TypeInv
  <2>2. /\ handles' = [handles EXCEPT ![taken] = "closed"]
        /\ \A s \in Stages : child'[s] = child[s] \/ child'[s] = "killed"
        /\ child' \in [Stages -> {"none", "running", "ok", "bad", "killed"}]
        /\ \A s \in Stages : child[s] = "none" => child'[s] = "none"
        /\ child # child' => child[taken] = "running"
    BY <2>1 DEF TypeInv
  <2>3. TypeInv'
    <3>1. handles' \in [Stages -> {"none", "open", "closed"}]
      BY <2>1, <2>2 DEF TypeInv
    <3> QED
      BY <2>2, <3>1 DEF TypeInv
  <2>4. QueueInv' /\ BusyInv' /\ DisplayInv'
    BY DEF QueueInv, BusyInv, DisplayInv
  <2>5. pc # "begin"
    BY <2>1 DEF HandleInv
  <2>6. ChildInv'
    BY <2>2, <2>5 DEF ChildInv, Stages
  <2>7. HandleInv' /\ OneHandleOwner'
    BY <2>1, <2>2, NoneAssumption DEF HandleInv, OneHandleOwner, TypeInv, Stages
  <2>8. NoOrphanFile'
    BY DEF NoOrphanFile
  <2> QED
    BY <2>3, <2>4, <2>6, <2>7, <2>8
<1> QED
  BY <1>1, <1>2, <1>3

LEMMA DoneKeepsInv ==
  ASSUME Inv, Done
  PROVE  Inv'
<1> USE DEF Inv
<1>1. PICK m \in Messages :
        queue = <<m>> /\ pc = "idle" /\ busy /\ (m.ok => content[m.output] = "packed")
  BY DEF QueueInv, Done
<1>2. /\ queue' = <<>> /\ busy' = FALSE
      /\ IF m.ok THEN temp' = m.output /\ canSave' = TRUE ELSE UNCHANGED <<temp, canSave>>
      /\ UNCHANGED <<window, ui, dialog, cancelFlag, process, taken, pc, stage, job, result, child, handles, content>>
      /\ window = "open" /\ ui = "idle"
  BY <1>1, OneMessage DEF Done, workVars
<1>3. temp = None /\ ~canSave /\ job = None /\ ~dialog
  BY <1>1 DEF BusyInv, DisplayInv
<1>4. m.output \in Files /\ m.ok \in BOOLEAN
  BY DEF Messages
<1>5. TypeInv'
  <2>1. temp' \in Files \cup {None} /\ canSave' \in BOOLEAN
    BY <1>2, <1>4 DEF TypeInv
  <2> QED
    BY <1>2, <2>1, ZenonT(40) DEF TypeInv
<1>6. QueueInv' /\ BusyInv' /\ ChildInv' /\ HandleInv' /\ OneHandleOwner'
  BY <1>1, <1>2, <1>3 DEF QueueInv, BusyInv, ChildInv, HandleInv, OneHandleOwner
<1>7. DisplayInv'
  BY <1>1, <1>2, <1>3, <1>4, NoneAssumption DEF DisplayInv
<1>8. NoOrphanFile'
  <2>1. \A f \in Files : content[f] # "absent" => m.output = f /\ m.ok
    BY <1>1, <1>3, OneMessage, NoneAssumption, Orphans
  <2> QED
    BY <1>2, <2>1 DEF NoOrphanFile
<1> QED
  BY <1>5, <1>6, <1>7, <1>8

LEMMA SaveKeepsInv ==
  ASSUME Inv, OpenSave \/ CloseSave
  PROVE  Inv'
<1> USE DEF Inv, OpenSave, CloseSave, Listening, workVars
<1>1. TypeInv'
  BY DEF TypeInv
<1>2. QueueInv' /\ BusyInv' /\ DisplayInv' /\ ChildInv'
  BY DEF QueueInv, BusyInv, DisplayInv, ChildInv
<1>3. HandleInv' /\ OneHandleOwner' /\ NoOrphanFile'
  BY DEF HandleInv, OneHandleOwner, NoOrphanFile
<1> QED
  BY <1>1, <1>2, <1>3

LEMMA CloseKeepsInv ==
  ASSUME Inv, Close
  PROVE  Inv'
<1> USE DEF Inv
<1>1. /\ ~busy /\ ui = "idle" /\ ~dialog
      /\ window' = "destroyed" /\ content' = Removed(temp) /\ temp' = None
      /\ UNCHANGED <<ui, dialog, busy, canSave, cancelFlag, process, taken, queue, pc, stage, job, result, child, handles>>
  BY DEF Close, CloseIf, Listening, workVars
<1>2. pc = "idle" /\ job = None /\ queue = <<>>
  BY <1>1, Idle
<1>3. Removed(temp) \in [Files -> Contents] /\ \A g \in Files : Removed(temp)[g] = IF g = temp THEN "absent" ELSE content[g]
  BY RemovedFile DEF TypeInv
<1>4. TypeInv'
  <2>1. content' \in [Files -> Contents] /\ temp' \in Files \cup {None} /\ window' \in {"open", "destroyed"}
    BY <1>1, <1>3
  <2> QED
    BY <1>1, <2>1 DEF TypeInv
<1>5. QueueInv' /\ BusyInv' /\ DisplayInv' /\ ChildInv' /\ HandleInv' /\ OneHandleOwner'
  BY <1>1, <1>2 DEF QueueInv, BusyInv, DisplayInv, ChildInv, HandleInv, OneHandleOwner
<1>6. NoOrphanFile'
  BY <1>1, <1>2, <1>3 DEF NoOrphanFile
<1> QED
  BY <1>4, <1>5, <1>6

-----------------------------------------------------------------------------
(* The worker and the children.                                             *)

\* What the worker leaves alone.
Untouched == UNCHANGED <<window, ui, dialog, busy, canSave, temp, cancelFlag, taken>>

\* A job ends with its message, or with neither message nor file.
LEMMA PostKeepsInv ==
  ASSUME Inv, Untouched, UNCHANGED <<process, stage, result, child, handles>>,
         pc \in {"begin", "verdict"}, pc' = "idle", job' = None,
         NEW m \in Messages, m.output = job, m.ok => content[job] = "packed",
         \/ queue' = Append(queue, m)
            /\ content' = IF m.ok THEN content ELSE [content EXCEPT ![job] = "absent"]
         \/ queue' = queue /\ content' = [content EXCEPT ![job] = "absent"]
  PROVE  Inv'
<1> USE DEF Inv
<1>1. /\ busy /\ queue = <<>> /\ job \in Files /\ temp = None /\ ~canSave /\ window = "open"
      /\ ~dialog /\ process = None
  BY NoneAssumption DEF BusyInv, DisplayInv, HandleInv, TypeInv
<1>2. \A s \in Stages : child[s] # "running"
  BY DEF ChildInv
<1>3. content \in [Files -> Contents] /\ \A f \in Files : f # job => content[f] = "absent"
  BY <1>1, Orphans, NoneAssumption DEF TypeInv
<1>4. m.ok \in BOOLEAN
  BY DEF Messages
<1>5. Append(<<>>, m) = <<m>>
  BY OneMessage
<1>7. content' \in [Files -> Contents] /\ \A f \in Files : f # job => content'[f] = "absent"
  BY <1>3 DEF Contents
<1>8. \/ queue' = <<m>> /\ content'[job] = IF m.ok THEN "packed" ELSE "absent"
      \/ queue' = <<>> /\ content'[job] = "absent"
  BY <1>1, <1>3, <1>5
<1>9. TypeInv'
  <2>1. pc' \in {"idle", "begin", "spawn", "publish", "wait", "check", "verdict"} /\ job' \in Files \cup {None}
    OBVIOUS
  <2> QED
    BY <1>7, <2>1 DEF TypeInv, Untouched
<1>10. QueueInv'
  BY <1>1, <1>8 DEF QueueInv, Untouched
<1>11. BusyInv' /\ DisplayInv' /\ HandleInv' /\ OneHandleOwner'
  BY <1>1 DEF BusyInv, DisplayInv, HandleInv, OneHandleOwner, Untouched
<1>12. ChildInv'
  BY <1>2 DEF ChildInv
<1>13. NoOrphanFile'
  <2>1. \A f \in Files : content'[f] # "absent" => f = job /\ m.ok /\ queue' = <<m>>
    BY <1>4, <1>7, <1>8
  <2>2. Len(<<m>>) = 1 /\ <<m>>[1] = m
    BY OneMessage
  <2> QED
    BY <1>4, <2>1, <2>2, SMTT(40) DEF NoOrphanFile
<1> QED
  BY <1>9, <1>10, <1>11, <1>12, <1>13

LEMMA BeginKeepsInv ==
  ASSUME Inv, Begin
  PROVE  Inv'
<1> USE DEF Inv
<1>1. pc = "begin" /\ Untouched /\ UNCHANGED <<process, result, child, handles>>
  BY DEF Begin, uiVars, Untouched
<1>2. CASE Post(FALSE, FALSE, [content EXCEPT ![job] = "absent"]) /\ UNCHANGED stage
  <2> DEFINE m == [ok |-> FALSE, cancelled |-> FALSE, output |-> job]
  <2>1. m \in Messages /\ m.output = job /\ ~m.ok
    BY <1>1, NoneAssumption DEF Messages, BusyInv, TypeInv
  <2>2. /\ pc' = "idle" /\ job' = None /\ (queue' = Append(queue, m) \/ queue' = queue)
        /\ content' = [content EXCEPT ![job] = "absent"]
    BY <1>2 DEF Post, TypeInv
  <2> HIDE DEF m
  <2> QED
    BY <1>1, <1>2, <2>1, <2>2, PostKeepsInv
<1>3. CASE pc' = "spawn" /\ stage' = "pack" /\ UNCHANGED <<queue, job, content>>
  <2>1. child = [s \in Stages |-> "none"] /\ handles = [s \in Stages |-> "none"] /\ ~result.verified
    BY <1>1 DEF ChildInv, HandleInv
  <2>2. TypeInv'
    <3>1. stage' \in Stages
      BY <1>3 DEF Stages
    <3> QED
      BY <1>1, <1>3, <3>1 DEF TypeInv, Untouched
  <2>3. QueueInv' /\ BusyInv' /\ DisplayInv'
    BY <1>1, <1>3 DEF QueueInv, BusyInv, DisplayInv, Untouched
  <2>4. ChildInv'
    BY <1>1, <1>3, <2>1 DEF ChildInv, Stages
  <2>5. HandleInv' /\ OneHandleOwner' /\ NoOrphanFile'
    BY <1>1, <1>3, <2>1 DEF HandleInv, OneHandleOwner, NoOrphanFile, Untouched, Stages
  <2> QED
    BY <2>2, <2>3, <2>4, <2>5
<1> QED
  BY <1>2, <1>3 DEF Begin

LEMMA SpawnKeepsInv ==
  ASSUME Inv, Spawn
  PROVE  Inv'
<1> USE DEF Inv
<1>1. /\ pc = "spawn" /\ Untouched
      /\ UNCHANGED <<process, queue, stage, job, result, handles, content>>
  BY DEF Spawn, uiVars, Untouched
<1>2. \/ pc' = "publish" /\ child' = [child EXCEPT ![stage] = "running"]
      \/ stage = "pack" /\ pc' = "check" /\ UNCHANGED child
      \/ stage = "verify" /\ pc' = "verdict" /\ UNCHANGED child
  BY DEF Spawn, TypeInv, Stages
<1>3. \A s \in Stages : child[s] # "running"
  BY <1>1 DEF ChildInv
<1>4. child' \in [Stages -> {"none", "running", "ok", "bad", "killed"}]
  BY <1>2 DEF TypeInv
<1>5. TypeInv'
  BY <1>1, <1>2, <1>4 DEF TypeInv, Untouched
<1>6. QueueInv' /\ BusyInv' /\ DisplayInv'
  BY <1>1, <1>2 DEF QueueInv, BusyInv, DisplayInv, Untouched
<1>7. ChildInv'
  BY <1>1, <1>2, <1>3 DEF ChildInv, TypeInv, Stages
<1>8. HandleInv' /\ OneHandleOwner' /\ NoOrphanFile'
  BY <1>1, <1>2 DEF HandleInv, OneHandleOwner, NoOrphanFile, Untouched
<1> QED
  BY <1>5, <1>6, <1>7, <1>8

LEMMA PublishKeepsInv ==
  ASSUME Inv, Publish
  PROVE  Inv'
<1> USE DEF Inv
<1>1. /\ pc = "publish" /\ pc' = "wait" /\ Untouched
      /\ UNCHANGED <<queue, stage, job, result, child, content>>
  BY DEF Publish, uiVars, Untouched
<1>2. process = None /\ stage \in Stages /\ handles[stage] = "none" /\ taken # stage
  BY <1>1 DEF HandleInv, OneHandleOwner, TypeInv
<1>3. \/ process' = stage /\ handles' = [handles EXCEPT ![stage] = "open"]
      \/ UNCHANGED <<process, handles>>
  <2>1. [s \in Stages |-> IF s = stage THEN "open" ELSE IF s = process THEN "closed" ELSE handles[s]]
          = [handles EXCEPT ![stage] = "open"]
    BY <1>2, NoneAssumption DEF TypeInv, Stages
  <2> QED
    BY <2>1 DEF Publish
<1>4. TypeInv'
  <2>1. process' \in Stages \cup {None} /\ handles' \in [Stages -> {"none", "open", "closed"}]
    BY <1>2, <1>3 DEF TypeInv
  <2> QED
    BY <1>1, <2>1 DEF TypeInv, Untouched
<1>5. QueueInv' /\ BusyInv' /\ DisplayInv' /\ ChildInv' /\ NoOrphanFile'
  BY <1>1 DEF QueueInv, BusyInv, DisplayInv, ChildInv, NoOrphanFile, Untouched
<1>6. HandleInv' /\ OneHandleOwner'
  BY <1>1, <1>2, <1>3, NoneAssumption DEF HandleInv, OneHandleOwner, Untouched, TypeInv, Stages
<1> QED
  BY <1>4, <1>5, <1>6

\* A child that ends writes only the file of its job.
LEMMA ChildEndsKeepsInv ==
  ASSUME Inv, NEW s \in Stages, ChildEnds(s)
  PROVE  Inv'
<1> USE DEF Inv
<1>1. /\ child[s] = "running" /\ Untouched
      /\ UNCHANGED <<process, queue, pc, stage, job, result, handles>>
  BY DEF ChildEnds, uiVars, workVars, Untouched
<1>2. PICK code \in {"ok", "bad"} :
        /\ child' = [child EXCEPT ![s] = code]
        /\ \/ s = "pack" /\ \E c \in Contents : content' = [content EXCEPT ![job] = c]
           \/ s = "verify" /\ (code = "ok" => content[job] = "packed") /\ UNCHANGED content
  BY DEF ChildEnds, Stages, Contents
<1>3. /\ s = stage /\ pc \in {"publish", "wait"} /\ busy /\ queue = <<>> /\ job \in Files
      /\ temp = None /\ ~canSave /\ ~dialog
  BY <1>1, NoneAssumption DEF ChildInv, BusyInv, DisplayInv, TypeInv
<1>4. /\ content' \in [Files -> Contents]
      /\ \A f \in Files : f # job => content'[f] = content[f]
      /\ s = "verify" => content' = content
  BY <1>2, <1>3 DEF TypeInv
<1>5. /\ child' \in [Stages -> {"none", "running", "ok", "bad", "killed"}]
      /\ child'[s] = code /\ \A t \in Stages : t # s => child'[t] = child[t]
  BY <1>2 DEF TypeInv
<1>6. TypeInv'
  BY <1>1, <1>4, <1>5 DEF TypeInv, Untouched
<1>7. QueueInv' /\ BusyInv' /\ DisplayInv' /\ HandleInv' /\ OneHandleOwner'
  BY <1>1, <1>3 DEF QueueInv, BusyInv, DisplayInv, HandleInv, OneHandleOwner, Untouched
<1>8. ChildInv'
  <2>1. CASE s = "pack"
    BY <1>1, <1>2, <1>3, <1>5, <2>1 DEF ChildInv, Stages
  <2>2. CASE s = "verify"
    BY <1>1, <1>2, <1>3, <1>4, <1>5, <2>2 DEF ChildInv, Stages
  <2> QED
    BY <2>1, <2>2 DEF Stages
<1>9. NoOrphanFile'
  BY <1>1, <1>3, <1>4, Orphans, NoneAssumption DEF NoOrphanFile, Untouched
<1> QED
  BY <1>6, <1>7, <1>8, <1>9

LEMMA ReapKeepsInv ==
  ASSUME Inv, Reap
  PROVE  Inv'
<1> USE DEF Inv
<1>1. /\ pc = "wait" /\ child[stage] # "running" /\ Untouched
      /\ UNCHANGED <<queue, stage, job, child, content>>
  BY DEF Reap, uiVars, Untouched
<1>2. \/ /\ stage = "pack" /\ pc' = "check"
         /\ result' = [result EXCEPT !.packed = (child[stage] = "ok")]
      \/ /\ stage = "verify" /\ pc' = "verdict"
         /\ result' = [result EXCEPT !.verified = (child[stage] = "ok")]
  BY DEF Reap, TypeInv, Stages
<1>3. \/ process = stage /\ process' = None /\ handles' = [handles EXCEPT ![stage] = "closed"]
      \/ process # stage /\ UNCHANGED <<process, handles>>
  BY DEF Reap
<1>4. TypeInv'
  <2>1. process' \in Stages \cup {None} /\ handles' \in [Stages -> {"none", "open", "closed"}]
    BY <1>3 DEF TypeInv
  <2>2. result' \in [packed : BOOLEAN, verified : BOOLEAN, cancelled : BOOLEAN]
    BY <1>2 DEF TypeInv
  <2> QED
    BY <1>1, <1>2, <2>1, <2>2 DEF TypeInv, Untouched
<1>5. QueueInv' /\ BusyInv' /\ DisplayInv' /\ NoOrphanFile'
  BY <1>1, <1>2 DEF QueueInv, BusyInv, DisplayInv, NoOrphanFile, Untouched
<1>6. ChildInv'
  <2>1. \A t \in Stages : child[t] # "running"
    BY <1>1 DEF ChildInv
  <2>2. CASE stage = "pack"
    <3>1. result'.verified = result.verified
      BY <1>2, <2>2 DEF TypeInv
    <3> QED
      BY <1>1, <1>2, <2>1, <2>2, <3>1 DEF ChildInv
  <2>3. CASE stage = "verify"
    <3>1. result'.verified <=> child["verify"] = "ok"
      BY <1>2, <2>3 DEF TypeInv
    <3> QED
      BY <1>1, <1>2, <2>1, <2>3, <3>1 DEF ChildInv
  <2> QED
    BY <2>2, <2>3 DEF TypeInv, Stages
<1>7. HandleInv' /\ OneHandleOwner'
  BY <1>1, <1>2, <1>3, NoneAssumption DEF HandleInv, OneHandleOwner, Untouched, TypeInv, Stages
<1> QED
  BY <1>4, <1>5, <1>6, <1>7

LEMMA CheckKeepsInv ==
  ASSUME Inv, Check
  PROVE  Inv'
<1> USE DEF Inv
<1>1. /\ pc = "check" /\ Untouched
      /\ UNCHANGED <<process, queue, job, child, handles, content>>
  BY DEF Check, uiVars, Untouched
<1>2. \/ pc' = "spawn" /\ stage' = "verify"
      \/ pc' = "verdict" /\ UNCHANGED stage
  BY DEF Check
<1>3. /\ result' \in [packed : BOOLEAN, verified : BOOLEAN, cancelled : BOOLEAN]
      /\ result'.verified = result.verified
  BY DEF Check, TypeInv
<1>4. \A s \in Stages : child[s] # "running"
  BY <1>1 DEF ChildInv
<1>5. TypeInv'
  <2>1. stage' \in Stages
    BY <1>2 DEF TypeInv, Stages
  <2> QED
    BY <1>1, <1>2, <1>3, <2>1 DEF TypeInv, Untouched
<1>6. QueueInv' /\ BusyInv' /\ DisplayInv' /\ NoOrphanFile'
  BY <1>1, <1>2 DEF QueueInv, BusyInv, DisplayInv, NoOrphanFile, Untouched
<1>7. ChildInv'
  BY <1>1, <1>2, <1>3, <1>4 DEF ChildInv
<1>8. HandleInv' /\ OneHandleOwner'
  BY <1>1, <1>2 DEF HandleInv, OneHandleOwner, Untouched
<1> QED
  BY <1>5, <1>6, <1>7, <1>8

LEMMA FinishKeepsInv ==
  ASSUME Inv, Finish
  PROVE  Inv'
<1> USE DEF Inv
<1> DEFINE cancelled == result.cancelled \/ cancelFlag
           ok == result.packed /\ result.verified /\ ~cancelled
           m == [ok |-> ok, cancelled |-> cancelled, output |-> job]
<1>1. /\ pc = "verdict" /\ Untouched
      /\ UNCHANGED <<process, stage, result, child, handles>>
      /\ Post(ok, cancelled, IF ok THEN content ELSE [content EXCEPT ![job] = "absent"])
  BY DEF Finish, Verdict, uiVars, Untouched
<1>2. ok \in BOOLEAN /\ cancelled \in BOOLEAN
  BY DEF TypeInv
<1>3. ok => content[job] = "packed"
  BY <1>1 DEF ChildInv
<1> HIDE DEF ok, cancelled
<1>4. m \in Messages /\ m.output = job /\ m.ok = ok
  BY <1>1, <1>2, NoneAssumption DEF Messages, BusyInv, TypeInv
<1>5. /\ pc' = "idle" /\ job' = None
      /\ \/ queue' = Append(queue, m)
            /\ content' = IF ok THEN content ELSE [content EXCEPT ![job] = "absent"]
         \/ queue' = queue /\ content' = [content EXCEPT ![job] = "absent"]
  BY <1>1 DEF Post, TypeInv
<1> HIDE DEF m
<1> QED
  BY <1>1, <1>3, <1>4, <1>5, PostKeepsInv

-----------------------------------------------------------------------------
\* Inv is inductive.
LEMMA NextKeepsInv ==
  ASSUME Inv, [Next]_vars
  PROVE  Inv'
<1>1. CASE UNCHANGED vars
  <2> USE <1>1 DEF Inv, vars
  <2>1. TypeInv'
    BY DEF TypeInv
  <2>2. QueueInv' /\ BusyInv' /\ DisplayInv' /\ ChildInv'
    BY DEF QueueInv, BusyInv, DisplayInv, ChildInv
  <2>3. HandleInv' /\ OneHandleOwner' /\ NoOrphanFile'
    BY DEF HandleInv, OneHandleOwner, NoOrphanFile
  <2> QED
    BY <2>1, <2>2, <2>3
<1>2. CASE Window
  BY <1>2, ChooseInputKeepsInv, StartKeepsInv, CancelKeepsInv, DoneKeepsInv, SaveKeepsInv,
     CloseKeepsInv DEF Window
<1>3. CASE Worker
  BY <1>3, BeginKeepsInv, SpawnKeepsInv, PublishKeepsInv, ReapKeepsInv, CheckKeepsInv,
     FinishKeepsInv DEF Worker
<1>4. CASE \E s \in Stages : ChildEnds(s)
  BY <1>4, ChildEndsKeepsInv
<1> QED
  BY <1>1, <1>2, <1>3, <1>4 DEF Next, InSession

LEMMA Invariance == Spec => []Inv
<1>1. Init => Inv
  BY InitInv
<1>2. Inv /\ [Next]_vars => Inv'
  BY NextKeepsInv
<1> QED
  BY <1>1, <1>2, PTL DEF Spec

\* docs/architecture.md:179-182, for any images and names: what may be saved
\* exists and was decoded by verify.
THEOREM OnlyVerifiedIsSaved == Spec => []SaveOnlyVerified
<1>1. Inv => SaveOnlyVerified
  BY DEF Inv, DisplayInv, SaveOnlyVerified
<1> QED
  BY <1>1, Invariance, PTL

\* post_result, run_process, clear_result and the handlers of the window
\* account for every temporary file.
THEOREM NoFileIsLeft == Spec => []NoOrphanFile
<1>1. Inv => NoOrphanFile
  BY DEF Inv
<1> QED
  BY <1>1, Invariance, PTL

\* The two exchanges of g_process give each handle one thread to close it.
THEOREM HandleClosedOnce == Spec => []OneHandleOwner
<1>1. Inv => OneHandleOwner
  BY DEF Inv
<1> QED
  BY <1>1, Invariance, PTL

\* WM_CLOSE waits for a job that is under way.
THEOREM ClosesQuietly == Spec => []QuietClose
<1>1. Inv => QuietClose
  <2> SUFFICES ASSUME Inv, window = "destroyed" PROVE QuietClose
    BY DEF QuietClose
  <2>1. ~busy /\ ui = "idle"
    BY DEF Inv, BusyInv
  <2> QED
    BY <2>1, Idle DEF QuietClose
<1> QED
  BY <1>1, Invariance, PTL
=============================================================================
