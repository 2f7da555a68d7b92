------------------------------- MODULE TaskSet -------------------------------
(***************************************************************************)
(* What qlic_parallel_for (codec/src/parallel.c) promises to its callers,  *)
(* without saying how the work is shared out: every task of the call is    *)
(* begun once and ended once, in any order and with any overlap, and the   *)
(* call returns only when all of them have ended, with every result        *)
(* readable by the caller.                                                 *)
(***************************************************************************)
EXTENDS Naturals

VARIABLES
  tasks,      \* the indices of this call, fixed by its arguments
  todo,       \* not begun
  busy,       \* begun and not ended
  readable,   \* results the caller may read
  returned    \* the call has returned

taskVars == <<tasks, todo, busy, readable, returned>>

Init ==
  /\ tasks \in SUBSET Nat
  /\ todo = tasks
  /\ busy = {}
  /\ readable = {}
  /\ returned = FALSE

Begin ==
  \E i \in todo :
    /\ todo' = todo \ {i}
    /\ busy' = busy \cup {i}
    /\ UNCHANGED <<tasks, readable, returned>>

End ==
  \E i \in busy :
    /\ busy' = busy \ {i}
    /\ UNCHANGED <<tasks, todo, readable, returned>>

Return ==
  /\ ~returned
  /\ todo = {}
  /\ busy = {}
  /\ returned' = TRUE
  /\ readable' = tasks
  /\ UNCHANGED <<tasks, todo, busy>>

Next == Begin \/ End \/ Return

Spec == Init /\ [][Next]_taskVars
=============================================================================
