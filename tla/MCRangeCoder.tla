----------------------------- MODULE MCRangeCoder -----------------------------
(* An instance of RangeCoder for TLC.  The range has four digits, as in the    *)
(* code (Top = Base ^ 3); ProbOne = Base ^ 2 is the widest TopAssumption allows. *)
EXTENDS RangeCoder

Unlimited == 999
AllKinds == {"plain", "mix", "coarse", "mix3", "root", "mix4",
             "mix4_weight", "mix5_sign"}

Even(p) == [c \in Contexts |-> p]
Skewed(p, q) == [c \in Contexts |-> IF c = "child" THEN p ELSE q]

\* Contexts that have seen only 0s, only 1s, and a near-certain 1 beside a
\* near-certain 0.
EdgeStarts == {Even(1), Even(63), Skewed(1, 62)}
CutLimits == {4, Unlimited}
CutRooms == {5, Unlimited}

\* Bound: messages of more than three decisions mix no contexts but two.
LongOnesPlain ==
  Len(hist) > 3 => \A i \in DOMAIN hist : hist[i].kind \in {"plain", "coarse"}
=============================================================================
