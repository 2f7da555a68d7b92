---------------------------- MODULE MCStreamTrials ----------------------------
(* Instance of StreamTrials for TLC: every tournament of up to two trials and  *)
(* two retries whose sizes are 1..3 or a failure, of an ordinary mode, the     *)
(* gated mode 39 and the tie-breaking mode 42, with and without a limit.       *)
EXTENDS StreamTrials
===============================================================================
