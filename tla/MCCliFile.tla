------------------------------ MODULE MCCliFile ------------------------------
(* Instance of CliFile for TLC: a batch of up to two items and a command with *)
(* one, on two paths, with the same process number and two temporary names.   *)
EXTENDS CliFile, TLC

CONSTANTS batch, pack

TwoAndOne == (batch :> 2) @@ (pack :> 1)
==============================================================================
