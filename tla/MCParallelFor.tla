---------------------------- MODULE MCParallelFor ----------------------------
(* Instance of ParallelFor for TLC: all three builds, up to 3 tasks and 3     *)
(* workers, so a task set smaller than, equal to and larger than the workers. *)
EXTENDS ParallelFor

AllPlatforms == {"posix", "windows", "wasm"}
=============================================================================
