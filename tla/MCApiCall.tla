------------------------------ MODULE MCApiCall ------------------------------
(* Instance of ApiCall for TLC. *)
EXTENDS ApiCall
==============================================================================
