------------------------------ MODULE MC_RunGroup ------------------------------
(* Model-checking instance of RunGroup: three members, so that one can fail *)
(* while one is running and one is not yet started.                         *)
EXTENDS RunGroup

MC_N == 3
=============================================================================
