------------------------ MODULE MC_MutexWithContext ------------------------
(* Model-checking instance of MutexWithContext: three goroutines. *)
EXTENDS MutexWithContext

CONSTANTS p1, p2, p3

MC_Procs == {p1, p2, p3}
=============================================================================
