---------------------------- MODULE MC_TaskGroup ----------------------------
(* Model-checking instance of TaskGroup: three Run/Loop calls, two waiters. *)
EXTENDS TaskGroup

CONSTANTS t1, t2, t3, w1, w2

MC_Tasks == {t1, t2, t3}
MC_Waiters == {w1, w2}
=============================================================================
