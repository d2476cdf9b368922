----------------------------- MODULE MC_Shutdown -----------------------------
(* Model-checking instance of Shutdown: two calls of Run (spec scenario C) *)
(* and two signals, one to end a call and one after it.                    *)
EXTENDS Shutdown

MC_MaxRuns == 2
MC_MaxSignals == 2
=============================================================================
