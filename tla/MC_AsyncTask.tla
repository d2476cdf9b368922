----------------------------- MODULE MC_AsyncTask -----------------------------
(* Model-checking instance of AsyncTask: two replicas (the smallest number *)
(* in which one Loop can still be starting while another one already ran). *)
EXTENDS AsyncTask

CONSTANTS r1, r2, m
MC_Replicas == {r1, r2}
MC_MaxSignals == 2
=============================================================================
