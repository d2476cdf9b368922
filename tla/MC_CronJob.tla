------------------------------ MODULE MC_CronJob ------------------------------
(* Model-checking instance of CronJob: three firings of the schedule, which *)
(* lets two executions overlap and lets a third error arrive after Run     *)
(* already read one from errCh.                                            *)
EXTENDS CronJob

MC_MaxTicks == 3
=============================================================================
