-------------------------- MODULE MC_LogLevelSwitcher --------------------------
(* Model-checking instance: four signals, enough for three toggles and a    *)
(* signal dropped while one is buffered.                                   *)
EXTENDS LogLevelSwitcher

MC_MaxSignals == 4
=============================================================================
