------------------------------ MODULE MC_LogFile ------------------------------
EXTENDS LogFile

\* Two delivered signals: one to fill c, one to meet a full c.
MCMaxSignals == 2
=============================================================================
