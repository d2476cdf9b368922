\* AsyncTask.Run with two replicas, signals and the parent's cancellation.
CONSTANTS r1 = r1  r2 = r2  m = m
CONSTANT Replicas <- MC_Replicas
CONSTANT Main <- m
CONSTANT MaxSignals <- MC_MaxSignals

SPECIFICATION FairSpec
INVARIANT TypeOK
INVARIANT ReturnsOnlyOnStop
PROPERTY StopsOnSignal
\* Run returns, or a signal ends the process: both are final.
CHECK_DEADLOCK FALSE
