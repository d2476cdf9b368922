\* Is signal handling restored once Shutdown.Run returned?
CONSTANT MaxRuns <- MC_MaxRuns
CONSTANT MaxSignals <- MC_MaxSignals
SPECIFICATION SSpec
INVARIANT SignalsRestoredAfterRun
CHECK_DEADLOCK FALSE
