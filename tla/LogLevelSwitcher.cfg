\* One Run of the log level switcher with signals, Close and cancellation.
CONSTANT MaxSignals <- MC_MaxSignals
SPECIFICATION FairSpec
INVARIANT TypeOK

PROPERTY SwitcherStops
\* Run returns, or a signal ends the process: both are final.
CHECK_DEADLOCK FALSE
