\* Spec P4 checked against the scheduler's goroutine per firing.
CONSTANT MaxTicks <- MC_MaxTicks
SPECIFICATION Spec
INVARIANT NoOverlappingTicks
CHECK_DEADLOCK FALSE
