\* A job error buffered in errCh when Close wins Run's select.
CONSTANT MaxTicks <- MC_MaxTicks
SPECIFICATION Spec
INVARIANT ClosedRunReportsCapturedError
CHECK_DEADLOCK FALSE
