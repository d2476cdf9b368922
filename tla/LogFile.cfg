CONSTANTS
  MaxSignals <- MCMaxSignals
SPECIFICATION Spec
INVARIANTS
  TypeOK
  LogClosedAfterFlush
  TerminalRestoredAtExit
  ExitStatusPropagated
\* Hook ends: os.Exit, a returned error, or the process killed by a signal.
\* A real stuck state (the SIGWINCH send) is shown by LogFileStuckResize.cfg.
CHECK_DEADLOCK FALSE
