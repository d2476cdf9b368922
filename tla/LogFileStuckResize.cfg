CONSTANTS
  MaxSignals <- MCMaxSignals
SPECIFICATION Spec
INVARIANT
  InitialResizeDelivered
CHECK_DEADLOCK FALSE
