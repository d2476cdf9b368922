\* Run must return after Close or cancellation, also when several ticks fail.
CONSTANT MaxTicks <- MC_MaxTicks
SPECIFICATION FairSpec
PROPERTY RunReturnsAfterStop
CHECK_DEADLOCK FALSE
