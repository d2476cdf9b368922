\* RunGroup of three members under a cancelable parent context.
CONSTANT N <- MC_N
SPECIFICATION FairSpec
INVARIANT TypeOK
INVARIANT EveryMemberClosed
INVARIANT NoErrorLost
PROPERTY FailureStopsGroup
\* The group's Run returns and the program may stop there.
CHECK_DEADLOCK FALSE
