\* One Run of the cron activity with Close and cancellation racing it.
CONSTANT MaxTicks <- MC_MaxTicks
SPECIFICATION FairSpec
INVARIANT TypeOK
INVARIANT DrainBeforeClose
PROPERTY JobErrorStopsScheduler
\* Run returns and the program may stop there.
CHECK_DEADLOCK FALSE
