CONSTANTS
  t1 = t1
  t2 = t2
  t3 = t3
  w1 = w1
  w2 = w2
  Tasks <- MC_Tasks
  Waiters <- MC_Waiters
SPECIFICATION FairSpec
INVARIANTS
  TypeOK
  WaitSound
  LoopExitReason
PROPERTIES
  WaitReturnsAfterCancel
