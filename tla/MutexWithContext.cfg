CONSTANTS
  p1 = p1
  p2 = p2
  p3 = p3
  Procs <- MC_Procs
SPECIFICATION FairSpec
INVARIANTS
  TypeOK
  MutualExclusion
  PermitAccounting
  NoStrandedWaiter
PROPERTIES
  LockResolves
