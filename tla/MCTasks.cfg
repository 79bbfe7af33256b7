CONSTANTS
  TID_MAX = 5
  BootPrograms = 2
  Roots = {r1, r2, r3}
  KernelRoot = KernelRoot
  NoRoot = NoRoot
  ExitCodes = {7}
SPECIFICATION FairSpec
INVARIANTS
  TypeOK
  FamilyTree
  SatpLive
  ContextOwnsSpace
  ResumesWhereItLeft
PROPERTIES
  TidsAccounted
  WaitReportsChild
  RunnableRuns
