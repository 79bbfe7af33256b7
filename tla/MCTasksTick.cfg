CONSTANTS
  TID_MAX = 4
  BootPrograms = 2
  Roots = {r1, r2, r3}
  KernelRoot = KernelRoot
  NoRoot = NoRoot
  ExitCodes = {7}
SPECIFICATION Spec
INVARIANTS
  UserContexts
