CONSTANTS
  Frames = {f1, f2, f3, f4}
  NoPage = NoPage
  MaxSegment = 4
  USER_STACK_LOWER_BOUND = 8
  StackPages = 1
  LOW_HALF_END = 10
  LastPage = 12
  KernelPages = {2, 3}
  TablePages = 2
  Addrs = {1, 6}
  Lens = {1, 2, 4}
  MaxCalls = 3
SYMMETRY FrameSymmetry
SPECIFICATION Spec
INVARIANTS
  RebuildRollsBack
