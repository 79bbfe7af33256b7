CONSTANTS
  Harts = {0, 1}
  RwLocks = {1}
  SpinLocks = {2, 3}
  PerCpus = {0}
  MaxNest = 3
SPECIFICATION FairSpec
INVARIANTS
  MutualExclusion
  HandlerNeverWaitsForItsHart
  InterruptsRestored
PROPERTIES
  WriterEnters
