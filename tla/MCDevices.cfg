CONSTANTS
  Flows = {f1, f2}
  NoFlow = NoFlow
  NoCall = NoCall
  Blk = Blk
  Rng = Rng
  Uart = Uart
  Late = Late
  BootFlow = f1
  SECTOR_SIZE = 2
  Sectors = 2
  RING_SIZE = 2
  IDX = 4
  DidEnd = 12
  MinorSize = 2
  PresetMajors = {1, 4}
  FsCalls <- MCFsCalls
  VdaReads <- MCVdaReads
  Removals <- MCRemovals
SPECIFICATION FairSpec
INVARIANTS
  DmaOwned
  HandleStable
PROPERTIES
  StoreRefined
  RequestAnswered
