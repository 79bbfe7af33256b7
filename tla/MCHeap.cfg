SPECIFICATION FairHeapSpec
CONSTANTS
  BUDDY_MAX_ORDER = 3
  OrderSize <- MCOrderSize
  AvailStart = 5
  AvailEnd = 17
  Sizes = {1, 2, 7}
  PageUnits = 4
  HeaderUnits = 1
  SLUB_MIN_ORDER = 0
  SLUB_MAX_ORDER = 2
  SLUB_MIN_OBJECTS = 4
  SLUB_MAX_PAGE_SIZE = 16
  LayoutSizes = {1, 2, 5, 17}
  MaxPow = 5
  Pow2 <- MCPow2
  MaxObjects = 4
  MaxFrames = 0
INVARIANTS TypeOK NoOverlap Coalesced ObjectsApart PagesListed
PROPERTIES Conserved RoomIsFound SegmentsSuffice OperationEnds
