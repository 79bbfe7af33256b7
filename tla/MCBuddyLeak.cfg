SPECIFICATION Spec
CONSTANTS
  BUDDY_MAX_ORDER = 3
  OrderSize <- MCOrderSize
  AvailStart = 5
  AvailEnd = 17
  Sizes = {1, 4}
INVARIANTS NoLeak
