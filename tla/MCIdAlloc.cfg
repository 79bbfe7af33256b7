CONSTANTS
  IdStart = 2
  IdEnd = 7
  Block = 2
  IdMax = 7
SPECIFICATION Spec
INVARIANTS
  RangesMaximal
  CountsAgree
PROPERTIES
  Refines
