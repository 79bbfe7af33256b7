CONSTANTS
  WORD_BITS = 2
  ImapWords = 3
  ZmapWords = 5
  NInodes = 3
  First = 3
  NZones = 11
  Slots = 3
  Per = 1
  Direct = 1
  LinkMax = 3
  MAX_SYMLINK_HOPS = 2
  Names = {"a", "b"}
  TargetOf <- MCTargets
  WriteLens = {4}
  MaxOffset = 9
  MaxErrors = 1
  MaxOps = 6
  ErrorCost = 2
  Bytes <- MCBytes
  Magics <- MCMagics
  Handlers = {"elf", "shebang"}
  Images <- MCImages
  Line <- MCLine
  Starts <- MCStarts
  OpenPaths <- MCPaths
  ReadLen = 4
  Seeks <- MCSeeks
SPECIFICATION Spec
INVARIANTS
  ZonesOwned
  
  TableIsMap
  ArgvKept
PROPERTIES
  FilesAsWritten
CHECK_DEADLOCK FALSE
