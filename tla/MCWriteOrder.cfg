SPECIFICATION RunSpec
CONSTANTS
  Space = 3
  Images <- WritingImages
  Known = {}
  Foreign = {}
  Requests = {0}
  NoTrace = NoTrace
  MaxDepth = 3
  MaxWrites = 3
INVARIANTS
  TotalWriteOrder
CHECK_DEADLOCK FALSE
