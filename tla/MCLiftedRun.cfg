SPECIFICATION RunSpec
CONSTANTS
  Space = 3
  Images <- RunImages
  Known = {2}
  Foreign = {3}
  Requests = {0, 1, 5}
  NoTrace = NoTrace
  MaxDepth = 3
  MaxWrites = 2
INVARIANTS
  TypeOK
  ChecksHold
  TracesComplete
  NoStrayBlocks
  CalledTracesDefined
  WriteOrderUntilReturn
PROPERTIES
  Terminates
  ImplementsMachine
CHECK_DEADLOCK FALSE
