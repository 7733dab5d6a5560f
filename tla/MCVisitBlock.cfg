SPECIFICATION Spec
CONSTANTS
  Blocks = {1, 2, 3, 4}
  Funcs = {"f", "g"}
  Slots = {1, 2}
  Bits = {1, 2}
  Programs <- BlockPrograms
INVARIANTS
  ScanFollowsPaths
  RemovesDeadStores
PROPERTIES
  ReturnsEntrySet
CHECK_DEADLOCK FALSE
