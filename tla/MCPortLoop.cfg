SPECIFICATION RunSpec
CONSTANTS
  Blocks = {1, 2, 3, 4}
  Funcs = {"f", "g"}
  Slots = {1}
  Bits = {0, 1}
  Programs <- PortLoops
  MaxDepth = 0
INVARIANTS
  EmptyLiveSetsAreFine
CHECK_DEADLOCK FALSE
