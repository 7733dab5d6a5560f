SPECIFICATION RunSpec
CONSTANTS
  Blocks = {1, 2, 3, 4}
  Funcs = {"f", "g"}
  Slots = {1}
  Bits = {0, 1}
  Programs <- MCRuns
  MaxDepth = 2
INVARIANTS
  NoDanglingUse
  StaleNeverRead
  LiveSetsSolved
  LeastLiveSets
PROPERTIES
  Terminates
CHECK_DEADLOCK FALSE
