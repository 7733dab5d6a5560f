SPECIFICATION AnalyzeSpec
CONSTANTS
  Functions <- AllFunctions
  Size = 3
  SlotOf <- TwoSlots
INVARIANTS
  OffsetsAreTrue
  AccessesAreFound
  ArgumentsAreLive
PROPERTIES
  Terminates
CHECK_DEADLOCK FALSE
