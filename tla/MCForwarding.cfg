SPECIFICATION ForwardSpec
CONSTANTS
  Blocks <- FourInstructions
  SlotOf <- TwoSlots
INVARIANTS
  SameMeaning
  RedundantLoadsGo
CHECK_DEADLOCK FALSE
