SPECIFICATION ThreadsSpec
CONSTANTS
  None = None
  Locations <- Words
  Systems <- X86AndAArch64
INVARIANTS
  NoLostUpdate
  OneWinner
  FencesOrder
PROPERTIES
  Finishes
CHECK_DEADLOCK FALSE
