SPECIFICATION Spec
CONSTANTS
  Wide = 7
  WordSize <- WordSizes
  Disps <- NearDisps
  MaxCalls = 1
INVARIANTS
  PCIsBlock
  ReturnsContinue
PROPERTIES
  OnlyWrapsAreMissed
CHECK_DEADLOCK FALSE
