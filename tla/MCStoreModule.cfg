SPECIFICATION Spec
CONSTANTS
  p1 = p1
  p2 = p2
  p3 = p3
  old = old
  none = none
  Procs <- ThreeRuns
  Old <- old
  None <- none
  Chunks = 3
  Systems <- MCSystems
INVARIANTS
  SuccessMeansStored
  NoTmpLeft
PROPERTIES
  ImplementsModuleFile
  AllEnd
CHECK_DEADLOCK FALSE
