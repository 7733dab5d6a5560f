SPECIFICATION Spec
CONSTANTS
  f1 = f1
  f2 = f2
  f3 = f3
  intrinsic = intrinsic
  inlined = inlined
  alias = alias
  table = table
  flag = flag
  blank = blank
  vtable = vtable
  Traces <- ThreeTraces
  Helpers <- TwoHelpers
  Variables <- FourVariables
  Others = {alias}
  Local <- Internal
  Uninitialized = {blank}
  Relocated = {vtable}
  Scenarios <- MCScenarios
INVARIANTS
  OneObjectPerName
  SelfContained
  LinksBack
PROPERTIES
  AllMoved
CHECK_DEADLOCK FALSE
