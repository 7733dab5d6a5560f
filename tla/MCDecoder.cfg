SPECIFICATION Spec
CONSTANTS
  NoKind = NoKind
  Kinds <- AllKinds
  Arches <- AllArches
INVARIANTS
  ArgumentsMatch
  LazyIsEager
