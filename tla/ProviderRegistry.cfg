\* Providers under re-entrancy and address reuse.
SPECIFICATION Spec
CONSTANTS
  f1 = f1
  f2 = f2
  a1 = a1
  a2 = a2
  c1 = c1
  c2 = c2
  c3 = c3
  Ffi <- Ffi2
  Address <- Address2
  Closure <- Closure3
  MaxDepth = 4
  Null = Null
SYMMETRY Symmetry
INVARIANTS
  TypeOK
  RegistryInStep
  RefsExact
  ScriptsRunUnlocked
PROPERTY AnsweredByOwnProvider
