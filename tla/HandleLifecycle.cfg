\* Safety, refinement and reclamation; no symmetry, for the liveness property.
SPECIFICATION FairSpec
CONSTANTS
  h1 = h1
  h2 = h2
  h3 = h3
  Handle <- Handle3
  MaxDepth = 2
INVARIANTS
  TypeOK
  LayersAgree
PROPERTIES
  OnlyDestroyUndercuts
  ImplementsManagedResource
  DestroyedIsCollected
\* The program may stop when every wrapper is collected.
CHECK_DEADLOCK FALSE
