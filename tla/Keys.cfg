\* Every program over one Ffi, two keys, two wrappers and an iteration, orderly
\* or not.  No symmetry: the run checks liveness.
SPECIFICATION Spec
CONSTANTS
  k1 = k1
  k2 = k2
  w1 = w1
  w2 = w2
  t1 = t1
  Key <- MCKey
  Nameless <- MCNameless
  Wrapper <- MCWrapper
  Task <- MCTask
  Gone = Gone
INVARIANTS
  
  NothingStray
  IterationExact
PROPERTY IterationSettles
\* Nothing is specified after a use of freed memory.
CHECK_DEADLOCK FALSE
