\* Every worker method and every example, an exception at any step; loops
\* over keys, subkeys and signatures make two turns.
SPECIFICATION ScopeSpec
CONSTANTS
  Found = 2
  Script <- Blocks
  Method <- WorkerMethods
  Plan <- BlockPlans
INVARIANTS
  NothingDangles
  CallsReclaim
