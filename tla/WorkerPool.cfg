\* Three sessions on two workers, so that two of them share one, under
\* fairness.  No symmetry: the run checks liveness.
SPECIFICATION FairSpec
CONSTANTS
  s1 = s1
  s2 = s2
  s3 = s3
  Owner = Owner
  None = None
  Session <- MCSession
  Client <- MCClient
  Host <- MCHost
  Size = 2
  MaxCalls = 3
ACTION_CONSTRAINT InTurn
INVARIANTS
  TypeOK
  OneFfiPerWorker
  AnsweredInitHolds
  CallsConserved
  Balanced
  AloneMeansPrivate
PROPERTIES
  EveryCallAnswered
  TerminateAllEnds
\* Sessions stop when they have made their calls.
CHECK_DEADLOCK FALSE
