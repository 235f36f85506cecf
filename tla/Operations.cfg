\* Four builders over memory and streams, three calls on each operation.
SPECIFICATION Spec
CONSTANTS
  MaxCalls = 3
  MaxSignatures = 2
  MaxKeys = 1
  MaxStreams = 2
INVARIANTS
  SignaturesAsAsked
  ProtectedAsAsked
  NameFailures
  ReturnsAreSound
  ContextsExact
\* A history ends when the bounds are used up.
CHECK_DEADLOCK FALSE
