\* The finalizer as a safety net: it never runs.
SPECIFICATION FairSpec
CONSTANTS
  h1 = h1
  h2 = h2
  h3 = h3
  Handle <- Handle2
  MaxDepth = 2
PROPERTY
  AbandonedIsReleased
CHECK_DEADLOCK FALSE
