\* A name that is an alias already.
SPECIFICATION PackageSpec
CONSTANTS
  Name <- Names
  Value <- Values
  AliasList <- Lists
  OwnName <- OwnNames
  OwnLists <- AppLists
  OwnValue <- AppValue
  Unknown = Unknown
INVARIANT
  CanonicalNamesWin
\* The tables end, and every own name is taken.
CHECK_DEADLOCK FALSE
