\* The package's tables, an application's additions, registerPqcAlgorithms().
SPECIFICATION PackageSpec
CONSTANTS
  Name <- Names
  Value <- Values
  AliasList <- Lists
  OwnName <- OwnNames
  OwnLists <- AppLists
  OwnValue <- AppValue
  Unknown = Unknown
INVARIANTS
  AliasesResolve
  RegistrationsWhole
PROPERTY
  LookupStable
\* The tables end, and every own name is taken.
CHECK_DEADLOCK FALSE
