\* Every first byte or character, then up to three of seven values; words
\* of eight bits.
SPECIFICATION Spec
CONSTANTS
  First <- AnyByte
  Other <- FewBytes
  MaxLength = 4
  WordBits = 8
  MinBits = 2
INVARIANTS
  EncodersRegroup
  RoundTrips
  DecodersSpell
  RoundsUpToLeast
\* The sequence does not grow beyond its bound.
CHECK_DEADLOCK FALSE
