\* Texts of up to three characters: one that is foreign is dropped unnoticed.
SPECIFICATION Spec
CONSTANTS
  First <- AnyByte
  Other <- FewBytes
  MaxLength = 3
  WordBits = 8
  MinBits = 2
INVARIANT ForeignCharactersThrow
CHECK_DEADLOCK FALSE
