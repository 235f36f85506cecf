--------------------------- MODULE MCConversions ---------------------------
(* First values: all; then NUL, space, '/', '=', 'A', 'f' and 255. *)
EXTENDS Conversions

AnyByte  == 0..255
FewBytes == {0, 32, 47, 61, 65, 102, 255}
=============================================================================
