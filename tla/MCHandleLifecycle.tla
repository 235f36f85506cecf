------------------------- MODULE MCHandleLifecycle -------------------------
(* Two or three wrappers, calls nested two deep: the smallest instance in  *)
(* which a callback works on another handle than the call it runs in.      *)
EXTENDS HandleLifecycle

CONSTANTS h1, h2, h3

Handle3  == {h1, h2, h3}
Handle2  == {h1, h2}
=============================================================================
