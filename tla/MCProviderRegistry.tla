------------------------- MODULE MCProviderRegistry -------------------------
(* Two Ffi objects over two addresses, so that addresses are used again by *)
(* the other object; three closures, so that one is replaced and one set   *)
(* anew; a stack of three frames, so that a callback starts an operation.  *)
EXTENDS ProviderRegistry, TLC

CONSTANTS f1, f2, a1, a2, c1, c2, c3

Ffi2      == {f1, f2}
Address2  == {a1, a2}
Closure3  == {c1, c2, c3}
Symmetry  == Permutations(Ffi2) \cup Permutations(Address2) \cup Permutations(Closure3)
=============================================================================
