---------------------------- MODULE MCBufferPool ----------------------------
(* Four pointers for a bucket cap of one: with two buffers of a bucket     *)
(* released the second is evicted, and there is room for two buckets.      *)
EXTENDS BufferPool, TLC

CONSTANTS p1, p2, p3, p4

Ptrs     == {p1, p2, p3, p4}
Buckets  == {1, 2, 4}
Requests == {0, 1, 2, 3}
Symmetry == Permutations(Ptrs)
=============================================================================
