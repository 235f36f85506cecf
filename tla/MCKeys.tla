------------------------------- MODULE MCKeys -------------------------------
(* Two keys, one of them nameless, two wrappers, one iteration at a time.   *)
EXTENDS Keys

CONSTANTS k1, k2, w1, w2, t1

MCKey      == {k1, k2}
MCNameless == {k2}
MCWrapper  == {w1, w2}
MCTask     == {t1}
=============================================================================
