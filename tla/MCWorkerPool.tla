---------------------------- MODULE MCWorkerPool ----------------------------
(* Three sessions, which take their workers in one order: they are alike,   *)
(* and no property and no fairness names one.  Size and MaxCalls are given  *)
(* in the .cfg file.                                                        *)
EXTENDS WorkerPool

CONSTANTS s1, s2, s3

MCSession == {s1, s2, s3}
MCClient  == MCSession \cup {Owner}
MCHost    == 0..(Size - 1)

InTurn ==
  /\ host[s1] = None => host'[s2] = None
  /\ host[s2] = None => host'[s3] = None
=============================================================================
