----------------------------- MODULE RoundRobin -----------------------------
(***************************************************************************)
(* The scheduling of WorkerPool (ts/pool.ts): session() hands out the      *)
(* workers in turn, `rr` being the index of the next one.  `handed` counts *)
(* what the code does not: how many sessions each worker was given.        *)
(***************************************************************************)
EXTENDS Integers

CONSTANT Size     \* the number of workers; the constructor refuses size < 1

ASSUME SizeAssumption == Size \in Nat \ {0}

Worker == 0..(Size - 1)

VARIABLES rr, handed

rrvars == <<rr, handed>>

RRInit ==
  /\ rr = 0
  /\ handed = [w \in Worker |-> 0]

\* Mutants of Take: rr never moves; rr does not wrap.
TakeSame ==
  /\ handed' = [handed EXCEPT ![rr] = @ + 1]
  /\ UNCHANGED rr

TakeWithoutWrap ==
  /\ rr' = rr + 1
  /\ handed' = [handed EXCEPT ![rr] = @ + 1]

\* session(): take the next worker, advance round-robin.
Take ==
  /\ rr' = (rr + 1) % Size
  /\ handed' = [handed EXCEPT ![rr] = @ + 1]

RRSpec == RRInit /\ [][Take]_rrvars

RRTypeOK ==
  /\ rr \in Worker
  /\ handed \in [Worker -> Nat]

(***************************************************************************)
(* No worker is ever given more than one session more than another.        *)
(***************************************************************************)
Balanced == \A v, w \in Worker : handed[v] <= handed[w] + 1
=============================================================================
