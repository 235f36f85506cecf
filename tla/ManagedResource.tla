-------------------------- MODULE ManagedResource --------------------------
(***************************************************************************)
(* What the bindings promise about one native rnp object, whatever layer   *)
(* holds it: it is acquired once, its uses nest and begin only between its *)
(* acquisition and its release, and it is released at most once.  That a   *)
(* release waits for the uses in progress is not promised.  The layers     *)
(* that keep the promise (the TypeScript wrapper, the C++ owner, the       *)
(* finalizers) do not appear here.                                         *)
(***************************************************************************)
EXTENDS Sequences, Naturals

CONSTANT Resource       \* the native objects the program may ever acquire

VARIABLES
  status,               \* status[r]: "unborn", then "open", then "released"
  running               \* the stack of uses in progress, by their objects

rvars == <<status, running>>

Init ==
  /\ status  = [r \in Resource |-> "unborn"]
  /\ running = <<>>

Acquire(r) ==
  /\ status[r] = "unborn"
  /\ status' = [status EXCEPT ![r] = "open"]
  /\ UNCHANGED running

BeginUse(r) ==
  /\ status[r] = "open"
  /\ running' = Append(running, r)
  /\ UNCHANGED status

EndUse ==
  /\ running # <<>>
  /\ running' = SubSeq(running, 1, Len(running) - 1)
  /\ UNCHANGED status

Release(r) ==
  /\ status[r] = "open"
  /\ status' = [status EXCEPT ![r] = "released"]
  /\ UNCHANGED running

Next ==
  \/ \E r \in Resource : Acquire(r) \/ BeginUse(r) \/ Release(r)
  \/ EndUse

Spec == Init /\ [][Next]_rvars
=============================================================================
