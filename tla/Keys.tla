-------------------------------- MODULE Keys --------------------------------
(***************************************************************************)
(* An Ffi, its keyring, the Key wrappers a program holds and the           *)
(* iterations over identifiers (ts/ffi.ts, ts/keyring.ts, ts/key.ts,       *)
(* ts/identifier-iterator.ts, ts/errors.ts, keyring.cpp, iterator.cpp).    *)
(* A call makes its native calls in a row.  For each it first reaches for  *)
(* the handles of the objects it hands over, which throws when one was     *)
(* destroyed; most methods make one native call, equals() and              *)
(* exportToBytes() several.  An iteration runs in pieces between which     *)
(* other code of the program runs.                                         *)
(*                                                                         *)
(* The wrappers keep no reference on each other: nothing in the code stops *)
(* a program from destroying the Ffi under its keys and iterations.        *)
(***************************************************************************)
EXTENDS Naturals, Sequences, FiniteSets, Functions

CONSTANTS
  Key,        \* the keys a program may load
  Nameless,   \* those whose user id is the empty string
  Wrapper,    \* the variables that hold a Key
  Task,       \* the variables that hold an iteration
  Gone        \* what a wrapper stands for after remove()

End  == "end"         \* the empty string: rnp has no more identifiers
Fail == "fail"        \* next() threw

ASSUME KeysAssumption ==
  /\ Key \cap {Gone, End, Fail} = {} /\ Nameless \subseteq Key
  /\ Wrapper \cap {"ffi", "io"} = {}

Object == {"ffi", "io"} \cup Wrapper    \* io: an Input or an Output

VARIABLES
  alive,      \* the objects that exist and are not destroyed
  held,       \* held[w]: the key wrapper w stands for
  ring,       \* the keys in the keyring, in the order of their loading
  task,       \* task[t]: the state of an iteration
  last,       \* the latest call: did it involve a destroyed object, was rnp
              \* given the handle of one, and how did it end
  orderly,    \* no key left the ring, and no Ffi its keys and iterations,
              \* while something was in use that depends on it
  stray       \* freed memory was used

vars == <<alive, held, ring, task, last, orderly, stray>>

-----------------------------------------------------------------------------
(* Iterations.                                                             *)

Phase   == {"idle", "await", "resolved", "rejected"}
NoTask  == [phase |-> "idle", iterating |-> FALSE,
            stale |-> FALSE, blank |-> {}, due |-> {}, got |-> <<>>, next |-> End]
Waiting == {t \in Task : task[t].phase = "await"}

\* What next() may give an iterator that has delivered n identifiers, when
\* those of the keys in blank are empty: an empty one is taken for the end.
Pull(n, blank) ==
  {IF n < Len(ring) /\ ring[n + 1] \notin blank THEN ring[n + 1] ELSE End, Fail}

\* The places in the ring before the first empty identifier.
Leading(blank) == {i \in DOMAIN ring : \A j \in 1..i : ring[j] \notin blank}

\* Iterations that have begun read from what is freed now.
Staled == [t \in Task |-> [task[t] EXCEPT !.stale = @ \/ t \in Waiting]]

-----------------------------------------------------------------------------
(* Outcomes.                                                               *)

Outcome == {"value", "null", "true", "false", "silence",
            "RnpError", "RnpKeyNotFoundError", "Error"}

\* Wrappers whose native handle points to what was freed.
Dangling == {w \in Wrapper : /\ w \in alive
                             /\ \/ "ffi" \notin alive
                                \/ held[w] \notin Range(ring) \cup {Gone}}

\* Mutant of Ended: the handle of a destroyed object is handed out.
EndedUnchecked(steps, n, out) ==
  LET used == UNION {steps[i] : i \in 1..n} IN
  /\ last' = [dead |-> ~ UNION {steps[i] : i \in DOMAIN steps} \subseteq alive,
              passed |-> ~ used \subseteq alive, out |-> out]
  /\ stray' = (stray \/ used \cap Dangling # {})

\* A call whose native calls take the objects steps[1], steps[2], ... ended
\* behind the nth of them.  raw and raw_ throw on a destroyed object.
Ended(steps, n, out) ==
  LET used == UNION {steps[i] : i \in 1..n} IN
  /\ \A i \in 1..n : steps[i] \subseteq alive
  /\ last' = [dead |-> ~ UNION {steps[i] : i \in DOMAIN steps} \subseteq alive,
              passed |-> ~ used \subseteq alive, out |-> out]
  /\ stray' = (stray \/ used \cap Dangling # {})

\* What happened was not a call.
NoCall == last' = [dead |-> FALSE, passed |-> FALSE, out |-> "silence"]

\* The next native call needs a destroyed object.
Refusal(steps, out) ==
  \E n \in 0..(Len(steps) - 1) :
    ~ steps[n + 1] \subseteq alive /\ Ended(steps, n, out)

\* rnp reports a failure.
Failure(steps, out) == \E n \in 1..Len(steps) : Ended(steps, n, out)

Reached(steps, out) == Ended(steps, Len(steps), out)

Refused(steps) == /\ Refusal(steps, "RnpError")
                  /\ UNCHANGED <<alive, held, ring, task, orderly>>

\* check() throws a plain Error.
Failed(steps) == /\ Failure(steps, "Error")
                 /\ UNCHANGED <<alive, held, ring, task, orderly>>

-----------------------------------------------------------------------------
Init ==
  /\ alive = {"ffi", "io"}
  /\ held = [w \in Wrapper |-> Gone]
  /\ ring = <<>>
  /\ task = [t \in Task |-> NoTask]
  /\ last = [dead |-> FALSE, passed |-> FALSE, out |-> "silence"]
  /\ orderly = TRUE
  /\ stray = FALSE

\* Counts, saves, imports of signatures: rnp is asked, nothing that is modelled
\* changes.
FacadeCall(steps) ==
  \/ Refused(steps)
  \/ Failed(steps)
  \/ /\ Reached(steps, "value")
     /\ UNCHANGED <<alive, held, ring, task, orderly>>

\* ffi.dump refuses like the calls, but a PacketDump at hand needs its input
\* and output only.
Dump == FacadeCall(<<{"ffi", "io"}>>) \/ FacadeCall(<<{"io"}>>)

\* keyring.load() and import_().
Load(k) ==
  \/ Refused(<<{"ffi", "io"}>>)
  \/ Failed(<<{"ffi", "io"}>>)
  \/ /\ Reached(<<{"ffi", "io"}>>, "value")
     /\ ring' = IF k \in Range(ring) THEN ring ELSE Append(ring, k)
     /\ UNCHANGED <<alive, held, task, orderly>>

Unload ==
  \/ Refused(<<{"ffi"}>>)
  \/ Failed(<<{"ffi"}>>)
  \/ /\ Reached(<<{"ffi"}>>, "value")
     /\ ring' = <<>>
     /\ orderly' = (orderly /\ Waiting = {} /\ alive \cap Wrapper = {})
     /\ task' = Staled
     /\ UNCHANGED <<alive, held>>

\* locate() and mustLocate(): a key that is not there is null for the one
\* and an RnpKeyNotFoundError for the other.
Locate(w, k, absent) ==
  /\ w \notin alive
  /\ \/ Refused(<<{"ffi"}>>)
     \/ Failed(<<{"ffi"}>>)
     \/ /\ k \notin Range(ring)
        /\ Reached(<<{"ffi"}>>, absent)
        /\ UNCHANGED <<alive, held, ring, task, orderly>>
     \/ /\ k \in Range(ring)
        /\ Reached(<<{"ffi"}>>, "value")
        /\ alive' = alive \cup {w}
        /\ held' = [held EXCEPT ![w] = k]
        /\ UNCHANGED <<ring, task, orderly>>

\* Getters, setters, lock, unlock, protect, export and the like.  For a key
\* that was removed rnp answers with an error.
KeyCall(steps) ==
  \/ Refused(steps)
  \/ Failed(steps)
  \/ /\ \A i \in DOMAIN steps : \A w \in steps[i] \cap Wrapper : held[w] # Gone
     /\ Reached(steps, "value")
     /\ UNCHANGED <<alive, held, ring, task, orderly>>

\* exportAutocrypt() of a key and its subkey into an output; export() and
\* exportRevocation() take no other key, which is v = w.
ExportAutocrypt(w, v) == KeyCall(<<{w, v, "io"}>>)

\* exportToBytes(): rnp makes an output, whatever the key and the Ffi are,
\* exports the key into it and copies its bytes.
ExportToBytes(w) == KeyCall(<<{}, {w}, {}>>)

\* revoke(), exportRevocation(), addUserId(): an unknown hash throws before
\* rnp is called, but after the handles were reached for.
UnknownHash(S) ==
  \/ Refused(<<S>>)
  \/ /\ S \subseteq alive
     /\ Ended(<<S>>, 0, "Error")
     /\ UNCHANGED <<alive, held, ring, task, orderly>>

\* subkeyAt(), one step of subkeys(): a wrapper of another key of the ring.
SubkeyAt(w, v, k) ==
  /\ v \notin alive
  /\ \/ Refused(<<{w}>>)
     \/ Failed(<<{w}>>)
     \/ /\ held[w] # Gone /\ k \in Range(ring)
        /\ Reached(<<{w}>>, "value")
        /\ alive' = alive \cup {v}
        /\ held' = [held EXCEPT ![v] = k]
        /\ UNCHANGED <<ring, task, orderly>>

\* equals() asks this key for its fingerprint, then the other one, and
\* catches everything: false, also when an object is destroyed, when rnp
\* fails and when a fingerprint is malformed.  So does hasFingerprint().
Equals(w, v) ==
  LET steps == <<{w}, {v}>> IN
  /\ \/ Refusal(steps, "false")
     \/ Failure(steps, "false")
     \/ held[w] = held[v] /\ held[w] # Gone /\ Reached(steps, "true")
  /\ UNCHANGED <<alive, held, ring, task, orderly>>

Without(k) ==
  IF k \in Range(ring)
  THEN LET i == CHOOSE i \in DOMAIN ring : ring[i] = k
       IN SubSeq(ring, 1, i - 1) \o SubSeq(ring, i + 1, Len(ring))
  ELSE ring

\* Mutant of RemoveKey: the handle still points to the key.
RemoveKeyKeepsHandle(w) ==
  \/ Refused(<<{w}>>)
  \/ Failed(<<{w}>>)
  \/ /\ held[w] # Gone
     /\ Reached(<<{w}>>, "value")
     /\ ring' = Without(held[w])
     /\ orderly' = (orderly /\ Waiting = {}
                    /\ \A v \in (alive \cap Wrapper) \ {w} : held[v] # held[w])
     /\ task' = Staled
     /\ UNCHANGED <<alive, held>>

\* remove(): rnp takes the key out and clears this one handle.
RemoveKey(w) ==
  \/ Refused(<<{w}>>)
  \/ Failed(<<{w}>>)
  \/ /\ held[w] # Gone
     /\ Reached(<<{w}>>, "value")
     /\ ring' = Without(held[w])
     /\ held' = [held EXCEPT ![w] = Gone]
     /\ orderly' = (orderly /\ Waiting = {}
                    /\ \A v \in (alive \cap Wrapper) \ {w} : held[v] # held[w])
     /\ task' = Staled
     /\ UNCHANGED alive

DestroyObject(o) ==
  /\ o \in alive
  /\ alive' = alive \ {o}
  /\ orderly' = (orderly /\ (o = "ffi" => Waiting = {} /\ alive \cap Wrapper = {}))
  /\ task' = IF o = "ffi" THEN Staled ELSE task
  /\ ring' = IF o = "ffi" THEN <<>> ELSE ring
  /\ held' = [w \in Wrapper |-> IF w = o THEN Gone ELSE held[w]]
  /\ NoCall
  /\ UNCHANGED stray

-----------------------------------------------------------------------------
\* The iterator is created and asked for the first identifier at once, by
\* allIdentifiers() or by a loop of the program over identifiers().  Only a
\* user id may be empty; keyids, fingerprints and grips never are.
Iterate(t, blank) ==
  /\ task[t].phase = "idle"
  /\ \/ Refused(<<{"ffi"}>>)
     \/ Failed(<<{"ffi"}>>)
     \/ /\ Reached(<<{"ffi"}>>, "value")
        /\ \E next \in Pull(0, blank) :
             task' = [task EXCEPT ![t] =
               [phase |-> "await", iterating |-> TRUE, stale |-> FALSE, blank |-> blank,
                due |-> Leading(blank), got |-> <<>>, next |-> next]]
        /\ UNCHANGED <<alive, held, ring, orderly>>

\* The program destroys the iterator it loops over; the loop is not told.
\* Nobody can do so to the iterator of allIdentifiers().
DestroyIterator(t) ==
  /\ task[t].phase = "await" /\ task[t].iterating
  /\ task' = [task EXCEPT ![t].iterating = FALSE]
  /\ NoCall
  /\ UNCHANGED <<alive, held, ring, orderly, stray>>

\* Mutant of Deliver: next() is called before the identifier is kept.
DeliverLate(t) ==
  /\ task[t].phase = "await" /\ task[t].next \in Key
  /\ task[t].iterating
  /\ \E next \in Pull(Len(task[t].got) + 1, task[t].blank) :
       task' = [task EXCEPT ![t].next = next,
                            ![t].got = IF next \in Key THEN Append(@, next) ELSE @]
  /\ stray' = (stray \/ task[t].stale)
  /\ NoCall
  /\ UNCHANGED <<alive, held, ring, orderly>>

\* The loop takes an identifier and asks for the next one.
Deliver(t) ==
  /\ task[t].phase = "await" /\ task[t].next \in Key
  /\ task[t].iterating
  /\ \E next \in Pull(Len(task[t].got) + 1, task[t].blank) :
       task' = [task EXCEPT ![t].got = Append(@, task[t].next), ![t].next = next]
  /\ stray' = (stray \/ task[t].stale)
  /\ NoCall
  /\ UNCHANGED <<alive, held, ring, orderly>>

\* isAlive is false: the loop ends as if nothing was left.
DeliverLast(t) ==
  /\ task[t].phase = "await" /\ task[t].next \in Key
  /\ ~task[t].iterating
  /\ task' = [task EXCEPT ![t].got = Append(@, task[t].next), ![t].phase = "resolved",
                       ![t].next = End]
  /\ NoCall
  /\ UNCHANGED <<alive, held, ring, orderly, stray>>

\* Mutant of Settle: an exception of next() is not passed on.
SettleAtEnd(t) ==
  /\ task[t].phase = "await" /\ task[t].next = End
  /\ task' = [task EXCEPT ![t].next = End, ![t].phase = "resolved"]
  /\ NoCall
  /\ UNCHANGED <<alive, held, ring, orderly, stray>>

Settle(t) ==
  /\ task[t].phase = "await" /\ task[t].next \in {End, Fail}
  /\ task' = [task EXCEPT ![t].next = End, ![t].phase =
                IF task[t].next = End THEN "resolved" ELSE "rejected"]
  /\ NoCall
  /\ UNCHANGED <<alive, held, ring, orderly, stray>>

Resume(t) == Deliver(t) \/ DeliverLast(t) \/ Settle(t)

Forget(t) ==
  /\ task[t].phase \in {"resolved", "rejected"}
  /\ task' = [task EXCEPT ![t] = NoTask]
  /\ NoCall
  /\ UNCHANGED <<alive, held, ring, orderly, stray>>

-----------------------------------------------------------------------------
\* What the program does.  After a use of freed memory nothing is known.
Program ==
  /\ ~stray
  /\ \/ \E S \in {{"ffi"}, {"ffi", "io"}} : FacadeCall(<<S>>)
     \/ Dump
     \/ \E k \in Key : Load(k)
     \/ Unload
     \/ \E w \in Wrapper, k \in Key, absent \in {"null", "RnpKeyNotFoundError"} :
          Locate(w, k, absent)
     \/ \E w, v \in Wrapper :
          \/ ExportAutocrypt(w, v) \/ Equals(w, v)
          \/ (\E k \in Key : SubkeyAt(w, v, k))
     \/ \E w \in Wrapper :
          \/ KeyCall(<<{w}>>) \/ ExportToBytes(w) \/ RemoveKey(w)
          \/ UnknownHash({w}) \/ UnknownHash({w, "io"})
     \/ \E o \in Object : DestroyObject(o)
     \/ \E t \in Task :
          \/ Iterate(t, {}) \/ Iterate(t, Nameless)
          \/ DestroyIterator(t) \/ Forget(t)

Next == Program \/ \E t \in Task : Resume(t)

\* Suspended loops are resumed: the microtask queue is first in, first out.
Spec == Init /\ [][Next]_vars /\ \A t \in Task : WF_vars(Resume(t))

-----------------------------------------------------------------------------
TaskState == [phase: Phase, iterating: BOOLEAN, stale: BOOLEAN,
              blank: SUBSET Key, due: SUBSET Nat, got: Seq(Key), next: Key \cup {End, Fail}]

LastType == [dead: BOOLEAN, passed: BOOLEAN, out: Outcome]

TypeOK ==
  /\ alive \in SUBSET Object
  /\ held \in [Wrapper -> Key \cup {Gone}]
  /\ ring \in Seq(Key)
  /\ task \in [Task -> TaskState]
  /\ last \in LastType
  /\ orderly \in BOOLEAN
  /\ stray \in BOOLEAN

(***************************************************************************)
(* rnp is never given the handle of a destroyed object, also not by the    *)
(* calls that make several native calls and may be refused halfway, and    *)
(* such a call returns nothing but the false of equals() and               *)
(* hasFingerprint() (key.ts:227, 236).  An RnpError tells the program that *)
(* it used a destroyed object: what rnp and the registries report are      *)
(* plain Errors (error.h, check).                                          *)
(***************************************************************************)
FailsClosed ==
  /\ ~last.passed
  /\ last.dead => last.out \in {"RnpError", "Error", "false"}
  /\ last.out = "RnpError" => last.dead

(***************************************************************************)
(* A program that lets no key and no Ffi go while wrappers and loops       *)
(* depend on them never touches freed memory: no wrapper is left with a    *)
(* handle rnp has freed, and no loop with an iterator over another ring    *)
(* (key.cpp remove, ffi.hpp reset).                                        *)
(***************************************************************************)
NothingStray == orderly => ~stray

IsStart(p, q) == Len(p) <= Len(q) /\ \A i \in 1..Len(p) : p[i] = q[i]

(***************************************************************************)
(* allIdentifiers() that resolves has every key that was in the ring when  *)
(* it was called, up to the first whose identifier is empty, once and in   *)
(* order, and on its way is never ahead of the ring, whatever was loaded   *)
(* meanwhile (keyring.ts:73).  Only a loop of the program that destroyed   *)
(* its iterator may see less.                                              *)
(***************************************************************************)
IterationExact ==
  orderly =>
    \A t \in Task : LET i == task[t] IN
      /\ i.phase = "await" =>
           /\ i.due \subseteq DOMAIN ring
           /\ IsStart(i.got \o (IF i.next \in Key THEN <<i.next>> ELSE <<>>), ring)
      /\ (i.phase = "resolved" /\ i.iterating) => i.due \subseteq DOMAIN i.got
      /\ \A m, n \in 1..Len(i.got) : i.got[m] = i.got[n] => m = n

(***************************************************************************)
(* Every promise of an iteration settles, also when the Ffi, the keys or   *)
(* the iterator go away meanwhile.                                         *)
(***************************************************************************)
IterationSettles ==
  \A t \in Task : task[t].phase = "await" ~> task[t].phase # "await"
=============================================================================
