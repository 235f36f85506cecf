---------------------------- MODULE Keys_proofs ----------------------------
(***************************************************************************)
(* Theorems about keys and iterations, for any keys, wrappers and          *)
(* iterations.  The inductive invariant says of a program that has been    *)
(* orderly so far that no handle it holds dangles, and of an iteration on  *)
(* its way that what it has read, with what it was given last, begins the  *)
(* ring: only loading changes the ring under it, and loading appends.      *)
(***************************************************************************)
EXTENDS Keys, TLAPS

NoRepeats(s) == \A m, n \in 1..Len(s) : s[m] = s[n] => m = n

\* An iteration of an orderly program.
Sound(i) ==
  /\ i.phase = "await" =>
       /\ ~i.stale
       /\ i.due \subseteq 1..Len(ring)
       /\ \A n \in i.due : \A j \in 1..n : ring[j] \notin i.blank
       /\ IsStart(i.got, ring)
       /\ i.next \in Key => Len(i.got) < Len(ring) /\ i.next = ring[Len(i.got) + 1]
       /\ i.next = End => i.due \subseteq 1..Len(i.got)
  /\ (i.phase = "resolved" /\ i.iterating) => i.due \subseteq 1..Len(i.got)
  /\ NoRepeats(i.got)

Kept == orderly => /\ ~stray
                   /\ Dangling = {}
                   /\ \A t \in Task : Sound(task[t])

IInv == TypeOK /\ NoRepeats(ring) /\ Kept

-----------------------------------------------------------------------------
(* Parts of a step.                                                        *)

\* A call strays only through a dangling handle, and what it handed over
\* was alive.
LEMMA EndedTypes ==
  ASSUME TypeOK, NEW steps, NEW n, NEW out \in Outcome, Ended(steps, n, out)
  PROVE  /\ last' \in LastType
         /\ stray' \in BOOLEAN
         /\ stray' => stray \/ Dangling # {}
BY DEF Ended, LastType, TypeOK

LEMMA ReachedTypes ==
  ASSUME TypeOK, NEW S, NEW out \in Outcome, Reached(<<S>>, out)
  PROVE  /\ last' \in LastType
         /\ stray' \in BOOLEAN
         /\ stray' => stray \/ Dangling # {}
         /\ S \subseteq alive
<1>1. Ended(<<S>>, 1, out)
  BY DEF Reached
<1>2. S \subseteq alive
  BY <1>1 DEF Ended
<1> QED BY <1>1, <1>2, EndedTypes

\* A step that changes nothing but the outcome of the latest call.
LEMMA Quiet ==
  ASSUME IInv, UNCHANGED <<alive, held, ring, task, orderly>>,
         last' \in LastType,
         stray' \in BOOLEAN, stray' => stray \/ Dangling # {}
  PROVE  IInv'
<1>1. TypeOK'
  BY DEF IInv, TypeOK
<1>2. NoRepeats(ring)'
  BY DEF IInv, NoRepeats
<1>3. Dangling' = Dangling
  BY DEF Dangling
<1>4. Kept'
  BY <1>3 DEF IInv, Kept, Sound, IsStart, NoRepeats
<1> QED BY <1>1, <1>2, <1>4 DEF IInv

LEMMA EndedQuiet ==
  ASSUME IInv, NEW steps, NEW n, NEW out \in Outcome, Ended(steps, n, out),
         UNCHANGED <<alive, held, ring, task, orderly>>
  PROVE  IInv'
<1>1. TypeOK
  BY DEF IInv
<1> QED BY <1>1, EndedTypes, Quiet

LEMMA RefusedQuiet == ASSUME IInv, NEW steps, Refused(steps) PROVE IInv'
<1>1. "RnpError" \in Outcome
  BY DEF Outcome
<1> QED BY <1>1, EndedQuiet DEF Refused, Refusal

LEMMA FailedQuiet == ASSUME IInv, NEW steps, Failed(steps) PROVE IInv'
<1>1. "Error" \in Outcome
  BY DEF Outcome
<1> QED BY <1>1, EndedQuiet DEF Failed, Failure

LEMMA ReachedQuiet ==
  ASSUME IInv, NEW steps, NEW out \in Outcome, Reached(steps, out),
         UNCHANGED <<alive, held, ring, task, orderly>>
  PROVE  IInv'
BY EndedQuiet DEF Reached

-----------------------------------------------------------------------------
(* The calls.                                                              *)

LEMMA StepFacadeCall == ASSUME IInv, NEW steps, FacadeCall(steps) PROVE IInv'
<1>1. "value" \in Outcome
  BY DEF Outcome
<1> QED BY <1>1, RefusedQuiet, FailedQuiet, ReachedQuiet DEF FacadeCall

LEMMA StepKeyCall == ASSUME IInv, NEW steps, KeyCall(steps) PROVE IInv'
<1>1. "value" \in Outcome
  BY DEF Outcome
<1> QED BY <1>1, RefusedQuiet, FailedQuiet, ReachedQuiet DEF KeyCall

LEMMA StepUnknownHash == ASSUME IInv, NEW S, UnknownHash(S) PROVE IInv'
<1>1. "Error" \in Outcome
  BY DEF Outcome
<1> QED BY <1>1, RefusedQuiet, EndedQuiet DEF UnknownHash

LEMMA StepEquals ==
  ASSUME IInv, NEW w \in Wrapper, NEW v \in Wrapper, Equals(w, v)
  PROVE  IInv'
<1> DEFINE steps == <<{w}, {v}>>
<1>1. UNCHANGED <<alive, held, ring, task, orderly>>
  BY DEF Equals
<1>2. \E n : Ended(steps, n, "true") \/ Ended(steps, n, "false")
  BY DEF Equals, Refusal, Failure, Reached
<1>3. "true" \in Outcome /\ "false" \in Outcome
  BY DEF Outcome
<1> HIDE DEF steps
<1> QED BY <1>1, <1>2, <1>3, EndedQuiet

\* A new wrapper for a key of the ring.
LEMMA Wrapped ==
  ASSUME IInv, NEW S, S # {}, S \subseteq {"ffi"} \cup Wrapper, Reached(<<S>>, "value"),
         NEW v \in Wrapper, NEW k \in Key, k \in Range(ring),
         alive' = alive \cup {v}, held' = [held EXCEPT ![v] = k],
         UNCHANGED <<ring, task, orderly>>
  PROVE  IInv'
<1>1. /\ TypeOK /\ "value" \in Outcome
      /\ S \subseteq alive
      /\ last' \in LastType /\ stray' \in BOOLEAN
      /\ stray' => stray \/ Dangling # {}
  BY ReachedTypes DEF IInv, Outcome
<1>2. TypeOK'
  BY <1>1 DEF TypeOK, Object
<1>3. NoRepeats(ring)'
  BY DEF IInv, NoRepeats
<1>4. ASSUME orderly' PROVE Dangling' = {}
  <2>1. orderly /\ Dangling = {} /\ ~stray
    BY <1>4 DEF IInv, Kept
  <2>2. "ffi" \in alive
    <3>1. PICK x \in S : x = "ffi" \/ (x \in Wrapper /\ x \in alive)
      BY <1>1
    <3>2. x \in alive
      BY <1>1
    <3> QED BY <2>1, <3>1, <3>2 DEF Dangling
  <2> QED BY <1>1, <2>1, <2>2 DEF Dangling, TypeOK
<1>5. ASSUME orderly' PROVE \A t \in Task : Sound(task[t])'
  BY <1>5 DEF IInv, Kept, Sound, IsStart, NoRepeats
<1>6. Kept'
  BY <1>1, <1>4, <1>5 DEF IInv, Kept
<1> QED BY <1>2, <1>3, <1>6 DEF IInv

LEMMA StepLocate ==
  ASSUME IInv, NEW w \in Wrapper, NEW k \in Key,
         NEW absent \in {"null", "RnpKeyNotFoundError"}, Locate(w, k, absent)
  PROVE  IInv'
<1>1. absent \in Outcome
  BY DEF Outcome
<1>2. CASE Refused(<<{"ffi"}>>) \/ Failed(<<{"ffi"}>>)
  BY <1>2, RefusedQuiet, FailedQuiet
<1>3. CASE Reached(<<{"ffi"}>>, absent) /\ UNCHANGED <<alive, held, ring, task, orderly>>
  BY <1>1, <1>3, ReachedQuiet
<1>4. CASE /\ k \in Range(ring)
           /\ Reached(<<{"ffi"}>>, "value")
           /\ alive' = alive \cup {w}
           /\ held' = [held EXCEPT ![w] = k]
           /\ UNCHANGED <<ring, task, orderly>>
  BY <1>4, Wrapped
<1> QED BY <1>2, <1>3, <1>4 DEF Locate

LEMMA StepSubkeyAt ==
  ASSUME IInv, NEW w \in Wrapper, NEW v \in Wrapper, NEW k \in Key, SubkeyAt(w, v, k)
  PROVE  IInv'
<1>1. CASE Refused(<<{w}>>) \/ Failed(<<{w}>>)
  BY <1>1, RefusedQuiet, FailedQuiet
<1>2. CASE /\ k \in Range(ring)
           /\ Reached(<<{w}>>, "value")
           /\ alive' = alive \cup {v}
           /\ held' = [held EXCEPT ![v] = k]
           /\ UNCHANGED <<ring, task, orderly>>
  BY <1>2, Wrapped
<1> QED BY <1>1, <1>2 DEF SubkeyAt

\* Loading appends, and only a key that is not there.
LEMMA StepLoad == ASSUME IInv, NEW k \in Key, Load(k) PROVE IInv'
<1>1. CASE Refused(<<{"ffi", "io"}>>) \/ Failed(<<{"ffi", "io"}>>)
  BY <1>1, RefusedQuiet, FailedQuiet
<1>2. CASE /\ Reached(<<{"ffi", "io"}>>, "value")
           /\ ring' = IF k \in Range(ring) THEN ring ELSE Append(ring, k)
           /\ UNCHANGED <<alive, held, task, orderly>>
  <2>1. /\ TypeOK /\ "value" \in Outcome
        /\ last' \in LastType /\ stray' \in BOOLEAN
        /\ stray' => stray \/ Dangling # {}
    BY <1>2, ReachedTypes DEF IInv, Outcome
  <2>2. CASE k \in Range(ring)
    BY <1>2, <2>1, <2>2, Quiet
  <2>3. CASE k \notin Range(ring)
    <3>1. ring' = Append(ring, k) /\ ring \in Seq(Key) /\ NoRepeats(ring)
      BY <1>2, <2>3 DEF IInv, TypeOK
    <3>2. /\ ring' \in Seq(Key) /\ Len(ring') = Len(ring) + 1
          /\ ring'[Len(ring) + 1] = k
          /\ \A i \in 1..Len(ring) : ring'[i] = ring[i]
      BY <3>1
    <3>3. \A i \in 1..Len(ring) : ring[i] # k
      BY <2>3, <3>1 DEF Range
    <3>4. NoRepeats(ring)'
      BY <3>1, <3>2, <3>3 DEF NoRepeats
    <3>5. Range(ring) \subseteq Range(ring')
      BY <3>1, <3>2 DEF Range
    <3>6. Dangling' \subseteq Dangling
      BY <1>2, <3>5 DEF Dangling
    <3>7. ASSUME orderly', NEW t \in Task PROVE Sound(task[t])'
      <4>1. Sound(task[t]) /\ task'[t] = task[t] /\ task[t] \in TaskState
        BY <1>2, <3>7 DEF IInv, Kept, TypeOK
      <4>2. /\ Len(ring) \in Nat /\ Len(task[t].got) \in Nat
        BY <3>1, <4>1 DEF TaskState
      <4>3. IsStart(task[t].got, ring) => IsStart(task[t].got, ring)'
        BY <1>2, <3>2, <4>2 DEF IsStart
      <4>4. task[t].due \subseteq 1..Len(ring) => task[t].due \subseteq 1..Len(ring')
        BY <3>2, <4>2
      <4>5. ASSUME task[t].due \subseteq 1..Len(ring),
                   NEW n \in task[t].due, NEW j \in 1..n,
                   ring[j] \notin task[t].blank
            PROVE  ring'[j] \notin task[t].blank
        <5>1. n \in 1..Len(ring)
          BY <4>5
        <5>2. j \in 1..Len(ring)
          BY <4>2, <5>1
        <5> QED BY <3>2, <4>5, <5>2
      <4> QED BY <1>2, <3>2, <4>1, <4>2, <4>3, <4>4, <4>5 DEF Sound
    <3>8. Kept'
      BY <1>2, <2>1, <3>6, <3>7 DEF IInv, Kept
    <3>9. TypeOK'
      BY <1>2, <2>1, <3>2 DEF TypeOK
    <3> QED BY <3>4, <3>8, <3>9 DEF IInv
  <2> QED BY <2>2, <2>3
<1> QED BY <1>1, <1>2 DEF Load
\* Nothing waits: marking iterations as stale changes none of them.
LEMMA NothingStaled ==
  ASSUME TypeOK
  PROVE  /\ Staled \in [Task -> TaskState]
         /\ Waiting = {} => \A t \in Task : Staled[t] = task[t]
<1>1. \A t \in Task : task[t] \in TaskState
  BY DEF TypeOK
<1>2. ASSUME NEW t \in Task PROVE Staled[t] \in TaskState
  BY <1>1 DEF Staled, TaskState, Waiting
<1>3. ASSUME Waiting = {}, NEW t \in Task PROVE Staled[t] = task[t]
  <2>1. Staled[t] = [task[t] EXCEPT !.stale = @ \/ FALSE] /\ task[t].stale \in BOOLEAN
    BY <1>1, <1>3 DEF Staled, TaskState
  <2> QED BY <1>1, <2>1 DEF TaskState
<1> QED BY <1>2, <1>3 DEF Staled

\* The ring shrinks, and an orderly program has nothing that depends on it.
LEMMA Shrunk ==
  ASSUME IInv, task' = Staled \/ task' = task,
         alive' \in SUBSET Object, held' \in [Wrapper -> Key \cup {Gone}],
         ring' \in Seq(Key), NoRepeats(ring)',
         last' \in LastType,
         stray' \in BOOLEAN, stray' => stray \/ Dangling # {},
         orderly' \in BOOLEAN,
         orderly' => orderly /\ Waiting = {} /\ Dangling' = {}
  PROVE  IInv'
<1>1. TypeOK /\ NoRepeats(ring) /\ Kept
  BY DEF IInv
<1>2. task' \in [Task -> TaskState]
  BY <1>1, NothingStaled DEF TypeOK
<1>3. TypeOK'
  BY <1>2 DEF TypeOK
<1>4. ASSUME orderly', NEW t \in Task PROVE Sound(task[t])'
  <2>1. task'[t] = task[t] /\ Sound(task[t]) /\ task[t].phase # "await"
    BY <1>1, <1>4, NothingStaled DEF Kept, Waiting
  <2> QED BY <2>1 DEF Sound, NoRepeats
<1>5. Kept'
  BY <1>1, <1>4 DEF Kept
<1> QED BY <1>3, <1>5 DEF IInv

LEMMA StepUnload == ASSUME IInv, Unload PROVE IInv'
<1>1. CASE Refused(<<{"ffi"}>>) \/ Failed(<<{"ffi"}>>)
  BY <1>1, RefusedQuiet, FailedQuiet
<1>2. CASE /\ Reached(<<{"ffi"}>>, "value")
           /\ ring' = <<>>
           /\ orderly' = (orderly /\ Waiting = {} /\ alive \cap Wrapper = {})
           /\ task' = Staled
           /\ UNCHANGED <<alive, held>>
  <2>1. /\ TypeOK /\ "value" \in Outcome
        /\ last' \in LastType /\ stray' \in BOOLEAN
        /\ stray' => stray \/ Dangling # {}
    BY <1>2, ReachedTypes DEF IInv, Outcome
  <2>2. ring' \in Seq(Key) /\ NoRepeats(ring)' /\ orderly' \in BOOLEAN
    BY <1>2, <2>1 DEF NoRepeats, TypeOK
  <2>3. orderly' => orderly /\ Waiting = {} /\ Dangling' = {}
    BY <1>2 DEF Dangling
  <2> QED BY <1>2, <2>1, <2>2, <2>3, Shrunk DEF TypeOK
<1> QED BY <1>1, <1>2 DEF Unload

\* A ring without one of its keys has the others, none of them twice.
LEMMA WithoutRing ==
  ASSUME ring \in Seq(Key), NoRepeats(ring), NEW k \in Key
  PROVE  /\ Without(k) \in Seq(Key)
         /\ NoRepeats(Without(k))
         /\ \A x \in Range(ring) : x # k => x \in Range(Without(k))
<1>1. CASE k \notin Range(ring)
  BY <1>1 DEF Without
<1>2. CASE k \in Range(ring)
  <2> DEFINE n == CHOOSE i \in DOMAIN ring : ring[i] = k
             a == SubSeq(ring, 1, n - 1)
             b == SubSeq(ring, n + 1, Len(ring))
             s == a \o b
  <2>1. Without(k) = s
    BY <1>2 DEF Without
  <2>2. n \in 1..Len(ring) /\ ring[n] = k /\ Len(ring) \in Nat
    BY <1>2 DEF Range
  <2> HIDE DEF n
  <2>3. /\ a \in Seq(Key) /\ Len(a) = n - 1
        /\ \A i \in 1..(n - 1) : a[i] = ring[i]
    BY <2>2
  <2>4. /\ b \in Seq(Key) /\ Len(b) = Len(ring) - n
        /\ \A i \in 1..(Len(ring) - n) : b[i] = ring[n + i]
    BY <2>2
  <2> HIDE DEF a, b
  <2>5. /\ s \in Seq(Key) /\ Len(s) = Len(ring) - 1
        /\ \A i \in 1..(n - 1) : s[i] = ring[i]
        /\ \A i \in n..(Len(ring) - 1) : s[i] = ring[i + 1]
    <3>1. s \in Seq(Key) /\ Len(s) = Len(ring) - 1
      <4>1. s \in Seq(Key) /\ Len(s) = Len(a) + Len(b)
        BY <2>3, <2>4
      <4>2. (n - 1) + (Len(ring) - n) = Len(ring) - 1
        BY <2>2
      <4> QED BY <2>3, <2>4, <4>1, <4>2
    <3>2. ASSUME NEW i \in 1..(n - 1) PROVE s[i] = ring[i]
      BY <2>2, <2>3, <2>4
    <3>3. ASSUME NEW i \in n..(Len(ring) - 1) PROVE s[i] = ring[i + 1]
      <4>1. s[i] = b[i - (n - 1)]
        BY <2>2, <2>3, <2>4
      <4>2. i - (n - 1) \in 1..(Len(ring) - n) /\ n + (i - (n - 1)) = i + 1
        BY <2>2
      <4> QED BY <2>4, <4>1, <4>2
    <3> QED BY <3>1, <3>2, <3>3
  <2> HIDE DEF s
  <2>6. \A i \in 1..Len(s) : \E j \in 1..Len(ring) :
          s[i] = ring[j] /\ j = IF i < n THEN i ELSE i + 1
    BY <2>2, <2>5
  <2>7. NoRepeats(s)
    BY <2>2, <2>5, <2>6 DEF NoRepeats
  <2>8. ASSUME NEW x \in Range(ring), x # k PROVE x \in Range(s)
    <3>1. PICK j \in 1..Len(ring) : ring[j] = x
      BY <2>8 DEF Range
    <3>2. CASE j < n
      <4>1. j \in 1..Len(s) /\ s[j] = x
        BY <3>1, <3>2, <2>2, <2>5
      <4> QED BY <4>1, <2>5 DEF Range
    <3>3. CASE j > n
      <4>1. j - 1 \in 1..Len(s) /\ s[j - 1] = x
        BY <3>1, <3>3, <2>2, <2>5
      <4> QED BY <4>1, <2>5 DEF Range
    <3> QED BY <3>1, <3>2, <3>3, <2>2, <2>8
  <2> QED BY <2>1, <2>5, <2>7, <2>8
<1> QED BY <1>1, <1>2

LEMMA StepRemoveKey == ASSUME IInv, NEW w \in Wrapper, RemoveKey(w) PROVE IInv'
<1>1. CASE Refused(<<{w}>>) \/ Failed(<<{w}>>)
  BY <1>1, RefusedQuiet, FailedQuiet
<1>2. CASE /\ held[w] # Gone
           /\ Reached(<<{w}>>, "value")
           /\ ring' = Without(held[w])
           /\ held' = [held EXCEPT ![w] = Gone]
           /\ orderly' = (orderly /\ Waiting = {}
                          /\ \A v \in (alive \cap Wrapper) \ {w} : held[v] # held[w])
           /\ task' = Staled
           /\ UNCHANGED alive
  <2>1. /\ TypeOK /\ "value" \in Outcome /\ held[w] \in Key
        /\ last' \in LastType /\ stray' \in BOOLEAN
        /\ stray' => stray \/ Dangling # {}
    BY <1>2, ReachedTypes DEF IInv, Outcome, TypeOK
  <2>2. /\ ring' \in Seq(Key) /\ NoRepeats(ring)'
        /\ \A x \in Range(ring) : x # held[w] => x \in Range(ring')
    BY <1>2, <2>1, WithoutRing DEF IInv, TypeOK, NoRepeats
  <2>3. held' \in [Wrapper -> Key \cup {Gone}] /\ orderly' \in BOOLEAN
    BY <1>2, <2>1 DEF TypeOK
  <2>4. ASSUME orderly' PROVE orderly /\ Waiting = {} /\ Dangling' = {}
    <3>1. orderly /\ Waiting = {} /\ Dangling = {}
      BY <1>2, <2>4 DEF IInv, Kept
    <3>2. ASSUME NEW v \in Wrapper, v \in alive PROVE v \notin Dangling'
      <4>1. CASE v = w
        BY <1>2, <2>1, <3>1, <3>2, <4>1 DEF Dangling, TypeOK
      <4>2. CASE v # w
        <5>1. held'[v] = held[v] /\ held[v] # held[w]
          BY <1>2, <2>1, <2>4, <3>2, <4>2 DEF TypeOK
        <5> QED BY <1>2, <2>2, <3>1, <3>2, <5>1 DEF Dangling
      <4> QED BY <4>1, <4>2
    <3> QED BY <1>2, <3>1, <3>2 DEF Dangling
  <2> QED BY <1>2, <2>1, <2>2, <2>3, <2>4, Shrunk DEF TypeOK
<1> QED BY <1>1, <1>2 DEF RemoveKey

LEMMA StepDestroyObject ==
  ASSUME IInv, NEW o \in Object, DestroyObject(o)
  PROVE  IInv'
<1>1. TypeOK /\ NoRepeats(ring) /\ Kept
  BY DEF IInv
<1>2. /\ alive' \in SUBSET Object /\ held' \in [Wrapper -> Key \cup {Gone}]
      /\ last' \in LastType
      /\ stray' = stray /\ stray' \in BOOLEAN /\ orderly' \in BOOLEAN
  BY <1>1 DEF DestroyObject, NoCall, Outcome, TypeOK, LastType
<1>3. CASE o = "ffi"
  <2>1. /\ ring' = <<>> /\ task' = Staled /\ alive' = alive \ {o}
        /\ orderly' = (orderly /\ Waiting = {} /\ alive \cap Wrapper = {})
    BY <1>3 DEF DestroyObject
  <2>2. ring' \in Seq(Key) /\ NoRepeats(ring)'
    BY <2>1 DEF NoRepeats
  <2>3. orderly' => orderly /\ Waiting = {} /\ Dangling' = {}
    BY <2>1 DEF Dangling
  <2> QED BY <1>2, <2>1, <2>2, <2>3, Shrunk
<1>4. CASE o # "ffi"
  <2>1. /\ ring' = ring /\ task' = task /\ alive' = alive \ {o}
        /\ orderly' = orderly
        /\ held' = [w \in Wrapper |-> IF w = o THEN Gone ELSE held[w]]
    BY <1>1, <1>4 DEF DestroyObject, TypeOK
  <2>2. Dangling' \subseteq Dangling
    BY <1>4, <2>1 DEF Dangling
  <2>3. TypeOK'
    BY <1>1, <1>2, <2>1 DEF TypeOK
  <2>4. NoRepeats(ring)' /\ Kept'
    BY <1>1, <1>2, <2>1, <2>2 DEF Kept, Sound, IsStart, NoRepeats
  <2> QED BY <2>3, <2>4 DEF IInv
<1> QED BY <1>3, <1>4
-----------------------------------------------------------------------------
(* Iterations.                                                             *)

\* Only one iteration moves, and it stays sound.
LEMMA OneMoves ==
  ASSUME IInv, NEW t \in Task, NEW i \in TaskState, task' = [task EXCEPT ![t] = i],
         UNCHANGED <<alive, held, ring, orderly>>,
         last' \in LastType,
         stray' \in BOOLEAN, orderly => ~stray',
         orderly => Sound(i)
  PROVE  IInv'
<1>1. TypeOK /\ NoRepeats(ring) /\ Kept
  BY DEF IInv
<1>2. TypeOK' /\ NoRepeats(ring)'
  BY <1>1 DEF TypeOK, NoRepeats
<1>3. Dangling' = Dangling
  BY DEF Dangling
<1>4. ASSUME orderly', NEW u \in Task PROVE Sound(task[u])'
  <2>1. task'[u] = IF u = t THEN i ELSE task[u]
    BY <1>1 DEF TypeOK
  <2>2. Sound(task'[u])
    BY <1>1, <1>4, <2>1 DEF Kept
  <2> QED BY <2>2 DEF Sound, IsStart, NoRepeats
<1>5. Kept'
  BY <1>1, <1>3, <1>4 DEF Kept
<1> QED BY <1>2, <1>5 DEF IInv

LEMMA StepIterate ==
  ASSUME IInv, NEW t \in Task, NEW blank \in SUBSET Key, Iterate(t, blank)
  PROVE  IInv'
<1>1. CASE Refused(<<{"ffi"}>>) \/ Failed(<<{"ffi"}>>)
  BY <1>1, RefusedQuiet, FailedQuiet
<1>2. ASSUME Reached(<<{"ffi"}>>, "value"), NEW next \in Pull(0, blank),
             task' = [task EXCEPT ![t] =
               [phase |-> "await", iterating |-> TRUE, stale |-> FALSE, blank |-> blank,
                due |-> Leading(blank), got |-> <<>>, next |-> next]],
             UNCHANGED <<alive, held, ring, orderly>>
      PROVE  IInv'
  <2> DEFINE i == [phase |-> "await", iterating |-> TRUE, stale |-> FALSE, blank |-> blank,
                   due |-> Leading(blank), got |-> <<>>, next |-> next]
  <2>1. /\ TypeOK /\ "value" \in Outcome /\ ring \in Seq(Key)
        /\ last' \in LastType /\ stray' \in BOOLEAN
        /\ stray' => stray \/ Dangling # {}
    BY <1>2, ReachedTypes DEF IInv, Outcome, TypeOK
  <2>2. task' = [task EXCEPT ![t] = i]
    BY <1>2
  <2>3. \/ next = Fail
        \/ next = End /\ (Len(ring) = 0 \/ ring[1] \in blank)
        \/ next = ring[1] /\ 0 < Len(ring)
    BY <1>2, <2>1 DEF Pull
  <2>4. next \in Key \cup {End, Fail}
    BY <2>1, <2>3
  <2>5. i \in TaskState
    <3>1. Leading(blank) \in SUBSET Nat
      BY <2>1 DEF Leading
    <3> QED BY <2>1, <2>4, <3>1 DEF TaskState, Phase
  <2>6. End \notin Key /\ Fail \notin Key /\ End # Fail
    BY KeysAssumption DEF End, Fail
  <2>7. Sound(i)
    <3>1. /\ Leading(blank) \subseteq 1..Len(ring)
          /\ \A n \in Leading(blank) : \A j \in 1..n : ring[j] \notin blank
      BY <2>1 DEF Leading
    <3>2. next = End => Leading(blank) \subseteq {}
      <4>1. next # End \/ Len(ring) = 0 \/ ring[1] \in blank
        BY <2>1, <2>3, <2>6
      <4>2. \A n \in Leading(blank) : n \in 1..Len(ring) /\ 1 \in 1..n
        BY <2>1, <3>1
      <4> QED BY <2>1, <3>1, <4>1, <4>2
    <3> QED BY <2>1, <2>3, <2>6, <3>1, <3>2 DEF Sound, IsStart, NoRepeats
  <2>8. orderly => ~stray'
    BY <2>1 DEF IInv, Kept
  <2> QED BY <1>2, <2>1, <2>2, <2>5, <2>7, <2>8, OneMoves
<1> QED BY <1>1, <1>2 DEF Iterate

\* What is not a call leaves these.
LEMMA NoCallTypes ==
  ASSUME IInv, NoCall
  PROVE  /\ last' \in LastType
         /\ stray \in BOOLEAN
         /\ orderly => ~stray
         /\ \A t \in Task : task[t] \in TaskState /\ (orderly => Sound(task[t]))
         /\ ring \in Seq(Key) /\ NoRepeats(ring)
BY DEF IInv, TypeOK, Kept, NoCall, Outcome, LastType

LEMMA StepDestroyIterator ==
  ASSUME IInv, NEW t \in Task, DestroyIterator(t)
  PROVE  IInv'
<1> DEFINE i == [task[t] EXCEPT !.iterating = FALSE]
<1>1. /\ task[t].phase = "await" /\ NoCall
      /\ task' = [task EXCEPT ![t] = i]
      /\ UNCHANGED <<alive, held, ring, orderly, stray>>
  BY DEF DestroyIterator
<1>2. task[t] \in TaskState /\ (orderly => Sound(task[t]))
  BY <1>1, NoCallTypes
<1>3. i \in TaskState
  BY <1>2 DEF TaskState
<1>4. orderly => Sound(i)
  BY <1>1, <1>2 DEF Sound, TaskState
<1> QED BY <1>1, <1>3, <1>4, NoCallTypes, OneMoves

\* With the identifier it was given an iteration has still the ring's start.
LEMMA Taken ==
  ASSUME NEW got \in Seq(Key), ring \in Seq(Key), NoRepeats(ring), IsStart(got, ring),
         Len(got) < Len(ring)
  PROVE  LET more == Append(got, ring[Len(got) + 1]) IN
         /\ more \in Seq(Key) /\ Len(more) = Len(got) + 1
         /\ IsStart(more, ring)
         /\ NoRepeats(more)
<1> DEFINE more == Append(got, ring[Len(got) + 1])
<1>1. /\ more \in Seq(Key) /\ Len(more) = Len(got) + 1
      /\ \A j \in 1..Len(got) : more[j] = got[j]
      /\ more[Len(got) + 1] = ring[Len(got) + 1]
  OBVIOUS
<1> HIDE DEF more
<1>2. IsStart(more, ring)
  BY <1>1 DEF IsStart
<1>3. NoRepeats(more)
  BY <1>1, <1>2 DEF NoRepeats, IsStart
<1> QED BY <1>1, <1>2, <1>3 DEF more

LEMMA StepDeliver == ASSUME IInv, NEW t \in Task, Deliver(t) PROVE IInv'
<1>1. PICK next \in Pull(Len(task[t].got) + 1, task[t].blank) :
        task' = [task EXCEPT ![t].got = Append(@, task[t].next), ![t].next = next]
  BY DEF Deliver
<1> DEFINE g == task[t].got
           i == [task[t] EXCEPT !.got = Append(g, task[t].next), !.next = next]
<1>2. /\ task[t].phase = "await" /\ task[t].next \in Key /\ NoCall
      /\ stray' = (stray \/ task[t].stale)
      /\ UNCHANGED <<alive, held, ring, orderly>>
  BY DEF Deliver
<1>3. /\ task[t] \in TaskState /\ (orderly => Sound(task[t]))
      /\ ring \in Seq(Key) /\ NoRepeats(ring) /\ g \in Seq(Key)
  BY <1>2, NoCallTypes DEF TaskState
<1>4. task' = [task EXCEPT ![t] = i]
  BY <1>1, <1>3 DEF TaskState, IInv, TypeOK
<1>5. \/ next = Fail
      \/ next = End /\ (Len(ring) <= Len(g) + 1 \/ ring[Len(g) + 2] \in task[t].blank)
      \/ next = ring[Len(g) + 2] /\ Len(g) + 1 < Len(ring)
  BY <1>1, <1>3 DEF Pull
<1>6. next \in Key \cup {End, Fail}
  BY <1>3, <1>5
<1>7. i \in TaskState
  <2>1. Append(g, task[t].next) \in Seq(Key)
    BY <1>2, <1>3
  <2>2. i = [task[t] EXCEPT !.got = Append(g, task[t].next), !.next = next]
    OBVIOUS
  <2> HIDE DEF i
  <2>3. i = [phase |-> task[t].phase, iterating |-> task[t].iterating,
             stale |-> task[t].stale, blank |-> task[t].blank, due |-> task[t].due,
             got |-> Append(g, task[t].next), next |-> next]
    BY <1>3, <2>2 DEF TaskState
  <2> QED BY <1>3, <1>6, <2>1, <2>3 DEF TaskState
<1>8. End \notin Key /\ Fail \notin Key /\ End # Fail
  BY KeysAssumption DEF End, Fail
<1>9. ASSUME orderly PROVE Sound(i)
  <2>1. /\ IsStart(g, ring) /\ Len(g) < Len(ring) /\ task[t].next = ring[Len(g) + 1]
        /\ ~task[t].stale /\ task[t].due \subseteq 1..Len(ring)
        /\ \A n \in task[t].due : \A j \in 1..n : ring[j] \notin task[t].blank
    BY <1>2, <1>3, <1>9 DEF Sound, TaskState
  <2>2. /\ IsStart(Append(g, task[t].next), ring)
        /\ Len(Append(g, task[t].next)) = Len(g) + 1
        /\ NoRepeats(Append(g, task[t].next))
    BY <1>3, <2>1, Taken
  <2>3. /\ i.phase = "await" /\ i.got = Append(g, task[t].next) /\ i.next = next
        /\ i.due = task[t].due /\ i.stale = task[t].stale /\ i.blank = task[t].blank
    BY <1>2, <1>3 DEF TaskState
  <2>4. Len(i.got) = Len(g) + 1 /\ Len(g) \in Nat /\ Len(ring) \in Nat
    BY <1>3, <2>2, <2>3
  <2> HIDE DEF i
  <2>5. next \in Key => Len(i.got) < Len(ring) /\ next = ring[Len(i.got) + 1]
    BY <1>5, <1>8, <2>4
  <2>6. next = End => i.due \subseteq 1..Len(i.got)
    <3>1. ASSUME next = End, NEW n \in i.due PROVE n <= Len(g) + 1
      <4>1. n \in 1..Len(ring) /\ \A j \in 1..n : ring[j] \notin task[t].blank
        BY <2>1, <2>3
      <4>2. Len(ring) <= Len(g) + 1 \/ ring[Len(g) + 2] \in task[t].blank
        BY <1>3, <1>5, <1>8, <2>4, <3>1
      <4> QED BY <2>4, <4>1, <4>2
    <3> QED BY <2>1, <2>3, <2>4, <3>1
  <2> QED BY <2>1, <2>2, <2>3, <2>5, <2>6 DEF Sound
<1>10. stray' \in BOOLEAN /\ (orderly => ~stray')
  BY <1>2, <1>3, NoCallTypes DEF Sound, TaskState
<1> QED BY <1>2, <1>4, <1>7, <1>9, <1>10, NoCallTypes, OneMoves

LEMMA StepDeliverLast == ASSUME IInv, NEW t \in Task, DeliverLast(t) PROVE IInv'
<1> DEFINE g == task[t].got
           i == [task[t] EXCEPT !.got = Append(g, task[t].next),
                                !.phase = "resolved", !.next = End]
<1>1. /\ task[t].phase = "await" /\ task[t].next \in Key /\ ~task[t].iterating /\ NoCall
      /\ UNCHANGED <<alive, held, ring, orderly, stray>>
  BY DEF DeliverLast
<1>2. /\ task[t] \in TaskState /\ (orderly => Sound(task[t]))
      /\ ring \in Seq(Key) /\ NoRepeats(ring) /\ g \in Seq(Key)
  BY <1>1, NoCallTypes DEF TaskState
<1>3. task' = [task EXCEPT ![t] = i]
  BY <1>2 DEF DeliverLast, TaskState, IInv, TypeOK
<1>4. i \in TaskState
  <2>1. Append(g, task[t].next) \in Seq(Key) /\ "resolved" \in Phase
    BY <1>1, <1>2 DEF Phase
  <2>2. i = [task[t] EXCEPT !.got = Append(g, task[t].next), !.phase = "resolved",
                            !.next = End]
    OBVIOUS
  <2> HIDE DEF i
  <2>3. i = [phase |-> "resolved", iterating |-> task[t].iterating,
             stale |-> task[t].stale, blank |-> task[t].blank, due |-> task[t].due,
             got |-> Append(g, task[t].next), next |-> End]
    BY <1>2, <2>2 DEF TaskState
  <2> QED BY <1>2, <2>1, <2>3 DEF TaskState
<1>5. ASSUME orderly PROVE Sound(i)
  <2>1. IsStart(g, ring) /\ Len(g) < Len(ring) /\ task[t].next = ring[Len(g) + 1]
    BY <1>1, <1>2, <1>5 DEF Sound
  <2>2. NoRepeats(Append(g, task[t].next))
    BY <1>2, <2>1, Taken
  <2>3. i.phase = "resolved" /\ ~i.iterating /\ i.got = Append(g, task[t].next)
    BY <1>1, <1>2 DEF TaskState
  <2> HIDE DEF i
  <2> QED BY <2>2, <2>3 DEF Sound
<1> QED BY <1>1, <1>3, <1>4, <1>5, NoCallTypes, OneMoves

LEMMA StepSettle == ASSUME IInv, NEW t \in Task, Settle(t) PROVE IInv'
<1> DEFINE i == [task[t] EXCEPT !.next = End, !.phase =
                   IF task[t].next = End THEN "resolved" ELSE "rejected"]
<1>1. /\ task[t].phase = "await" /\ NoCall
      /\ UNCHANGED <<alive, held, ring, orderly, stray>>
  BY DEF Settle
<1>2. task[t] \in TaskState /\ (orderly => Sound(task[t]))
  BY <1>1, NoCallTypes
<1>3. task' = [task EXCEPT ![t] = i]
  BY <1>2 DEF Settle, TaskState, IInv, TypeOK
<1>4. i \in TaskState
  <2>1. (IF task[t].next = End THEN "resolved" ELSE "rejected") \in Phase
    BY DEF Phase
  <2> QED BY <1>2, <2>1 DEF TaskState
<1>5. orderly => Sound(i)
  BY <1>1, <1>2 DEF Sound, TaskState
<1> QED BY <1>1, <1>3, <1>4, <1>5, NoCallTypes, OneMoves

LEMMA StepForget == ASSUME IInv, NEW t \in Task, Forget(t) PROVE IInv'
<1>1. /\ NoCall /\ task' = [task EXCEPT ![t] = NoTask]
      /\ UNCHANGED <<alive, held, ring, orderly, stray>>
  BY DEF Forget
<1>2. NoTask \in TaskState /\ Sound(NoTask)
  BY DEF NoTask, TaskState, Phase, Sound, NoRepeats
<1> QED BY <1>1, <1>2, NoCallTypes, OneMoves

-----------------------------------------------------------------------------
LEMMA Begins == Init => IInv
<1> SUFFICES ASSUME Init PROVE IInv
  OBVIOUS
<1>1. TypeOK
  <2>1. NoTask \in TaskState
    BY DEF NoTask, TaskState, Phase
  <2>2. last \in LastType
    BY DEF Init, Outcome, LastType
  <2>3. held \in [Wrapper -> Key \cup {Gone}] /\ ring \in Seq(Key)
    BY DEF Init
  <2>4. task \in [Task -> TaskState]
    BY <2>1 DEF Init
  <2> QED BY <2>2, <2>3, <2>4 DEF Init, TypeOK, Object
<1>2. NoRepeats(ring) /\ \A t \in Task : Sound(task[t])
  BY DEF Init, NoRepeats, Sound, NoTask
<1>3. Dangling = {}
  BY DEF Init, Dangling
<1> QED BY <1>1, <1>2, <1>3 DEF Init, IInv, Kept

LEMMA StepProgram == ASSUME IInv, Program PROVE IInv'
<1>1. CASE \/ \E S \in {{"ffi"}, {"ffi", "io"}} : FacadeCall(<<S>>)
           \/ Dump
  BY <1>1, StepFacadeCall DEF Dump
<1>2. CASE \E k \in Key : Load(k)
  BY <1>2, StepLoad
<1>3. CASE Unload
  BY <1>3, StepUnload
<1>4. CASE \E w \in Wrapper, k \in Key, absent \in {"null", "RnpKeyNotFoundError"} :
             Locate(w, k, absent)
  BY <1>4, StepLocate
<1>5. ASSUME NEW w \in Wrapper, NEW v \in Wrapper,
             \/ ExportAutocrypt(w, v) \/ Equals(w, v)
             \/ (\E k \in Key : SubkeyAt(w, v, k))
      PROVE  IInv'
  BY <1>5, StepKeyCall, StepEquals, StepSubkeyAt DEF ExportAutocrypt
<1>6. CASE \E w \in Wrapper :
            \/ KeyCall(<<{w}>>) \/ ExportToBytes(w) \/ RemoveKey(w)
            \/ UnknownHash({w}) \/ UnknownHash({w, "io"})
  BY <1>6, StepKeyCall, StepUnknownHash, StepRemoveKey DEF ExportToBytes
<1>7. CASE \E o \in Object : DestroyObject(o)
  BY <1>7, StepDestroyObject
<1>8. CASE \E t \in Task :
            \/ Iterate(t, {}) \/ Iterate(t, Nameless)
            \/ DestroyIterator(t) \/ Forget(t)
  BY <1>8, StepIterate, StepDestroyIterator, StepForget, KeysAssumption
<1> QED BY <1>1, <1>2, <1>3, <1>4, <1>5, <1>6, <1>7, <1>8 DEF Program

LEMMA Inductive == ASSUME IInv, [Next]_vars PROVE IInv'
<1>1. CASE Program
  BY <1>1, StepProgram
<1>2. CASE \E t \in Task : Resume(t)
  BY <1>2, StepDeliver, StepDeliverLast, StepSettle DEF Resume
<1>3. CASE UNCHANGED vars
  <2>1. stray' = stray /\ last' = last /\ TypeOK
    BY <1>3 DEF vars, IInv
  <2> QED BY <1>3, <2>1, Quiet DEF vars, TypeOK
<1> QED BY <1>1, <1>2, <1>3 DEF Next

THEOREM Invariant == Spec => []IInv
BY Begins, Inductive, PTL DEF Spec

(***************************************************************************)
(* Objects, ring, iterations and outcomes are well typed.                  *)
(***************************************************************************)
THEOREM TypeCorrect == Spec => []TypeOK
<1>1. IInv => TypeOK
  BY DEF IInv
<1> QED BY <1>1, Invariant, PTL

(***************************************************************************)
(* A program that lets no key and no Ffi go while something depends on     *)
(* them never touches freed memory (ts/keyring.ts, ts/key.ts).             *)
(***************************************************************************)
THEOREM NeverStray == Spec => []NothingStray
<1>1. IInv => NothingStray
  BY DEF IInv, Kept, NothingStray
<1> QED BY <1>1, Invariant, PTL

(***************************************************************************)
(* An iteration over an orderly program's ring has every key that was      *)
(* there, up to a nameless one, once and in order (keyring.ts:73).         *)
(***************************************************************************)
THEOREM IterationsExact == Spec => []IterationExact
<1>1. ASSUME IInv, orderly, NEW t \in Task
      PROVE  LET i == task[t] IN
             /\ i.phase = "await" =>
                  /\ i.due \subseteq DOMAIN ring
                  /\ IsStart(i.got \o (IF i.next \in Key THEN <<i.next>> ELSE <<>>), ring)
             /\ (i.phase = "resolved" /\ i.iterating) => i.due \subseteq DOMAIN i.got
             /\ \A m, n \in 1..Len(i.got) : i.got[m] = i.got[n] => m = n
  <2> DEFINE g == task[t].got
  <2>1. /\ Sound(task[t]) /\ task[t] \in TaskState /\ g \in Seq(Key)
        /\ ring \in Seq(Key) /\ NoRepeats(ring)
    BY <1>1 DEF IInv, Kept, TypeOK, TaskState
  <2>2. ASSUME task[t].phase = "await", task[t].next \in Key
        PROVE  IsStart(g \o <<task[t].next>>, ring)
    <3>1. /\ IsStart(g, ring) /\ Len(g) < Len(ring) /\ task[t].next = ring[Len(g) + 1]
      BY <2>1, <2>2 DEF Sound
    <3>2. g \o <<task[t].next>> = Append(g, task[t].next)
      BY <2>1, <2>2
    <3> QED BY <2>1, <3>1, <3>2, Taken
  <2>3. g \o <<>> = g
    BY <2>1
  <2>4. DOMAIN g = 1..Len(g) /\ DOMAIN ring = 1..Len(ring)
    BY <2>1
  <2> QED BY <2>1, <2>2, <2>3, <2>4 DEF Sound, NoRepeats
<1>2. IInv => IterationExact
  BY <1>1 DEF IterationExact
<1> QED BY <1>2, Invariant, PTL

\* The native calls of a method are a list.
Listed(steps) == Len(steps) \in Nat /\ DOMAIN steps = 1..Len(steps)

LEMMA ListsAre ==
  /\ \A a : Listed(<<a>>)
  /\ \A a, b : Listed(<<a, b>>)
  /\ \A a, b, c : Listed(<<a, b, c>>)
BY DEF Listed

(***************************************************************************)
(* rnp never gets the handle of a destroyed object, a call that involves   *)
(* one returns nothing but false, and nothing but such a call throws an    *)
(* RnpError of its own (ts/handle.ts:45, ts/key.ts:158, 222).              *)
(***************************************************************************)
THEOREM AlwaysFailsClosed == Spec => []FailsClosed
<1>1. Init => FailsClosed
  BY DEF Init, FailsClosed
<1>2. ASSUME FailsClosed, [Next]_vars PROVE FailsClosed'
  <2>a. ASSUME NEW steps, NEW n, NEW out, Ended(steps, n, out)
        PROVE  /\ last'.out = out /\ ~last'.passed
               /\ last'.dead <=> ~ UNION {steps[i] : i \in DOMAIN steps} \subseteq alive
    <3>1. UNION {steps[i] : i \in 1..n} \subseteq alive
      BY <2>a DEF Ended
    <3> QED BY <2>a, <3>1 DEF Ended
  <2>1. ASSUME NEW steps, NEW n, Ended(steps, n, "Error") \/ Ended(steps, n, "false")
        PROVE  FailsClosed'
    BY <2>a, <2>1 DEF FailsClosed
  <2>2. ASSUME NEW steps, Listed(steps), Refused(steps) PROVE FailsClosed'
    <3>1. PICK n \in 0..(Len(steps) - 1) :
            ~ steps[n + 1] \subseteq alive /\ Ended(steps, n, "RnpError")
      BY <2>2 DEF Refused, Refusal
    <3>2. n + 1 \in DOMAIN steps
      BY <2>2 DEF Listed
    <3>3. ~ UNION {steps[i] : i \in DOMAIN steps} \subseteq alive
      BY <3>1, <3>2
    <3> QED BY <2>a, <3>1, <3>3 DEF FailsClosed
  <2>3. ASSUME NEW steps, Listed(steps), NEW out, out # "RnpError", Reached(steps, out)
        PROVE  FailsClosed'
    <3>1. Ended(steps, Len(steps), out) /\ \A i \in DOMAIN steps : steps[i] \subseteq alive
      BY <2>3 DEF Reached, Ended, Listed
    <3>2. UNION {steps[i] : i \in DOMAIN steps} \subseteq alive
      BY <3>1
    <3> QED BY <2>a, <2>3, <3>1, <3>2 DEF FailsClosed
  <2>4. ASSUME NEW steps, Failed(steps) PROVE FailsClosed'
    BY <2>1, <2>4 DEF Failed, Failure
  <2>5. ASSUME NoCall PROVE FailsClosed'
    BY <2>5 DEF NoCall, FailsClosed
  <2>6. ASSUME NEW steps, Listed(steps), FacadeCall(steps) \/ KeyCall(steps)
        PROVE  FailsClosed'
    BY <2>2, <2>3, <2>4, <2>6 DEF FacadeCall, KeyCall
  <2>7. \A S : FacadeCall(<<S>>) \/ KeyCall(<<S>>) => FailsClosed'
    BY <2>6, ListsAre
  <2>8. ASSUME NEW w, ExportToBytes(w) PROVE FailsClosed'
    BY <2>6, <2>8, ListsAre DEF ExportToBytes
  <2>9. ASSUME NEW S, Refused(<<S>>) \/ Failed(<<S>>) PROVE FailsClosed'
    BY <2>2, <2>4, <2>9, ListsAre
  <2>10. ASSUME NEW S, NEW out, out # "RnpError", Reached(<<S>>, out) PROVE FailsClosed'
    BY <2>3, <2>10, ListsAre
  <2>11. ASSUME NEW k, Load(k) \/ Unload PROVE FailsClosed'
    BY <2>9, <2>10, <2>11 DEF Load, Unload
  <2>12. ASSUME NEW w, NEW k, NEW absent \in {"null", "RnpKeyNotFoundError"},
                Locate(w, k, absent)
         PROVE  FailsClosed'
    BY <2>9, <2>10, <2>12 DEF Locate
  <2>13. ASSUME NEW S, UnknownHash(S) PROVE FailsClosed'
    BY <2>1, <2>9, <2>13 DEF UnknownHash
  <2>14. ASSUME NEW w, NEW v, Equals(w, v) PROVE FailsClosed'
    <3> DEFINE steps == <<{w}, {v}>>
    <3>1. \/ \E n : Ended(steps, n, "false")
          \/ Reached(steps, "true")
      BY <2>14 DEF Equals, Refusal, Failure
    <3>2. Listed(steps)
      BY ListsAre
    <3> HIDE DEF steps
    <3> QED BY <2>1, <2>3, <3>1, <3>2
  <2>15. ASSUME NEW w, NEW v, NEW k, SubkeyAt(w, v, k) PROVE FailsClosed'
    BY <2>9, <2>10, <2>15 DEF SubkeyAt
  <2>16. ASSUME NEW w, RemoveKey(w) PROVE FailsClosed'
    BY <2>9, <2>10, <2>16 DEF RemoveKey
  <2>17. ASSUME NEW o, DestroyObject(o) PROVE FailsClosed'
    BY <2>5, <2>17 DEF DestroyObject
  <2>18. ASSUME NEW t, NEW blank, Iterate(t, blank) PROVE FailsClosed'
    BY <2>9, <2>10, <2>18 DEF Iterate
  <2>19. ASSUME NEW t, DestroyIterator(t) \/ Forget(t) \/ Resume(t) PROVE FailsClosed'
    BY <2>5, <2>19 DEF DestroyIterator, Forget, Resume, Deliver, DeliverLast, Settle
  <2>20. ASSUME UNCHANGED vars PROVE FailsClosed'
    BY <1>2, <2>20 DEF vars, FailsClosed
  <2>21. ASSUME Program PROVE FailsClosed'
    <3>1. CASE \/ \E S \in {{"ffi"}, {"ffi", "io"}} : FacadeCall(<<S>>)
               \/ Dump \/ Unload
               \/ \E k \in Key : Load(k)
      BY <2>7, <2>11, <3>1 DEF Dump
    <3>2. CASE \E w \in Wrapper, k \in Key, absent \in {"null", "RnpKeyNotFoundError"} :
                 Locate(w, k, absent)
      BY <2>12, <3>2
    <3>3. CASE \E w, v \in Wrapper :
                 \/ ExportAutocrypt(w, v) \/ Equals(w, v)
                 \/ (\E k \in Key : SubkeyAt(w, v, k))
      BY <2>7, <2>14, <2>15, <3>3 DEF ExportAutocrypt
    <3>4. CASE \E w \in Wrapper :
                 \/ KeyCall(<<{w}>>) \/ ExportToBytes(w) \/ RemoveKey(w)
                 \/ UnknownHash({w}) \/ UnknownHash({w, "io"})
      BY <2>7, <2>8, <2>13, <2>16, <3>4
    <3>5. CASE \/ \E o \in Object : DestroyObject(o)
               \/ \E t \in Task :
                    \/ Iterate(t, {}) \/ Iterate(t, Nameless)
                    \/ DestroyIterator(t) \/ Forget(t)
      BY <2>17, <2>18, <2>19, <3>5
    <3> QED BY <2>21, <3>1, <3>2, <3>3, <3>4, <3>5 DEF Program
  <2> QED BY <1>2, <2>19, <2>20, <2>21 DEF Next
<1> QED BY <1>1, <1>2, PTL DEF Spec
=============================================================================
