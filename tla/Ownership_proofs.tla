-------------------------- MODULE Ownership_proofs --------------------------
(***************************************************************************)
(* Proofs about who owns a native object: one handle (HandleLifecycle) and *)
(* one block of code (CallScope).                                          *)
(*                                                                         *)
(* The handle, for every set of wrappers and every nesting depth.  The     *)
(* invariant of the argument is                                            *)
(*                                                                         *)
(*     IInv == TypeOK /\ LayersAgree /\ AliveAreRegistered                 *)
(*                                                                         *)
(* An undestroyed wrapper is registered, so the collector never takes it,  *)
(* and what the collector takes was destroyed before.  So the release of a *)
(* native object is the doing of destroy() alone, in every state and under *)
(* any calls: nothing is assumed of what callbacks destroy.                *)
(*                                                                         *)
(* The block, for every set of blocks that obeys the rules of CallScope    *)
(* (BlocksWellFormed).  The rules read a block from top to bottom and say  *)
(* nothing of exceptions; induction along the block (BlockSound) shows     *)
(* that before every step what is bound is in the order of its references  *)
(* and what has no owner is accounted for.  ScopeInv then ties the machine *)
(* to the plan: it follows it until something throws or the block returns, *)
(* and from there it has released a younger part of the bindings, and what *)
(* the step that threw took with it.                                       *)
(***************************************************************************)
EXTENDS HandleLifecycle, CallScope, SequenceTheorems, FiniteSetTheorems,
        WellFoundedInduction, TLAPS

AliveAreRegistered == \A h \in Handle : js[h] = "alive" => h \in registry

IInv == TypeOK /\ LayersAgree /\ AliveAreRegistered

-----------------------------------------------------------------------------
\* The last element of a sequence taken away.
LEMMA PopSeq ==
  ASSUME NEW S, NEW s \in Seq(S), s # <<>>
  PROVE  LET t == SubSeq(s, 1, Len(s) - 1) IN
         /\ t \in Seq(S)
         /\ Len(t) = Len(s) - 1
         /\ \A i \in 1..Len(t) : t[i] = s[i]
<1> DEFINE n == Len(s) - 1
<1>1. n \in Nat /\ Len(s) \in Nat
  BY EmptySeq, LenProperties
<1>2. \A i \in 1..n : s[i] \in S
  BY <1>1, ElementOfSeq
<1> HIDE DEF n
<1> DEFINE t == SubSeq(s, 1, n)
<1>3. /\ t \in Seq(S)
      /\ Len(t) = IF 1 <= n THEN n-1+1 ELSE 0
      /\ \A i \in 1 .. n-1+1 : t[i] = s[1+i-1]
  BY <1>1, <1>2, SubSeqProperties
<1>4. Len(t) = n
  BY <1>1, <1>3
<1>5. \A i \in 1..n : t[i] = s[i]
  <2> HIDE DEF t
  <2> SUFFICES ASSUME NEW i \in 1..n PROVE t[i] = s[i]
    OBVIOUS
  <2>1. i \in 1 .. n-1+1 /\ 1+i-1 = i
    BY <1>1
  <2> QED
    BY <1>3, <2>1
<1> QED
  BY <1>3, <1>4, <1>5 DEF n

-----------------------------------------------------------------------------
LEMMA InitIInv == Init => IInv
BY HandleAssumption DEF Init, IInv, TypeOK, LayersAgree, AliveAreRegistered

LEMMA NextIInv == IInv /\ [Next]_vars => IInv'
<1> SUFFICES ASSUME IInv, [Next]_vars PROVE IInv'
  OBVIOUS
<1> USE HandleAssumption DEF IInv, TypeOK, LayersAgree, AliveAreRegistered
<1>1. ASSUME NEW h \in Handle, Construct(h) PROVE IInv'
  BY <1>1 DEF Construct
<1>2. ASSUME NEW h \in Handle, Call(h) PROVE IInv'
  BY <1>2 DEF Call
<1>3. CASE Return
  <2>1. calls' \in Seq(Handle) /\ Len(calls') <= MaxDepth
    <3>1. calls' \in Seq(Handle) /\ Len(calls') = Len(calls) - 1
      BY <1>3, PopSeq DEF Return
    <3> QED
      BY <3>1, LenProperties
  <2> QED
    BY <1>3, <2>1 DEF Return
<1>4. ASSUME NEW h \in Handle, Destroy(h) PROVE IInv'
  <2>1. box[h] = "owner" /\ frees[h] = 0
    BY <1>4 DEF Destroy
  <2>2. /\ frees' = [frees EXCEPT ![h] = 1]
        /\ box'   = [box EXCEPT ![h] = "empty"]
    BY <1>4, <2>1 DEF Destroy, Reset
  <2> QED
    BY <1>4, <2>1, <2>2 DEF Destroy
<1>5. ASSUME NEW h \in Handle, Drop(h) PROVE IInv'
  BY <1>5 DEF Drop
<1>6. ASSUME NEW h \in Handle, Collect(h) PROVE IInv'
  <2>1. h \notin registry /\ js[h] = "destroyed"
    BY <1>6 DEF Collect, Reachable
  <2>2. UNCHANGED <<registry, roots, box, frees, calls>>
    BY <1>6, <2>1 DEF Collect
  <2> QED
    BY <1>6, <2>1, <2>2 DEF Collect
<1>7. ASSUME NEW h \in Handle, DeleteOwner(h) PROVE IInv'
  <2>1. box[h] # "owner"
    BY <1>7 DEF DeleteOwner
  <2>2. frees' = frees /\ box' = [box EXCEPT ![h] = "deleted"]
    BY <1>7, <2>1 DEF DeleteOwner, Delete
  <2> QED
    BY <1>7, <2>2 DEF DeleteOwner
<1>8. CASE UNCHANGED vars
  BY <1>8 DEF vars
<1> QED
  BY <1>1, <1>2, <1>3, <1>4, <1>5, <1>6, <1>7, <1>8 DEF Next, App

-----------------------------------------------------------------------------
(***************************************************************************)
(* The variables keep their types, and only undestroyed wrappers are in    *)
(* the FinalizationRegistry (ts/handle.ts, constructor and destroy).       *)
(***************************************************************************)
THEOREM TypeCorrect == Spec => []TypeOK
<1>1. IInv => TypeOK
  BY DEF IInv
<1> QED
  BY <1>1, InitIInv, NextIInv, PTL DEF Spec

(***************************************************************************)
(* Wrapper, C++ owner and native object agree in every state: one release  *)
(* for each destroyed wrapper, none before (handle.ts and handle.h).       *)
(***************************************************************************)
THEOREM LayersAgreeAlways == Spec => []LayersAgree
<1>1. IInv => LayersAgree
  BY DEF IInv
<1> QED
  BY <1>1, InitIInv, NextIInv, PTL DEF Spec

-----------------------------------------------------------------------------
(***************************************************************************)
(* Whatever callbacks do, at any nesting: a running native call loses its  *)
(* object only to a destroy() of its live wrapper, made inside it; no call *)
(* starts on a destroyed wrapper and no collector releases what a call     *)
(* works on (handle.ts raw and destroy, handle.h ~Handle).                 *)
(***************************************************************************)
THEOREM OnlyDestroyUndercutsAlways == Spec => OnlyDestroyUndercuts
<1> DEFINE Only == \A i \in Undercut' \ Undercut :
                     js[calls'[i]] = "alive" /\ js'[calls'[i]] = "destroyed"
<1>1. ASSUME IInv, Next PROVE Only
  <2> USE DEF IInv, TypeOK, LayersAgree, AliveAreRegistered
  <2>0. Len(calls) \in Nat /\ \A i \in 1..Len(calls) : calls[i] \in Handle
    BY <1>1, LenProperties, ElementOfSeq
  <2>1. ASSUME NEW h \in Handle, Construct(h) PROVE Only
    BY <2>1 DEF Construct, Undercut
  <2>2. ASSUME NEW h \in Handle, Call(h) PROVE Only
    <3>1. /\ frees' = frees /\ frees[h] = 0
          /\ Len(calls') = Len(calls) + 1
          /\ \A i \in 1..Len(calls) : calls'[i] = calls[i]
          /\ calls'[Len(calls) + 1] = h
      BY <1>1, <2>2 DEF Call
    <3>2. Undercut' \subseteq Undercut
      BY <2>0, <3>1 DEF Undercut
    <3> QED
      BY <3>2
  <2>3. CASE Return
    <3>1. /\ frees' = frees
          /\ Len(calls') = Len(calls) - 1
          /\ \A i \in 1..Len(calls') : calls'[i] = calls[i]
      BY <1>1, <2>3, PopSeq DEF Return
    <3>2. Undercut' \subseteq Undercut
      BY <2>0, <3>1 DEF Undercut
    <3> QED
      BY <3>2
  <2>4. ASSUME NEW h \in Handle, Destroy(h) PROVE Only
    <3>1. /\ calls' = calls /\ js[h] = "alive" /\ js'[h] = "destroyed"
          /\ \A g \in Handle \ {h} : frees'[g] = frees[g]
      BY <1>1, <2>4 DEF Destroy, Reset
    <3>2. \A i \in Undercut' \ Undercut : calls'[i] = h
      BY <2>0, <3>1 DEF Undercut
    <3> QED
      BY <3>1, <3>2
  <2>5. ASSUME NEW h \in Handle, Drop(h) PROVE Only
    BY <2>5 DEF Drop, Undercut
  <2>6. ASSUME NEW h \in Handle, Collect(h) \/ DeleteOwner(h) PROVE Only
    <3>1. calls' = <<>> /\ Len(calls') = 0
      BY <2>6 DEF Collect, DeleteOwner
    <3> QED
      BY <3>1 DEF Undercut
  <2> QED
    BY <1>1, <2>1, <2>2, <2>3, <2>4, <2>5, <2>6 DEF Next, App
<1>2. IInv /\ [Next]_vars => [Only]_vars
  BY <1>1
<1> QED
  BY <1>2, InitIInv, NextIInv, PTL DEF Spec, OnlyDestroyUndercuts

(***************************************************************************)
(* The collector never takes an undestroyed wrapper, so the finalizer of   *)
(* ts/handle.ts:16 never has a destroy() left to do: the cleanup closure   *)
(* it holds keeps the wrapper reachable until destroy() unregisters it.    *)
(***************************************************************************)
THEOREM UndestroyedIsNeverCollected ==
  Spec => [][\A h \in Handle : js[h] = "alive" => js'[h] # "collected"]_vars
<1> DEFINE Kept == \A h \in Handle : js[h] = "alive" => js'[h] # "collected"
<1>1. ASSUME IInv, Next PROVE Kept
  <2> USE <1>1 DEF IInv, TypeOK, AliveAreRegistered
  <2>1. ASSUME NEW g \in Handle, App(g) PROVE Kept
    BY <2>1 DEF App, Construct, Call, Destroy, Drop
  <2>2. ASSUME NEW g \in Handle, Collect(g) PROVE Kept
    BY <2>2 DEF Collect, Reachable
  <2>3. ASSUME NEW g \in Handle, DeleteOwner(g) PROVE Kept
    BY <2>3 DEF DeleteOwner
  <2>4. CASE Return
    BY <2>4 DEF Return
  <2> QED
    BY <1>1, <2>1, <2>2, <2>3, <2>4 DEF Next
<1>2. IInv /\ [Next]_vars => [Kept]_vars
  BY <1>1
<1> QED
  BY <1>2, InitIInv, NextIInv, PTL DEF Spec

-----------------------------------------------------------------------------
(***************************************************************************)
(* Every step of the three layers is a step of the managed resource or a   *)
(* stutter of it: a call or its return is a use, destroy() the release.    *)
(***************************************************************************)
LEMMA StepRefines ==
  ASSUME IInv, [Next]_vars
  PROVE  [Promise!Next]_(Promise!rvars)
<1> DEFINE st == [h \in Handle |->
                    CASE js[h] = "unborn" -> "unborn"
                      [] frees[h] > 0     -> "released"
                      [] OTHER            -> "open"]
<1> USE DEF IInv, TypeOK, LayersAgree, AliveAreRegistered
<1>a. /\ \A h \in Handle : js[h] = "unborn" => st[h] = "unborn"
      /\ \A h \in Handle : js[h] = "alive" => st[h] = "open"
      /\ \A h \in Handle : js[h] \in {"destroyed", "collected"}
                            => st[h] = "released"
  OBVIOUS
<1>b. IInv'
  BY NextIInv
<1>c. /\ \A h \in Handle : js'[h] = "unborn" => st'[h] = "unborn"
      /\ \A h \in Handle : js'[h] = "alive" => st'[h] = "open"
      /\ \A h \in Handle : js'[h] \in {"destroyed", "collected"}
                            => st'[h] = "released"
  BY <1>b
<1>e. DOMAIN st = Handle /\ st = [g \in Handle |-> st[g]]
  OBVIOUS
<1>1. ASSUME NEW h \in Handle, Construct(h) PROVE Promise!Acquire(h)
  <2>1. st' = [st EXCEPT ![h] = "open"]
    <3>1. \A g \in Handle \ {h} : js'[g] = js[g] /\ frees'[g] = frees[g]
      BY <1>1 DEF Construct
    <3>2. \A g \in Handle \ {h} : st'[g] = st[g]
      BY <3>1
    <3>3. st'[h] = "open"
      BY <1>1, <1>c DEF Construct
    <3>4. st' = [g \in Handle |-> IF g = h THEN "open" ELSE st[g]]
      BY <3>2, <3>3
    <3> HIDE DEF st
    <3> QED
      BY <3>4, <1>e
  <2>2. st[h] = "unborn" /\ calls' = calls
    BY <1>1, <1>a DEF Construct
  <2> QED
    BY <2>1, <2>2 DEF Promise!Acquire
<1>2. ASSUME NEW h \in Handle, Call(h) PROVE Promise!BeginUse(h)
  <2>1. st' = st /\ st[h] = "open"
    BY <1>2, <1>a DEF Call
  <2> QED
    BY <1>2, <2>1 DEF Call, Promise!BeginUse
<1>3. ASSUME Return PROVE Promise!EndUse
  <2>1. st' = st
    BY <1>3 DEF Return
  <2> QED
    BY <1>3, <2>1 DEF Return, Promise!EndUse
<1>4. ASSUME NEW h \in Handle, Destroy(h) PROVE Promise!Release(h)
  <2>1. st' = [st EXCEPT ![h] = "released"]
    <3>1. \A g \in Handle \ {h} : js'[g] = js[g] /\ frees'[g] = frees[g]
      BY <1>4 DEF Destroy, Reset
    <3>2. \A g \in Handle \ {h} : st'[g] = st[g]
      BY <3>1
    <3>3. st'[h] = "released"
      BY <1>4, <1>c DEF Destroy
    <3>4. st' = [g \in Handle |-> IF g = h THEN "released" ELSE st[g]]
      BY <3>2, <3>3
    <3> HIDE DEF st
    <3> QED
      BY <3>4, <1>e
  <2>2. st[h] = "open" /\ calls' = calls
    BY <1>4, <1>a DEF Destroy
  <2> QED
    BY <2>1, <2>2 DEF Promise!Release
<1>5. ASSUME NEW h \in Handle, Drop(h) PROVE st' = st /\ calls' = calls
  BY <1>5 DEF Drop
<1>6. ASSUME NEW h \in Handle, Collect(h) PROVE st' = st /\ calls' = calls
  <2>1. h \notin registry /\ js[h] = "destroyed"
    BY <1>6 DEF Collect, Reachable
  <2>2. js' = [js EXCEPT ![h] = "collected"] /\ calls' = calls /\ frees' = frees
    BY <1>6, <2>1 DEF Collect
  <2> QED
    BY <2>1, <2>2
<1>7. ASSUME NEW h \in Handle, DeleteOwner(h) PROVE st' = st /\ calls' = calls
  <2>1. UNCHANGED <<js, frees>> /\ calls' = calls
    BY <1>7 DEF DeleteOwner, Delete
  <2> QED
    BY <2>1
<1>8. CASE UNCHANGED vars
  <2>1. st' = st /\ calls' = calls
    BY <1>8 DEF vars
  <2> QED
    BY <2>1 DEF Promise!rvars
<1>9. CASE Next
  <2>1. \/ Promise!EndUse
        \/ \E h \in Handle :
             Promise!Acquire(h) \/ Promise!BeginUse(h) \/ Promise!Release(h)
        \/ st' = st /\ calls' = calls
    BY <1>9, <1>1, <1>2, <1>3, <1>4, <1>5, <1>6, <1>7 DEF Next, App
  <2> QED
    BY <2>1 DEF Promise!Next, Promise!rvars
<1> QED
  BY <1>8, <1>9

(***************************************************************************)
(* The TypeScript wrapper over the C++ owner implements the abstract       *)
(* managed resource (handle.ts, handle.h), for every set of wrappers.      *)
(***************************************************************************)
THEOREM Refinement == Spec => ImplementsManagedResource
<1>1. Init => Promise!Init
  BY DEF Init, Promise!Init
<1>2. IInv /\ [Next]_vars => [Promise!Next]_(Promise!rvars)
  BY StepRefines
<1> QED
  BY <1>1, <1>2, InitIInv, NextIInv, PTL
  DEF Spec, ImplementsManagedResource, Promise!Spec

-----------------------------------------------------------------------------
(* Induction along a block.                                                *)

\* Every set of naturals with an element has a least one.
LEMMA Least ==
  ASSUME NEW S \in SUBSET Nat, S # {}
  PROVE  \E m \in S : \A k \in S : m <= k
<1> DEFINE R == OpToRel(<, Nat)
<1>1. IsWellFoundedOn(R, Nat)
  BY NatLessThanWellFounded
<1>2. \A k, m \in Nat : k < m => <<k, m>> \in R
  BY DEF OpToRel
<1> HIDE DEF R
<1>3. PICK m \in S : \A k \in S : ~(<<k, m>> \in R)
  BY <1>1, WFMin
<1>4. \A k \in S : m \in Nat /\ k \in Nat /\ ~(k < m)
  BY <1>2, <1>3
<1> QED BY <1>4

\* What holds before the first step and is kept by each step holds before
\* every step and behind the last one.
LEMMA Climb ==
  ASSUME NEW n \in Nat, NEW S, 1 \in S, \A i \in 1..n : i \in S => i + 1 \in S
  PROVE  \A i \in 1..(n + 1) : i \in S
<1> DEFINE A == {i \in 1..(n + 1) : i \notin S}
<1> SUFFICES ASSUME A # {} PROVE FALSE
  OBVIOUS
<1>1. A \in SUBSET Nat
  OBVIOUS
<1> HIDE DEF A
<1>2. PICK m \in A : \A k \in A : m <= k
  BY <1>1, Least
<1> USE DEF A
<1>3. m \in Nat /\ m # 1 /\ m \in 1..(n + 1) /\ m \notin S
  BY <1>2
<1>4. m - 1 \in 1..n /\ ~(m <= m - 1)
  BY <1>3
<1>5. m - 1 \notin A
  BY <1>2, <1>4
<1>6. m - 1 \in S
  BY <1>4, <1>5
<1>7. (m - 1) + 1 \in S
  BY <1>4, <1>6
<1> QED BY <1>3, <1>7

-----------------------------------------------------------------------------
(* The sequence of what is bound.                                          *)

\* One more element.
LEMMA BindParts ==
  ASSUME NEW T, NEW s \in Seq(T), NEW e \in T, NEW t, t = Append(s, e)
  PROVE  /\ t \in Seq(T) /\ Len(t) = Len(s) + 1 /\ Len(s) \in Nat
         /\ \A j \in 1..Len(s) : t[j] = s[j]
         /\ t[Len(s) + 1] = e
BY AppendProperties, LenProperties

\* The elements then are the old ones and the new one.
LEMMA BindRange ==
  ASSUME NEW T, NEW s \in Seq(T), NEW t \in Seq(T), NEW e,
         Len(t) = Len(s) + 1, \A j \in 1..Len(s) : t[j] = s[j], t[Len(s) + 1] = e
  PROVE  Range(t) = Range(s) \cup {e}
<1>1. DOMAIN t = 1..(Len(s) + 1) /\ DOMAIN s = 1..Len(s) /\ Len(s) \in Nat
  BY LenProperties
<1>2. DOMAIN t = DOMAIN s \cup {Len(s) + 1}
  BY <1>1
<1> QED BY <1>1, <1>2 DEF Range

\* The youngest element taken away.
LEMMA OlderRange ==
  ASSUME NEW T, NEW s \in Seq(T), s # <<>>, NEW t, t = Older(s)
  PROVE  /\ t \in Seq(T) /\ Len(t) = Len(s) - 1 /\ Len(t) \in Nat
         /\ \A j \in 1..Len(t) : t[j] = s[j]
         /\ Len(s) \in 1..Len(s) /\ Youngest(s) = s[Len(s)]
         /\ Range(s) = Range(t) \cup {Youngest(s)}
<1>1. /\ t \in Seq(T) /\ Len(t) = Len(s) - 1
      /\ \A j \in 1..Len(t) : t[j] = s[j]
  BY PopSeq DEF Older
<1>2. Len(t) \in Nat /\ Len(s) \in Nat /\ DOMAIN t = 1..Len(t) /\ DOMAIN s = 1..Len(s)
  BY <1>1, LenProperties
<1>3. DOMAIN s = DOMAIN t \cup {Len(s)} /\ Len(s) \in 1..Len(s)
  BY <1>1, <1>2
<1>4. Range(s) = Range(t) \cup {Youngest(s)}
  BY <1>1, <1>2, <1>3 DEF Range, Youngest
<1> QED BY <1>1, <1>2, <1>3, <1>4 DEF Youngest

\* The elements of a sequence are those at its places.
LEMMA InRange ==
  ASSUME NEW T, NEW s \in Seq(T)
  PROVE  \A r : r \in Range(s) <=> \E j \in 1..Len(s) : r = s[j]
BY LenProperties DEF Range

-----------------------------------------------------------------------------
(* What the rules for writing a block keep.                                *)

Acts == {"using", "make", "bind", "leave", "drop", "work"}

\* What is bound is bound once, is alive, and refers to what is alive and
\* was not bound after it; a C++ copy is not bound.
InOrder(T, st) ==
  /\ st.bound \in Seq(T)
  /\ \A j, k \in 1..Len(st.bound) : st.bound[j] = st.bound[k] => j = k
  /\ \A j \in 1..Len(st.bound) :
       st.bound[j] \in st.live /\ st.bound[j][1] # "vector"
  /\ \A j \in 1..Len(st.bound) : Needs(st.bound[j]) \subseteq st.live
  /\ \A j, k \in 1..Len(st.bound) : st.bound[k] \in Needs(st.bound[j]) => k < j

\* What a step does to the two parts of the state.
LEMMA AfterParts ==
  ASSUME NEW s, NEW st
  PROVE  /\ s.act = "using" =>
              After(s, st).bound = Append(st.bound, s.on) /\ After(s, st).live = st.live \cup {s.on}
         /\ s.act = "make" =>
              After(s, st).bound = st.bound /\ After(s, st).live = st.live \cup {s.on}
         /\ s.act = "bind" =>
              After(s, st).bound = Append(st.bound, s.on) /\ After(s, st).live = st.live
         /\ s.act = "leave" =>
              After(s, st).bound = Older(st.bound) /\ After(s, st).live = st.live \ {s.on}
         /\ s.act = "drop" =>
              After(s, st).bound = st.bound /\ After(s, st).live = st.live \ {s.on}
         /\ s.act = "work" =>
              After(s, st).bound = st.bound /\ After(s, st).live = st.live
BY DEF After

\* A step that obeys the rules keeps the bindings in order.
LEMMA InOrderKept ==
  ASSUME NEW T, NEW s, NEW st, NEW m, s.act \in Acts, s.act # "work" => s.on \in T,
         Declared(s, st), Owned(s, st, m), InOrder(T, st)
  PROVE  InOrder(T, After(s, st))
<1> DEFINE B == st.bound
           L == st.live
           n == Len(B)
<1>1. PICK t : t = After(s, st)
  OBVIOUS
<1>2. B \in Seq(T) /\ n \in Nat
  BY LenProperties DEF InOrder
<1>3. \A j, k \in 1..n : B[j] = B[k] => j = k
  BY DEF InOrder
<1>4. \A j \in 1..n : B[j] \in L /\ B[j][1] # "vector" /\ Needs(B[j]) \subseteq L
  BY DEF InOrder
<1>5. \A j, k \in 1..n : B[k] \in Needs(B[j]) => k < j
  BY DEF InOrder
<1>6. \A j \in 1..n : B[j] \in Range(B)
  BY <1>2, InRange
<1> HIDE DEF B, L, n
<1>7. ASSUME NEW e \in T, t.bound = Append(B, e), L \subseteq t.live, e \in t.live,
             e[1] # "vector", Needs(e) \subseteq t.live \ {e},
             \A j \in 1..n : e # B[j] /\ e \notin Needs(B[j])
      PROVE  InOrder(T, t)
  <2>1. PICK C : C = t.bound
    OBVIOUS
  <2>2. /\ C \in Seq(T) /\ Len(C) = n + 1
        /\ \A j \in 1..n : C[j] = B[j]
        /\ C[n + 1] = e
    BY <1>2, <1>7, <2>1, BindParts DEF n
  <2>3. \A j \in 1..(n + 1) : j \in 1..n \/ j = n + 1
    BY <1>2
  <2>4. \A j, k \in 1..(n + 1) : C[j] = C[k] => j = k
    BY <1>3, <1>7, <2>2, <2>3
  <2>5. \A j \in 1..(n + 1) :
          C[j] \in t.live /\ C[j][1] # "vector" /\ Needs(C[j]) \subseteq t.live
    BY <1>4, <1>7, <2>2, <2>3
  <2>6. ASSUME NEW j \in 1..(n + 1), NEW k \in 1..(n + 1), C[k] \in Needs(C[j])
        PROVE  k < j
    <3>1. CASE k = n + 1
      BY <1>7, <2>2, <2>3, <2>6, <3>1
    <3>2. CASE k \in 1..n /\ j = n + 1
      BY <1>2, <3>2
    <3>3. CASE k \in 1..n /\ j \in 1..n
      BY <1>5, <2>2, <2>6, <3>3
    <3> QED BY <2>3, <3>1, <3>2, <3>3
  <2> QED BY <2>1, <2>2, <2>4, <2>5, <2>6 DEF InOrder
<1>8. CASE s.act = "using"
  <2>1. s.on \notin L /\ Needs(s.on) \subseteq L /\ s.on[1] # "vector"
    BY <1>8 DEF Declared, Owned, L
  <2>2. t.bound = Append(B, s.on) /\ t.live = L \cup {s.on}
    BY <1>1, <1>8, AfterParts DEF B, L
  <2>3. \A j \in 1..n : s.on # B[j] /\ s.on \notin Needs(B[j])
    BY <1>4, <2>1
  <2>4. s.on \in T /\ L \subseteq t.live /\ s.on \in t.live /\ Needs(s.on) \subseteq t.live \ {s.on}
    BY <1>8, <2>1, <2>2
  <2> QED BY <1>1, <1>7, <2>1, <2>2, <2>3, <2>4
<1>9. CASE s.act = "bind"
  <2>1. /\ s.on \in L /\ s.on \notin Range(B)
        /\ Needs(s.on) \subseteq L \ {s.on} /\ s.on[1] # "vector"
        /\ \A r \in Range(B) : s.on \notin Needs(r)
    BY <1>9 DEF Declared, Owned, Loose, Taken, B, L
  <2>2. t.bound = Append(B, s.on) /\ t.live = L
    BY <1>1, <1>9, AfterParts DEF B, L
  <2>3. \A j \in 1..n : s.on # B[j] /\ s.on \notin Needs(B[j])
    BY <1>6, <2>1
  <2>4. s.on \in T
    BY <1>9
  <2> QED BY <1>1, <1>7, <2>1, <2>2, <2>3, <2>4
<1>10. CASE s.act = "leave"
  <2>1. B # <<>> /\ s.on = Youngest(B)
    BY <1>10 DEF Declared, B
  <2>2. t.bound = Older(B) /\ t.live = L \ {s.on}
    BY <1>1, <1>10, AfterParts DEF B, L
  <2>3. PICK C : C = t.bound
    OBVIOUS
  <2>4. /\ C \in Seq(T) /\ Len(C) = n - 1 /\ Len(C) \in Nat
        /\ \A j \in 1..Len(C) : C[j] = B[j]
        /\ n \in 1..n /\ s.on = B[n]
    BY <1>2, <2>1, <2>2, <2>3, OlderRange DEF n
  <2>5. \A j \in 1..Len(C) : j \in 1..n /\ j # n /\ j < n
    BY <1>2, <2>4
  <2>6. \A j, k \in 1..Len(C) : C[j] = C[k] => j = k
    BY <1>3, <2>4, <2>5
  <2>7. \A j \in 1..Len(C) : C[j] \in t.live /\ C[j][1] # "vector"
    BY <1>3, <1>4, <2>2, <2>4, <2>5
  <2>8. \A j \in 1..Len(C) : ~(n < j)
    BY <2>4, <2>5
  <2>9. \A j \in 1..Len(C) : Needs(C[j]) \subseteq t.live
    BY <1>4, <1>5, <2>2, <2>4, <2>5, <2>8
  <2>10. \A j, k \in 1..Len(C) : C[k] \in Needs(C[j]) => k < j
    BY <1>5, <2>4, <2>5
  <2> QED BY <1>1, <2>3, <2>4, <2>6, <2>7, <2>9, <2>10 DEF InOrder
<1>11. CASE s.act \in {"make", "work"}
  <2>1. t.bound = B /\ L \subseteq t.live
    BY <1>1, <1>11, AfterParts DEF B, L
  <2> QED BY <1>1, <1>2, <1>3, <1>4, <1>5, <2>1 DEF InOrder, n
<1>12. CASE s.act = "drop"
  <2>1. s.on \notin Range(B) /\ \A r \in Range(B) : s.on \notin Needs(r)
    BY <1>12 DEF Declared, Loose, Taken, B
  <2>2. t.bound = B /\ t.live = L \ {s.on}
    BY <1>1, <1>12, AfterParts DEF B, L
  <2>3. \A j \in 1..n : s.on # B[j] /\ s.on \notin Needs(B[j])
    BY <1>6, <2>1
  <2>4. \A j \in 1..n : B[j] \in t.live /\ Needs(B[j]) \subseteq t.live
    BY <1>4, <2>2, <2>3
  <2> QED BY <1>1, <1>2, <1>3, <1>4, <1>5, <2>2, <2>4 DEF InOrder, n
<1> QED BY <1>8, <1>9, <1>10, <1>11, <1>12 DEF Acts

\* What has no owner: only "make" adds to it, only "bind" and "drop" take
\* from it.
LEMMA LooseAfter ==
  ASSUME NEW T, NEW s, NEW st, s.act \in Acts, s.act # "work" => s.on \in T,
         Declared(s, st), InOrder(T, st)
  PROVE  /\ s.act \in {"using", "leave", "work"} => Loose(After(s, st)) = Loose(st)
         /\ s.act = "make" => Loose(After(s, st)) = Loose(st) \cup {s.on}
         /\ s.act \in {"bind", "drop"} => Loose(After(s, st)) = Loose(st) \ {s.on}
<1> DEFINE B == st.bound
           L == st.live
           n == Len(B)
<1>1. PICK t : t = After(s, st)
  OBVIOUS
<1>2. B \in Seq(T) /\ n \in Nat
  BY LenProperties DEF InOrder
<1>3. \A j, k \in 1..n : B[j] = B[k] => j = k
  BY DEF InOrder
<1>4. \A j \in 1..n : B[j] \in L
  BY DEF InOrder
<1>5. Range(B) \subseteq L
  BY <1>2, <1>4, InRange
<1>6. Loose(st) = L \ Range(B) /\ Loose(t) = t.live \ Range(t.bound)
  BY DEF Loose
<1> HIDE DEF B, L, n
<1>7. CASE s.act = "using"
  <2>1. s.on \notin L /\ s.on \in T
    BY <1>7 DEF Declared, L
  <2>2. t.bound = Append(B, s.on) /\ t.live = L \cup {s.on}
    BY <1>1, <1>7, AfterParts DEF B, L
  <2>3. Range(t.bound) = Range(B) \cup {s.on}
    <3>1. PICK e \in T : e = s.on
      BY <2>1
    <3>2. PICK C : C = Append(B, e)
      OBVIOUS
    <3>3. /\ C \in Seq(T) /\ Len(C) = Len(B) + 1
          /\ \A j \in 1..Len(B) : C[j] = B[j]
          /\ C[Len(B) + 1] = e
      BY <1>2, <3>2, BindParts
    <3>4. Range(C) = Range(B) \cup {e}
      BY <1>2, <3>3, BindRange
    <3> QED BY <2>2, <3>1, <3>2, <3>4
  <2>4. Loose(t) = Loose(st)
    BY <1>5, <1>6, <2>1, <2>2, <2>3
  <2> QED BY <1>1, <1>7, <2>4
<1>8. CASE s.act = "make"
  <2>1. s.on \notin L
    BY <1>8 DEF Declared, L
  <2>2. t.bound = B /\ t.live = L \cup {s.on}
    BY <1>1, <1>8, AfterParts DEF B, L
  <2>3. Loose(t) = Loose(st) \cup {s.on}
    BY <1>5, <1>6, <2>1, <2>2
  <2> QED BY <1>1, <1>8, <2>3
<1>9. CASE s.act = "bind"
  <2>1. t.bound = Append(B, s.on) /\ t.live = L
    BY <1>1, <1>9, AfterParts DEF B, L
  <2>2. Range(t.bound) = Range(B) \cup {s.on}
    <3>1. PICK e \in T : e = s.on
      BY <1>9
    <3>2. PICK C : C = Append(B, e)
      OBVIOUS
    <3>3. /\ C \in Seq(T) /\ Len(C) = Len(B) + 1
          /\ \A j \in 1..Len(B) : C[j] = B[j]
          /\ C[Len(B) + 1] = e
      BY <1>2, <3>2, BindParts
    <3>4. Range(C) = Range(B) \cup {e}
      BY <1>2, <3>3, BindRange
    <3> QED BY <2>1, <3>1, <3>2, <3>4
  <2>3. Loose(t) = Loose(st) \ {s.on}
    BY <1>6, <2>1, <2>2
  <2> QED BY <1>1, <1>9, <2>3
<1>10. CASE s.act = "leave"
  <2>1. B # <<>> /\ s.on = Youngest(B)
    BY <1>10 DEF Declared, B
  <2>2. t.bound = Older(B) /\ t.live = L \ {s.on}
    BY <1>1, <1>10, AfterParts DEF B, L
  <2>3. PICK C : C = t.bound
    OBVIOUS
  <2>4. /\ C \in Seq(T) /\ Len(C) = n - 1 /\ Len(C) \in Nat
        /\ \A j \in 1..Len(C) : C[j] = B[j]
        /\ n \in 1..n /\ s.on = B[n]
        /\ Range(B) = Range(C) \cup {s.on}
    BY <1>2, <2>1, <2>2, <2>3, OlderRange DEF n
  <2>5. \A j \in 1..Len(C) : j \in 1..n /\ j # n
    BY <1>2, <2>4
  <2>6. s.on \notin Range(C)
    BY <1>3, <2>4, <2>5, InRange
  <2>7. Loose(t) = Loose(st)
    BY <1>6, <2>2, <2>3, <2>4, <2>6
  <2> QED BY <1>1, <1>10, <2>7
<1>11. CASE s.act = "drop"
  <2>1. t.bound = B /\ t.live = L \ {s.on}
    BY <1>1, <1>11, AfterParts DEF B, L
  <2>2. Loose(t) = Loose(st) \ {s.on}
    BY <1>6, <2>1
  <2> QED BY <1>1, <1>11, <2>2
<1>12. CASE s.act = "work"
  <2>1. t.bound = B /\ t.live = L
    BY <1>1, <1>12, AfterParts DEF B, L
  <2>2. Loose(t) = Loose(st)
    BY <1>6, <2>1
  <2> QED BY <1>1, <1>12, <2>2
<1> QED BY <1>7, <1>8, <1>9, <1>10, <1>11, <1>12 DEF Acts

\* Step j of a block makes the C++ copy of some bytes.
Copies(b, j) == Script[b][j].act = "make" /\ Script[b][j].on[1] = "vector"

\* What may be without an owner before step i of a block.
Accounted(b, i, U) ==
  /\ \A r \in U : r[1] \notin {"output", "pool"}
  /\ \A r \in U : r[1] = "ffi" => r = F /\ b \in Method
  /\ b \in Method => F \in U
  /\ \A r, q \in U : r[1] = "op" /\ q[1] = "op" => r = q
  /\ b \in Method => \A r \in U : r[1] # "key"
  /\ \A r \in U : r[1] = "vector" =>
       \E j \in 1..(i - 1) : Copies(b, j) /\ r = Script[b][j].on

\* A step that obeys the rules keeps the account.
LEMMA AccountedKept ==
  ASSUME NEW T, NEW b, NEW i \in Nat \ {0}, NEW s, s = Script[b][i], NEW st,
         s.act \in Acts, s.act # "work" => s.on \in T,
         Declared(s, st), Owned(s, st, b \in Method), InOrder(T, st),
         Accounted(b, i, Loose(st))
  PROVE  Accounted(b, i + 1, Loose(After(s, st)))
<1> DEFINE U == Loose(st)
           V == Loose(After(s, st))
<1>1. 1..((i + 1) - 1) = 1..(i - 1) \cup {i}
  OBVIOUS
<1>2. F[1] = "ffi"
  BY DEF F
<1>3. CASE s.act \in {"using", "leave", "work"}
  <2>1. V = U
    BY <1>3, LooseAfter
  <2> QED BY <1>1, <2>1 DEF Accounted
<1>4. CASE s.act = "make"
  <2>1. V = U \cup {s.on}
    BY <1>4, LooseAfter
  <2>2. /\ s.on[1] \notin {"ffi", "output", "pool"}
        /\ s.on[1] = "key" => b \notin Method
        /\ s.on[1] = "op" => \A r \in U : r[1] # "op"
    BY <1>4 DEF Owned
  <2>3. Copies(b, i) <=> s.on[1] = "vector"
    BY <1>4 DEF Copies
  <2> HIDE DEF U, V
  <2>4. /\ \A r \in U : r[1] \notin {"output", "pool"}
        /\ \A r \in U : r[1] = "ffi" => r = F /\ b \in Method
        /\ b \in Method => F \in U
        /\ \A r, q \in U : r[1] = "op" /\ q[1] = "op" => r = q
        /\ b \in Method => \A r \in U : r[1] # "key"
    BY DEF Accounted, U
  <2>5. /\ \A r \in V : r[1] \notin {"output", "pool"}
        /\ \A r \in V : r[1] = "ffi" => r = F /\ b \in Method
        /\ b \in Method => F \in V
        /\ \A r, q \in V : r[1] = "op" /\ q[1] = "op" => r = q
        /\ b \in Method => \A r \in V : r[1] # "key"
    BY <2>1, <2>2, <2>4
  <2>6. \A r \in U : r[1] = "vector" =>
            \E j \in 1..(i - 1) : Copies(b, j) /\ r = Script[b][j].on
    BY DEF Accounted, U
  <2>7. \A r \in V : r[1] = "vector" =>
            \E j \in 1..((i + 1) - 1) : Copies(b, j) /\ r = Script[b][j].on
    BY <1>1, <2>1, <2>3, <2>6
  <2> QED BY <2>5, <2>7 DEF Accounted, V
<1>5. CASE s.act \in {"bind", "drop"}
  <2>1. V = U \ {s.on}
    BY <1>5, LooseAfter
  <2>2. s.on[1] \in {"staging", "input", "op", "key"}
    BY <1>5 DEF Owned
  <2>4. /\ \A r \in U : r[1] \notin {"output", "pool"}
        /\ \A r \in U : r[1] = "ffi" => r = F /\ b \in Method
        /\ b \in Method => F \in U
        /\ \A r, q \in U : r[1] = "op" /\ q[1] = "op" => r = q
        /\ b \in Method => \A r \in U : r[1] # "key"
    BY DEF Accounted
  <2>5. \A r \in U : r[1] = "vector" =>
            \E j \in 1..(i - 1) : Copies(b, j) /\ r = Script[b][j].on
    BY DEF Accounted
  <2> HIDE DEF U, V
  <2>7. /\ \A r \in V : r[1] \notin {"output", "pool"}
        /\ \A r \in V : r[1] = "ffi" => r = F /\ b \in Method
        /\ b \in Method => F \in V
        /\ \A r, q \in V : r[1] = "op" /\ q[1] = "op" => r = q
        /\ b \in Method => \A r \in V : r[1] # "key"
    BY <1>2, <2>1, <2>2, <2>4
  <2>8. \A r \in V : r[1] = "vector" =>
            \E j \in 1..((i + 1) - 1) : Copies(b, j) /\ r = Script[b][j].on
    BY <1>1, <2>1, <2>5
  <2> QED BY <2>7, <2>8 DEF Accounted, V
<1> QED BY <1>3, <1>4, <1>5 DEF Acts

-----------------------------------------------------------------------------
(* The blocks.                                                             *)

\* What the steps of a block name.
Names(b) == {Script[b][i].on : i \in 1..Len(Script[b])}

\* The rules, step by step.
LEMMA BlockSteps ==
  ASSUME NEW b \in Block
  PROVE  /\ Len(Script[b]) \in Nat /\ DOMAIN Script[b] = 1..Len(Script[b])
         /\ Plan[b][1] = Fresh(b)
         /\ \A i \in 1..Len(Script[b]) :
              /\ Script[b][i].act \in Acts
              /\ Script[b][i].on \in Names(b)
              /\ Declared(Script[b][i], Plan[b][i])
              /\ Owned(Script[b][i], Plan[b][i], b \in Method)
              /\ Copied(Script[b], i)
              /\ Plan[b][i + 1] = After(Script[b][i], Plan[b][i])
         /\ \A r \in Loose(Plan[b][Len(Script[b]) + 1]) :
              r[1] \notin {"staging", "input", "op", "key"}
BY BlocksWellFormed DEF WellFormed, Names, Acts

\* Before every step, and behind the last, the bindings are in order and
\* what has no owner is accounted for.
LEMMA BlockSound ==
  ASSUME NEW b \in Block
  PROVE  \A i \in 1..(Len(Script[b]) + 1) :
           InOrder(Names(b), Plan[b][i]) /\ Accounted(b, i, Loose(Plan[b][i]))
<1> DEFINE T == Names(b)
           n == Len(Script[b])
           Good(i) == InOrder(T, Plan[b][i]) /\ Accounted(b, i, Loose(Plan[b][i]))
           S == {i \in 1..(n + 1) : Good(i)}
<1>1. n \in Nat
  BY BlockSteps
<1>2. /\ Plan[b][1] = Fresh(b)
      /\ \A i \in 1..n : Plan[b][i + 1] = After(Script[b][i], Plan[b][i])
  BY <1>1, BlockSteps
<1>3. Good(1)
  <2>1. PICK st : st = Fresh(b)
    OBVIOUS
  <2>2. st.bound = <<>> /\ st.live = IF b \in Method THEN {F} ELSE {}
    BY <2>1 DEF Fresh
  <2>3. st.bound \in Seq(T) /\ Len(st.bound) = 0 /\ 1..0 = {} /\ Range(st.bound) = {}
    BY <2>2, EmptySeq DEF Range
  <2>4. InOrder(T, st)
    BY <2>3 DEF InOrder
  <2>5. Loose(st) = IF b \in Method THEN {F} ELSE {}
    BY <2>2, <2>3 DEF Loose
  <2>6. F[1] = "ffi" /\ 1..(1 - 1) = {}
    BY DEF F
  <2>7. Accounted(b, 1, Loose(st))
    BY <2>5, <2>6 DEF Accounted
  <2> QED BY <1>2, <2>1, <2>4, <2>7
<1>4. ASSUME NEW i \in 1..n, Good(i)
      PROVE  Good(i + 1)
  <2>1. PICK s, st : s = Script[b][i] /\ st = Plan[b][i]
    OBVIOUS
  <2>2. /\ s.act \in Acts /\ s.on \in T
        /\ Declared(s, st) /\ Owned(s, st, b \in Method)
    BY <2>1, BlockSteps
  <2>3. InOrder(T, st) /\ Accounted(b, i, Loose(st)) /\ i \in Nat \ {0}
    BY <1>1, <1>4, <2>1
  <2>4. InOrder(T, After(s, st))
    BY <2>2, <2>3, InOrderKept
  <2>5. Accounted(b, i + 1, Loose(After(s, st)))
    BY <2>1, <2>2, <2>3, AccountedKept
  <2> QED BY <1>2, <2>1, <2>4, <2>5
<1> HIDE DEF Good
<1>5. 1 \in S /\ \A i \in 1..n : i \in S => i + 1 \in S
  BY <1>1, <1>3, <1>4
<1> HIDE DEF S
<1>6. \A i \in 1..(n + 1) : i \in S
  BY <1>1, <1>5, Climb
<1> QED BY <1>6 DEF S, Good

-----------------------------------------------------------------------------
(* The invariant: while nothing has thrown, the machine has bound and      *)
(* keeps alive what the plan says; while it unwinds, what is left of that  *)
(* is the older part of the bindings, and what was released with the       *)
(* younger part and with the step that threw is all that is missing.       *)

Gone(b, i, e) == IF e = "throw" THEN Torn(Script[b][i]) ELSE {}

Unwound(b, st, sc, lv, gone) ==
  /\ sc \in Seq(Names(b)) /\ Len(sc) <= Len(st.bound)
  /\ \A j \in 1..Len(sc) : sc[j] = st.bound[j]
  /\ lv = {r \in st.live \ gone : \A j \in (Len(sc) + 1)..Len(st.bound) : r # st.bound[j]}

IdleIsEmpty == call = "none" => pc = 1 /\ ending = "no" /\ scope = <<>> /\ live = {}

BlockRuns ==
  call # "none" =>
    /\ call \in Block /\ pc \in 1..(Len(Script[call]) + 1)
    /\ ending \in {"no", "throw", "return"}
    /\ ending = "throw" => pc \in 1..Len(Script[call]) /\ Step.act \in {"using", "make", "work"}
    /\ ending = "return" => pc = Len(Script[call]) + 1

FollowsThePlan ==
  Running => scope = Plan[call][pc].bound /\ live = Plan[call][pc].live

UnwindsInOrder ==
  ending # "no" => Unwound(call, Plan[call][pc], scope, live, Gone(call, pc, ending))

ScopeInv == IdleIsEmpty /\ BlockRuns /\ FollowsThePlan /\ UnwindsInOrder

\* The invariant holds at first and is kept by every action.
LEMMA ScopeInitInv == ScopeInit => ScopeInv
BY DEF ScopeInit, ScopeInv, IdleIsEmpty, BlockRuns, FollowsThePlan, UnwindsInOrder, Running

\* What is in order before it ends is unwound to its full length.
LEMMA UnwoundStart ==
  ASSUME NEW b, NEW st, NEW gone, InOrder(Names(b), st)
  PROVE  Unwound(b, st, st.bound, st.live \ gone, gone)
<1>1. st.bound \in Seq(Names(b)) /\ Len(st.bound) \in Nat
  BY LenProperties DEF InOrder
<1>2. (Len(st.bound) + 1)..Len(st.bound) = {} /\ Len(st.bound) <= Len(st.bound)
  BY <1>1
<1> QED BY <1>1, <1>2 DEF Unwound

\* Releasing the youngest binding.
LEMMA UnwoundKept ==
  ASSUME NEW b, NEW st, NEW sc, NEW lv, NEW gone, InOrder(Names(b), st),
         Unwound(b, st, sc, lv, gone), sc # <<>>
  PROVE  Unwound(b, st, Older(sc), lv \ {Youngest(sc)}, gone)
<1>1. PICK t, n, m : t = Older(sc) /\ n = Len(sc) /\ m = Len(st.bound)
  OBVIOUS
<1>2. sc \in Seq(Names(b)) /\ n <= m /\ \A j \in 1..n : sc[j] = st.bound[j]
  BY <1>1 DEF Unwound
<1>3. /\ t \in Seq(Names(b)) /\ Len(t) = n - 1 /\ Len(t) \in Nat
      /\ \A j \in 1..Len(t) : t[j] = sc[j]
      /\ n \in 1..n /\ Youngest(sc) = sc[n]
  BY <1>1, <1>2, OlderRange
<1>4. m \in Nat /\ n \in Nat
  BY <1>1, <1>2, LenProperties DEF InOrder
<1>5. Youngest(sc) = st.bound[n]
  BY <1>2, <1>3
<1>6. (Len(t) + 1)..m = {n} \cup ((n + 1)..m)
  BY <1>2, <1>3, <1>4
<1>7. lv = {r \in st.live \ gone : \A j \in (n + 1)..m : r # st.bound[j]}
  BY <1>1 DEF Unwound
<1>8. lv \ {Youngest(sc)} = {r \in st.live \ gone : \A j \in (Len(t) + 1)..m : r # st.bound[j]}
  BY <1>5, <1>6, <1>7
<1>9. \A j \in 1..Len(t) : t[j] = st.bound[j]
  BY <1>2, <1>3, <1>4
<1>10. Len(t) <= m
  BY <1>2, <1>3, <1>4
<1> QED BY <1>1, <1>3, <1>8, <1>9, <1>10 DEF Unwound

LEMMA ScopeNextInv == ScopeInv /\ [ScopeNext]_scopeVars => ScopeInv'
<1> SUFFICES ASSUME ScopeInv, [ScopeNext]_scopeVars PROVE ScopeInv'
  OBVIOUS
<1> DEFINE n == Len(Script[call])
           st == Plan[call][pc]
<1>1. "none" \notin Block
  BY BlocksWellFormed
\* A step of the block that ends normally.
<1>2. ASSUME Running, pc \in 1..n, call' = call, pc' = pc + 1, ending' = ending,
             scope' = After(Step, st).bound, live' = After(Step, st).live
      PROVE  ScopeInv'
  <2>1. call \in Block /\ n \in Nat /\ ending = "no" /\ call # "none"
    BY <1>2, BlockSteps DEF ScopeInv, BlockRuns, Running
  <2>2. Plan[call][pc + 1] = After(Step, st)
    BY <1>2, <2>1, BlockSteps DEF Step
  <2>3. pc + 1 \in 1..(n + 1)
    BY <1>2, <2>1
  <2>4. BlockRuns'
    BY <1>2, <2>1, <2>3 DEF BlockRuns
  <2>5. FollowsThePlan'
    BY <1>2, <2>2 DEF FollowsThePlan
  <2>6. IdleIsEmpty' /\ UnwindsInOrder'
    BY <1>2, <2>1 DEF IdleIsEmpty, UnwindsInOrder
  <2> QED BY <2>4, <2>5, <2>6 DEF ScopeInv
<1>3. ASSUME NEW act, AtStep(act)
      PROVE  /\ Running /\ pc \in 1..n /\ Step.act = act /\ call \in Block
             /\ scope = st.bound /\ live = st.live
             /\ Declared(Step, st) /\ InOrder(Names(call), st)
  <2>1. Running /\ pc <= n /\ Step.act = act /\ call # "none"
    BY <1>3 DEF AtStep, Running
  <2>2. call \in Block /\ pc \in 1..(n + 1)
    BY <2>1 DEF ScopeInv, BlockRuns
  <2>3. n \in Nat
    BY <2>2, BlockSteps
  <2>4. pc \in 1..n
    BY <2>1, <2>2, <2>3
  <2>5. scope = st.bound /\ live = st.live
    BY <2>1 DEF ScopeInv, FollowsThePlan
  <2>6. Declared(Step, st)
    BY <2>2, <2>4, BlockSteps DEF Step
  <2>7. InOrder(Names(call), st)
    BY <2>2, BlockSound
  <2> QED BY <2>1, <2>2, <2>4, <2>5, <2>6, <2>7
<1>4. ASSUME NEW b \in Block, Begin(b)
      PROVE  ScopeInv'
  <2>1. /\ call = "none" /\ call' = b /\ pc' = 1 /\ scope' = scope /\ ending' = ending
        /\ live' = IF b \in Method THEN {F} ELSE {}
    BY <1>4 DEF Begin
  <2>2. scope = <<>> /\ ending = "no"
    BY <2>1 DEF ScopeInv, IdleIsEmpty
  <2>3. Len(Script[b]) \in Nat
    BY BlockSteps
  <2>4. Plan[b][1] = Fresh(b)
    BY <2>3, BlockSteps
  <2>5. 1 \in 1..(Len(Script[b]) + 1)
    BY <2>3
  <2>6. BlockRuns'
    BY <2>1, <2>2, <2>5 DEF BlockRuns
  <2>7. FollowsThePlan'
    BY <2>1, <2>2, <2>4 DEF FollowsThePlan, Fresh
  <2>8. IdleIsEmpty' /\ UnwindsInOrder'
    BY <1>1, <2>1, <2>2 DEF IdleIsEmpty, UnwindsInOrder
  <2> QED BY <2>6, <2>7, <2>8 DEF ScopeInv
<1>5. CASE Allocate
  <2>1. AtStep("using") \/ AtStep("make")
    BY <1>5 DEF Allocate
  <2>2. /\ Running /\ pc \in 1..n /\ Step.act \in {"using", "make"}
        /\ scope = st.bound /\ live = st.live
    BY <1>3, <2>1
  <2>3. /\ call' = call /\ pc' = pc + 1 /\ ending' = ending
        /\ live' = live \cup {Step.on}
        /\ scope' = IF Step.act = "using" THEN Append(scope, Step.on) ELSE scope
    BY <1>5 DEF Allocate, Advance
  <2> HIDE DEF st
  <2>4. scope' = After(Step, st).bound /\ live' = After(Step, st).live
    BY <2>2, <2>3, AfterParts
  <2> USE DEF st
  <2> QED BY <1>2, <2>2, <2>3, <2>4
<1>6. CASE Own
  <2>1. Running /\ pc \in 1..n /\ Step.act = "bind" /\ scope = st.bound /\ live = st.live
    BY <1>3, <1>6 DEF Own
  <2>2. /\ call' = call /\ pc' = pc + 1 /\ ending' = ending
        /\ live' = live /\ scope' = Append(scope, Step.on)
    BY <1>6 DEF Own, Advance
  <2> HIDE DEF st
  <2>3. scope' = After(Step, st).bound /\ live' = After(Step, st).live
    BY <2>1, <2>2, AfterParts
  <2> USE DEF st
  <2> QED BY <1>2, <2>1, <2>2, <2>3
<1>7. CASE LeaveBlock
  <2>1. /\ Running /\ pc \in 1..n /\ Step.act = "leave" /\ scope = st.bound /\ live = st.live
        /\ Declared(Step, st)
    BY <1>3, <1>7 DEF LeaveBlock
  <2>2. Step.on = Youngest(st.bound)
    BY <2>1 DEF Declared
  <2>3. /\ call' = call /\ pc' = pc + 1 /\ ending' = ending
        /\ live' = live \ {Youngest(scope)} /\ scope' = Older(scope)
    BY <1>7 DEF LeaveBlock, Advance
  <2> HIDE DEF st
  <2>4. scope' = After(Step, st).bound /\ live' = After(Step, st).live
    BY <2>1, <2>2, <2>3, AfterParts
  <2> USE DEF st
  <2> QED BY <1>2, <2>1, <2>3, <2>4
<1>8. CASE Discard
  <2>1. Running /\ pc \in 1..n /\ Step.act = "drop" /\ scope = st.bound /\ live = st.live
    BY <1>3, <1>8 DEF Discard
  <2>2. /\ call' = call /\ pc' = pc + 1 /\ ending' = ending
        /\ live' = live \ {Step.on} /\ scope' = scope
    BY <1>8 DEF Discard, Advance
  <2> HIDE DEF st
  <2>3. scope' = After(Step, st).bound /\ live' = After(Step, st).live
    BY <2>1, <2>2, AfterParts
  <2> USE DEF st
  <2> QED BY <1>2, <2>1, <2>2, <2>3
<1>9. CASE WorkNatively
  <2>1. Running /\ pc \in 1..n /\ Step.act = "work" /\ scope = st.bound /\ live = st.live
    BY <1>3, <1>9 DEF WorkNatively
  <2>2. /\ call' = call /\ pc' = pc + 1 /\ ending' = ending
        /\ live' = live /\ scope' = scope
    BY <1>9 DEF WorkNatively, Advance
  <2> HIDE DEF st
  <2>3. scope' = After(Step, st).bound /\ live' = After(Step, st).live
    BY <2>1, <2>2, AfterParts
  <2> USE DEF st
  <2> QED BY <1>2, <2>1, <2>2, <2>3
<1>10. CASE Throw
  <2>1. AtStep("using") \/ AtStep("make") \/ AtStep("work")
    BY <1>10 DEF Throw
  <2>2. /\ Running /\ pc \in 1..n /\ Step.act \in {"using", "make", "work"} /\ call \in Block
        /\ scope = st.bound /\ live = st.live /\ InOrder(Names(call), st)
    BY <1>3, <2>1
  <2>3. /\ call' = call /\ pc' = pc /\ ending' = "throw" /\ scope' = scope
        /\ live' = live \ Torn(Step)
    BY <1>10 DEF Throw
  <2>4. Step' = Step
    BY <2>3 DEF Step
  <2>5. BlockRuns'
    BY <2>2, <2>3, <2>4 DEF BlockRuns, ScopeInv, Running
  <2>6. Gone(call', pc', ending') = Torn(Step)
    BY <2>3 DEF Gone, Step
  <2>7. Unwound(call, st, st.bound, st.live \ Torn(Step), Torn(Step))
    BY <2>2, UnwoundStart
  <2>8. UnwindsInOrder'
    BY <2>2, <2>3, <2>6, <2>7 DEF UnwindsInOrder
  <2>9. IdleIsEmpty' /\ FollowsThePlan'
    BY <2>2, <2>3 DEF IdleIsEmpty, FollowsThePlan, Running
  <2> QED BY <2>5, <2>8, <2>9 DEF ScopeInv
<1>11. CASE ReturnValue
  <2>1. /\ Running /\ pc > n
        /\ call' = call /\ pc' = pc /\ ending' = "return" /\ scope' = scope /\ live' = live
    BY <1>11 DEF ReturnValue
  <2>2. call # "none" /\ call \in Block /\ pc \in 1..(n + 1)
    BY <2>1 DEF ScopeInv, BlockRuns, Running
  <2>3. n \in Nat
    BY <2>2, BlockSteps
  <2>4. pc = n + 1
    BY <2>1, <2>2, <2>3
  <2>5. scope = st.bound /\ live = st.live
    BY <2>1 DEF ScopeInv, FollowsThePlan
  <2>6. InOrder(Names(call), st)
    BY <2>2, BlockSound
  <2>7. BlockRuns'
    BY <2>1, <2>2, <2>4 DEF BlockRuns
  <2>8. Gone(call', pc', ending') = {}
    BY <2>1 DEF Gone
  <2>9. Unwound(call, st, st.bound, st.live \ {}, {}) /\ st.live \ {} = st.live
    BY <2>6, UnwoundStart
  <2>10. UnwindsInOrder'
    BY <2>1, <2>5, <2>8, <2>9 DEF UnwindsInOrder
  <2>11. IdleIsEmpty' /\ FollowsThePlan'
    BY <2>1, <2>2 DEF IdleIsEmpty, FollowsThePlan, Running
  <2> QED BY <2>7, <2>10, <2>11 DEF ScopeInv
<1>12. CASE Unwind
  <2>1. /\ ending # "no" /\ scope # <<>>
        /\ live' = live \ {Youngest(scope)} /\ scope' = Older(scope)
        /\ call' = call /\ pc' = pc /\ ending' = ending
    BY <1>12 DEF Unwind
  <2>2. call # "none" /\ call \in Block /\ pc \in 1..(n + 1)
    BY <2>1 DEF ScopeInv, IdleIsEmpty, BlockRuns
  <2>3. InOrder(Names(call), st)
    BY <2>2, BlockSound
  <2>4. Unwound(call, st, scope, live, Gone(call, pc, ending))
    BY <2>1 DEF ScopeInv, UnwindsInOrder
  <2>5. Unwound(call, st, Older(scope), live \ {Youngest(scope)}, Gone(call, pc, ending))
    BY <2>1, <2>3, <2>4, UnwoundKept
  <2>6. UnwindsInOrder'
    BY <2>1, <2>5 DEF UnwindsInOrder
  <2>7. Step' = Step
    BY <2>1 DEF Step
  <2>8. BlockRuns'
    BY <2>1, <2>7 DEF ScopeInv, BlockRuns
  <2>9. IdleIsEmpty' /\ FollowsThePlan'
    BY <2>1, <2>2 DEF IdleIsEmpty, FollowsThePlan, Running
  <2> QED BY <2>6, <2>8, <2>9 DEF ScopeInv
<1>13. CASE Settle
  BY <1>13 DEF Settle, ScopeInv, IdleIsEmpty, BlockRuns, FollowsThePlan, UnwindsInOrder, Running
<1>14. CASE UNCHANGED scopeVars
  <2>1. call' = call /\ pc' = pc /\ scope' = scope /\ live' = live /\ ending' = ending
    BY <1>14 DEF scopeVars
  <2>2. Step' = Step /\ Running' = Running
    BY <2>1 DEF Step, Running
  <2> QED BY <2>1, <2>2 DEF ScopeInv, IdleIsEmpty, BlockRuns, FollowsThePlan, UnwindsInOrder
<1> QED BY <1>4, <1>5, <1>6, <1>7, <1>8, <1>9, <1>10, <1>11, <1>12, <1>13, <1>14 DEF ScopeNext

-----------------------------------------------------------------------------
(* What the invariant says of the native resources.                        *)

\* A sequence without repetitions has as many elements as places.
LEMMA DistinctCount ==
  ASSUME NEW T, NEW s \in Seq(T), \A j, k \in 1..Len(s) : s[j] = s[k] => j = k
  PROVE  Cardinality(Range(s)) = Len(s)
<1>1. Len(s) \in Nat /\ DOMAIN s = 1..Len(s) /\ s = [j \in 1..Len(s) |-> s[j]]
  BY LenProperties
<1>2. PICK n \in Nat : n = Len(s)
  BY <1>1
<1>3. s \in [1..n -> Range(s)]
  BY <1>1, <1>2 DEF Range
<1>4. s \in Injection(1..n, Range(s))
  BY <1>1, <1>2, <1>3 DEF Injection, IsInjective
<1>5. s \in Surjection(1..n, Range(s))
  BY <1>1, <1>2, <1>3 DEF Surjection, Range
<1>6. ExistsBijection(1..n, Range(s))
  BY <1>4, <1>5 DEF ExistsBijection, Bijection
<1>7. IsFiniteSet(1..n) /\ Cardinality(1..n) = n
  BY FS_Interval
<1> QED BY <1>2, <1>6, <1>7, FS_Bijection

\* What may be missing while a block unwinds: C++ copies nobody refers to.
LEMMA UnwoundIsSafe ==
  ASSUME NEW b, NEW st, NEW sc, NEW lv, NEW gone, InOrder(Names(b), st),
         Unwound(b, st, sc, lv, gone),
         \A r \in gone : r[1] = "vector" /\ ~Taken(r, st)
  PROVE  /\ Range(sc) \subseteq lv /\ Cardinality(Range(sc)) = Len(sc)
         /\ \A r \in Range(sc) : Needs(r) \subseteq lv
<1>1. PICK B, L, n, m : B = st.bound /\ L = st.live /\ n = Len(sc) /\ m = Len(st.bound)
  OBVIOUS
<1>2. /\ sc \in Seq(Names(b)) /\ n <= m /\ \A j \in 1..n : sc[j] = B[j]
      /\ lv = {r \in L \ gone : \A j \in (n + 1)..m : r # B[j]}
  BY <1>1 DEF Unwound
<1>3. /\ B \in Seq(Names(b))
      /\ \A j, k \in 1..m : B[j] = B[k] => j = k
      /\ \A j \in 1..m : B[j] \in L /\ B[j][1] # "vector"
      /\ \A j \in 1..m : Needs(B[j]) \subseteq L
      /\ \A j, k \in 1..m : B[k] \in Needs(B[j]) => k < j
  BY <1>1 DEF InOrder
<1>4. m \in Nat /\ n \in Nat
  BY <1>1, <1>2, <1>3, LenProperties
<1>5. \A j \in 1..n : j \in 1..m
  BY <1>2, <1>4
<1>6. \A j \in 1..n, k \in (n + 1)..m : k \in 1..m /\ j # k /\ ~(k < j)
  BY <1>2, <1>4
<1>7. \A r : r \in Range(sc) <=> \E j \in 1..n : r = sc[j]
  BY <1>1, <1>2, InRange
<1>8. \A r \in gone, j \in 1..m : r \notin Needs(B[j])
  <2>1. \A j \in 1..m : B[j] \in Range(st.bound)
    BY <1>1, <1>3, InRange
  <2> QED BY <2>1 DEF Taken
<1>9. ASSUME NEW j \in 1..n PROVE sc[j] \in lv /\ Needs(sc[j]) \subseteq lv
  <2>1. sc[j] = B[j] /\ j \in 1..m
    BY <1>2, <1>5
  <2>2. B[j] \in L /\ B[j] \notin gone /\ Needs(B[j]) \subseteq L
    BY <1>3, <2>1
  <2>3. \A k \in (n + 1)..m : B[j] # B[k]
    BY <1>3, <1>6, <2>1
  <2>4. \A k \in (n + 1)..m : B[k] \notin Needs(B[j])
    BY <1>3, <1>6, <2>1
  <2>5. \A r \in Needs(B[j]) : r \in L /\ r \notin gone /\ \A k \in (n + 1)..m : r # B[k]
    BY <1>8, <2>1, <2>2, <2>4
  <2> QED BY <1>2, <2>1, <2>2, <2>3, <2>5
<1>10. \A j, k \in 1..n : sc[j] = sc[k] => j = k
  BY <1>2, <1>3, <1>5
<1>11. Cardinality(Range(sc)) = Len(sc)
  BY <1>1, <1>2, <1>10, DistinctCount
<1> QED BY <1>7, <1>9, <1>11

\* The invariant implies the first property of the run ...
LEMMA InvNothingDangles == ScopeInv => NothingDangles
<1> SUFFICES ASSUME ScopeInv PROVE NothingDangles
  OBVIOUS
<1> DEFINE st == Plan[call][pc]
           gone == Gone(call, pc, ending)
<1>1. CASE call = "none"
  <2>1. scope = <<>> /\ live = {} /\ ~Running
    BY <1>1 DEF ScopeInv, IdleIsEmpty, Running
  <2>2. Range(<<>>) = {} /\ Len(<<>>) = 0
    BY DEF Range
  <2>3. Cardinality({}) = 0
    BY FS_EmptySet
  <2> QED BY <2>1, <2>2, <2>3 DEF NothingDangles, Bound, AtStep
<1>2. CASE call # "none"
  <2>1. call \in Block /\ pc \in 1..(Len(Script[call]) + 1)
    BY <1>2 DEF ScopeInv, BlockRuns
  <2>2. InOrder(Names(call), st)
    BY <2>1, BlockSound
  <2>3. ASSUME NEW r \in gone PROVE r[1] = "vector" /\ ~Taken(r, st)
    <3>1. /\ ending = "throw" /\ Step.act = "make" /\ Step.on[1] = "input"
          /\ r = <<"vector", Step.on[2]>>
      BY <2>3 DEF Gone, Torn, Step
    <3>2. pc \in 1..Len(Script[call])
      BY <1>2, <3>1 DEF ScopeInv, BlockRuns
    <3>3. Declared(Step, st)
      BY <2>1, <3>2, BlockSteps DEF Step
    <3>4. ~Taken(<<"vector", Step.on[2]>>, st)
      BY <3>1, <3>3 DEF Declared
    <3> QED BY <3>1, <3>4
  <2>4. Unwound(call, st, scope, live, gone)
    <3>1. CASE ending # "no"
      BY <3>1 DEF ScopeInv, UnwindsInOrder
    <3>2. CASE ending = "no"
      <4>1. scope = st.bound /\ live = st.live /\ gone = {}
        BY <1>2, <3>2 DEF ScopeInv, FollowsThePlan, Running, Gone
      <4>2. Unwound(call, st, st.bound, st.live \ {}, {}) /\ st.live \ {} = st.live
        BY <2>2, UnwoundStart
      <4> QED BY <4>1, <4>2
    <3> QED BY <3>1, <3>2
  <2>5. /\ Bound \subseteq live /\ Cardinality(Bound) = Len(scope)
        /\ \A r \in Bound : Needs(r) \subseteq live
    <3> HIDE DEF st, gone
    <3> QED BY <2>2, <2>3, <2>4, UnwoundIsSafe DEF Bound
  <2>6. ASSUME AtStep("work")
        PROVE  \A r \in Step.on : r \in live /\ Needs(r) \subseteq live
    <3>1. Running /\ pc <= Len(Script[call]) /\ Step.act = "work"
      BY <2>6 DEF AtStep
    <3>2. pc \in 1..Len(Script[call])
      BY <2>1, <3>1, BlockSteps
    <3>3. Declared(Step, st)
      BY <2>1, <3>2, BlockSteps DEF Step
    <3>4. live = st.live
      BY <3>1 DEF ScopeInv, FollowsThePlan
    <3> QED BY <3>1, <3>3, <3>4 DEF Declared
  <2> QED BY <2>5, <2>6 DEF NothingDangles
<1> QED BY <1>1, <1>2

\* The copies without an owner are those of inputs of the block.
LEMMA CopiesOfInputs ==
  ASSUME NEW b \in Block, NEW i \in 1..(Len(Script[b]) + 1), NEW U,
         Accounted(b, i, U)
  PROVE  \A r \in U : r[1] = "vector" => r[2] \in Inputs(b)
<1> DEFINE n == Len(Script[b])
<1>1. n \in Nat /\ DOMAIN Script[b] = 1..n /\ \A j \in 1..n : Copied(Script[b], j)
  BY BlockSteps
<1>2. \A j \in 1..(i - 1) : j \in 1..n
  BY <1>1
<1>3. \A v : v \in Inputs(b) <=>
        \E j \in 1..n : Script[b][j].act = "make" /\ Script[b][j].on[1] = "input"
                        /\ v = Script[b][j].on[2]
  BY <1>1 DEF Inputs, Range
<1>4. ASSUME NEW r \in U, r[1] = "vector" PROVE r[2] \in Inputs(b)
  <2>1. PICK j \in 1..n : Copies(b, j) /\ r = Script[b][j].on
    BY <1>2, <1>4 DEF Accounted
  <2>2. /\ j < n /\ Script[b][j + 1].act = "make"
        /\ Script[b][j + 1].on = <<"input", Script[b][j].on[2]>>
    BY <1>1, <2>1 DEF Copied, Copies
  <2>3. j + 1 \in 1..n
    BY <1>1, <2>2
  <2> QED BY <1>3, <2>1, <2>2, <2>3
<1> QED BY <1>4

\* ... and the second.
LEMMA InvCallsReclaim == ScopeInv => CallsReclaim
<1> SUFFICES ASSUME ScopeInv, ending # "no", scope = <<>>
             PROVE  /\ \A kind \in {"input", "output", "pool"} : Left(kind) = {}
                    /\ Left("ffi") = IF call \in Method THEN {F} ELSE {}
                    /\ \A r \in Left("staging") :
                         ending = "throw" /\ Step.act = "work" /\ Step.on = {r}
                    /\ Cardinality(Left("op")) <= 1
                    /\ ending = "return" => Left("op") \cup Left("key") = {}
                    /\ call \in Method => Left("key") = {}
                    /\ {r[2] : r \in Left("vector")} \subseteq Inputs(call)
  BY DEF CallsReclaim
<1> DEFINE n == Len(Script[call])
           st == Plan[call][pc]
           gone == Gone(call, pc, ending)
           U == Loose(st)
<1>1. /\ call \in Block /\ pc \in 1..(n + 1) /\ ending \in {"throw", "return"}
      /\ ending = "throw" => pc \in 1..n /\ Step.act \in {"using", "make", "work"}
      /\ ending = "return" => pc = n + 1
  BY DEF ScopeInv, IdleIsEmpty, BlockRuns
<1>2. InOrder(Names(call), st) /\ Accounted(call, pc, U)
  BY <1>1, BlockSound
<1>3. live = U \ gone
  <2>1. Unwound(call, st, scope, live, gone)
    BY DEF ScopeInv, UnwindsInOrder
  <2>2. live = {r \in st.live \ gone : \A j \in 1..Len(st.bound) : r # st.bound[j]}
    <3>1. Len(scope) = 0 /\ 0 + 1 = 1
      OBVIOUS
    <3> QED BY <2>1, <3>1 DEF Unwound
  <2>3. \A r : r \in Range(st.bound) <=> \E j \in 1..Len(st.bound) : r = st.bound[j]
    BY <1>2, InRange DEF InOrder
  <2> QED BY <2>2, <2>3 DEF Loose
<1>4. \A r \in gone : r[1] = "vector"
  BY DEF Gone, Torn
<1>5. \A r \in U : r[1] # "input"
  <2>1. CASE ending = "throw"
    <3>1. pc \in 1..n /\ Step.act \in {"using", "make", "work"}
      BY <1>1, <2>1
    <3>2. Owned(Step, st, call \in Method)
      BY <1>1, <3>1, BlockSteps DEF Step
    <3> QED BY <3>1, <3>2 DEF Owned
  <2>2. CASE ending = "return"
    BY <1>1, <2>2, BlockSteps
  <2> QED BY <1>1, <2>1, <2>2
<1>5b. ASSUME NEW r \in U, r[1] = "staging"
       PROVE  ending = "throw" /\ Step.act = "work" /\ Step.on = {r}
  <2>1. ending = "throw"
    BY <1>1, <1>5b, BlockSteps
  <2>2. pc \in 1..n /\ Step.act \in {"using", "make", "work"}
    BY <1>1, <2>1
  <2>3. Owned(Step, st, call \in Method)
    BY <1>1, <2>2, BlockSteps DEF Step
  <2> QED BY <1>5b, <2>1, <2>2, <2>3 DEF Owned
<1>6. /\ \A r \in U : r[1] \notin {"output", "pool"}
      /\ \A r \in U : r[1] = "ffi" => r = F /\ call \in Method
      /\ call \in Method => F \in U
      /\ \A r, q \in U : r[1] = "op" /\ q[1] = "op" => r = q
      /\ call \in Method => \A r \in U : r[1] # "key"
  BY <1>2 DEF Accounted
<1> HIDE DEF U, gone
<1>7. \A kind \in {"input", "output", "pool"} : Left(kind) = {}
  <2>1. \A r \in U : r[1] \notin {"input", "output", "pool"}
    BY <1>5, <1>6
  <2> QED BY <1>3, <2>1 DEF Left
<1>8. Left("ffi") = IF call \in Method THEN {F} ELSE {}
  <2>1. F[1] = "ffi"
    BY DEF F
  <2> QED BY <1>3, <1>4, <1>6, <2>1 DEF Left
<1>9. Cardinality(Left("op")) <= 1
  <2>1. \A r, q \in Left("op") : r = q
    BY <1>3, <1>6 DEF Left
  <2>2. CASE Left("op") = {}
    BY <2>2, FS_EmptySet
  <2>3. CASE Left("op") # {}
    <3>1. PICK r : Left("op") = {r}
      BY <2>1, <2>3
    <3>2. Cardinality({r}) = 1
      BY FS_Singleton
    <3>3. Cardinality(Left("op")) = 1
      BY Zenon, <3>1, <3>2
    <3> QED BY <3>3
  <2> QED BY <2>2, <2>3
<1>10. ending = "return" => Left("op") \cup Left("key") = {}
  <2>1. ending = "return" => \A r \in U : r[1] \notin {"op", "key"}
    BY <1>1, BlockSteps DEF U
  <2> QED BY <1>3, <2>1 DEF Left
<1>11. call \in Method => Left("key") = {}
  BY <1>3, <1>6 DEF Left
<1>12. \A r \in Left("staging") :
         ending = "throw" /\ Step.act = "work" /\ Step.on = {r}
  BY <1>3, <1>5b DEF Left
<1>13. {r[2] : r \in Left("vector")} \subseteq Inputs(call)
  <2>1. \A r \in U : r[1] = "vector" => r[2] \in Inputs(call)
    BY <1>1, <1>2, CopiesOfInputs DEF U
  <2> QED BY <1>3, <2>1 DEF Left
<1> QED BY <1>7, <1>8, <1>9, <1>10, <1>11, <1>12, <1>13

(***************************************************************************)
(* Whatever block runs and whichever of its steps throws, nothing is       *)
(* released before what refers to it, nothing twice, and native work finds *)
(* what it works on: `using` and try/finally unwind every block that is    *)
(* well formed when nothing throws.                                        *)
(***************************************************************************)
THEOREM NeverDangling == ScopeSpec => []NothingDangles
<1>1. ScopeInv /\ [ScopeNext]_scopeVars => ScopeInv'
  BY ScopeNextInv
<1> QED BY <1>1, ScopeInitInv, InvNothingDangles, PTL DEF ScopeSpec

(***************************************************************************)
(* What a block that has unwound leaves on the heap at most, for every     *)
(* well-formed block and every step that may throw: no input, output, pool *)
(* or foreign FFI, a staging copy only if the copying into it threw, one   *)
(* operation and, of a program, keys only after an exception.              *)
(***************************************************************************)
THEOREM BlocksReclaim == ScopeSpec => []CallsReclaim
<1>1. ScopeInv /\ [ScopeNext]_scopeVars => ScopeInv'
  BY ScopeNextInv
<1> QED BY <1>1, ScopeInitInv, InvCallsReclaim, PTL DEF ScopeSpec
=============================================================================
