---------------------- MODULE ProviderRegistry_proofs ----------------------
(***************************************************************************)
(* Theorems about the provider registry, for any number of Ffi objects,    *)
(* addresses and closures and any depth of re-entrancy.  The invariant is  *)
(*                                                                         *)
(*   IInv == TypeOK /\ RegistryInStep /\ EntriesOwned /\ FramesLinked      *)
(*           /\ LockedByCopy                                               *)
(*                                                                         *)
(* That a question is answered by the right closure takes two facts: the  *)
(* entry of a live address was set by the Ffi that lives there, because    *)
(* reset() drops the entry before the address can be used again, and it is *)
(* the entry that is copied.  Once copied, the closure is what it was      *)
(* whatever the map becomes.  An operation whose Ffi was destroyed under   *)
(* it is covered by the invariant, and by nothing that AnsweredByOwn says. *)
(* The references are Counted on top of it: each step adds or drops one    *)
(* entry or one copy, and the count with it.                               *)
(***************************************************************************)
EXTENDS ProviderRegistry, SequenceTheorems, FiniteSetTheorems, TLAPS

\* The registry's entry for a live address was set by the Ffi that has it.
EntriesOwned ==
  \A a \in DOMAIN password : \A f \in Ffi :
    addr[f] = a => maker[password[a]] = f

\* A callback's frame is on top of the operation that asked.
FramesLinked ==
  \A i \in 1..Len(stack) :
    stack[i].kind \in {"copy", "js"} =>
      i - 1 \in 1..Len(stack) /\ stack[i - 1].kind = "op"

\* The mutex is held only while call_password() copies a closure.
LockedByCopy == mutex => stack # <<>> /\ Top.kind = "copy"

IInv ==
  /\ TypeOK
  /\ RegistryInStep
  /\ EntriesOwned
  /\ FramesLinked
  /\ LockedByCopy

-----------------------------------------------------------------------------
\* The stack without its top.
LEMMA Popped ==
  ASSUME NEW S, NEW s \in Seq(S), s # <<>>
  PROVE  LET t == SubSeq(s, 1, Len(s) - 1) IN
         /\ t \in Seq(S)
         /\ Len(t) = Len(s) - 1
         /\ \A i \in 1..Len(t) : t[i] = s[i]
         /\ Len(s) \in 1..Len(s)
         /\ s[Len(s)] \in S
<1> DEFINE n == Len(s) - 1
<1>1. n \in Nat /\ Len(s) \in Nat
  BY EmptySeq, LenProperties
<1>2. \A i \in 1..Len(s) : s[i] \in S
  BY <1>1, ElementOfSeq
<1> HIDE DEF n
<1> DEFINE t == SubSeq(s, 1, n)
<1>3. /\ t \in Seq(S)
      /\ Len(t) = IF 1 <= n THEN n-1+1 ELSE 0
      /\ \A i \in 1..n-1+1 : t[i] = s[1+i-1]
  BY <1>1, <1>2, SubSeqProperties DEF n
<1>4. Len(t) = n /\ \A i \in 1..Len(t) : t[i] = s[i]
  BY <1>1, <1>3
<1>5. Len(s) \in 1..Len(s) /\ s[Len(s)] \in S
  BY <1>1, <1>2 DEF n
<1> QED BY <1>3, <1>4, <1>5 DEF n

\* The stack with one more frame.
LEMMA Pushed ==
  ASSUME NEW S, NEW s \in Seq(S), NEW x \in S
  PROVE  LET t == Append(s, x) IN
         /\ t \in Seq(S)
         /\ Len(t) = Len(s) + 1
         /\ \A i \in 1..Len(s) : t[i] = s[i]
         /\ t[Len(s) + 1] = x
         /\ Len(s) \in Nat
BY AppendProperties, LenProperties

\* The stack with another frame on top.
LEMMA Topped ==
  ASSUME NEW S, NEW s \in Seq(S), s # <<>>, NEW x \in S
  PROVE  LET t == Append(SubSeq(s, 1, Len(s) - 1), x) IN
         /\ t \in Seq(S)
         /\ Len(t) = Len(s)
         /\ \A i \in 1..Len(s) - 1 : t[i] = s[i]
         /\ t[Len(s)] = x
         /\ Len(s) \in Nat \ {0}
<1> DEFINE u == SubSeq(s, 1, Len(s) - 1)
<1>1. /\ u \in Seq(S)
      /\ Len(u) = Len(s) - 1
      /\ \A i \in 1..Len(u) : u[i] = s[i]
      /\ Len(s) \in 1..Len(s)
  BY Popped
<1>2. Len(s) \in Nat
  BY LenProperties
<1> HIDE DEF u
<1>3. LET t == Append(u, x) IN
         /\ t \in Seq(S)
         /\ Len(t) = Len(u) + 1
         /\ \A i \in 1..Len(u) : t[i] = u[i]
         /\ t[Len(u) + 1] = x
  BY <1>1, Pushed
<1>4. LET t == Append(u, x) IN
         /\ t \in Seq(S)
         /\ Len(t) = Len(s)
         /\ \A i \in 1..Len(s) - 1 : t[i] = s[i]
         /\ t[Len(s)] = x
         /\ Len(s) \in Nat \ {0}
  BY <1>1, <1>2, <1>3
<1> QED BY <1>4 DEF u

\* What a frame is, by its kind.
LEMMA Kinds ==
  \A x \in Frame : /\ x.kind \in {"op", "copy", "js"}
                   /\ x.kind = "op" => x \in OpFrame
                   /\ x.kind # "op" => x \in JsFrame
                   /\ x.ffi \in Ffi
BY DEF Frame, OpFrame, JsFrame

-----------------------------------------------------------------------------
\* Where application code runs the mutex is free.
LEMMA Unlocked ==
  ASSUME LockedByCopy, ScriptRuns
  PROVE  mutex => FALSE
BY DEF LockedByCopy, ScriptRuns

LEMMA InitIInv == Init => IInv
<1> SUFFICES ASSUME Init PROVE IInv
  OBVIOUS
<1>1. stack = <<>> /\ Len(stack) = 0 /\ stack \in Seq(Frame) /\ ~mutex
  BY EmptySeq DEF Init
<1>2. DOMAIN password = {}
  BY DEF Init
<1>3. TypeOK
  <2>1. /\ addr \in [Ffi -> Address \cup {Null}] /\ hook = {} /\ keyed = {}
        /\ maker \in [Closure -> Ffi \cup {Null}] /\ refs \in [Closure -> Int]
    BY DEF Init
  <2>3. mutex \in BOOLEAN
    BY DEF Init
  <2>2. Len(stack) <= MaxDepth
    BY <1>1, ProviderAssumption
  <2> QED BY <1>1, <1>2, <2>1, <2>2, <2>3 DEF TypeOK
<1>4. RegistryInStep
  BY <1>2 DEF Init, RegistryInStep, Live
<1>5. EntriesOwned /\ FramesLinked /\ LockedByCopy
  BY <1>1, <1>2 DEF EntriesOwned, FramesLinked, LockedByCopy
<1> QED BY <1>3, <1>4, <1>5 DEF IInv

\* A new Ffi takes an address nobody has and the registry does not know.
LEMMA StepCreateFfi ==
  ASSUME IInv, NEW f \in Ffi, CreateFfi(f)
  PROVE  IInv'
<1>1. PICK a \in Address \ {addr[g] : g \in Live} : addr' = [addr EXCEPT ![f] = a]
  BY DEF CreateFfi
<1>2. /\ addr[f] = Null
      /\ UNCHANGED <<hook, password, keyed, maker, refs, mutex, stack>>
  BY DEF CreateFfi
<1>3. addr \in [Ffi -> Address \cup {Null}]
  BY DEF IInv, TypeOK
<1>4. addr'[f] = a /\ \A g \in Ffi \ {f} : addr'[g] = addr[g]
  BY <1>1, <1>3
<1>5. a \in Address /\ a # Null /\ \A g \in Ffi : addr[g] # a
  BY <1>3, ProviderAssumption DEF Live
<1>6. TypeOK'
  BY <1>1, <1>2, <1>3, <1>5 DEF IInv, TypeOK
<1>7. RegistryInStep'
  <2>1. \A g, h \in Ffi : addr'[g] = addr'[h] /\ addr'[g] # Null => g = h
    BY <1>3, <1>4, <1>5 DEF IInv, RegistryInStep, Live
  <2>2. {addr[g] : g \in Live} \subseteq {addr'[g] : g \in Live'}
    BY <1>2, <1>3, <1>4 DEF Live
  <2> QED BY <1>2, <2>1, <2>2 DEF IInv, RegistryInStep, Live
<1>8. EntriesOwned'
  <2>1. a \notin DOMAIN password
    BY <1>5 DEF IInv, RegistryInStep, Live
  <2> QED BY <1>2, <1>4, <2>1 DEF IInv, EntriesOwned
<1>9. FramesLinked'
  BY <1>2 DEF IInv, FramesLinked
<1>10. LockedByCopy'
  BY <1>2 DEF IInv, LockedByCopy, Top
<1> QED BY <1>6, <1>7, <1>8, <1>9, <1>10 DEF IInv

\* A closure is set once, so no entry and no frame has it before.
LEMMA StepSetPasswordProvider ==
  ASSUME IInv, NEW f \in Ffi, NEW c \in Closure, SetPasswordProvider(f, c)
  PROVE  IInv'
<1> DEFINE a == addr[f]
<1>1. /\ a # Null /\ maker[c] = Null
      /\ password' = With(password, a, c)
      /\ refs' = Ref(RefsWithout(password, a), c)
      /\ maker' = [maker EXCEPT ![c] = f]
      /\ hook' = hook \cup {a}
      /\ UNCHANGED <<addr, keyed, mutex, stack>>
  BY DEF SetPasswordProvider
<1>2. a \in Address
  BY <1>1 DEF IInv, TypeOK
<1>3. /\ DOMAIN password' = DOMAIN password \cup {a}
      /\ password'[a] = c
      /\ \A b \in DOMAIN password \ {a} : password'[b] = password[b]
  BY <1>1 DEF With
<1>4. maker'[c] = f /\ \A d \in Closure \ {c} : maker'[d] = maker[d]
  BY <1>1 DEF IInv, TypeOK
<1>5. TypeOK'
  <2>1. refs' \in [Closure -> Int]
    BY <1>1 DEF IInv, TypeOK, Ref, Unref, RefsWithout
  <2>2. maker' \in [Closure -> Ffi \cup {Null}]
    BY <1>1 DEF IInv, TypeOK
  <2>3. \A b \in DOMAIN password' : b \in Address /\ password'[b] \in Closure
    BY <1>2, <1>3 DEF IInv, TypeOK
  <2> QED BY <1>1, <1>2, <2>1, <2>2, <2>3 DEF IInv, TypeOK
<1>6. RegistryInStep'
  BY <1>1, <1>3 DEF IInv, RegistryInStep, Live
<1>7. EntriesOwned'
  <2> SUFFICES ASSUME NEW b \in DOMAIN password', NEW g \in Ffi, addr[g] = b
               PROVE  maker'[password'[b]] = g
    BY <1>1 DEF EntriesOwned
  <2>1. CASE b = a
    <3>1. g = f
      BY <1>1, <2>1 DEF IInv, RegistryInStep, Live
    <3> QED BY <1>3, <1>4, <2>1, <3>1
  <2>2. CASE b # a
    <3>1. b \in DOMAIN password /\ password'[b] = password[b] /\ password[b] \in Closure
      BY <1>3, <2>2 DEF IInv, TypeOK
    <3>2. maker[password[b]] = g
      BY <3>1 DEF IInv, EntriesOwned
    <3>3. password[b] # c
      BY <1>1, <3>2, ProviderAssumption
    <3> QED BY <1>4, <3>1, <3>2, <3>3
  <2> QED BY <2>1, <2>2
<1>8. FramesLinked'
  BY <1>1 DEF IInv, FramesLinked
<1>9. LockedByCopy'
  BY <1>1 DEF IInv, LockedByCopy, Top
<1> QED BY <1>5, <1>6, <1>7, <1>8, <1>9 DEF IInv

LEMMA StepSetKeyProvider ==
  ASSUME IInv, NEW f \in Ffi, SetKeyProvider(f)
  PROVE  IInv'
<1>1. /\ addr[f] # Null /\ keyed' = keyed \cup {addr[f]}
      /\ UNCHANGED <<addr, hook, password, maker, refs, mutex, stack>>
  BY DEF SetKeyProvider
<1>2. TypeOK'
  BY <1>1 DEF IInv, TypeOK
<1>3. RegistryInStep'
  BY <1>1 DEF IInv, RegistryInStep, Live
<1>4. EntriesOwned' /\ FramesLinked' /\ LockedByCopy'
  BY <1>1 DEF IInv, EntriesOwned, FramesLinked, LockedByCopy, Top
<1> QED BY <1>2, <1>3, <1>4 DEF IInv

\* The entry of the FFI's address goes; the stack stays as it is.
LEMMA StepDestroyFfi ==
  ASSUME IInv, NEW f \in Ffi, DestroyFfi(f)
  PROVE  IInv'
<1> DEFINE a == addr[f]
<1>1. /\ a # Null
      /\ password' = Without(password, a)
      /\ refs' = RefsWithout(password, a)
      /\ keyed' = keyed \ {a}
      /\ hook' = hook \ {a}
      /\ addr' = [addr EXCEPT ![f] = Null]
      /\ UNCHANGED <<maker, mutex, stack>>
  BY DEF DestroyFfi
<1>2. /\ addr'[f] = Null
      /\ \A g \in Ffi \ {f} : addr'[g] = addr[g]
      /\ addr' \in [Ffi -> Address \cup {Null}]
  BY <1>1 DEF IInv, TypeOK
<1>3. /\ DOMAIN password' = DOMAIN password \ {a}
      /\ \A b \in DOMAIN password' : password'[b] = password[b]
  BY <1>1 DEF Without
<1>4. TypeOK'
  <2>1. refs' \in [Closure -> Int]
    BY <1>1 DEF IInv, TypeOK, Unref, RefsWithout
  <2>2. \A b \in DOMAIN password' : b \in Address /\ password'[b] \in Closure
    BY <1>3 DEF IInv, TypeOK
  <2> QED BY <1>1, <1>2, <2>1, <2>2 DEF IInv, TypeOK
<1>5. RegistryInStep'
  <2>1. \A g, h \in Ffi : addr'[g] = addr'[h] /\ addr'[g] # Null => g = h
    BY <1>2 DEF IInv, RegistryInStep, Live
  <2>2. {addr[g] : g \in Live} \ {a} \subseteq {addr'[g] : g \in Live'}
    BY <1>1, <1>2 DEF Live
  <2> QED BY <1>1, <1>3, <2>1, <2>2 DEF IInv, RegistryInStep, Live
<1>6. EntriesOwned'
  <2> SUFFICES ASSUME NEW b \in DOMAIN password', NEW g \in Ffi, addr'[g] = b
               PROVE  maker[password[b]] = g
    BY <1>1, <1>3 DEF EntriesOwned
  <2>1. b # Null
    BY <1>3, ProviderAssumption DEF IInv, TypeOK
  <2>2. g # f /\ addr[g] = b
    BY <1>2, <2>1
  <2> QED BY <1>3, <2>2 DEF IInv, EntriesOwned
<1>7. FramesLinked'
  BY <1>1 DEF IInv, FramesLinked
<1>8. LockedByCopy'
  BY <1>1 DEF IInv, LockedByCopy, Top
<1> QED BY <1>4, <1>5, <1>6, <1>7, <1>8 DEF IInv

\* The new top is linked; the frames below are as they were.
LEMMA StepStartOperation ==
  ASSUME IInv, NEW f \in Ffi, StartOperation(f)
  PROVE  IInv'
<1> DEFINE x == [kind |-> "op", ffi |-> f, at |-> addr[f], said |-> Null, given |-> Null]
<1>1. /\ addr[f] # Null /\ Len(stack) < MaxDepth
      /\ stack' = Append(stack, x)
      /\ UNCHANGED <<addr, hook, password, keyed, maker, refs, mutex>>
  BY DEF StartOperation
<1>2. x \in Frame
  BY <1>1 DEF IInv, TypeOK, Frame, OpFrame
<1>3. /\ stack' \in Seq(Frame)
      /\ Len(stack') = Len(stack) + 1
      /\ \A i \in 1..Len(stack) : stack'[i] = stack[i]
      /\ stack'[Len(stack) + 1] = x
      /\ Len(stack) \in Nat
  BY <1>1, <1>2, Pushed DEF IInv, TypeOK
<1>4. TypeOK'
  BY <1>1, <1>3, ProviderAssumption DEF IInv, TypeOK
<1>5. RegistryInStep' /\ EntriesOwned'
  BY <1>1 DEF IInv, RegistryInStep, EntriesOwned, Live
<1>6. FramesLinked'
  <2> SUFFICES ASSUME NEW i \in 1..Len(stack')
               PROVE  stack'[i].kind \in {"copy", "js"} =>
                        i - 1 \in 1..Len(stack') /\ stack'[i - 1].kind = "op"
    BY <1>1 DEF FramesLinked
  <2>1. CASE i \in 1..Len(stack)
    <3>1. stack'[i] = stack[i] /\ (i - 1 \in 1..Len(stack) => stack'[i - 1] = stack[i - 1])
      BY <1>3, <2>1
    <3>2. stack[i].kind \in {"copy", "js"} =>
            i - 1 \in 1..Len(stack) /\ stack[i - 1].kind = "op"
      BY <2>1 DEF IInv, FramesLinked
    <3>3. 1..Len(stack) \subseteq 1..Len(stack')
      BY <1>3
    <3> QED BY <3>1, <3>2, <3>3
  <2>2. CASE i = Len(stack) + 1
    <3>1. stack'[i] = x
      BY <1>3, <2>2
    <3> QED BY <3>1
  <2> QED BY <1>3, <2>1, <2>2
<1>7. LockedByCopy'
  <2>1. ScriptRuns
    BY DEF StartOperation
  <2> QED BY <1>1, <2>1, Unlocked DEF IInv, LockedByCopy
<1> QED BY <1>4, <1>5, <1>6, <1>7 DEF IInv

\* What is on top, where it is, and what is below it.
LEMMA TopFrame ==
  ASSUME IInv, stack # <<>>
  PROVE  /\ Len(stack) \in Nat \ {0}
         /\ Top = stack[Len(stack)]
         /\ Top \in Frame
         /\ Below \in Seq(Frame)
         /\ Len(Below) = Len(stack) - 1
         /\ \A i \in 1..Len(stack) - 1 : Below[i] = stack[i]
<1>1. stack \in Seq(Frame)
  BY DEF IInv, TypeOK
<1>2. Len(stack) \in Nat
  BY <1>1, LenProperties
<1>3. /\ Below \in Seq(Frame)
      /\ Len(Below) = Len(stack) - 1
      /\ \A i \in 1..Len(Below) : Below[i] = stack[i]
      /\ Len(stack) \in 1..Len(stack)
      /\ stack[Len(stack)] \in Frame
  BY <1>1, Popped DEF Below
<1> QED BY <1>2, <1>3 DEF Top

\* A frame replaces the top one: the stack stays linked if the new top is.
LEMMA NewTop ==
  ASSUME IInv, stack # <<>>, NEW x \in Frame,
         stack' = Append(Below, x),
         x.kind \in {"copy", "js"} => Top.kind \in {"copy", "js"}
  PROVE  /\ stack' \in Seq(Frame)
         /\ Len(stack') = Len(stack)
         /\ stack' # <<>>
         /\ Top' = x
         /\ FramesLinked'
<1>1. stack \in Seq(Frame)
  BY DEF IInv, TypeOK
<1>2. /\ stack' \in Seq(Frame)
      /\ Len(stack') = Len(stack)
      /\ \A i \in 1..Len(stack) - 1 : stack'[i] = stack[i]
      /\ stack'[Len(stack)] = x
      /\ Len(stack) \in Nat \ {0}
  BY <1>1, Topped DEF Below
<1>3. stack' # <<>>
  BY <1>2, EmptySeq
<1>4. Top' = x
  BY <1>2 DEF Top
<1>5. FramesLinked'
  <2> SUFFICES ASSUME NEW i \in 1..Len(stack)
               PROVE  stack'[i].kind \in {"copy", "js"} =>
                        i - 1 \in 1..Len(stack) /\ stack'[i - 1].kind = "op"
    BY <1>2 DEF FramesLinked
  <2>1. CASE i \in 1..Len(stack) - 1
    <3>1. stack'[i] = stack[i] /\ (i - 1 \in 1..Len(stack) => stack'[i - 1] = stack[i - 1])
      BY <1>2, <2>1
    <3>2. i \in 1..Len(stack)
      OBVIOUS
    <3>3. stack[i].kind \in {"copy", "js"} =>
            i - 1 \in 1..Len(stack) /\ stack[i - 1].kind = "op"
      BY <3>2 DEF IInv, FramesLinked
    <3> QED BY <3>1, <3>3
  <2>2. CASE i = Len(stack)
    <3>1. stack'[i] = x
      BY <1>2, <2>2
    <3>2. CASE x.kind \in {"copy", "js"}
      <4>1. i - 1 \in 1..Len(stack) /\ stack[i - 1].kind = "op"
        BY <2>2, <3>2 DEF IInv, FramesLinked, Top
      <4>2. stack'[i - 1] = stack[i - 1]
        BY <1>2, <2>2, <4>1
      <4> QED BY <3>1, <3>2, <4>1, <4>2
    <3> QED BY <3>1, <3>2
  <2> QED BY <1>2, <2>1, <2>2
<1> QED BY <1>2, <1>3, <1>4, <1>5

\* The copy was set on the Ffi that lives at the operation's address.
LEMMA StepAskPassword ==
  ASSUME IInv, AskPassword
  PROVE  IInv'
<1>1. /\ stack # <<>> /\ Top.kind = "op" /\ Len(stack) < MaxDepth /\ ~mutex
      /\ UNCHANGED <<addr, hook, password, keyed, maker>>
  BY DEF AskPassword
<1>2. /\ Len(stack) \in Nat \ {0} /\ Top = stack[Len(stack)] /\ Top \in OpFrame
  BY <1>1, TopFrame, Kinds
<1>4. RegistryInStep' /\ EntriesOwned'
  BY <1>1 DEF IInv, RegistryInStep, EntriesOwned, Live
<1>5. CASE Top.at \in DOMAIN password
  <2> DEFINE c == password[Top.at]
  <2> DEFINE x == [kind |-> "copy", ffi |-> Top.ffi, fn |-> c]
  <2>1. /\ refs' = Ref(refs, c) /\ stack' = Append(stack, x) /\ mutex' = TRUE
    BY <1>5 DEF AskPassword
  <2>2. c \in Closure /\ Top.ffi \in Ffi
    BY <1>2, <1>5 DEF IInv, TypeOK, OpFrame
  <2>4. x \in Frame
    BY <2>2 DEF Frame, JsFrame
  <2>5. /\ stack' \in Seq(Frame)
        /\ Len(stack') = Len(stack) + 1
        /\ \A i \in 1..Len(stack) : stack'[i] = stack[i]
        /\ stack'[Len(stack) + 1] = x
    BY <2>1, <2>4, Pushed DEF IInv, TypeOK
  <2>6. x.kind = "copy" /\ x.fn = c /\ x.ffi = Top.ffi
    OBVIOUS
  <2> HIDE DEF x, c
  <2>7. TypeOK'
    <3>1. refs' \in [Closure -> Int]
      BY <2>1, <2>2 DEF IInv, TypeOK, Ref
    <3>2. Len(stack') <= MaxDepth
      BY <1>1, <1>2, <2>5, ProviderAssumption
    <3> QED BY <1>1, <2>1, <2>5, <3>1, <3>2 DEF IInv, TypeOK
  <2>8. FramesLinked'
    <3> SUFFICES ASSUME NEW i \in 1..Len(stack')
                 PROVE  stack'[i].kind \in {"copy", "js"} =>
                          i - 1 \in 1..Len(stack') /\ stack'[i - 1].kind = "op"
      BY <1>1 DEF FramesLinked
    <3>1. CASE i \in 1..Len(stack)
      <4>1. stack'[i] = stack[i] /\ (i - 1 \in 1..Len(stack) => stack'[i - 1] = stack[i - 1])
        BY <1>2, <2>5, <3>1
      <4>2. 1..Len(stack) \subseteq 1..Len(stack')
        BY <1>2, <2>5
      <4> QED BY <3>1, <4>1, <4>2 DEF IInv, FramesLinked
    <3>2. CASE i = Len(stack) + 1
      <4>1. stack'[i] = x /\ i - 1 \in 1..Len(stack') /\ stack'[i - 1] = Top
        BY <1>2, <2>5, <3>2
      <4> QED BY <1>1, <2>6, <4>1
    <3> QED BY <1>2, <2>5, <3>1, <3>2
  <2>9. LockedByCopy'
    <3>1. stack' # <<>>
      BY <1>2, <2>5, EmptySeq
    <3>2. Top' = x
      BY <2>5 DEF Top
    <3> QED BY <2>6, <3>1, <3>2 DEF LockedByCopy
  <2> QED BY <1>4, <2>7, <2>8, <2>9 DEF IInv
<1>6. CASE Top.at \notin DOMAIN password
  <2> DEFINE x == [Top EXCEPT !.said = Null, !.given = "refused"]
  <2>1. stack' = Append(Below, x) /\ UNCHANGED <<refs, mutex>>
    BY <1>6 DEF AskPassword
  <2>2. /\ x \in OpFrame /\ x.kind = "op" /\ x.ffi = Top.ffi /\ x.at = Top.at
    BY <1>1, <1>2 DEF OpFrame, Given
  <2>3. x \in Frame
    BY <2>2 DEF Frame
  <2> HIDE DEF x
  <2>4. /\ stack' \in Seq(Frame) /\ Len(stack') = Len(stack) /\ FramesLinked'
    BY <1>1, <2>1, <2>2, <2>3, NewTop
  <2>5. TypeOK'
    BY <1>1, <2>1, <2>4 DEF IInv, TypeOK
  <2>6. LockedByCopy'
    BY <1>1, <2>1 DEF LockedByCopy
  <2> QED BY <1>4, <2>4, <2>5, <2>6 DEF IInv
<1> QED BY <1>5, <1>6

\* The copy becomes a running callback and the mutex is free.
LEMMA StepCallCopy ==
  ASSUME IInv, CallCopy
  PROVE  IInv'
<1> DEFINE x == [Top EXCEPT !.kind = "js"]
<1>1. /\ stack # <<>> /\ Top.kind = "copy" /\ mutex' = FALSE
      /\ stack' = Append(Below, x)
      /\ UNCHANGED <<addr, hook, password, keyed, maker, refs>>
  BY DEF CallCopy
<1>2. Len(stack) \in Nat \ {0} /\ Top = stack[Len(stack)] /\ Top \in JsFrame
  BY <1>1, TopFrame, Kinds
<1>4. x \in JsFrame /\ x.kind = "js" /\ x.fn = Top.fn /\ x.ffi = Top.ffi
  BY <1>2 DEF JsFrame
<1>5. x \in Frame
  BY <1>4 DEF Frame
<1> HIDE DEF x
<1>6. stack' \in Seq(Frame) /\ Len(stack') = Len(stack) /\ FramesLinked'
  BY <1>1, <1>4, <1>5, NewTop
<1>7. TypeOK'
  BY <1>1, <1>6 DEF IInv, TypeOK
<1>8. RegistryInStep' /\ EntriesOwned' /\ LockedByCopy'
  BY <1>1 DEF IInv, RegistryInStep, EntriesOwned, LockedByCopy, Live
<1> QED BY <1>6, <1>7, <1>8 DEF IInv

\* The answer goes to the operation below the callback.
LEMMA StepProviderReturns ==
  ASSUME IInv, NEW said \in Said, ProviderReturns(said)
  PROVE  IInv'
<1> DEFINE n == Len(Below)
           x == [Below[n] EXCEPT !.said = said, !.given = Answer(said)]
<1>1. /\ stack # <<>> /\ Top.kind = "js"
      /\ refs' = Unref(refs, Top.fn)
      /\ stack' = [Below EXCEPT ![n] = x]
      /\ UNCHANGED <<addr, hook, password, keyed, maker, mutex>>
  BY DEF ProviderReturns
<1>2. /\ Len(stack) \in Nat \ {0} /\ Top = stack[Len(stack)] /\ Top \in JsFrame
      /\ Below \in Seq(Frame) /\ n = Len(stack) - 1
      /\ \A i \in 1..Len(stack) - 1 : Below[i] = stack[i]
  BY <1>1, TopFrame, Kinds
<1>3. /\ Len(stack) - 1 \in 1..Len(stack)
      /\ stack[Len(stack) - 1].kind = "op"
  BY <1>1, <1>2 DEF IInv, FramesLinked
<1>4. n \in 1..n /\ Below[n] = stack[n] /\ Below[n].kind = "op"
  BY <1>2, <1>3
<1>5. Below[n] \in OpFrame
  <2>1. Below[n] \in Frame
    BY <1>2, <1>4, ElementOfSeq
  <2> QED BY <1>4, <2>1, Kinds
<1>6. Answer(said) \in Given
  BY DEF Answer, Given, Said
<1>7. x \in OpFrame /\ x.kind = "op" /\ x.ffi = Below[n].ffi /\ x.at = Below[n].at
  BY <1>4, <1>5, <1>6 DEF OpFrame
<1>8. x \in Frame
  BY <1>7 DEF Frame
<1> HIDE DEF x, n
<1>9. /\ stack' \in Seq(Frame)
      /\ Len(stack') = n
      /\ \A i \in 1..n : stack'[i] = IF i = n THEN x ELSE Below[i]
  <2>1. n = Len(Below)
    BY DEF n
  <2> QED BY <1>1, <1>2, <1>4, <1>8, <2>1, ExceptSeq
<1>10. TypeOK'
  <2>1. refs' \in [Closure -> Int]
    BY <1>1, <1>2 DEF IInv, TypeOK, Unref, JsFrame
  <2>2. Len(stack') <= MaxDepth
    BY <1>2, <1>9, ProviderAssumption DEF IInv, TypeOK
  <2> QED BY <1>1, <1>9, <2>1, <2>2 DEF IInv, TypeOK
<1>11. RegistryInStep' /\ EntriesOwned'
  BY <1>1 DEF IInv, RegistryInStep, EntriesOwned, Live
<1>12. FramesLinked'
  <2> SUFFICES ASSUME NEW i \in 1..n
               PROVE  stack'[i].kind \in {"copy", "js"} =>
                        i - 1 \in 1..n /\ stack'[i - 1].kind = "op"
    BY <1>1, <1>9 DEF FramesLinked
  <2>1. i \in 1..Len(stack) /\ Below[i] = stack[i]
    BY <1>2
  <2>2. stack[i].kind \in {"copy", "js"} =>
          i - 1 \in 1..Len(stack) /\ stack[i - 1].kind = "op"
    BY <2>1 DEF IInv, FramesLinked
  <2>3. CASE i = n
    BY <1>4, <1>7, <1>9, <2>1, <2>2, <2>3
  <2>4. CASE i # n
    <3>1. stack'[i] = stack[i]
      BY <1>9, <2>1, <2>4
    <3>2. i - 1 \in 1..Len(stack) =>
            i - 1 \in 1..n /\ i - 1 # n /\ Below[i - 1] = stack[i - 1]
      BY <1>2
    <3>3. i - 1 \in 1..Len(stack) => i - 1 \in 1..n /\ stack'[i - 1] = stack[i - 1]
      BY <1>9, <3>2
    <3> QED BY <2>2, <3>1, <3>3
  <2> QED BY <2>3, <2>4
<1>13. LockedByCopy'
  <2>1. ScriptRuns
    BY <1>1 DEF ScriptRuns
  <2> QED BY <1>1, <2>1, Unlocked DEF IInv, LockedByCopy
<1> QED BY <1>10, <1>11, <1>12, <1>13 DEF IInv

LEMMA StepOperationReturns ==
  ASSUME IInv, OperationReturns
  PROVE  IInv'
<1>1. /\ stack # <<>> /\ Top.kind = "op" /\ stack' = Below
      /\ UNCHANGED <<addr, hook, password, keyed, maker, refs, mutex>>
  BY DEF OperationReturns
<1>2. /\ Len(stack) \in Nat \ {0} /\ Top = stack[Len(stack)]
      /\ stack' \in Seq(Frame) /\ Len(stack') = Len(stack) - 1
      /\ \A i \in 1..Len(stack) - 1 : stack'[i] = stack[i]
  BY <1>1, TopFrame
<1>3. TypeOK'
  <2>1. Len(stack') <= MaxDepth
    BY <1>2, ProviderAssumption DEF IInv, TypeOK
  <2> QED BY <1>1, <1>2, <2>1 DEF IInv, TypeOK
<1>4. RegistryInStep' /\ EntriesOwned'
  BY <1>1 DEF IInv, RegistryInStep, EntriesOwned, Live
<1>5. FramesLinked'
  <2> SUFFICES ASSUME NEW i \in 1..Len(stack) - 1
               PROVE  stack'[i].kind \in {"copy", "js"} =>
                        i - 1 \in 1..Len(stack) - 1 /\ stack'[i - 1].kind = "op"
    BY <1>1, <1>2 DEF FramesLinked
  <2>1. i \in 1..Len(stack) /\ stack'[i] = stack[i]
    BY <1>2
  <2>2. stack[i].kind \in {"copy", "js"} =>
          i - 1 \in 1..Len(stack) /\ stack[i - 1].kind = "op"
    BY <2>1 DEF IInv, FramesLinked
  <2>3. i - 1 \in 1..Len(stack) =>
          i - 1 \in 1..Len(stack) - 1 /\ stack'[i - 1] = stack[i - 1]
    BY <1>2
  <2> QED BY <2>1, <2>2, <2>3
<1>6. LockedByCopy'
  BY <1>1 DEF IInv, LockedByCopy
<1> QED BY <1>3, <1>4, <1>5, <1>6 DEF IInv

LEMMA Stutter ==
  ASSUME IInv, UNCHANGED vars
  PROVE  IInv'
<1>1. UNCHANGED <<addr, hook, password, keyed, maker, refs, mutex, stack>>
  BY DEF vars
<1>2. TypeOK'
  BY <1>1 DEF IInv, TypeOK
<1>3. RegistryInStep' /\ EntriesOwned'
  BY <1>1 DEF IInv, RegistryInStep, EntriesOwned, Live
<1>4. FramesLinked' /\ LockedByCopy'
  BY <1>1 DEF IInv, FramesLinked, LockedByCopy, Top
<1> QED BY <1>2, <1>3, <1>4 DEF IInv

LEMMA Inductive == IInv /\ [Next]_vars => IInv'
<1> SUFFICES ASSUME IInv, [Next]_vars PROVE IInv'
  OBVIOUS
<1>1. ASSUME Script PROVE IInv'
  <2>1. PICK f \in Ffi :
          \/ CreateFfi(f) \/ DestroyFfi(f) \/ SetKeyProvider(f) \/ StartOperation(f)
          \/ \E c \in Closure : SetPasswordProvider(f, c)
    BY <1>1 DEF Script
  <2>2. CASE CreateFfi(f)
    BY <2>2, StepCreateFfi
  <2>3. CASE DestroyFfi(f)
    BY <2>3, StepDestroyFfi
  <2>4. CASE SetKeyProvider(f)
    BY <2>4, StepSetKeyProvider
  <2>5. CASE StartOperation(f)
    BY <2>5, StepStartOperation
  <2>6. CASE \E c \in Closure : SetPasswordProvider(f, c)
    BY <2>6, StepSetPasswordProvider
  <2> QED BY <2>1, <2>2, <2>3, <2>4, <2>5, <2>6
<1>2. ASSUME Native PROVE IInv'
  BY <1>2, StepAskPassword, StepCallCopy, StepOperationReturns DEF Native
<1>3. ASSUME NEW said \in Said, ProviderReturns(said) PROVE IInv'
  BY <1>3, StepProviderReturns
<1>4. ASSUME UNCHANGED vars PROVE IInv'
  BY <1>4, Stutter
<1> QED BY <1>1, <1>2, <1>3, <1>4 DEF Next

LEMMA Invariant == Spec => []IInv
<1>1. Init => IInv
  BY InitIInv
<1>2. IInv /\ [Next]_vars => IInv'
  BY Inductive
<1> QED BY <1>1, <1>2, PTL DEF Spec

-----------------------------------------------------------------------------
(* The references to a closure, counted.                                   *)

Entries(c) == {a \in DOMAIN password : password[a] = c}
Holds(i, c) == stack[i].kind \in {"copy", "js"} /\ stack[i].fn = c
Copies(c)  == {i \in 1..Len(stack) : Holds(i, c)}

\* The registry has finitely many entries, whatever the set of addresses.
Counted ==
  /\ IsFiniteSet(DOMAIN password)
  /\ \A c \in Closure : refs[c] = Cardinality(Entries(c)) + Cardinality(Copies(c))

\* Both sets are finite, so their cardinalities are numbers.
LEMMA FinitelyMany ==
  ASSUME IInv, Counted, NEW c \in Closure
  PROVE  /\ IsFiniteSet(Entries(c)) /\ Cardinality(Entries(c)) \in Nat
         /\ IsFiniteSet(Copies(c)) /\ Cardinality(Copies(c)) \in Nat
         /\ refs[c] = Cardinality(Entries(c)) + Cardinality(Copies(c))
<1>1. Entries(c) \in SUBSET DOMAIN password /\ IsFiniteSet(DOMAIN password)
  BY DEF Entries, Counted
<1>2. IsFiniteSet(Entries(c))
  BY <1>1, FS_Subset
<1>3. Len(stack) \in Nat
  BY LenProperties DEF IInv, TypeOK
<1>4. IsFiniteSet(1..Len(stack)) /\ Copies(c) \in SUBSET (1..Len(stack))
  BY <1>3, FS_Interval DEF Copies
<1>5. IsFiniteSet(Copies(c))
  BY <1>4, FS_Subset
<1> QED BY <1>2, <1>5, FS_CardinalityType DEF Counted

LEMMA InitCounted == Init => Counted
<1> SUFFICES ASSUME Init PROVE Counted
  OBVIOUS
<1>1. DOMAIN password = {} /\ stack = <<>> /\ Len(stack) = 0
  BY DEF Init
<1>2. IsFiniteSet({}) /\ Cardinality({}) = 0
  BY FS_EmptySet
<1>3. \A c \in Closure : Entries(c) = {} /\ Copies(c) = {} /\ refs[c] = 0
  BY <1>1 DEF Entries, Copies, Init
<1>4. \A c \in Closure : refs[c] = Cardinality(Entries(c)) + Cardinality(Copies(c))
  BY <1>2, <1>3
<1> QED BY <1>1, <1>2, <1>4 DEF Counted

\* Steps after which the same frames hold the same closures.
LEMMA SameCopies ==
  ASSUME IInv, Counted, UNCHANGED <<password, refs>>,
         \A c \in Closure : Copies(c)' = Copies(c)
  PROVE  Counted'
<1>1. \A c \in Closure : Entries(c)' = Entries(c)
  BY DEF Entries
<1>2. IsFiniteSet(DOMAIN password)'
  BY DEF Counted
<1>3. ASSUME NEW c \in Closure
      PROVE  (refs[c] = Cardinality(Entries(c)) + Cardinality(Copies(c)))'
  <2>1. refs[c] = Cardinality(Entries(c)) + Cardinality(Copies(c))
    BY DEF Counted
  <2> QED BY <1>1, <2>1
<1> QED BY <1>2, <1>3 DEF Counted

\* The new entry holds its closure, and the one it replaces is let go.
LEMMA CountedSetPasswordProvider ==
  ASSUME IInv, Counted, NEW f \in Ffi, NEW c \in Closure, SetPasswordProvider(f, c)
  PROVE  Counted'
<1> DEFINE a == addr[f]
           r == RefsWithout(password, a)
<1>1. /\ password' = With(password, a, c)
      /\ refs' = Ref(r, c)
      /\ stack' = stack
  BY DEF SetPasswordProvider
<1>2. /\ DOMAIN password' = DOMAIN password \cup {a}
      /\ \A b \in DOMAIN password' : password'[b] = IF b = a THEN c ELSE password[b]
  BY <1>1 DEF With
<1>3. refs \in [Closure -> Int] /\ \A b \in DOMAIN password : password[b] \in Closure
  BY DEF IInv, TypeOK
<1>4. r \in [Closure -> Int]
      /\ \A d \in Closure : r[d] = IF a \in Entries(d) THEN refs[d] - 1 ELSE refs[d]
  BY <1>3 DEF RefsWithout, Unref, Entries
<1> HIDE DEF r
<1>5. \A d \in Closure : refs'[d] = IF d = c THEN r[d] + 1 ELSE r[d]
  BY <1>1, <1>4 DEF Ref
<1>6. IsFiniteSet(DOMAIN password')
  BY <1>2, FS_AddElement DEF Counted
<1>7. ASSUME NEW d \in Closure
      PROVE  refs'[d] = Cardinality(Entries(d)') + Cardinality(Copies(d)')
  <2>1. Copies(d)' = Copies(d)
    BY <1>1 DEF Copies, Holds
  <2>2. /\ IsFiniteSet(Entries(d)) /\ Cardinality(Entries(d)) \in Nat
        /\ Cardinality(Copies(d)) \in Nat
        /\ refs[d] = Cardinality(Entries(d)) + Cardinality(Copies(d))
    BY FinitelyMany
  <2>3. CASE d = c
    <3>1. Entries(d)' = Entries(d) \cup {a}
      BY <1>2, <2>3 DEF Entries
    <3>2. Cardinality(Entries(d) \cup {a}) =
            IF a \in Entries(d) THEN Cardinality(Entries(d)) ELSE Cardinality(Entries(d)) + 1
      BY <2>2, FS_AddElement
    <3> QED BY <1>4, <1>5, <2>1, <2>2, <2>3, <3>1, <3>2
  <2>4. CASE d # c
    <3>1. Entries(d)' = Entries(d) \ {a}
      BY <1>2, <2>4 DEF Entries
    <3>2. Cardinality(Entries(d) \ {a}) =
            IF a \in Entries(d) THEN Cardinality(Entries(d)) - 1 ELSE Cardinality(Entries(d))
      BY <2>2, FS_RemoveElement
    <3> QED BY <1>4, <1>5, <2>1, <2>2, <2>4, <3>1, <3>2
  <2> QED BY <2>3, <2>4
<1> QED BY <1>6, <1>7 DEF Counted

\* The entry of the destroyed FFI lets its closure go.
LEMMA CountedDestroyFfi ==
  ASSUME IInv, Counted, NEW f \in Ffi, DestroyFfi(f)
  PROVE  Counted'
<1> DEFINE a == addr[f]
<1>1. /\ password' = Without(password, a)
      /\ refs' = RefsWithout(password, a)
      /\ stack' = stack
  BY DEF DestroyFfi
<1>2. /\ DOMAIN password' = DOMAIN password \ {a}
      /\ \A b \in DOMAIN password' : password'[b] = password[b]
  BY <1>1 DEF Without
<1>3. refs \in [Closure -> Int] /\ \A b \in DOMAIN password : password[b] \in Closure
  BY DEF IInv, TypeOK
<1>4. \A d \in Closure : refs'[d] = IF a \in Entries(d) THEN refs[d] - 1 ELSE refs[d]
  BY <1>1, <1>3 DEF RefsWithout, Unref, Entries
<1>5. IsFiniteSet(DOMAIN password')
  BY <1>2, FS_RemoveElement DEF Counted
<1>6. ASSUME NEW d \in Closure
      PROVE  refs'[d] = Cardinality(Entries(d)') + Cardinality(Copies(d)')
  <2>1. Copies(d)' = Copies(d)
    BY <1>1 DEF Copies, Holds
  <2>2. /\ IsFiniteSet(Entries(d)) /\ Cardinality(Entries(d)) \in Nat
        /\ Cardinality(Copies(d)) \in Nat
        /\ refs[d] = Cardinality(Entries(d)) + Cardinality(Copies(d))
    BY FinitelyMany
  <2>3. Entries(d)' = Entries(d) \ {a}
    BY <1>2 DEF Entries
  <2>4. Cardinality(Entries(d) \ {a}) =
          IF a \in Entries(d) THEN Cardinality(Entries(d)) - 1 ELSE Cardinality(Entries(d))
    BY <2>2, FS_RemoveElement
  <2> QED BY <1>4, <2>1, <2>2, <2>3, <2>4
<1> QED BY <1>5, <1>6 DEF Counted

\* A frame that holds no closure comes on the stack.
LEMMA CountedStartOperation ==
  ASSUME IInv, Counted, NEW f \in Ffi, StartOperation(f)
  PROVE  Counted'
<1> DEFINE x == [kind |-> "op", ffi |-> f, at |-> addr[f], said |-> Null, given |-> Null]
<1>1. /\ addr[f] # Null
      /\ stack' = Append(stack, x)
      /\ UNCHANGED <<password, refs>>
  BY DEF StartOperation
<1>2. x \in Frame /\ x.kind = "op"
  BY <1>1 DEF IInv, TypeOK, Frame, OpFrame
<1> HIDE DEF x
<1>3. /\ Len(stack') = Len(stack) + 1
      /\ \A i \in 1..Len(stack) : stack'[i] = stack[i]
      /\ stack'[Len(stack) + 1] = x
      /\ Len(stack) \in Nat
  BY <1>1, <1>2, Pushed DEF IInv, TypeOK
<1>4. ASSUME NEW c \in Closure PROVE Copies(c)' = Copies(c)
  BY <1>2, <1>3 DEF Copies, Holds
<1> QED BY <1>1, <1>4, SameCopies

\* The copy of the closure holds it, and nothing else changes hands.
LEMMA CountedAskPassword ==
  ASSUME IInv, Counted, AskPassword
  PROVE  Counted'
<1>1. /\ stack # <<>> /\ Top.kind = "op" /\ password' = password
  BY DEF AskPassword
<1>2. /\ Len(stack) \in Nat \ {0} /\ Top = stack[Len(stack)] /\ Top \in OpFrame
  BY <1>1, TopFrame, Kinds
<1>3. CASE Top.at \in DOMAIN password
  <2> DEFINE c == password[Top.at]
             x == [kind |-> "copy", ffi |-> Top.ffi, fn |-> c]
             n == Len(stack) + 1
  <2>1. refs' = Ref(refs, c) /\ stack' = Append(stack, x)
    BY <1>3 DEF AskPassword
  <2>2. c \in Closure /\ Top.ffi \in Ffi
    BY <1>2, <1>3 DEF IInv, TypeOK, OpFrame
  <2>3. x \in Frame /\ x.kind = "copy" /\ x.fn = c
    BY <2>2 DEF Frame, JsFrame
  <2> HIDE DEF x, c
  <2>4. /\ Len(stack') = n
        /\ \A i \in 1..Len(stack) : stack'[i] = stack[i]
        /\ stack'[n] = x
    BY <2>1, <2>3, Pushed DEF IInv, TypeOK
  <2>5. \A d \in Closure : refs'[d] = IF d = c THEN refs[d] + 1 ELSE refs[d]
    BY <2>1, <2>2 DEF IInv, TypeOK, Ref
  <2>6. ASSUME NEW d \in Closure
        PROVE  refs'[d] = Cardinality(Entries(d)') + Cardinality(Copies(d)')
    <3>1. Entries(d)' = Entries(d)
      BY <1>1 DEF Entries
    <3>2. /\ Cardinality(Entries(d)) \in Nat
          /\ IsFiniteSet(Copies(d)) /\ Cardinality(Copies(d)) \in Nat
          /\ refs[d] = Cardinality(Entries(d)) + Cardinality(Copies(d))
      BY FinitelyMany
    <3>3. CASE d = c
      <4>1. Copies(d)' = Copies(d) \cup {n} /\ n \notin Copies(d)
        BY <1>2, <2>3, <2>4, <3>3 DEF Copies, Holds
      <4>2. Cardinality(Copies(d) \cup {n}) = Cardinality(Copies(d)) + 1
        BY <3>2, <4>1, FS_AddElement
      <4> QED BY <2>5, <3>1, <3>2, <3>3, <4>1, <4>2
    <3>4. CASE d # c
      <4>1. Copies(d)' = Copies(d)
        BY <1>2, <2>3, <2>4, <3>4 DEF Copies, Holds
      <4> QED BY <2>5, <3>1, <3>2, <3>4, <4>1
    <3> QED BY <3>3, <3>4
  <2> QED BY <1>1, <2>6 DEF Counted
<1>4. CASE Top.at \notin DOMAIN password
  <2> DEFINE x == [Top EXCEPT !.said = Null, !.given = "refused"]
  <2>1. stack' = Append(Below, x) /\ UNCHANGED <<refs, password>>
    BY <1>4 DEF AskPassword
  <2>2. x \in Frame /\ x.kind = "op"
    BY <1>1, <1>2 DEF Frame, OpFrame, Given
  <2> HIDE DEF x
  <2>3. /\ Len(stack') = Len(stack)
        /\ \A i \in 1..Len(stack) - 1 : stack'[i] = stack[i]
        /\ stack'[Len(stack)] = x
    BY <1>1, <2>1, <2>2, Topped DEF IInv, TypeOK, Below
  <2>4. ASSUME NEW c \in Closure PROVE Copies(c)' = Copies(c)
    <3>1. \A i \in 1..Len(stack) : Holds(i, c)' <=> Holds(i, c)
      BY <1>1, <1>2, <2>2, <2>3 DEF Holds
    <3> QED BY <2>3, <3>1 DEF Copies
  <2> QED BY <2>1, <2>4, SameCopies
<1> QED BY <1>3, <1>4

\* The frame that held the copy holds it still.
LEMMA CountedCallCopy ==
  ASSUME IInv, Counted, CallCopy
  PROVE  Counted'
<1> DEFINE x == [Top EXCEPT !.kind = "js"]
<1>1. /\ stack # <<>> /\ Top.kind = "copy"
      /\ stack' = Append(Below, x)
      /\ UNCHANGED <<password, refs>>
  BY DEF CallCopy
<1>2. Len(stack) \in Nat \ {0} /\ Top = stack[Len(stack)] /\ Top \in JsFrame
  BY <1>1, TopFrame, Kinds
<1>3. x \in Frame /\ x.kind = "js" /\ x.fn = Top.fn
  BY <1>2 DEF Frame, JsFrame
<1> HIDE DEF x
<1>4. /\ Len(stack') = Len(stack)
      /\ \A i \in 1..Len(stack) - 1 : stack'[i] = stack[i]
      /\ stack'[Len(stack)] = x
  BY <1>1, <1>3, Topped DEF IInv, TypeOK, Below
<1>5. ASSUME NEW c \in Closure PROVE Copies(c)' = Copies(c)
  <2>1. \A i \in 1..Len(stack) : Holds(i, c)' <=> Holds(i, c)
    BY <1>1, <1>2, <1>3, <1>4 DEF Holds
  <2> QED BY <1>4, <2>1 DEF Copies
<1> QED BY <1>1, <1>5, SameCopies

\* The copy goes with its frame; the frame below is an operation's.
LEMMA CountedProviderReturns ==
  ASSUME IInv, Counted, NEW said \in Said, ProviderReturns(said)
  PROVE  Counted'
<1> DEFINE m == Len(Below)
           n == Len(stack)
           x == [Below[m] EXCEPT !.said = said, !.given = Answer(said)]
<1>1. /\ stack # <<>> /\ Top.kind = "js"
      /\ refs' = Unref(refs, Top.fn)
      /\ stack' = [Below EXCEPT ![m] = x]
      /\ password' = password
  BY DEF ProviderReturns
<1>2. /\ n \in Nat \ {0} /\ Top = stack[n] /\ Top \in JsFrame
      /\ Below \in Seq(Frame) /\ m = n - 1
      /\ \A i \in 1..n - 1 : Below[i] = stack[i]
  BY <1>1, TopFrame, Kinds
<1>3. n - 1 \in 1..n /\ stack[n - 1].kind = "op"
  BY <1>1, <1>2 DEF IInv, FramesLinked
<1>4. m \in 1..m /\ Below[m] = stack[m] /\ Below[m].kind = "op"
  BY <1>2, <1>3
<1>5. Below[m] \in OpFrame
  <2>1. Below[m] \in Frame
    BY <1>2, <1>4, ElementOfSeq
  <2> QED BY <1>4, <2>1, Kinds
<1>6. Answer(said) \in Given
  BY DEF Answer, Given, Said
<1>7. x \in Frame /\ x.kind = "op"
  BY <1>4, <1>5, <1>6 DEF Frame, OpFrame
<1> HIDE DEF x
<1>8. /\ Len(stack') = n - 1
      /\ \A i \in 1..n - 1 : stack'[i] = IF i = n - 1 THEN x ELSE stack[i]
  BY <1>1, <1>2, <1>4, <1>7, ExceptSeq
<1>9. Top.fn \in Closure
  BY <1>2 DEF JsFrame
<1>10. \A d \in Closure : refs'[d] = IF d = Top.fn THEN refs[d] - 1 ELSE refs[d]
  BY <1>1, <1>9 DEF IInv, TypeOK, Unref
<1>11. ASSUME NEW d \in Closure
       PROVE  refs'[d] = Cardinality(Entries(d)') + Cardinality(Copies(d)')
  <2>1. Entries(d)' = Entries(d)
    BY <1>1 DEF Entries
  <2>2. /\ Cardinality(Entries(d)) \in Nat
        /\ IsFiniteSet(Copies(d)) /\ Cardinality(Copies(d)) \in Nat
        /\ refs[d] = Cardinality(Entries(d)) + Cardinality(Copies(d))
    BY FinitelyMany
  <2>3. \A i \in 1..n - 1 : Holds(i, d)' <=> Holds(i, d)
    BY <1>3, <1>7, <1>8 DEF Holds
  <2>4. Copies(d)' = Copies(d) \ {n}
    BY <1>2, <1>8, <2>3 DEF Copies
  <2>5. n \in Copies(d) <=> d = Top.fn
    BY <1>1, <1>2 DEF Copies, Holds
  <2>6. Cardinality(Copies(d) \ {n}) =
          IF n \in Copies(d) THEN Cardinality(Copies(d)) - 1 ELSE Cardinality(Copies(d))
    BY <2>2, FS_RemoveElement
  <2> QED BY <1>10, <2>1, <2>2, <2>4, <2>5, <2>6
<1> QED BY <1>1, <1>11 DEF Counted

\* An operation's frame holds no closure.
LEMMA CountedOperationReturns ==
  ASSUME IInv, Counted, OperationReturns
  PROVE  Counted'
<1>1. /\ stack # <<>> /\ Top.kind = "op" /\ stack' = Below
      /\ UNCHANGED <<password, refs>>
  BY DEF OperationReturns
<1>2. /\ Len(stack) \in Nat \ {0} /\ Top = stack[Len(stack)]
      /\ Len(stack') = Len(stack) - 1
      /\ \A i \in 1..Len(stack) - 1 : stack'[i] = stack[i]
  BY <1>1, TopFrame
<1>3. ASSUME NEW c \in Closure PROVE Copies(c)' = Copies(c)
  BY <1>1, <1>2 DEF Copies, Holds
<1> QED BY <1>1, <1>3, SameCopies

LEMMA CountedInductive == IInv /\ Counted /\ [Next]_vars => Counted'
<1> SUFFICES ASSUME IInv, Counted, [Next]_vars PROVE Counted'
  OBVIOUS
<1>1. ASSUME UNCHANGED <<password, refs, stack>> PROVE Counted'
  BY <1>1, SameCopies DEF Copies, Holds
<1>2. ASSUME Script PROVE Counted'
  <2>1. PICK f \in Ffi :
          \/ CreateFfi(f) \/ DestroyFfi(f) \/ SetKeyProvider(f) \/ StartOperation(f)
          \/ \E c \in Closure : SetPasswordProvider(f, c)
    BY <1>2 DEF Script
  <2>2. CASE CreateFfi(f) \/ SetKeyProvider(f)
    BY <1>1, <2>2 DEF CreateFfi, SetKeyProvider
  <2>3. CASE DestroyFfi(f)
    BY <2>3, CountedDestroyFfi
  <2>4. CASE StartOperation(f)
    BY <2>4, CountedStartOperation
  <2>5. CASE \E c \in Closure : SetPasswordProvider(f, c)
    BY <2>5, CountedSetPasswordProvider
  <2> QED BY <2>1, <2>2, <2>3, <2>4, <2>5
<1>3. ASSUME Native PROVE Counted'
  BY <1>3, CountedAskPassword, CountedCallCopy, CountedOperationReturns DEF Native
<1>4. ASSUME NEW said \in Said, ProviderReturns(said) PROVE Counted'
  BY <1>4, CountedProviderReturns
<1>5. ASSUME UNCHANGED vars PROVE Counted'
  BY <1>1, <1>5 DEF vars
<1> QED BY <1>2, <1>3, <1>4, <1>5 DEF Next


-----------------------------------------------------------------------------
\* Among the steps that make the stack higher, a question alone puts a copy on
\* top of it.
LEMMA OnlyQuestionsCopy ==
  ASSUME IInv, [Next]_vars, ClosureAsked
  PROVE  AskPassword
<1>1. stack \in Seq(Frame) /\ Len(stack) \in Nat
  BY LenProperties DEF IInv, TypeOK
<1>2. stack' # stack
  BY <1>1 DEF ClosureAsked
<1>3. ASSUME NEW f \in Ffi, StartOperation(f) PROVE FALSE
  <2> DEFINE x == [kind |-> "op", ffi |-> f, at |-> addr[f],
                   said |-> Null, given |-> Null]
  <2>1. stack' = Append(stack, x)
    BY <1>3 DEF StartOperation
  <2>2. Top' = x
    BY <1>1, <2>1 DEF Top
  <2>3. Top'.kind = "op"
    BY <2>2
  <2> QED BY <2>3 DEF ClosureAsked
<1>4. ASSUME stack # <<>>, NEW x \in Frame, stack' = Append(Below, x) PROVE FALSE
  <2>1. Len(stack') = Len(stack)
    BY <1>4, TopFrame, AppendProperties
  <2> QED BY <1>1, <2>1 DEF ClosureAsked
<1>5. ~CallCopy
  <2> SUFFICES ASSUME CallCopy PROVE FALSE
    OBVIOUS
  <2>1. /\ stack # <<>> /\ Top.kind = "copy"
        /\ stack' = Append(Below, [Top EXCEPT !.kind = "js"])
    BY DEF CallCopy
  <2>2. Top \in JsFrame
    BY <2>1, TopFrame, Kinds
  <2>3. [Top EXCEPT !.kind = "js"] \in Frame
    BY <2>2 DEF JsFrame, Frame
  <2> QED BY <1>4, <2>1, <2>3
<1>6. ~OperationReturns
  <2> SUFFICES ASSUME OperationReturns PROVE FALSE
    OBVIOUS
  <2>1. stack # <<>> /\ stack' = Below
    BY DEF OperationReturns
  <2> QED BY <1>1, <2>1, TopFrame DEF ClosureAsked
<1>7. ASSUME NEW said \in Said PROVE ~ProviderReturns(said)
  <2> SUFFICES ASSUME ProviderReturns(said) PROVE FALSE
    OBVIOUS
  <2>1. PICK x : stack # <<>> /\ stack' = [Below EXCEPT ![Len(Below)] = x]
    BY Zenon DEF ProviderReturns
  <2>2. /\ Below \in Seq(Frame) /\ Len(Below) = Len(stack) - 1
    BY <2>1, TopFrame
  <2>3. Len(stack') = Len(Below)
    BY <2>1, <2>2
  <2> QED BY <1>1, <2>2, <2>3 DEF ClosureAsked
<1>8. ~Script
  BY <1>2, <1>3 DEF Script, CreateFfi, DestroyFfi, SetKeyProvider, SetPasswordProvider
<1> QED BY <1>2, <1>5, <1>6, <1>7, <1>8 DEF Next, Native, vars

-----------------------------------------------------------------------------
(***************************************************************************)
(* The registry, the stack and the Ffi objects are well typed, for any     *)
(* interleaving of scripts and callbacks: no entry for the null address.   *)
(***************************************************************************)
THEOREM TypeCorrect == Spec => []TypeOK
<1>1. IInv => TypeOK
  BY DEF IInv
<1> QED BY <1>1, Invariant, PTL

(***************************************************************************)
(* Entries are for live FFIs only, so none is inherited by the next owner  *)
(* of an address (ffi.hpp reset).                                          *)
(***************************************************************************)
THEOREM AlwaysInStep == Spec => []RegistryInStep
<1>1. IInv => RegistryInStep
  BY DEF IInv
<1> QED BY <1>1, Invariant, PTL

(***************************************************************************)
(* A question of rnp is answered by a closure of the Ffi whose operation   *)
(* asked, as long as that Ffi is alive, however deeply callbacks nest and  *)
(* whatever they set, create or destroy (trampoline.h call_password).      *)
(***************************************************************************)
THEOREM AnsweredByOwn == Spec => AnsweredByOwnProvider
<1>1. ASSUME IInv, [Next]_vars, ClosureAsked, addr[Top.ffi] = Top.at
      PROVE  maker[Top'.fn] = Top.ffi
  <2>1. AskPassword
    BY <1>1, OnlyQuestionsCopy
  <2>2. stack # <<>> /\ Top.kind = "op" /\ UNCHANGED maker
    BY <2>1 DEF AskPassword
  <2>3. Top \in OpFrame /\ Len(stack) \in Nat \ {0}
    BY <1>1, <2>2, TopFrame, Kinds
  <2>4. CASE Top.at \in DOMAIN password
    <3> DEFINE x == [kind |-> "copy", ffi |-> Top.ffi, fn |-> password[Top.at]]
    <3>1. stack' = Append(stack, x)
      BY <2>1, <2>4 DEF AskPassword
    <3>2. Top' = x
      BY <1>1, <3>1 DEF IInv, TypeOK, Top
    <3>3. Top'.fn = password[Top.at]
      BY <3>2
    <3> QED BY <1>1, <2>3, <2>4, <3>3 DEF IInv, EntriesOwned, OpFrame
  <2>5. CASE Top.at \notin DOMAIN password
    <3>1. stack' = Append(Below, [Top EXCEPT !.said = Null, !.given = "refused"])
      BY <2>1, <2>5 DEF AskPassword
    <3>2. Len(stack') = Len(stack)
      BY <1>1, <2>2, <3>1, TopFrame, AppendProperties
    <3> QED BY <1>1, <2>3, <3>2 DEF ClosureAsked
  <2> QED BY <2>4, <2>5
<1>2. IInv /\ [Next]_vars =>
        [ClosureAsked /\ addr[Top.ffi] = Top.at => maker[Top'.fn] = Top.ffi]_vars
  BY <1>1
<1> QED BY <1>2, Invariant, PTL DEF Spec, AnsweredByOwnProvider

(***************************************************************************)
(* Application code never runs while the registry's mutex is held, so a    *)
(* provider that sets a provider does not wait for itself.                 *)
(***************************************************************************)
THEOREM NeverSelfLocked == Spec => []ScriptsRunUnlocked
<1>1. IInv => ScriptsRunUnlocked
  BY DEF IInv, LockedByCopy, ScriptRuns, ScriptsRunUnlocked
<1> QED BY <1>1, Invariant, PTL

(***************************************************************************)
(* The C++ references to a closure are exactly the registry's entry and    *)
(* the copies that run, so a closure that replaces or drops itself is      *)
(* alive until it returns and freed afterwards, at any depth of nesting    *)
(* and with any number of FFIs (trampoline.h call_password).               *)
(***************************************************************************)
THEOREM RefsAlwaysExact == Spec => []RefsExact
<1>1. Init => IInv /\ Counted
  BY InitIInv, InitCounted
<1>2. (IInv /\ Counted) /\ [Next]_vars => (IInv /\ Counted)'
  BY Inductive, CountedInductive
<1>3. IInv /\ Counted => RefsExact
  BY DEF Counted, Entries, Copies, Holds, RefsExact
<1> QED BY <1>1, <1>2, <1>3, PTL DEF Spec
=============================================================================
