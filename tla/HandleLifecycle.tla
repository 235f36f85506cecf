-------------------------- MODULE HandleLifecycle --------------------------
(***************************************************************************)
(* The lifecycle of one rnp handle through its three owners:               *)
(*                                                                         *)
(*   js     the TypeScript wrapper (ts/handle.ts, class Handle), with the  *)
(*          FinalizationRegistry that is meant to back explicit destroy()  *)
(*   box    the C++ owner (src/cpp/handle.h, Handle<T, DestroyFn>), which  *)
(*          Embind exposes with _destroy bound to reset()                  *)
(*   frees  the native rnp object: how often DestroyFn was called on it    *)
(*                                                                         *)
(* Every wrapper class (Ffi, Key, Input, Output, the operations, the       *)
(* iterator, Uid, Signature) has this one lifecycle.  Native calls nest:   *)
(* rnp calls back into JavaScript for a password, a stream chunk or a key, *)
(* and the callback may use or destroy handles of its own.                 *)
(***************************************************************************)
EXTENDS Naturals, Sequences

CONSTANTS
  Handle,    \* the wrappers the program may construct
  MaxDepth   \* bound on the nesting of native calls

ASSUME HandleAssumption == MaxDepth \in Nat \ {0}

VARIABLES
  js,        \* js[h]: "unborn", "alive", "destroyed" or "collected"
  registry,  \* the wrappers registered in the FinalizationRegistry
  roots,     \* the wrappers the application still references
  box,       \* box[h]: the C++ owner: "none", "owner", "empty" or "deleted"
  frees,     \* frees[h]: how often the native object of h was destroyed
  calls      \* the stack of native calls in progress, by the handle each is on

vars == <<js, registry, roots, box, frees, calls>>

Init ==
  /\ js       = [h \in Handle |-> "unborn"]
  /\ registry = {}
  /\ roots    = {}
  /\ box      = [h \in Handle |-> "none"]
  /\ frees    = [h \in Handle |-> 0]
  /\ calls    = <<>>

InCall == {calls[i] : i \in 1..Len(calls)}

(***************************************************************************)
(* The registry holds the cleanup closure `() => this.destroy()`, and the  *)
(* closure holds the wrapper: a registered wrapper is strongly reachable.  *)
(***************************************************************************)
Reachable(h) == h \in roots \cup registry \cup InCall

\* Mutant of Reset: the pointer is not cleared.
ResetKeepsPointer(h) ==
  IF box[h] = "owner"
  THEN frees' = [frees EXCEPT ![h] = @ + 1] /\ UNCHANGED box
  ELSE UNCHANGED <<frees, box>>

\* Handle::reset(): destroy the native object if there is one, forget it.
Reset(h) ==
  IF box[h] = "owner"
  THEN /\ frees' = [frees EXCEPT ![h] = @ + 1]
       /\ box'   = [box EXCEPT ![h] = "empty"]
  ELSE UNCHANGED <<frees, box>>

\* ~Handle(): reset, and the C++ object is gone.
Delete(h) ==
  /\ frees' = IF box[h] = "owner" THEN [frees EXCEPT ![h] = @ + 1] ELSE frees
  /\ box'   = [box EXCEPT ![h] = "deleted"]

-----------------------------------------------------------------------------
(* The application's operations.                                           *)

\* A factory returns a C++ owner and the wrapper's constructor registers it.
Construct(h) ==
  /\ js[h] = "unborn"
  /\ js'       = [js EXCEPT ![h] = "alive"]
  /\ registry' = registry \cup {h}
  /\ roots'    = roots \cup {h}
  /\ box'      = [box EXCEPT ![h] = "owner"]
  /\ UNCHANGED <<frees, calls>>

\* Mutant of Call: the raw getter does not look at `destroyed`.
CallUnchecked(h) ==
  /\ h \in roots
  /\ js[h] # "collected"
  /\ Len(calls) < MaxDepth
  /\ calls' = Append(calls, h)
  /\ UNCHANGED <<js, registry, roots, box, frees>>

\* A method goes through the `raw` getter, which throws after destroy().
Call(h) ==
  /\ h \in roots
  /\ js[h] = "alive"
  /\ Len(calls) < MaxDepth
  /\ calls' = Append(calls, h)
  /\ UNCHANGED <<js, registry, roots, box, frees>>

Return ==
  /\ calls # <<>>
  /\ calls' = SubSeq(calls, 1, Len(calls) - 1)
  /\ UNCHANGED <<js, registry, roots, box, frees>>

\* Mutant of Destroy: no registry.unregister(this).
DestroyStaysRegistered(h) ==
  /\ h \in roots
  /\ js[h] = "alive"
  /\ js' = [js EXCEPT ![h] = "destroyed"]
  /\ Reset(h)
  /\ UNCHANGED <<registry, roots, calls>>

\* destroy(), also through [Symbol.dispose]: a second call returns at once.
\* A callback may make it under a running call of h: destroy() does not look.
Destroy(h) ==
  /\ h \in roots
  /\ js[h] = "alive"
  /\ js'       = [js EXCEPT ![h] = "destroyed"]
  /\ registry' = registry \ {h}
  /\ Reset(h)
  /\ UNCHANGED <<roots, calls>>

\* The application loses its last reference to h.
Drop(h) ==
  /\ h \in roots
  /\ roots' = roots \ {h}
  /\ UNCHANGED <<js, registry, box, frees, calls>>

-----------------------------------------------------------------------------
(* The collectors.  Both run as tasks of their own, never inside a call.   *)

\* The engine collects h; if h is registered, its finalizer calls destroy().
Collect(h) ==
  /\ calls = <<>>
  /\ js[h] \in {"alive", "destroyed"}
  /\ ~Reachable(h)
  /\ js'       = [js EXCEPT ![h] = "collected"]
  /\ registry' = registry \ {h}
  /\ IF h \in registry THEN Reset(h) ELSE UNCHANGED <<frees, box>>
  /\ UNCHANGED <<roots, calls>>

\* Embind may delete the C++ object of a wrapper that is gone.
DeleteOwner(h) ==
  /\ calls = <<>>
  /\ js[h] = "collected"
  /\ box[h] # "deleted"
  /\ Delete(h)
  /\ UNCHANGED <<js, registry, roots, calls>>

-----------------------------------------------------------------------------
App(h)  == Construct(h) \/ Call(h) \/ Destroy(h) \/ Drop(h)
Next    == Return \/ \E h \in Handle : App(h) \/ Collect(h) \/ DeleteOwner(h)
Spec    == Init /\ [][Next]_vars

\* A native call makes finitely many callbacks and returns, so the event loop
\* is idle again and again, and the engine collects garbage at idle moments.
FairSpec ==
  /\ Spec
  /\ \A d \in 1..MaxDepth : SF_vars(Return /\ Len(calls) = d)
  /\ \A h \in Handle : SF_vars(Collect(h))

-----------------------------------------------------------------------------
(***************************************************************************)
(* The variables have their types, and only undestroyed wrappers are       *)
(* registered: destroy() unregisters (ts/handle.ts, destroy).              *)
(***************************************************************************)
TypeOK ==
  /\ js \in [Handle -> {"unborn", "alive", "destroyed", "collected"}]
  /\ registry \in SUBSET {h \in Handle : js[h] = "alive"}
  /\ roots \in SUBSET Handle
  /\ box \in [Handle -> {"none", "owner", "empty", "deleted"}]
  /\ frees \in [Handle -> Nat]
  /\ calls \in Seq(Handle)
  /\ Len(calls) <= MaxDepth

(***************************************************************************)
(* The three layers agree: the native object is destroyed exactly when the *)
(* wrapper says it is, exactly once, however destroy(), the finalizer and  *)
(* the C++ destructor interleave (handle.ts destroy, handle.h reset).      *)
(***************************************************************************)
LayersAgree ==
  \A h \in Handle :
    /\ js[h] \in {"unborn", "alive"} => frees[h] = 0
    /\ js[h] \in {"destroyed", "collected"} => frees[h] = 1
    /\ js[h] = "alive" <=> box[h] = "owner"

\* The calls in progress whose native object is gone.
Undercut == {i \in 1..Len(calls) : frees[calls[i]] > 0}

(***************************************************************************)
(* A running native call loses its object in one way only: a callback in   *)
(* it destroys the live wrapper itself.  No call starts on a destroyed     *)
(* wrapper (handle.ts, raw), and the finalizer and the C++ destructor take *)
(* nothing from under a call (handle.ts:41, handle.h:34).  "Makes lifetime *)
(* safe" (handle.h:5-6) cannot mean more: destroy() does not look.         *)
(***************************************************************************)
OnlyDestroyUndercuts ==
  [][\A i \in Undercut' \ Undercut :
       js[calls'[i]] = "alive" /\ js'[calls'[i]] = "destroyed"]_vars

\* The promise of the abstract specification, through the wrapper's state.
Promise ==
  INSTANCE ManagedResource
    WITH Resource <- Handle,
         status   <- [h \in Handle |->
                        CASE js[h] = "unborn"       -> "unborn"
                          [] frees[h] > 0           -> "released"
                          [] OTHER                  -> "open"],
         running  <- calls

(***************************************************************************)
(* The wrapper over the C++ owner implements the managed resource: every   *)
(* use begins within the lifetime, uses nest, and there is one release     *)
(* (ts/handle.ts raw and destroy, handle.h reset).                         *)
(***************************************************************************)
ImplementsManagedResource == Promise!Spec

(***************************************************************************)
(* A wrapper that was destroyed and dropped is garbage and is collected:   *)
(* destroy() must unregister it, or the registry would keep it for ever.   *)
(***************************************************************************)
DestroyedIsCollected ==
  \A h \in Handle :
    (js[h] = "destroyed" /\ h \notin roots) ~> js[h] = "collected"

(***************************************************************************)
(* ts/handle.ts:7 calls the FinalizationRegistry a defense in depth, and   *)
(* io.cpp:33 bounds a leak by it: the native object of a wrapper that the  *)
(* application dropped without destroy() would be released eventually.     *)
(***************************************************************************)
AbandonedIsReleased ==
  \A h \in Handle :
    (js[h] = "alive" /\ h \notin roots) ~> frees[h] > 0
=============================================================================
