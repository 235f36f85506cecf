-------------------------- MODULE ProviderRegistry --------------------------
(***************************************************************************)
(* Password providers: how a JavaScript closure set on an Ffi is found     *)
(* again when rnp asks for a password in the middle of a native call.      *)
(*                                                                         *)
(* rnp knows one C function, the trampoline, and passes it the address of  *)
(* the FFI it works for.  A process-wide registry maps that address to the *)
(* closure (src/cpp/trampoline.h).  Addresses come from an allocator and   *)
(* are used again after an FFI is destroyed; the closure runs application  *)
(* code, which may set providers, create and destroy other FFIs, and start *)
(* operations of its own before it answers.                                *)
(*                                                                         *)
(* One JavaScript thread: `stack` is its call stack, alternating native    *)
(* operations with the callbacks they make.                                *)
(***************************************************************************)
EXTENDS Integers, Sequences, FiniteSets

CONSTANTS
  Ffi,       \* the Ffi objects of the application
  Address,   \* the addresses the allocator hands out for native FFIs
  Closure,   \* the provider closures the application makes, each set once
  MaxDepth,  \* bound on the height of the call stack
  Null       \* no address (ffi_ == nullptr), no maker, no answer yet

ASSUME ProviderAssumption ==
  /\ MaxDepth \in Nat
  /\ Null \notin Address \cup Ffi

VARIABLES
  addr,       \* addr[f]: the native FFI of f, or Null
  hook,       \* the native FFIs on which the password trampoline is installed
  password,   \* the registry's password_ map, a function on some addresses
  keyed,      \* the addresses with an entry in the registry's key_provider_ map
  maker,      \* maker[c]: the Ffi on which closure c was set, or Null
  refs,       \* refs[c]: how many C++ objects keep closure c alive
  mutex,      \* is the registry's (non-recursive) mutex held?
  stack       \* the call stack, bottom first

vars == <<addr, hook, password, keyed, maker, refs, mutex, stack>>

\* What a provider does, and what rnp then gets from the trampoline.
Said  == {"password", "long", "null", "promise", "throws"}
Given == {"password", "empty", "refused"}

OpFrame == [kind : {"op"}, ffi : Ffi, at : Address,
            said : Said \cup {Null}, given : Given \cup {Null}]
JsFrame == [kind : {"copy", "js"}, ffi : Ffi, fn : Closure]
Frame   == OpFrame \cup JsFrame

Init ==
  /\ addr     = [f \in Ffi |-> Null]
  /\ hook     = {}
  /\ password = <<>>
  /\ keyed    = {}
  /\ maker    = [c \in Closure |-> Null]
  /\ refs     = [c \in Closure |-> 0]
  /\ mutex    = FALSE
  /\ stack    = <<>>

Live == {f \in Ffi : addr[f] # Null}
Top  == stack[Len(stack)]
Below == SubSeq(stack, 1, Len(stack) - 1)

\* Application code runs at top level and inside a callback.
ScriptRuns == stack # <<>> => Top.kind = "js"

\* One C++ object stops (starts) holding closure c.
Unref(r, c) == [r EXCEPT ![c] = @ - 1]
Ref(r, c)   == [r EXCEPT ![c] = @ + 1]

\* Mutant of With: one slot for all FFIs, the last provider set wins.
WithEverywhere(m, a, c) == [b \in DOMAIN m \cup {a} |-> c]

\* The map without, and the map with, an entry for address a.
Without(m, a) == [b \in DOMAIN m \ {a} |-> m[b]]
With(m, a, c) == [b \in DOMAIN m \cup {a} |-> IF b = a THEN c ELSE m[b]]
RefsWithout(m, a) == IF a \in DOMAIN m THEN Unref(refs, m[a]) ELSE refs

-----------------------------------------------------------------------------
(* What application code does.                                             *)

CreateFfi(f) ==
  /\ ScriptRuns
  /\ addr[f] = Null
  /\ \E a \in Address \ {addr[g] : g \in Live} :
       addr' = [addr EXCEPT ![f] = a]
  /\ UNCHANGED <<hook, password, keyed, maker, refs, mutex, stack>>

\* Mutant of SetPasswordProvider: no test for a destroyed handle.
SetUnchecked(f, c) ==
  /\ ScriptRuns
  /\ maker[c] = Null
  /\ ~mutex
  /\ password' = With(password, addr[f], c)
  /\ refs'     = Ref(RefsWithout(password, addr[f]), c)
  /\ maker'    = [maker EXCEPT ![c] = f]
  /\ hook'     = hook \cup {addr[f]}
  /\ UNCHANGED <<addr, keyed, mutex, stack>>

\* The closure replaces the map's entry; then the trampoline is installed.
SetPasswordProvider(f, c) ==
  /\ ScriptRuns
  /\ addr[f] # Null
  /\ maker[c] = Null
  /\ ~mutex
  /\ password' = With(password, addr[f], c)
  /\ refs'     = Ref(RefsWithout(password, addr[f]), c)
  /\ maker'    = [maker EXCEPT ![c] = f]
  /\ hook'     = hook \cup {addr[f]}
  /\ UNCHANGED <<addr, keyed, mutex, stack>>

\* The key provider is a stored no-op: only the map's domain matters.
SetKeyProvider(f) ==
  /\ ScriptRuns
  /\ addr[f] # Null
  /\ ~mutex
  /\ keyed' = keyed \cup {addr[f]}
  /\ UNCHANGED <<addr, hook, password, maker, refs, mutex, stack>>

\* Mutant of DestroyFfi: the registry keeps its entries.
DestroyWithoutDrop(f) ==
  /\ ScriptRuns
  /\ addr[f] # Null
  /\ hook' = hook \ {addr[f]}
  /\ addr' = [addr EXCEPT ![f] = Null]
  /\ UNCHANGED <<password, keyed, maker, refs, mutex, stack>>

(***************************************************************************)
(* FfiHandle::reset(): drop the registry entries, then destroy the FFI.    *)
(* It does not ask whether an operation below the script works on the FFI: *)
(* that operation keeps the address, which the next FFI may be given.      *)
(***************************************************************************)
DestroyFfi(f) ==
  /\ ScriptRuns
  /\ addr[f] # Null
  /\ ~mutex
  /\ password' = Without(password, addr[f])
  /\ refs'     = RefsWithout(password, addr[f])
  /\ keyed'    = keyed \ {addr[f]}
  /\ hook'     = hook \ {addr[f]}
  /\ addr'     = [addr EXCEPT ![f] = Null]
  /\ UNCHANGED <<maker, mutex, stack>>

\* An operation enters rnp with the address of its FFI.
StartOperation(f) ==
  /\ ScriptRuns
  /\ addr[f] # Null
  /\ Len(stack) < MaxDepth
  /\ stack' = Append(stack, [kind |-> "op", ffi |-> f, at |-> addr[f],
                             said |-> Null, given |-> Null])
  /\ UNCHANGED <<addr, hook, password, keyed, maker, refs, mutex>>

-----------------------------------------------------------------------------
(* What rnp and the trampoline do.                                         *)

\* Mutant of AskPassword: the closure is called in place, not copied.
AskByReference ==
  /\ stack # <<>> /\ Top.kind = "op"
  /\ Top.at \in hook \cap DOMAIN password
  /\ Len(stack) < MaxDepth
  /\ ~mutex
  /\ stack' = Append(stack, [kind |-> "copy", ffi |-> Top.ffi,
                             fn |-> password[Top.at]])
  /\ mutex' = TRUE
  /\ UNCHANGED <<addr, hook, password, keyed, maker, refs>>

(***************************************************************************)
(* rnp asks for a password where the trampoline is installed, and it may   *)
(* where the FFI was destroyed under the operation, in memory that is not  *)
(* its own any more.  With an entry for its address call_password() copies *)
(* the closure, holding the mutex; with none the trampoline answers false. *)
(***************************************************************************)
AskPassword ==
  /\ stack # <<>> /\ Top.kind = "op"
  /\ Top.at \in hook \/ addr[Top.ffi] # Top.at
  /\ Len(stack) < MaxDepth
  /\ ~mutex
  /\ IF Top.at \in DOMAIN password
     THEN LET c == password[Top.at] IN
          /\ refs'  = Ref(refs, c)
          /\ stack' = Append(stack, [kind |-> "copy", ffi |-> Top.ffi, fn |-> c])
          /\ mutex' = TRUE
     ELSE /\ stack' = Append(Below, [Top EXCEPT !.said = Null, !.given = "refused"])
          /\ UNCHANGED <<refs, mutex>>
  /\ UNCHANGED <<addr, hook, password, keyed, maker>>

\* Mutant of CallCopy: the call is inside the lock's block.
CallCopyLocked ==
  /\ stack # <<>> /\ Top.kind = "copy"
  /\ stack' = Append(Below, [Top EXCEPT !.kind = "js"])
  /\ UNCHANGED <<addr, hook, password, keyed, maker, refs, mutex>>

\* The lock's block ends, and the copy is called.
CallCopy ==
  /\ stack # <<>> /\ Top.kind = "copy"
  /\ mutex' = FALSE
  /\ stack' = Append(Below, [Top EXCEPT !.kind = "js"])
  /\ UNCHANGED <<addr, hook, password, keyed, maker, refs>>

(***************************************************************************)
(* The wrapper of Ffi.setPasswordProvider turns null, a Promise and an     *)
(* exception into "", and the trampoline hands "" to rnp as a password; a  *)
(* password that does not fit rnp's buffer is refused.                     *)
(***************************************************************************)
Answer(said) ==
  CASE said = "password" -> "password"
    [] said = "long"     -> "refused"
    [] OTHER             -> "empty"

ProviderReturns(said) ==
  /\ stack # <<>> /\ Top.kind = "js"
  /\ refs'  = Unref(refs, Top.fn)
  /\ stack' = [Below EXCEPT ![Len(Below)] =
                  [@ EXCEPT !.said = said, !.given = Answer(said)]]
  /\ UNCHANGED <<addr, hook, password, keyed, maker, mutex>>

OperationReturns ==
  /\ stack # <<>> /\ Top.kind = "op"
  /\ stack' = Below
  /\ UNCHANGED <<addr, hook, password, keyed, maker, refs, mutex>>

-----------------------------------------------------------------------------
Script == \E f \in Ffi :
  \/ CreateFfi(f) \/ DestroyFfi(f) \/ SetKeyProvider(f) \/ StartOperation(f)
  \/ \E c \in Closure : SetPasswordProvider(f, c)

Native == AskPassword \/ CallCopy \/ OperationReturns

Next == Script \/ Native \/ \E said \in Said : ProviderReturns(said)
Spec == Init /\ [][Next]_vars

-----------------------------------------------------------------------------
TypeOK ==
  /\ addr \in [Ffi -> Address \cup {Null}]
  /\ hook \in SUBSET Address
  /\ DOMAIN password \in SUBSET Address
  /\ \A a \in DOMAIN password : password[a] \in Closure
  /\ keyed \in SUBSET Address
  /\ maker \in [Closure -> Ffi \cup {Null}]
  /\ refs \in [Closure -> Int]
  /\ mutex \in BOOLEAN
  /\ stack \in Seq(Frame)
  /\ Len(stack) <= MaxDepth

(***************************************************************************)
(* Two live Ffi objects never share a native FFI, and the registry has     *)
(* entries for live native FFIs only, exactly where the trampoline is      *)
(* installed: a destroyed Ffi leaves nothing behind for the next owner of  *)
(* its address (ffi.hpp reset, trampoline.h drop).                         *)
(***************************************************************************)
RegistryInStep ==
  /\ \A f, g \in Live : addr[f] = addr[g] => f = g
  /\ DOMAIN password = hook
  /\ hook \cup keyed \subseteq {addr[f] : f \in Live}

(***************************************************************************)
(* The closure that is asked for an operation was set on the Ffi object    *)
(* the operation runs on, whatever happened to addresses and entries since *)
(* it began, as long as that Ffi has not been destroyed under it           *)
(* (trampoline.h call_password, ffi.hpp reset).                            *)
(***************************************************************************)
ClosureAsked == Len(stack') > Len(stack) /\ Top'.kind = "copy"

AnsweredByOwnProvider ==
  [][ClosureAsked /\ addr[Top.ffi] = Top.at => maker[Top'.fn] = Top.ffi]_vars

(***************************************************************************)
(* Closures are counted exactly: one reference for the registry's entry,   *)
(* one for each running copy.  So a closure that replaces itself, or       *)
(* destroys the very Ffi it was set on, stays alive until it returns, and  *)
(* none outlives both (trampoline.h call_password copies fn before calling *)
(* it).                                                                    *)
(***************************************************************************)
RefsExact ==
  \A c \in Closure :
    refs[c] = Cardinality({a \in DOMAIN password : password[a] = c})
            + Cardinality({i \in 1..Len(stack) :
                             stack[i].kind \in {"copy", "js"} /\ stack[i].fn = c})

(***************************************************************************)
(* Wherever application code runs the registry's mutex is free: it is not  *)
(* recursive, and a provider that sets a provider would wait for itself.   *)
(***************************************************************************)
ScriptsRunUnlocked == ScriptRuns => ~mutex
=============================================================================
