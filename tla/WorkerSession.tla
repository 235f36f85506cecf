--------------------------- MODULE WorkerSession ---------------------------
(***************************************************************************)
(* The server side of a worker (ts/worker.ts, class WorkerSession): one    *)
(* object per worker, whatever number of clients talk to it.  Comlink      *)
(* calls its methods in the order their messages arrive.  init() is the    *)
(* only one that suspends: while it waits for the WASM module, every other *)
(* call runs, other init() calls and terminate() included.                 *)
(*                                                                         *)
(* The handlers are indexed by the worker they run on.  The key material   *)
(* is abstracted to its owner: a key and a passphrase are named by the     *)
(* client they came from.                                                  *)
(***************************************************************************)
EXTENDS Integers, FiniteSets

CONSTANTS
  Host,      \* the workers
  Client,    \* those who call: sessions, and the owner of the pool
  None       \* undefined

VARIABLES
  rnp,         \* rnp[w]: the module instance this.rnp holds, or None
  ffi,         \* ffi[w]: this.ffi, [module, keys], or None
  passphrase,  \* passphrase[w]: whose passphrase is set, or None
  pending,     \* pending[w]: the calls of init() that wait for a module
  loads,       \* loads[w]: how many module instances were loaded
  liveFfis     \* liveFfis[w]: native FFIs created and not yet destroyed

Calls == {"init", "setPassphrase", "loadKey", "operate", "terminate"}

\* A call: whose, of what, and a number that tells it from their other calls.
Message == [from : Client, call : Calls, nr : Nat]

\* this.ffi: the instance it lives in, whose keys its keyring holds, and
\* whether it was given its password provider.
FfiObject == [module : Nat, keys : SUBSET Client, provider : BOOLEAN]

wsvars == <<rnp, ffi, passphrase, pending, loads, liveFfis>>

WSInit ==
  /\ rnp        = [w \in Host |-> None]
  /\ ffi        = [w \in Host |-> None]
  /\ passphrase = [w \in Host |-> None]
  /\ pending    = [w \in Host |-> {}]
  /\ loads      = [w \in Host |-> 0]
  /\ liveFfis   = [w \in Host |-> 0]

-----------------------------------------------------------------------------
(* init()                                                                  *)

\* this.ffi = this.rnp.createFfi(), and the provider set on it or not.
NewFfi(w, m, set) ==
  /\ ffi'      = [ffi EXCEPT ![w] = [module |-> m, keys |-> {}, provider |-> set]]
  /\ liveFfis' = [liveFfis EXCEPT ![w] = @ + 1]

\* Mutant of EnsureFfi: no test of this.ffi.
EnsureFfiAlways(w, m) == NewFfi(w, m, TRUE)

\* The second half: an FFI in module m, unless there is one already.
EnsureFfi(w, m) ==
  IF ffi[w] = None THEN NewFfi(w, m, TRUE) ELSE UNCHANGED <<ffi, liveFfis>>

\* The second half throws: at createFfi(), with nothing done; later, when
\* this.ffi is set, without its provider or with it (versionString()).
EnsureFfiThrows(w, m) ==
  \/ UNCHANGED <<ffi, liveFfis>>
  \/ ffi[w] = None /\ \E set \in BOOLEAN : NewFfi(w, m, set)

\* With a module at hand init() runs to its end ...
InitAtOnce(w) ==
  /\ rnp[w] # None
  /\ EnsureFfi(w, rnp[w])
  /\ UNCHANGED <<rnp, passphrase, pending, loads>>

\* ... or throws ...
InitThrows(w) ==
  /\ rnp[w] # None
  /\ EnsureFfiThrows(w, rnp[w])
  /\ UNCHANGED <<rnp, passphrase, pending, loads>>

\* ... and without one it asks for one of its own and suspends.
InitSuspends(w, m) ==
  /\ rnp[w] = None
  /\ pending' = [pending EXCEPT ![w] = @ \cup {m}]
  /\ UNCHANGED <<rnp, ffi, passphrase, loads, liveFfis>>

\* Mutant of InitResumes: return at once when another init() was faster.
InitResumesUnlessLoaded(w, m) ==
  /\ m \in pending[w]
  /\ pending' = [pending EXCEPT ![w] = @ \ {m}]
  /\ loads'   = [loads EXCEPT ![w] = @ + 1]
  /\ IF rnp[w] = None
     THEN rnp' = [rnp EXCEPT ![w] = loads'[w]] /\ EnsureFfi(w, loads'[w])
     ELSE UNCHANGED <<rnp, ffi, liveFfis>>
  /\ UNCHANGED passphrase

\* The module arrives; this.rnp is assigned, whatever it holds by now.
ModuleArrives(w, m) ==
  /\ m \in pending[w]
  /\ pending' = [pending EXCEPT ![w] = @ \ {m}]
  /\ loads'   = [loads EXCEPT ![w] = @ + 1]
  /\ rnp'     = [rnp EXCEPT ![w] = loads'[w]]
  /\ UNCHANGED passphrase

InitResumes(w, m) == ModuleArrives(w, m) /\ EnsureFfi(w, loads'[w])

\* The module is there, and what comes after it throws.
InitBreaks(w, m) == ModuleArrives(w, m) /\ EnsureFfiThrows(w, loads'[w])

\* Loading the module failed: the init() rejects and leaves nothing behind.
InitFails(w, m) ==
  /\ m \in pending[w]
  /\ pending' = [pending EXCEPT ![w] = @ \ {m}]
  /\ UNCHANGED <<rnp, ffi, passphrase, loads, liveFfis>>

-----------------------------------------------------------------------------
(* The calls that run to their end.                                        *)

SetPassphrase(w, c) ==
  /\ passphrase' = [passphrase EXCEPT ![w] = c]
  /\ UNCHANGED <<rnp, ffi, pending, loads, liveFfis>>

LoadKey(w, c) ==
  /\ ffi[w] # None
  /\ ffi' = [ffi EXCEPT ![w].keys = @ \cup {c}]
  /\ UNCHANGED <<rnp, passphrase, pending, loads, liveFfis>>

\* sign, verify, encrypt and decrypt read the keyring and the passphrase.
Operate(w) ==
  /\ ffi[w] # None
  /\ UNCHANGED wsvars

\* loadKey and the operations throw before init().
Refuse(w) ==
  /\ ffi[w] = None
  /\ UNCHANGED wsvars

\* terminate(): destroys the FFI and keeps the module and the passphrase.
Terminate(w) ==
  /\ ffi'      = [ffi EXCEPT ![w] = None]
  /\ liveFfis' = IF ffi[w] # None THEN [liveFfis EXCEPT ![w] = @ - 1]
                                  ELSE liveFfis
  /\ UNCHANGED <<rnp, passphrase, pending, loads>>

-----------------------------------------------------------------------------
WSTypeOK ==
  /\ rnp \in [Host -> Nat \cup {None}]
  /\ ffi \in [Host -> FfiObject \cup {None}]
  /\ passphrase \in [Host -> Client \cup {None}]
  /\ pending \in [Host -> SUBSET Message]
  /\ loads \in [Host -> Nat]
  /\ liveFfis \in [Host -> Int]

(***************************************************************************)
(* A worker has at most one native FFI, the one this.ffi holds, however    *)
(* many init() calls overlap and whenever terminate() falls between the    *)
(* halves of one, and wherever one throws: none is overwritten undestroyed *)
(* (worker.ts init).                                                       *)
(***************************************************************************)
OneFfiPerWorker ==
  \A w \in Host : liveFfis[w] = IF ffi[w] = None THEN 0 ELSE 1
=============================================================================
