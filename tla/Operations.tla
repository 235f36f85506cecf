----------------------------- MODULE Operations -----------------------------
(***************************************************************************)
(* The fluent builders of ts/operations: sign, encrypt, verify, generate,  *)
(* with their bindings.  A method looks its names up in a registry and     *)
(* then makes native calls; each step may throw, the program may catch the *)
(* exception and go on with the same operation, and rnp keeps what it was  *)
(* told.  execute() works over streams (module Streams) or over memory.    *)
(*                                                                         *)
(* A spelling of a name is "canonical", "alias" or "unknown"; "" is an     *)
(* option that is not given.  rnp knows canonical names only.  The setters *)
(* that pass on one value without a name are all the method "set".         *)
(***************************************************************************)
EXTENDS Streams, Sequences, FiniteSets

CONSTANTS
  MaxCalls,       \* bound on the method calls on one operation
  MaxSignatures,  \* bound on the signatures of a message or an operation
  MaxKeys         \* bound on the keys a history generates

ASSUME OperationsAssumption ==
  MaxCalls \in Nat /\ MaxSignatures \in Nat /\ MaxKeys \in Nat

VARIABLES
  kind,      \* the open operation's kind, or "none"
  calls,     \* method calls made on it
  call,      \* the call that runs, or NoCall
  todo,      \* the steps it has still to make
  native,    \* what rnp holds for the operation
  before,    \* native as the running or the latest call found it
  asked,     \* hashes of the addSignature() calls that returned, in order
  torn,      \* the addSignature() calls that rnp refused
  locked,    \* a protection() of this operation returned
  failure,   \* how the latest call failed: "no", "lookup", "name", "native"
  failed,    \* the method that failed, or "none"
  verdict,   \* the status rnp found for each signature of the message
  result,    \* the `valid` fields execute() has collected
  keyring    \* the keys generated, in order

ovars == <<kind, calls, call, todo, native, before, asked, torn, locked, failure,
           failed, verdict, result, keyring>>
vars  == <<svars, ovars>>

-----------------------------------------------------------------------------
(* Steps and methods.                                                      *)

Spelling == {"canonical", "alias", "unknown"}
Option   == Spelling \cup {""}

Lookup(n)   == [act |-> "lookup", on |-> "", name |-> n]
Native(f)   == [act |-> "native", on |-> f,  name |-> ""]
Named(f, n) == [act |-> "native", on |-> f,  name |-> n]
Run         == [act |-> "run",    on |-> "", name |-> ""]
If(n, s)    == IF n = "" THEN <<>> ELSE s

Method(m, h, steps) == [name |-> m, hash |-> h, steps |-> steps]
NoCall == Method("none", "", <<>>)

\* The methods, each with the steps it makes.
Setter == Method("set", "", <<Native("option")>>)

\* A looked-up name is passed on in its canonical spelling.
Canonical(f, n) == <<Lookup(n), Named(f, "canonical")>>

\* Mutant of AddSignature: the looked-up hash is not passed on.
AddSignatureDefault(h, times) == Method("addSignature", h,
  If(h, <<Lookup(h)>>) \o <<Native("signature")>> \o
  If(times, <<Native("signature.times")>>))

AddSignature(h, times) == Method("addSignature", h,
  If(h, <<Lookup(h)>>) \o <<Native("signature")>> \o
  If(h, <<Named("signature.hash", "canonical")>>) \o
  If(times, <<Native("signature.times")>>))

\* SignOperation.hash() and compression() pass the name on as it came.
SignNamed(n) == Method("hash", "", <<Lookup(n), Named("option", n)>>)

AddRecipient == Method("addRecipient", "", <<Native("recipient")>>)

\* Mutant of AddPassword: the hash is looked up after the native call.
AddPasswordLate(c, h) == Method("addPassword", "",
  If(c, <<Lookup(c)>>) \o <<Native("recipient")>> \o If(h, <<Lookup(h)>>))

AddPassword(c, h) == Method("addPassword", "",
  If(c, <<Lookup(c)>>) \o If(h, <<Lookup(h)>>) \o <<Native("recipient")>>)

EncryptNamed(n)  == Method("hash", "", Canonical("option", n))
GenerateNamed(n) == Method("hash", "", Canonical("option", n))

\* Mutant of Protection: the password is set before the parameters.
ProtectionEarly(c, h) == Method("protection", "",
  <<Native("password")>> \o If(c, Canonical("protection.cipher", c)) \o
  If(h, Canonical("protection.hash", h)) \o <<Native("protection")>>)

\* protection(): cipher, hash, iterations and mode, then the password.
Protection(c, h) == Method("protection", "",
  If(c, Canonical("protection.cipher", c)) \o
  If(h, Canonical("protection.hash", h)) \o
  <<Native("protection"), Native("password")>>)

Given == {"", "given"}

SignMethods ==
  {Setter} \cup {AddSignature(h, t) : h \in Option, t \in Given} \cup
  {SignNamed(n) : n \in Spelling}

EncryptMethods ==
  {Setter, AddRecipient} \cup {AddPassword(c, h) : c \in Option, h \in Option} \cup
  {EncryptNamed(n) : n \in Spelling}

GenerateMethods ==
  {Setter} \cup {Protection(c, h) : c \in Option, h \in Option} \cup
  {GenerateNamed(n) : n \in Spelling}

Methods == [sign     |-> SignMethods,
            encrypt  |-> EncryptMethods,
            verify   |-> {},
            generate |-> GenerateMethods]
Kind == DOMAIN Methods

\* execute(); generate goes on with getKey().
Execute(k) ==
  Method("execute", "", IF k = "generate" THEN <<Run, Native("key")>> ELSE <<Run>>)

NewNative == [sigs |-> <<>>, set |-> {}, password |-> FALSE]

-----------------------------------------------------------------------------
Init ==
  /\ StreamsInit
  /\ kind = "none" /\ calls = 0 /\ call = NoCall /\ todo = <<>>
  /\ native = NewNative /\ before = NewNative
  /\ asked = <<>> /\ torn = 0 /\ locked = FALSE
  /\ failure = "no" /\ failed = "none"
  /\ verdict = <<>> /\ result = <<>> /\ keyring = <<>>

Idle    == kind # "none" /\ call = NoCall
Running == todo # <<>> /\ Head(todo) = Run

\* What an operation is told starts from nothing.
Afresh ==
  /\ native' = NewNative /\ before' = NewNative
  /\ calls' = 0 /\ asked' = <<>> /\ torn' = 0 /\ locked' = FALSE
  /\ failure' = "no" /\ failed' = "none"
  /\ verdict' = <<>> /\ result' = <<>>
  /\ UNCHANGED <<call, todo, keyring>>

\* X.create(ffi, ...); generate's algorithm is looked up first, and a
\* create() that throws leaves nothing.  Generation works over no stream.
Create(k) ==
  /\ kind = "none" /\ kind' = k
  /\ Attach(IF k = "generate" THEN NoStream ELSE stream)
  /\ Afresh

Destroy == Idle /\ kind' = "none" /\ Attach(NoStream) /\ Afresh

\* A method is called; native work starts over the streams as they are.
Call(m) ==
  /\ Idle /\ calls < MaxCalls
  /\ m.name = "addSignature" => Len(native.sigs) < MaxSignatures
  /\ (m.name = "execute" /\ kind = "generate") => Len(keyring) < MaxKeys
  /\ calls' = calls + 1
  /\ call' = m /\ todo' = m.steps
  /\ before' = native
  /\ failure' = "no" /\ failed' = "none"
  /\ verdict' = <<>> /\ result' = <<>>
  /\ IF m.name = "execute" THEN Restart ELSE UNCHANGED svars
  /\ UNCHANGED <<kind, native, asked, torn, locked, keyring>>

\* What rnp holds after a native step that succeeded.
Applied(n, s) ==
  CASE s.on = "signature" -> [n EXCEPT !.sigs = Append(@, "default")]
    [] s.on = "signature.hash" -> [n EXCEPT !.sigs[Len(n.sigs)] = s.name]
    [] s.on = "password" -> [n EXCEPT !.password = TRUE]
    [] OTHER -> [n EXCEPT !.set = @ \cup {s.on}]

Known(s) == CASE s.act = "lookup" -> s.name # "unknown"
              [] OTHER            -> s.name \in {"", "canonical"}

LookUp ==
  /\ todo # <<>> /\ Head(todo).act = "lookup" /\ Known(Head(todo))
  /\ todo' = Tail(todo)
  /\ UNCHANGED <<svars, kind, calls, call, native, before, asked, torn, locked,
                 failure, failed, verdict, result, keyring>>

TellRnp ==
  /\ todo # <<>> /\ Head(todo).act = "native" /\ Known(Head(todo))
  /\ Head(todo).on \notin {"key", "report"}
  /\ native' = Applied(native, Head(todo))
  /\ todo' = Tail(todo)
  /\ UNCHANGED <<svars, kind, calls, call, before, asked, torn, locked, failure,
                 failed, verdict, result, keyring>>

\* getKey(): the wrapper of the key generated last.
GetKey ==
  /\ todo # <<>> /\ Head(todo).on = "key"
  /\ keyring # <<>>
  /\ keyring' = [keyring EXCEPT ![Len(keyring)].wrapped = TRUE]
  /\ todo' = Tail(todo)
  /\ UNCHANGED <<svars, kind, calls, call, native, before, asked, torn, locked,
                 failure, failed, verdict, result>>

\* While rnp runs it asks the reader and hands data to the writer.
Stream ==
  /\ Running
  /\ \/ \E a \in ReaderAnswer : Read(a)
     \/ \E a \in WriterAnswer : Write(a)
  /\ UNCHANGED ovars

\* rnp is done.  A verification ends here whatever the signatures are worth
\* (verify.cpp, do_execute), and each of them is asked for its status next.
RunEnds(statuses) ==
  /\ Running /\ Complete
  /\ kind # "verify" => statuses = <<>>
  /\ verdict' = statuses
  /\ keyring' = IF kind = "generate"
                THEN Append(keyring, [protected |-> native.password,
                                      asked |-> locked, wrapped |-> FALSE])
                ELSE keyring
  /\ todo' = [i \in 1..Len(statuses) |-> Native("report")] \o Tail(todo)
  /\ UNCHANGED <<svars, kind, calls, call, native, before, asked, torn, locked,
                 failure, failed, result>>

\* Mutant of MapSig: anything but an invalid signature is valid.
MapSigLenient(status) == status # "invalid"

MapSig(status) == status = "ok"

\* signatureAt(i) and mapSig().
Report ==
  /\ todo # <<>> /\ Head(todo).on = "report"
  /\ result' = Append(result, MapSig(verdict[Len(result) + 1]))
  /\ todo' = Tail(todo)
  /\ UNCHANGED <<svars, kind, calls, call, native, before, asked, torn, locked,
                 failure, failed, verdict, keyring>>

\* A lookup throws on an unknown name, rnp on a spelling it does not know or
\* for reasons of its own; what rnp was told before stays.
Throw ==
  /\ todo # <<>>
  /\ Head(todo).act = "lookup" => ~Known(Head(todo))
  /\ failure' = IF Head(todo).act = "lookup" THEN "lookup"
                ELSE IF Known(Head(todo)) THEN "native" ELSE "name"
  /\ failed' = call.name
  /\ call' = NoCall /\ todo' = <<>>
  /\ verdict' = <<>> /\ result' = <<>>
  /\ torn' = torn + IF failed' = "addSignature" /\ failure' # "lookup" THEN 1 ELSE 0
  /\ UNCHANGED <<svars, kind, calls, native, before, asked, locked, keyring>>

Return ==
  /\ call # NoCall /\ todo = <<>>
  /\ asked' = IF call.name = "addSignature"
              THEN Append(asked, IF call.hash = "" THEN "default" ELSE "canonical")
              ELSE asked
  /\ locked' = (locked \/ call.name = "protection")
  /\ call' = NoCall
  /\ UNCHANGED <<svars, kind, calls, todo, native, before, torn, failure, failed,
                 verdict, result, keyring>>

\* The program opens and destroys streams: between its calls, and in a
\* callback that rnp makes while it runs.  destroy() does not ask whether an
\* operation works over the stream.
UseStreams ==
  /\ call = NoCall \/ Running
  /\ \E s \in Side : CreateStream(s) \/ CreateFails(s) \/ DestroyStream(s)
  /\ UNCHANGED ovars

Statuses == UNION {[1..n -> {"ok", "invalid", "unknown"}] : n \in 0..MaxSignatures}

Next ==
  \/ UseStreams
  \/ \E k \in Kind : Create(k)
  \/ Destroy
  \/ kind # "none" /\ \E m \in Methods[kind] \cup {Execute(kind)} : Call(m)
  \/ LookUp \/ TellRnp \/ GetKey \/ Stream \/ Report \/ Throw \/ Return
  \/ \E v \in Statuses : RunEnds(v)

Spec == Init /\ [][Next]_vars

-----------------------------------------------------------------------------
(***************************************************************************)
(* What an operation signs with when it is executed: a signature for each  *)
(* addSignature() that returned, with the hash it asked for, in the order  *)
(* of the calls.  Others come only from calls that threw after rnp had     *)
(* added the signature (sign.cpp:31); while nothing threw there are none.  *)
(***************************************************************************)
SignaturesAsAsked ==
  Idle =>
    \E kept \in SUBSET DOMAIN native.sigs :
      /\ Cardinality(kept) = Len(asked)
      /\ \A i \in kept :
           native.sigs[i] = asked[Cardinality({j \in kept : j <= i})]
      /\ Len(native.sigs) - Len(asked) <= torn

(***************************************************************************)
(* A generated key is protected exactly when a protection() of its         *)
(* operation returned: one that threw, at whatever step, protects nothing, *)
(* and the program that goes on gets a bare key (generate.ts:39).  A key   *)
(* is in the keyring without a wrapper only if getKey() has not run or     *)
(* threw.                                                                  *)
(***************************************************************************)
ProtectedAsAsked ==
  /\ \A i \in DOMAIN keyring : keyring[i].protected = keyring[i].asked
  /\ (kind = "generate" /\ call.name = "execute" /\ todo = <<>>) =>
       keyring # <<>> /\ keyring[Len(keyring)].wrapped

(***************************************************************************)
(* A call that fails because of a name: an unknown one leaves rnp as it    *)
(* was, except in protection(), which may have set a cipher; a name that   *)
(* the registry knows is refused by rnp only in SignOperation.hash() and   *)
(* compression() (sign.ts:35-36), which do not pass the looked-up name.    *)
(***************************************************************************)
NameFailures ==
  /\ (failure = "lookup" /\ failed # "protection") => native = before
  /\ failure = "name" => kind = "sign" /\ failed = "hash"

(***************************************************************************)
(* A verification that returns reports every signature rnp found, `valid`  *)
(* for those rnp verified and no others (verify.ts, mapSig).  Nothing      *)
(* returns over a stream whose reader claimed more bytes than offered or   *)
(* threw, or whose writer declined or threw: the trampolines refuse, and   *)
(* rnp does not forget it (stream.cpp:46-77).  A reader that only strays   *)
(* from its contract (streams.ts:26), with 0 or undefined or a number that *)
(* wraps, is taken at its word, and execute() returns over what came       *)
(* before.  A program that destroys a stream under its operation has no    *)
(* promise at all.                                                         *)
(***************************************************************************)
ReturnsAreSound ==
  (call.name = "execute" /\ todo = <<>> /\ StreamsKept) =>
    /\ conduct # "failed"
    /\ Len(result) = Len(verdict)
    /\ \A i \in DOMAIN result : result[i] <=> verdict[i] = "ok"

(***************************************************************************)
(* A callback context exists from create() until its stream is closed and  *)
(* is deleted once, also when create() fails, whenever the program opens   *)
(* and destroys streams: between calls, under an open operation or in a    *)
(* callback (stream.cpp:65, 103).                                          *)
(***************************************************************************)
ContextsExact ==
  \A c \in 1..MaxStreams :
    heap[c] = IF \E s \in Side : stream[s] = c THEN 1 ELSE 0
=============================================================================
