----------------------------- MODULE CallBlocks -----------------------------
(***************************************************************************)
(* The blocks that CallScope runs: the five working methods of             *)
(* WorkerSession (ts/worker.ts) and the programs under docs/examples, each *)
(* as a script of steps.  Loops over what the keyring or a message holds   *)
(* are unrolled to Found turns.                                            *)
(***************************************************************************)
EXTENDS CallScope, SequencesExt

CONSTANT Found         \* keys in the keyring, subkeys of each, signatures of
                       \* a message: the turns of a loop

ASSUME FoundAssumption == Found \in Nat

-----------------------------------------------------------------------------
(* Steps: `using r = ...`; r = ... with no owner yet; the binding of what  *)
(* was made; the end of an inner block; an explicit destroy(); native work *)
(* on some resources.                                                      *)

Using(r)  == [act |-> "using", on |-> r]
Make(r)   == [act |-> "make",  on |-> r]
Bind(r)   == [act |-> "bind",  on |-> r]
Leave(r)  == [act |-> "leave", on |-> r]
Drop(r)   == [act |-> "drop",  on |-> r]
Work(R)   == [act |-> "work",  on |-> R]

In(n)  == <<"input", n>>
Out(n) == <<"output", n>>
Key(n) == <<"key", n>>
Ffi(n) == <<"ffi", n>>
Op(R)  == <<"op", R>>

\* using in = ffi.input(bytes): _malloc, HEAPU8.set, and only then the try.
InputSteps(n) ==
  LET staging == <<"staging", n>> IN
  <<Make(staging), Work({staging}), Bind(staging),
    Make(<<"vector", n>>), Make(In(n)), Leave(staging), Bind(In(n))>>

\* using op = X.create(ffi, in, out) followed by k calls of the chain; the
\* operation is bound only after the last of them.
Fluent(R, k, with) ==
  <<Make(Op(R))>> \o [i \in 1..k |-> Work({Op(R)} \cup with)] \o <<Bind(Op(R))>>

\* execute() of a VerifyOperation: a handle for each signature.
VerifySteps(R) ==
  <<Work({Op(R)} \cup R)>> \o
  FlattenSeq([i \in 1..Found |->
    <<Make(<<"sig", <<R, i>>>>), Work({Op(R), <<"sig", <<R, i>>>>})>>])

\* decrypt() of ts/operations: one call, no operation.
DecryptStep(n) == <<Work({F, In(n), Out(n)})>>

-----------------------------------------------------------------------------
(* The methods of a worker session; the FFI belongs to the session.        *)

LoadKey == InputSteps(1) \o <<Work({F, In(1)}), Work({F})>>

Sign ==
  LET R == {F, In(1), Out(1)} IN
  <<Using(Key(1))>> \o InputSteps(1) \o <<Using(Out(1))>> \o
  Fluent(R, 1, {Key(1)}) \o <<Work({Op(R)} \cup R), Work({Out(1)})>>

Encrypt ==
  LET R == {F, In(1), Out(1)} IN
  <<Using(Key(1))>> \o InputSteps(1) \o <<Using(Out(1))>> \o
  Fluent(R, 1, {Key(1)}) \o
  <<Work({Op(R)}), Work({Op(R)}), Work({Op(R)} \cup R), Work({Out(1)})>>

Verify ==
  LET R == {F, In(1), Out(1)} IN
  InputSteps(1) \o <<Using(Out(1)), Using(Op(R))>> \o VerifySteps(R)

Decrypt ==
  InputSteps(1) \o
  <<Using(Out(1))>> \o DecryptStep(1) \o <<Work({Out(1)})>>

-----------------------------------------------------------------------------
(* The programs under docs/examples.                                       *)

\* generate-keys.ts: four blocks of an FFI, an operation and its key.
GenerateBlock(n, chain, exports) ==
  <<Using(Ffi(n))>> \o Fluent({Ffi(n)}, chain, {}) \o
  <<Work({Op({Ffi(n)}), Ffi(n)}), Using(Key(n)), Work({Key(n)})>> \o
  FlattenSeq([i \in 1..exports |->
    <<Using(Out(i)), Work({Key(n), Out(i)}), Work({Out(i)}), Leave(Out(i))>>]) \o
  <<Leave(Key(n)), Leave(Op({Ffi(n)})), Leave(Ffi(n))>>

\* The calls that rsa(), eddsa() and x25519() make on what create() returns.
Factory == [rsa |-> 2, eddsa |-> 1, x25519 |-> 1]

GenerateKeys ==
  GenerateBlock(1, Factory.rsa + 3, 2) \o GenerateBlock(2, Factory.eddsa, 0) \o
  GenerateBlock(3, Factory.x25519, 0) \o GenerateBlock(4, 4, 0)

\* encrypt-and-decrypt.ts: the recipient is destroyed, but not in a finally.
EncryptAndDecrypt ==
  LET pub == {F, In(3), Out(3)}
      sym == {F, In(5), Out(5)} IN
  <<Using(F)>> \o InputSteps(1) \o InputSteps(2) \o
  <<Work({F, In(1)}), Work({F, In(2)}), Make(Key(1))>> \o
  InputSteps(3) \o <<Using(Out(3))>> \o Fluent(pub, 3, {Key(1)}) \o
  <<Work({Op(pub)} \cup pub), Work({Out(3)}), Work({Key(1)})>> \o
  InputSteps(4) \o
  <<Using(Out(4))>> \o DecryptStep(4) \o <<Work({Out(4)}), Drop(Key(1))>> \o
  InputSteps(5) \o <<Using(Out(5))>> \o Fluent(sym, 2, {}) \o
  <<Work({Op(sym)} \cup sym), Work({Out(5)})>>

\* load-and-export-key.ts: iterator and subkeys have no owner, a key has.
SubkeySteps(k) ==
  FlattenSeq([i \in 1..Found |->
    <<Work({Key(k)}), Make(Key(<<k, i>>)), Work({Key(<<k, i>>)}),
      Drop(Key(<<k, i>>))>>])

LoadAndExportKey ==
  <<Using(F)>> \o InputSteps(1) \o
  <<Work({F, In(1)}), Make(<<"iterator", 1>>), Work({F, <<"iterator", 1>>})>> \o
  FlattenSeq([k \in 1..Found |->
    <<Using(Key(<<k>>)), Work({Key(<<k>>)})>> \o SubkeySteps(<<k>>) \o
    <<Using(Out(1)), Work({Key(<<k>>), Out(1)}), Work({Out(1)}),
      Leave(Out(1)), Leave(Key(<<k>>))>>]) \o
  (IF Found > 0 THEN <<Using(Key(<<>>)), Work({Key(<<>>)}), Leave(Key(<<>>))>>
                ELSE <<>>)

\* sign-and-verify.ts: four blocks; the signer is destroyed, not in a finally.
SignSteps(n, chain) ==
  LET R == {F, In(n), Out(n)} IN
  InputSteps(n) \o <<Using(Out(n))>> \o Fluent(R, chain, {Key(1)}) \o
  <<Work({Op(R)} \cup R), Work({Out(n)})>>

LeaveSign(n) == <<Leave(Op({F, In(n), Out(n)})), Leave(Out(n)), Leave(In(n))>>

InlineVerify(n) ==
  LET R == {F, In(n), Out(n)} IN
  InputSteps(n) \o <<Using(Out(n)), Using(Op(R))>> \o VerifySteps(R) \o
  LeaveSign(n)

DetachedVerify(n, m) ==
  LET R == {F, In(n), In(m)} IN
  InputSteps(n) \o InputSteps(m) \o <<Using(Op(R))>> \o VerifySteps(R) \o
  <<Leave(Op(R)), Leave(In(m)), Leave(In(n))>>

SignAndVerify ==
  <<Using(F)>> \o InputSteps(1) \o InputSteps(2) \o
  <<Work({F, In(1)}), Work({F, In(2)}), Make(Key(1)), Work({Key(1)})>> \o
  SignSteps(3, 2) \o InlineVerify(4) \o LeaveSign(3) \o
  SignSteps(5, 1) \o LeaveSign(5) \o
  SignSteps(6, 1) \o DetachedVerify(7, 8) \o LeaveSign(6) \o
  SignSteps(9, 1) \o InlineVerify(10) \o LeaveSign(9) \o
  <<Drop(Key(1)), Work({F})>>

\* worker-pool.ts: a pool and six awaited calls, terminated in a finally.
WorkerPoolExample ==
  <<Using(<<"pool", 1>>)>> \o [i \in 1..6 |-> Work({<<"pool", 1>>})]

Blocks == [loadKey |-> LoadKey, sign |-> Sign, encrypt |-> Encrypt,
           verify |-> Verify, decrypt |-> Decrypt,
           generateKeys |-> GenerateKeys, encryptAndDecrypt |-> EncryptAndDecrypt,
           loadAndExportKey |-> LoadAndExportKey,
           signAndVerify |-> SignAndVerify, workerPool |-> WorkerPoolExample]

\* The blocks that run over the FFI of their session.
WorkerMethods == {"loadKey", "sign", "encrypt", "verify", "decrypt"}

-----------------------------------------------------------------------------
\* Step j of a script acquires what a step before i gives back.
GivenBack(steps, j, i) ==
  \E k \in (j + 1)..(i - 1) :
    steps[k].act \in {"leave", "drop"} /\ steps[k].on = steps[j].on

Open(steps, acts, i) ==
  SelectSeq([j \in 1..(i - 1) |-> j],
            LAMBDA j : steps[j].act \in acts /\ ~GivenBack(steps, j, i))

\* What each block has bound and keeps alive when nothing throws: what it
\* acquired and did not give back.
BlockPlans ==
  [b \in DOMAIN Blocks |->
    [i \in 1..(Len(Blocks[b]) + 1) |->
      LET steps == Blocks[b]
          bound == Open(steps, {"using", "bind"}, i) IN
      [bound |-> [k \in DOMAIN bound |-> steps[bound[k]].on],
       live  |-> {steps[j].on : j \in Range(Open(steps, {"using", "make"}, i))}
                 \cup IF b \in WorkerMethods THEN {F} ELSE {}]]]
=============================================================================
