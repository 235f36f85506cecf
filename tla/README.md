# rnp-wasm: TLA+ specifications

rnp-wasm makes the OpenPGP library rnp, compiled to WebAssembly, usable from
TypeScript. Most of its code forwards calls. What can go wrong is the rest:
who frees which native object and when, what a callback may do to the call it
runs in, what happens to the sessions of a worker whose calls overlap, and
what is left behind when one of several steps throws. These modules specify
that part, TLC checks it on small instances, and TLAPS proves the main
invariants for every instance.

Paths below are relative to the repository's root (`ts/...`,
`src/cpp/...`).

## 1. The system

### 1.1 Components

| Component | Files | State it keeps | Operations |
|---|---|---|---|
| Handle | `ts/handle.ts`, `src/cpp/handle.h`, `ts/disposable.ts` | `destroyed`, `handle`, the FinalizationRegistry; `ptr_` on the C++ side | construct, `raw`, `destroy`, `[Symbol.dispose]`, finalizer; `reset`, destructor, `release`, moves |
| Ffi and providers | `ts/ffi.ts`, `ts/providers/*.ts`, `bindings/ffi.*`, `trampoline.*` | two maps from native address to closure, a mutex | create, set a password or key provider, reset, `call_password` |
| Worker pool | `ts/pool.ts` | the workers, the round-robin index | `session`, `terminateAll` |
| Worker session | `ts/worker.ts`, `ts/rnp.ts`, `ts/wasm-module.ts` | `rnp`, `ffi`, `passphrase` | init, setPassphrase, loadKey, sign, verify, encrypt, decrypt, terminate |
| Inputs and outputs | `ts/io.ts`, `bindings/io.*` | staging copy, C++ copy, native input or output | from bytes, from string, bytes, armor helpers |
| Operations | `ts/operations/*.ts`, `bindings/{sign,verify,encrypt,decrypt,generate}.cpp` | a native operation with options and signatures | fluent setters, execute, results |
| Byte buffer pool | `ts/memory/pool.ts` | free lists per bucket, statistics | acquire, release, drain, stats |
| Name registries | `ts/registry/*.ts`, `ts/pqc.ts` | canonical names, aliases, a one-shot flag | register, lookup, has, list |
| Streams | `ts/streams.ts`, `bindings/stream.cpp` | a callback context owned by rnp | create, read, write, finish, close |
| Keyring and iteration | `ts/keyring.ts`, `ts/identifier-iterator.ts`, `bindings/{keyring,iterator}.cpp` | none of their own | load, unload, import, save, locate, iterate |
| Keys, user ids, signatures | `ts/key.ts`, `ts/uid.ts`, `ts/signature.ts`, `bindings/{key,uid,signature}.*` | handles | getters, lock, unlock, protect, sub-handles |
| Errors, bytes, dumps | `ts/errors.ts`, `ts/bytes.ts`, `ts/dump.ts`, `error.h` | none | mappings and conversions |
| Examples | `docs/examples/*.ts` | what each program binds | generate, load and export, sign and verify, encrypt and decrypt, a worker pool |
| Start-up and shims | `bindings/bootstrap.cpp`, `src/cpp/shim_*.cpp`, `entry.cpp`, `ts/index.ts` | none | probes, host calls |

### 1.2 How they interact

* A TypeScript wrapper holds an Embind object, which owns a C++ `Handle<T>`,
  which owns a native rnp object. Three layers can release it: `destroy()` (or
  `using`), a finalizer, and the C++ destructor.
* rnp calls back in the middle of a native call: for a password, for a stream
  chunk. The callback is application code and may call the package again.
* For a password rnp is given one C function and the address of its FFI. The
  C++ registry maps the address to a closure. Addresses are reused.
* A pool gives workers to sessions in turn. A session is a Comlink remote:
  every call is a message, every answer another. On the worker, `init()`
  awaits the WASM module, and while it waits other calls run.
* A worker method builds an input, an output and an operation with `using`,
  so leaving the block releases them in reverse order, by return or exception.

### 1.3 What is hard, and what makes each component correct

| Component | What is hard | What must hold |
|---|---|---|
| Handle | three releasers; callbacks inside calls; reachability decides which finalizers run | one release per native object, under a running call only if a callback destroys the wrapper itself; a destroyed wrapper can be collected |
| Providers | reused addresses, re-entrancy, a provider that replaces itself, a mutex that is not recursive | the right closure answers; none is freed while it runs or kept after; no self-deadlock |
| Worker pool and session | overlapping `init()` calls, `terminate()` between the halves of one, calls in flight, sessions that share a worker, an `init()` that fails at the load or half way behind it | one FFI per worker; an answered `init()` holds; every call answered once; privacy of a session alone on its worker |
| Calls on a worker | any step may throw, at any depth of acquisition | nothing is released before what refers to it; what is left behind is known |
| Byte buffer pool | eviction at the cap, drain, failed allocation | no buffer with two users; statistics equal to the heap |
| Registries | a registration that throws half way; aliases against names | aliases resolve; names are never redirected |
| Streams | who deletes the callback context; a reader or writer that misbehaves in the middle of an operation | one delete, when the stream is closed; nothing succeeds over a stream that failed |
| Operations | an option refused after part of it was applied, and a program that goes on with the operation | what is executed is what was asked for; a verification reports every signature, `valid` for the verified ones only |
| Keys and errors | destroyed objects, exceptions that are swallowed, two kinds of errors | no handle of a destroyed object reaches rnp, no exception counts as equality |
| Iteration | a keyring that changes, is destroyed or fails between two pieces of a loop; an identifier that looks like the end | an iteration that resolves is complete and in order; every promise settles |
| Conversions | last groups of Base64, foreign characters, a 32-bit shift | decoders undo encoders and keep what a text spells; a rounded size holds what was asked for |
| Examples | exceptions between an acquisition and its release | only what has no owner is lost |

`PROJECT.json` lists the hazards at their lines, with the properties that
cover each.

## 2. The modules

```
ManagedResource  <--implements--  HandleLifecycle  <- MCHandleLifecycle, Ownership_proofs
ProviderRegistry  <- MCProviderRegistry, ProviderRegistry_proofs
RoundRobin, WorkerSession  <--compose--  WorkerPool  <- MCWorkerPool, WorkerPool_proofs
Streams  <--composes--  Operations  <- Operations_proofs
Keys  <- MCKeys, Keys_proofs
CallScope  <- CallBlocks (the scripts it runs), Ownership_proofs
NameRegistry  <--implements--  PackageRegistries  <- MCPackageRegistries, NameRegistry_proofs
BufferPool  <- MCBufferPool, BufferPool_proofs
Conversions  <- MCConversions, Conversions_proofs
```

Actions carry the names of the functions they model. A definition called
"Mutant of ..." is a plausible bug in the one it is named after; no
specification uses it, and with it in place of the original the property that
`PROJECT.json` names fails.

### 2.1 ManagedResource and HandleLifecycle

`ManagedResource` is the promise about a native object, without layers:
acquired once, uses begin only while it is open and nest, released at most
once. `HandleLifecycle` is the code: `js` is the wrapper (`destroyed`),
`registry` the FinalizationRegistry, `roots` what the application references,
`box` the Embind object with its `ptr_`, `frees` how often `DestroyFn` ran,
`calls` the stack of native calls.

| Action | Code |
|---|---|
| `Construct` | `ts/handle.ts` constructor |
| `Call`, `Return` | a method through the `raw` getter; its return |
| `Destroy` | `destroy()`, `[Symbol.dispose]()`, with `Handle::reset()` |
| `Drop` | the application's last reference goes |
| `Collect` | the engine collects, and the finalizer runs if registered |
| `DeleteOwner` | `~Handle()` through Embind |

Garbage collection is nondeterministic, limited by `Reachable`: the cleanup
closure `() => this.destroy()` holds the wrapper and the FinalizationRegistry
holds the closure, so a registered wrapper is reachable. The refinement maps
`frees` and `js` to `status`, and the calls in progress to `running`.

A callback may destroy the very wrapper whose method is running below it:
`destroy()` does not look, and neither does `Destroy`. The running call has then
lost its object. `OnlyDestroyUndercuts` says that this is the one way to lose
it: no call starts on a destroyed wrapper, and no collector takes an object from
under a call. "Makes lifetime safe" (`handle.h:5-6`) cannot mean more.

### 2.2 ProviderRegistry

`addr` is each Ffi's native address, `password` and `keyed` the two maps of
`trampoline.h`, `hook` the FFIs on which the trampoline was installed, `refs`
the reference counts of the closures, `mutex` the registry's mutex, `stack`
the JavaScript and native call stack.

| Action | Code |
|---|---|
| `CreateFfi`, `DestroyFfi` | `ffi.cpp` create; `ffi.hpp` reset (registry first, then the FFI) |
| `SetPasswordProvider`, `SetKeyProvider` | `ts/ffi.ts`, `ffi.cpp` |
| `StartOperation`, `OperationReturns` | any native call that may ask for a password |
| `AskPassword` | `call_password` up to the end of the lock: the closure is copied |
| `CallCopy` | the copy is called, with the mutex free |
| `ProviderReturns` | the wrapper of `ts/ffi.ts` and the result handling of `trampoline.cpp` |

What a provider does is one of `Said` (a password, one that is too long, null, a
promise, an exception) and what rnp gets is `Answer(said)`: of these, only a
password that is too long is refused. Application code
runs at top level and inside callbacks (`ScriptRuns`), and may destroy any Ffi,
also the one whose operation is running below it. `reset()` has no test, and
the operation goes on; it may ask again while its address is free or belongs to
another Ffi. `AnsweredByOwnProvider` promises nothing for such an operation. The
other properties hold for it, the reference counts of closures included. The
mutex is modelled as a lock that blocks; the shipped build has one thread
(`scripts/build-deps.sh:101`) and would not notice a self-lock. A closure is set once; a program that sets the same
function twice has two closures here, since C++ holds two values.

### 2.3 RoundRobin, WorkerSession, WorkerPool

`RoundRobin` is `session()`; `handed` counts sessions per worker.
`WorkerSession` is the class of that name, indexed by the worker it runs on:
`rnp` (numbered module instances), `ffi` (the instance, whose keys its keyring
has, and whether its password provider is set), `passphrase` (whose), `pending`
(the suspended `init()` calls), `liveFfis`. `WorkerPool` adds ports (FIFO, lossless, which is what a
MessagePort is), the calls that wait for an answer (`awaiting`), and `terminateAll()`.

| Action | Code |
|---|---|
| `TakeSession` | `pool.ts` session |
| `Request` | a call through the Comlink remote, whether or not the session's last one was answered |
| `TerminateAll`, `TerminateNext` | the loop of `terminateAll()` |
| `HandleInit`, `FinishInit` | `init()` up to the await (or to its end); its continuation, or the rejection of the load. Both may end in an exception of `createFfi()`, `setPasswordProvider()` or `versionString()` (`EnsureFfiThrows`) |
| `HandleSetPassphrase`, `HandleLoadKey`, `HandleOperate`, `HandleTerminate` | the methods that run to their end |

Calls are numbered, so that two calls of one session are not taken for one.
Keys and passphrases are named by the client they came from, which is all the
privacy property needs. `ready` and `used` are history variables: read by
properties, never by the code.

### 2.4 CallScope and CallBlocks

One block of code as a script of steps: a `using` declaration, a native object
made before it is bound, a binding, the end of an inner block, an explicit
`destroy()`, native work on some resources. Every acquisition and every work
step may throw. Leaving the block releases what is bound, youngest first. What
is still in `live` then has no owner. A resource is a pair of a kind and what
it belongs to; an operation is named by the resources it works over, which
must outlive it. `CallScope` is the machine, for any `Script`; `CallBlocks` has
the scripts.

The scripts are the five working methods of `ts/worker.ts` (`loadKey`, `sign`,
`verify`, `encrypt`, `decrypt`) with the factories they call, and the five
programs under `docs/examples`. Loops over keys, subkeys and signatures make
`Found` turns. `setPassphrase`, `init` and `terminate` acquire nothing in a
scope. The bytes of an input are copied twice: `HEAPU8.set` into the staging buffer,
a step of its own between `_malloc` and the `try` (`io.ts:48`), and into the C++
vector. `Begin` starts from an empty heap, but for the session's FFI: what one
block left behind does not affect the next.

`BlocksWellFormed` states how a block has to be written for the machine to be
safe. It reads a block from top to bottom and says nothing of exceptions. `Plan`
is what is bound and live before each step when nothing throws; the rules fix it
(`Fresh`, `After`), and the machine does not use it. `Declared`: what comes to
life is new and what it refers to is there already, a name is bound before what
will refer to it, inner blocks nest, and what is released by hand is not in use.
`Owned`: which kinds may be without an owner, and where. `Copied`: every C++ copy
of some bytes belongs to the input made next. Before the run, TLC evaluates it
for the ten scripts with `BlockPlans`: what was acquired and not given back.

### 2.5 Streams and Operations

`Streams` is the context behind `StreamInput` and `StreamOutput`: `heap`
counts allocations minus deletions of each, `stream` the open one of each side,
`over` the contexts the open operation works over, `flow` what rnp knows of a
side after the latest answer of the reader or writer, `conduct` how they behaved
in the run: they kept their contract, strayed from it with an answer that the
trampoline takes all the same, or failed.

| Action | Code |
|---|---|
| `CreateStream`, `CreateFails` | `stream.cpp` create; the `delete` when rnp refuses |
| `DestroyStream` | the wrapper's destroy, rnp's closer |
| `Attach`, `Restart` | an operation is created over the open streams; it is executed |
| `Read`, `Write` with `ReaderOutcome`, `WriterOutcome` | the two C trampolines |

A number is read as `uint32_t`: a negative one is too large, 0, NaN and 2^32 are
no bytes (`zero`), which rnp takes for the end, and 2^32 + 1 is one byte
(`wrapped`). A writer's answer is taken as `as<bool>()` takes it, but for null
and undefined, which accept. That rnp
reports success only when it saw the end of the input and no side failed
(`Complete`) is an assumption about rnp.

`Operations` is the builders of sign, encrypt, verify and generate. A method is
a list of steps (`Lookup` of a name, `Native` work, `Run`), which are the
statements of the method and of the C++ function it calls, in their order;
`AddSignature` has one more native step than the TypeScript shows. Any step may
throw (`Throw`); the call is over, and rnp keeps what it was told (`native`).
The program may go on with the same operation. The setters that pass one value on without a
name are one method, `set`; so are the setters that take one name, `hash`.
`asked`, `torn`, `locked` and `before` are history variables.

| Action | Code |
|---|---|
| `Create`, `Destroy` | the static `create` functions; `destroy()` |
| `Call`, `LookUp`, `TellRnp`, `Throw`, `Return` | a method of `ts/operations/*.ts` with its native calls |
| `Stream`, `RunEnds` | `execute()`: what rnp does over the streams, and its end |
| `Report` | the loop over `signatureAt(i)` with `mapSig()` |
| `GetKey` | the end of `GenerateOperation.execute()` |

The program opens and destroys streams between its calls and inside the callbacks
of a run. `destroy()` of a stream does not ask whether an operation works over
it. rnp then calls through a context that is gone, and any answer may come back;
`ContextsExact` still holds, and `ReturnsAreSound` is about streams that are kept.

### 2.6 Keys

An Ffi, its keyring (`ring`, in the order of loading), the variables of a
program that hold a `Key` (`held`), iterations over identifiers (`task`), and
the outcome of the latest call (`last`). A call is a list of native calls, each
with the objects whose handles it takes. It ends behind one of them (`Ended`):
before the next, which needs a destroyed object (`Refusal`), because rnp failed
(`Failure`), or because it was the last (`Reached`). Most methods have one;
`equals()` has asked for one fingerprint before it reaches for the other key,
and `exportToBytes()` has had an output made before it looks at the key. `last`
says whether a destroyed object was involved, whether rnp was given the handle
of one, and how the call ended.

| Action | Code |
|---|---|
| `Load`, `Unload`, `Locate`, `FacadeCall`, `Dump` | `ts/keyring.ts`, `ts/ffi.ts`, `ts/dump.ts` |
| `KeyCall`, `ExportAutocrypt`, `ExportToBytes`, `UnknownHash`, `SubkeyAt`, `RemoveKey`, `Equals` | the methods of `ts/key.ts` |
| `DestroyObject` | `destroy()` of Ffi, key, input or output |
| `Iterate`, `Deliver`, `DeliverLast`, `Settle` | `identifiers()`, `allIdentifiers()` and the async iterator of `ts/identifier-iterator.ts` |
| `DestroyIterator`, `Forget` | the program's handling of the iteration |

The wrappers hold no reference on each other, so a program can destroy the Ffi
under its keys and iterations. `orderly` records that it has not done so, nor
removed a key that another wrapper stands for, nor let a key go under an
iteration; `stray` that freed memory was used. After that nothing is specified.

An iteration is over identifiers of one kind. Keyids, fingerprints and grips are
never empty, a user id may be (`AUDIT.md` C3): `Nameless` are the keys that have
such a one, and `blank` those of them an iteration meets. The iterator ends at
the first, and so does `Pull`: `IterationExact` promises the identifiers before
it (`Leading`).

### 2.7 NameRegistry and PackageRegistries

`register()` with its partial effect: the name and the aliases before the
colliding one stay when it throws. `Fresh` is the check for repetitions,
`Colliding` the one for collisions, `Accepted` what was set. Names are
lower-cased spellings.

`PackageRegistries` is who registers what: `LoadNext` the statements of
`ts/registry/algorithm.ts` and `feature.ts`, one table after another each in a
registry of its own, `CallPqc` and `PqcNext` `registerPqcAlgorithms()` with its
one-shot flag, `RegisterOwn` an application. It implements `NameRegistry`:
theorem `PackageRefines`.

### 2.8 BufferPool

`pooled`, `lent`, `heap`, and the statistics. `Acquire` takes the last free
buffer (`AcquirePooled`), allocates (`AcquireFresh`) or throws with the miss
counted (`AcquireFails`); `Release` pools or evicts; `Drain` frees
what is pooled. Sizes are in units of 256 bytes. A caller releases a buffer
once; a second `release()` would pool it twice, and the code does not check.

### 2.9 Conversions

The functions of `ts/bytes.ts` on sequences of character codes, and `roundUp()`
of the buffer pool on words of `WordBits` bits. One growing sequence is the
bytes to encode, the text to decode and, by its first element, the size to
round. `Cleaned` and the powers of two are recursive functions. `WordBits` is 32
and `MinBits` is 8 in the code. The reference definition is the stream of bits (`Bit`): an encoding cuts
it into pieces of another size, and decoding must give the same stream.

## 3. The runs

| Run | Instance | What it shows |
|---|---|---|
| `handle_lifecycle` | 3 wrappers, calls two deep, fair | the layers agree, only a destroy() takes an object from under a call, the refinement of `ManagedResource`, destroyed wrappers are collected |
| `handle_abandoned` | 2 wrappers | violated: `ts/handle.ts:7` and `io.cpp:33` rely on a finalizer for wrappers nobody destroyed; it never runs |
| `provider_registry` | 2 Ffi, 2 addresses, 3 closures, stack of 4 | registry in step with the FFIs, the right closure answers, reference counts exact, no callback under the mutex; no deadlock |
| `worker_pool` | 3 sessions, 2 workers, 3 calls and `terminateAll()`, fair | one FFI per worker, answered `init()` holds, calls conserved, balanced, private when alone; every call answered, `terminateAll()` ends |
| `call_scope` | ten blocks, loops of 2 turns, any step throws | nothing dangles; no more is lost than `CallsReclaim` lists |
| `operations` | 3 calls on each operation, 2 signatures, 1 key, 2 streams | what is executed is what was asked for, up to calls that threw; lookups fail before rnp is told; results are complete; contexts are deleted once |
| `keys` | 2 keys, one of them nameless, 2 wrappers, 1 iteration, fair | handles of destroyed objects never reach rnp; orderly programs never use freed memory; iterations are exact and settle |
| `name_registry` | the package's tables; an application with 4 names and alias lists up to 2 | imports never throw, aliases resolve, names are never redirected, post-quantum names are whole or the call threw |
| `name_registry_eddsa` | the same | violated: `ED25519` looks up `EDDSA` |
| `buffer_pool` | 3 buckets, 4 pointers, cap 1, requests 0 to 3 | no aliasing, allocated sizes right, statistics exact |
| `conversions` | up to 4 elements, every first one, then seven values; words of 8 bits, classes from 4 up | encoders regroup bits, decoders undo them, documented texts decode to bytes that spell them, `roundUp` ends for a quarter of the words |
| `conversions_foreign` | the same, up to 3 elements | violated: `ts/bytes.ts:95`; a foreign character is dropped unnoticed |

Why the bounds are enough. Every interesting case takes two of something: a
second wrapper for the callback to work on, a second Ffi to inherit an
address, a third closure so that one is replaced while another runs, two
sessions to share a worker while a third is alone, a call on each side of an `init()`'s await and a
`terminate()` between them, a second buffer for a full bucket, a second wrapper
of the key that is removed, a second key for an iteration to be overtaken by a
load. Three calls on an operation are one that throws, one that does not, and
`execute()`. Three calls to a worker are two `init()` calls, or an `init()` and
what is sent behind it without waiting, and one more. The three sessions take
their workers in one order (`InTurn`): they are alike, no property and no fairness
names one, and nothing else is left out. Four characters are a whole group of Base64, and three bytes too;
the seven later values are the ends of the byte range, a digit and letters of
each alphabet, a pad, and the last character of Base64. Eight bits are the
least width at which every first element is a size, below, at and above the
quarter, and a smallest class of four has sizes below it. A stack of four frames is an operation, its callback, an operation
the callback starts, and its callback. The theorems remove the bounds for every
invariant; for the two of `call_scope` also the ten scripts.

Deadlock is checked in `provider_registry`, where a self-lock would show as
one, in `buffer_pool` and in `call_scope`. The other runs stop when their
bounded work is done and say so.

Fairness. In `HandleLifecycle`, a native call makes finitely many callbacks
and returns, so the event loop becomes idle again and again (strong fairness
of `Return` at each depth), and the engine collects garbage at idle moments
(strong fairness of `Collect`; engines promise no moment, and the property is
about what they are allowed to collect). In `WorkerPool`, an event loop takes
its next message, a module load resolves or rejects, and an async loop
continues when its promise settles: weak fairness of `Loop`, `FinishInit` and
`TerminateNext`. Sessions owe nothing: there is no fairness on `Request`. In
`Keys`, a suspended loop is resumed, because the microtask queue is first in,
first out: weak fairness of `Resume` of each iteration. The program owes nothing.

## 4. Findings and observations

The three violated runs are the findings of `PROJECT.json`: abandoned wrappers,
foreign Base64 characters, and the name `ED25519`. More observations have no run
of their own; the modules have these steps, and the properties allow for them.

* A provider that returns null does not abort: rnp is given the empty password
  (`ts/ffi.ts:101`, `Answer`). `ts/providers/password.ts:4` and `docs/api.md:205`
  say that it aborts.
* Nobody deletes the C++ copy of an input's bytes (`bindings/io.cpp:35`);
  `io.cpp:31` says that it is "freed when the input is destroyed". `CallsReclaim`
  allows it for each input.
* A reader's 0, NaN or undefined ends the input as null does
  (`bindings/stream.cpp:51`), and `execute()` returns over part of it.
  `ts/streams.ts:26` and `stream.cpp:88` ask for 0 < n. `ReturnsAreSound` promises
  nothing of a reader that strays so.
* What rnp refuses is thrown as a plain `Error` (`src/cpp/error.h:24`).
  `ts/errors.ts:45` and `ts/key.ts:6` say `RnpError`.
* An `init()` that awaits its module while `terminate()` runs creates an FFI
  afterwards (`ts/worker.ts:37`), which no later call may destroy.
  `ts/worker.ts:12` has one FFI "for the lifetime of the session".
* Two overlapping `init()` calls load two module instances on one worker
  (`ts/worker.ts:35`), and `initRnp()` instantiates a module at each call,
  while `docs/api.md:14` says that later calls reuse the instance. The model
  has it (`loads`); `OneFfiPerWorker` shows that it leaves no second FFI.
* Sessions beyond the number of workers share a worker, its keyring and
  passphrase (`ts/pool.ts:46`). `ts/worker.ts:13` reads as if each had its
  own. `AloneMeansPrivate` states what does hold.
* An exception of `setPasswordProvider()` leaves `this.ffi` set
  (`ts/worker.ts:38`). That `init()` rejects; the next one finds an FFI, returns
  normally, and every operation that needs the passphrase is given none.
  `OneFfiPerWorker` and `AnsweredInitHolds` hold all the same.
* `HEAPU8.set` (`ts/io.ts:48`) runs between `_malloc` and the `try` whose
  `finally` frees. When it throws, the staging buffer is lost. `CallsReclaim`
  allows it in this case only.
* `using op = SignOperation.create(...).addSignature(...)` binds the operation
  after the fluent call. When that throws, the operation has no owner.
  `CallsReclaim` allows it for one operation of a call that threw.
* The examples destroy a recipient and a signer outside of a `finally`
  (`docs/examples/encrypt-and-decrypt.ts:43`), and nobody releases the iterator
  of `allIdentifiers()` or the handles of verified signatures.
* The signature is added before its hash is accepted (`sign.cpp:31`). A program
  that catches the exception and executes the operation signs once more than
  it asked for, with the default hash. `SignaturesAsAsked` bounds this by the
  calls that threw.
* `SignOperation.hash()` and `compression()` check the name in the registry and
  pass the original spelling on (`ts/operations/sign.ts:35`), so that an alias
  is accepted by the registry and refused by rnp. `NameFailures` names them.
* An `RnpError` tells the program that it used a destroyed object or, as
  `RnpKeyNotFoundError`, that `mustLocate()` found nothing: `FailsClosed`.
* Identifiers behind one that is empty are not delivered, and the iteration
  resolves as if it were complete (`ts/identifier-iterator.ts:32`, `AUDIT.md`
  C3).
* A password provider that destroys its own Ffi leaves rnp with an operation over
  freed memory (`bindings/ffi.hpp:32`); so does a reader or writer that destroys
  its own stream (`bindings/stream.cpp:65`).
* A `PacketDump` at hand, and `input()` and `output()` of an Ffi, work on a
  destroyed Ffi, since `module_` is not checked. They need nothing of it.
* `setTimestamp` passes milliseconds where rnp takes seconds (`ts/ffi.ts:123`),
  and `expirationDate` takes a duration for a date (`ts/key.ts:89`).
* `registerPqcAlgorithms()` sets its flag first (`ts/pqc.ts:17`). When a
  registration throws, the remaining names are never registered.
* The bound of 16 MB in `ts/memory/pool.ts:12` is over the seven buckets it
  names; larger buckets are pooled as well, up to the same cap. A request above
  2^30 bytes never leaves the loop of `roundUp()` (`ts/memory/pool.ts:111`).

## 5. The theorems

| Module | Theorems | Assumes |
|---|---|---|
| `Ownership_proofs` | `TypeCorrect`, `LayersAgreeAlways`, `OnlyDestroyUndercutsAlways`, `UndestroyedIsNeverCollected`, `Refinement`; `NeverDangling`, `BlocksReclaim` | `HandleAssumption`; the last two `BlocksWellFormed` |
| `ProviderRegistry_proofs` | `TypeCorrect`, `AlwaysInStep`, `AnsweredByOwn`, `NeverSelfLocked`, `RefsAlwaysExact` | `ProviderAssumption` |
| `WorkerPool_proofs` | `TypeCorrect`, `AlwaysBalanced`, `AlwaysOneFfi`, `InitHolds`, `Private`, `AlwaysConserved` | `SizeAssumption`, `PoolAssumption` |
| `BufferPool_proofs` | `TypeCorrect`, `NeverAliased`, `AlwaysAllocated`, `CapRespected`, `AlwaysResidentExact` | `BufferPoolAssumption` |
| `NameRegistry_proofs` | `Resolving`, `Stable`; `PackageRefines`, `PackageResolves`, `PackageStable`, `PackageWhole` | `RegistryAssumption`; the last four also `PackageAssumption` |
| `Operations_proofs` | `StreamContexts`, `NamesFailEarly`, `KeysProtected`, `ReturnsSound`, `AlwaysAsAsked` | `StreamsAssumption` |
| `Conversions_proofs` | `HexRoundTrip`, `FingerprintExact`, `Base64RoundTrip`; `HexAlwaysRoundTrips`, `AlwaysRoundTrips`, `AlwaysRegroups`, `AlwaysDecodersSpell`, `AlwaysRoundsUp` | the last five `ConversionsAssumption` |
| `Keys_proofs` | `TypeCorrect`, `NeverStray`, `IterationsExact`, `AlwaysFailsClosed` | `KeysAssumption` |

Each proof goes by an inductive invariant, which has more parts than the
property.

* Handles: that a wrapper is collected only when destroyed needs to know that
  every wrapper alive is registered, hence reachable. The finalizer's call of
  `destroy()` is dead code, and that is what makes "one release" true. It is also
  why no collector takes an object from under a call: the collectors free what
  was not freed yet only if the wrapper was alive. The refinement follows, step
  by step, from the same invariant, whatever callbacks destroy.
* Blocks: the rules and the plan speak of the way a block runs when nothing
  throws, and the theorems of every way it can end. By induction along the block (`BlockSound`),
  before each step what is bound is bound once, alive, and refers only to what is
  alive and was not bound after it (`InOrder`), and what has no owner is known by
  its kind (`Accounted`). `ScopeInv` ties the machine to that. It follows the plan
  until a step throws or the block returns; from there on what is bound is an
  older part of what it was, and the younger part, with the C++ copy of an input
  that failed, is all that is gone. So nothing that is still bound refers to what
  is gone, and at the end nothing is left but what had no owner. The rules are an
  assumption about scripts: a block written against them (an output declared
  after the operation that writes to it, an input left without its `using`) makes
  TLC refuse the run. They are evaluated with loops of two turns, and not known
  for more.
* Providers: `AnsweredByOwnProvider` is about the step in which a closure is
  copied, of an operation whose FFI is alive. It holds because the entry at a
  live address was set by the Ffi that lives there
  (`EntriesOwned`), and because `reset()` drops the entry before the address
  can be used again (`RegistryInStep`). The mutex is held only with a copy on
  top of the stack (`LockedByCopy`). `RefsExact` is proved of two sets, the
  entries and the copies of a closure (`Counted`): every step changes one of
  them by one element, or moves a closure between them.
* Pool: `Turn` says that the workers before `rr` had one session more than the
  others. `Homes` says that whatever is in a port, on a worker, or was used
  there came from a session that was given that worker; with nobody else there,
  it is the session's own. `Placed` says that what waits in a port or an `init()`
  is waited for, and that a call that is waited for is in one place: one message
  in one port, or one suspended `init()`, never two of these; `CallsConserved`
  counts them. Its numbers make a new call a new one, and the pool's own
  `terminate()` is sent when the last one was answered.
* Buffers: `NoAliasing` and `BuffersAllocated` need each other. A fresh pointer
  is nobody's because the heap records no size for it; a freed one is in no
  list because it had one place only. `ResidentExact` compares the statistic
  with a sum over the heap. The sums have lemmas of their own: the sum over a
  finite set exists, changes by the difference when one pointer changes, and
  splits over disjoint sets, which `Drain` needs for all the lists at once.
* Names: an alias is never set on a name that resolves, so `Key` of a name that
  resolves is never changed. Every step of the package is a registration or
  leaves the registry alone (`PackageStep`), so that the package inherits both
  theorems. `PackageWhole` is about the tables as they are written: no name is
  in a table twice and no alias is one an earlier entry has (`Apart`), the
  post-quantum names are their own (`PqcDistinct`). From it: importing never
  finds a collision, and a registration of `ts/pqc.ts` finds one only with a
  spelling of the application (`Taken`).
* Keys: as long as the program is orderly, no handle it holds dangles, and what
  an iteration on its way has read, with what it was given last, begins the
  ring (`Sound`). Loading appends, so the beginning stays one; whatever takes a
  key out of the ring while an iteration waits ends the hypothesis. That the
  delivered identifiers are distinct follows from the ring having no
  repetitions. `FailsClosed` is
  inductive by itself: a call can end behind a native call only if everything that
  call takes is alive (`Ended`), and each outcome is known by its way of ending.
* Operations: the steps a call has still to make have a `Shape`. Lookups come
  before native work, but in `protection()`; the password is its last step; rnp
  runs in `execute()` only; a name passed on as it came is in `hash()` of a
  signature. `MethodShape` proves it of every method, for every choice of
  options, and dropping the first step keeps it (`Rest`). From it: while a
  lookup is to come rnp was told nothing (`NamesInv`); rnp has a password
  exactly from the end of a `protection()` on (`LockInv`); when rnp is done,
  the reports left and the results collected make up the signatures, and no
  callback had failed (`ExecInv`), as long as the streams are kept. `SigsInv` follows a call of
  `addSignature()` through its steps: the signature is asked for, added with the
  default hash, given its hash; a call that throws in the middle leaves at most
  one signature nobody asked for, and `torn` has counted that call.
* Conversions: `HexRoundTrip` computes digit by digit, for every length;
  `FingerprintExact` follows because bytes that decode are never `Thrown`.
  `Base64RoundTrip` computes group by group, with the missing bytes of the last
  one taken for 0. What is kept of a text is a recursive function; its equations
  and its values are proved by a least counterexample. The bits need every byte
  in binary (`Binary`): three bytes and their four sextets are the same bits in
  six runs (`Regrouped`), which serves `EncodersRegroup` and, with the sextets
  given and the bytes computed, `DecodersSpell`; `Documented` texts lose only their
  white space and pads. For `roundUp()`, the values of
  its loop are the powers up to a quarter of the words, then a negative number,
  then 0 (`SizesAre`).

Some assumptions are there for the proofs, and hold of the code: `Ptr` and
`Bucket` are finite (addresses and size classes are 32-bit numbers), and `None`
is none of the calls.

The library's induction theorems take a predicate as a parameter, which no
installed prover can give them. Where a proof needs induction over a number (a
recursive function has a value, a sum exists, a prefix of a text is kept), it
takes the set of the numbers for which the fact fails and derives a
contradiction from its least element (`Least`, by `WFMin`).

Model-checked only: liveness (`DestroyedIsCollected`, `EveryCallAnswered`,
`TerminateAllEnds`, `IterationSettles`), which needs ENABLED; and that the ten
scripts of `CallBlocks` obey `BlocksWellFormed`, since concatenations of a
variable length need induction over data.

## 6. Not modelled

* rnp, Botan, Comlink and Embind are external. They appear as far as the code
  relies on them: an operation may ask for a password, a port keeps order, an
  Embind object is deleted once, a run over streams succeeds only at the end of
  its input.
* Values of getters, formatting, armor, `guessContents`, start-up probes and the
  platform shims hold no state. `ts/module-types.ts` is generated types.
* UTF-8 is delegated to TextEncoder and TextDecoder.
* `finish()` of a stream output, the memo of `Rnp.features`, the s2k
  calculation and feature queries of `ffi.cpp` only forward to rnp.
* `assertRnpSuccess` and `wrapEmbindError` have no caller; `Uid` and
  `Signature` wrappers are constructed nowhere in `ts/`.
* A worker whose script fails to load, or that hangs in native code, never
  answers; `terminateAll()` would wait for it. The model has no such worker.
* `Handle::release()`, the C++ moves and `ChildHandle` have no caller at run
  time.
* Asynchronous providers are not supported by the code: a promise counts as
  the empty password, and so it does in the model.
* What rnp does with an object that was freed under it. The steps that free it are
  modelled; the properties say what holds up to there and which state of the
  package is intact behind it.
* Obligation of the caller: releasing a buffer of the pool once.

## 7. Plan

What remains: the providers of `ProviderRegistry` inside the runs of
`Operations`, that is what a password callback may do to the operation that
asked; and the rules of `CallScope` for scripts with loops of any length.
