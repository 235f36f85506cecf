----------------------------- MODULE CallScope -----------------------------
(***************************************************************************)
(* What one block of code acquires on the WASM heap and how it gives it    *)
(* back: the machine that runs the blocks of CallBlocks.  `using` and      *)
(* try/finally release what is bound, youngest first, when a block ends by *)
(* return or by an exception, and any step may throw.  What was made and   *)
(* is not bound, a native object or an allocation, has nobody who would    *)
(* release it.                                                             *)
(*                                                                         *)
(* A resource is a pair <<kind, which>>:                                   *)
(*   staging    the _malloc'ed copy of the bytes    (ts/io.ts, _fromBytes) *)
(*   vector     the C++ copy the input reads from   (io.cpp, from_bytes)   *)
(*   op         an operation, named by the resources it works over         *)
(*   ffi, input, output, key, iterator, sig, pool   the object of that name*)
(*                                                                         *)
(* A step is a record [act, on].  "using" binds a new resource at once,    *)
(* "make" makes one with no owner yet, "bind" gives it one, "leave" ends   *)
(* an inner block, "drop" is an explicit destroy(), and "work" is native   *)
(* work on the resources of a set.                                         *)
(***************************************************************************)
EXTENDS Naturals, Sequences, FiniteSets, Functions

CONSTANTS
  Script,   \* the steps of each block: [block -> Seq(step)]
  Method,   \* the blocks that run over the FFI of a worker session
  Plan      \* what is bound and what is live before each step of a block, and
            \* behind its last one, when nothing throws: [block -> Seq(plan)]

VARIABLES
  call,     \* the block that runs, or "none"
  pc,       \* the step it is at
  scope,    \* what is bound, in the order of the declarations
  live,     \* the native resources allocated and not freed
  ending    \* how the block ends: "no", "return" or "throw"

scopeVars == <<call, pc, scope, live, ending>>

Block == DOMAIN Script
F     == <<"ffi", 1>>

\* What a native resource refers to while it is used.
Needs(r) == CASE r[1] = "input" -> {<<"vector", r[2]>>}
              [] r[1] = "op"    -> r[2]
              [] OTHER          -> {}

-----------------------------------------------------------------------------
(* How a block is written.  The rules below read a block from top to       *)
(* bottom, as a compiler would: they say nothing of exceptions.            *)

Youngest(s) == s[Len(s)]
Older(s)    == SubSeq(s, 1, Len(s) - 1)

\* What is bound and what is live before the first step ...
Fresh(b) == [bound |-> <<>>, live |-> IF b \in Method THEN {F} ELSE {}]

\* ... and after a step that does not throw.
After(s, st) ==
  [bound |-> CASE s.act \in {"using", "bind"} -> Append(st.bound, s.on)
               [] s.act = "leave" -> Older(st.bound)
               [] OTHER -> st.bound,
   live  |-> CASE s.act \in {"using", "make"} -> st.live \cup {s.on}
               [] s.act \in {"leave", "drop"} -> st.live \ {s.on}
               [] OTHER -> st.live]

Loose(st)    == st.live \ Range(st.bound)
Taken(v, st) == \E r \in Range(st.bound) : v \in Needs(r)

\* What comes to life is new, and what it refers to is there; a name is
\* bound once, before what will refer to it; blocks nest; what is released
\* by hand and the bytes of a new input are not in use.
Declared(s, st) ==
  /\ s.act \in {"using", "make"} =>
       s.on \notin st.live /\ Needs(s.on) \subseteq st.live
  /\ s.act = "bind" =>
       /\ s.on \in Loose(st) /\ ~Taken(s.on, st)
       /\ Needs(s.on) \subseteq st.live \ {s.on}
  /\ s.act = "leave" => st.bound # <<>> /\ s.on = Youngest(st.bound)
  /\ s.act = "drop" => s.on \in Loose(st) /\ ~Taken(s.on, st)
  /\ s.act = "work" => \A r \in s.on : r \in st.live /\ Needs(r) \subseteq st.live
  /\ s.act = "make" /\ s.on[1] = "input" => ~Taken(<<"vector", s.on[2]>>, st)

\* Which kinds may be without an owner, and for how long: never an FFI, an
\* output or a pool; a staging copy only while the bytes are copied into it;
\* an input only where nothing throws; one operation at a time; a key only in
\* a program.
Owned(s, st, method) ==
  /\ s.act = "make" =>
       /\ s.on[1] \notin {"ffi", "output", "pool"}
       /\ s.on[1] = "key" => ~method
       /\ s.on[1] = "op" => \A r \in Loose(st) : r[1] # "op"
  /\ s.act = "using" => s.on[1] # "vector"
  /\ s.act = "bind" => s.on[1] \in {"staging", "input", "op"}
  /\ s.act = "drop" => s.on[1] = "key"
  /\ s.act \in {"using", "make", "work"} =>
       \A r \in Loose(st) :
         /\ r[1] # "input"
         /\ r[1] = "staging" => s.act = "work" /\ s.on = {r}

\* The C++ copy of the bytes is made for the input that is made next.
Copied(steps, i) ==
  steps[i].act = "make" /\ steps[i].on[1] = "vector" =>
    /\ i < Len(steps) /\ steps[i + 1].act = "make"
    /\ steps[i + 1].on = <<"input", steps[i].on[2]>>

WellFormed(b) ==
  LET steps == Script[b]
      plan  == Plan[b] IN
  /\ Len(steps) \in Nat /\ DOMAIN steps = 1..Len(steps)
  /\ plan[1] = Fresh(b)
  /\ \A i \in 1..Len(steps) :
       /\ steps[i].act \in {"using", "make", "bind", "leave", "drop", "work"}
       /\ Declared(steps[i], plan[i])
       /\ Owned(steps[i], plan[i], b \in Method)
       /\ Copied(steps, i)
       /\ plan[i + 1] = After(steps[i], plan[i])
  /\ \A r \in Loose(plan[Len(steps) + 1]) :
       r[1] \notin {"staging", "input", "op", "key"}

ASSUME BlocksWellFormed ==
  /\ "none" \notin Block /\ Method \subseteq Block
  /\ \A b \in Block : WellFormed(b)

-----------------------------------------------------------------------------
ScopeInit ==
  /\ call = "none" /\ pc = 1 /\ ending = "no"
  /\ scope = <<>> /\ live = {}

Running == call # "none" /\ ending = "no"
Step    == Script[call][pc]
AtStep(act) == Running /\ pc <= Len(Script[call]) /\ Step.act = act

\* A method runs over the FFI of its session, which outlives it.
Begin(b) ==
  /\ call = "none"
  /\ call' = b
  /\ pc' = 1
  /\ live' = IF b \in Method THEN {F} ELSE {}
  /\ UNCHANGED <<scope, ending>>

Advance == pc' = pc + 1 /\ UNCHANGED <<call, ending>>

Allocate ==
  /\ AtStep("using") \/ AtStep("make")
  /\ live' = live \cup {Step.on}
  /\ scope' = IF Step.act = "using" THEN Append(scope, Step.on) ELSE scope
  /\ Advance

Own ==
  /\ AtStep("bind")
  /\ scope' = Append(scope, Step.on)
  /\ UNCHANGED live
  /\ Advance

\* Mutant of LeaveBlock: the inner block has no finally.
LeaveBlockKeeps ==
  /\ AtStep("leave")
  /\ scope' = Older(scope)
  /\ UNCHANGED live
  /\ Advance

\* The end of an inner block: what was bound last is released.
LeaveBlock ==
  /\ AtStep("leave")
  /\ live' = live \ {Youngest(scope)}
  /\ scope' = Older(scope)
  /\ Advance

Discard ==
  /\ AtStep("drop")
  /\ live' = live \ {Step.on}
  /\ UNCHANGED scope
  /\ Advance

WorkNatively ==
  /\ AtStep("work")
  /\ UNCHANGED <<live, scope>>
  /\ Advance

\* What a step that throws takes with it: from_bytes() deletes its copy.
Torn(s) == IF s.act = "make" /\ s.on[1] = "input" THEN {<<"vector", s.on[2]>>}
                                                  ELSE {}

\* A throwing step allocates nothing.
Throw ==
  /\ AtStep("using") \/ AtStep("make") \/ AtStep("work")
  /\ ending' = "throw"
  /\ live' = live \ Torn(Step)
  /\ UNCHANGED <<call, pc, scope>>

ReturnValue ==
  /\ Running /\ pc > Len(Script[call])
  /\ ending' = "return"
  /\ UNCHANGED <<call, pc, scope, live>>

\* Mutant of Unwind: the oldest binding is disposed of first.
UnwindOldestFirst ==
  /\ ending # "no" /\ scope # <<>>
  /\ live' = live \ {Head(scope)}
  /\ scope' = Tail(scope)
  /\ UNCHANGED <<call, pc, ending>>

\* Leaving the block: the youngest binding is disposed of first.
Unwind ==
  /\ ending # "no" /\ scope # <<>>
  /\ live' = live \ {Youngest(scope)}
  /\ scope' = Older(scope)
  /\ UNCHANGED <<call, pc, ending>>

\* The block is over.  What is live has no owner any more.
Settle ==
  /\ ending # "no" /\ scope = <<>>
  /\ live' = {}
  /\ call' = "none" /\ ending' = "no" /\ pc' = 1
  /\ UNCHANGED scope

ScopeNext ==
  \/ \E b \in Block : Begin(b)
  \/ Allocate \/ Own \/ LeaveBlock \/ Discard \/ WorkNatively
  \/ Throw \/ ReturnValue \/ Unwind \/ Settle

ScopeSpec == ScopeInit /\ [][ScopeNext]_scopeVars

-----------------------------------------------------------------------------
Bound == Range(scope)
Left(kind) == {r \in live : r[1] = kind}

\* The inputs that a block makes of bytes it is given.
Inputs(b) == {s.on[2] : s \in {s \in Range(Script[b]) :
                                 s.act = "make" /\ s.on[1] = "input"}}

(***************************************************************************)
(* Native work finds what it works on alive, and what that refers to too.  *)
(* While a block unwinds, nothing is released before what refers to it:    *)
(* the operation goes before its output, its inputs and its FFI (order of  *)
(* the declarations in ts/worker.ts and docs/examples).  Nothing is bound  *)
(* twice, so nothing is released twice.                                    *)
(***************************************************************************)
NothingDangles ==
  /\ Bound \subseteq live /\ Cardinality(Bound) = Len(scope)
  /\ \A r \in Bound : Needs(r) \subseteq live
  /\ AtStep("work") =>
       \A r \in Step.on : r \in live /\ Needs(r) \subseteq live

(***************************************************************************)
(* A block that has unwound, whichever step threw, leaves at most: C++     *)
(* copies of its inputs, which io.cpp:31 calls freed with the input but    *)
(* which nobody deletes (io.cpp:35), the iterator of allIdentifiers() and the handles  *)
(* of verified signatures, which nobody releases; after an exception also  *)
(* the staging copy whose HEAPU8.set threw (ts/io.ts:48, before the try),  *)
(* the one operation whose chain threw, and the keys that are destroyed    *)
(* outside of a finally.  A worker method loses no key, and the session's  *)
(* FFI survives it; a program's FFI does not survive the program           *)
(* (ts/worker.ts, ts/io.ts, docs/examples).                                *)
(***************************************************************************)
CallsReclaim ==
  (ending # "no" /\ scope = <<>>) =>
    /\ \A kind \in {"input", "output", "pool"} : Left(kind) = {}
    /\ Left("ffi") = IF call \in Method THEN {F} ELSE {}
    /\ \A r \in Left("staging") :
         ending = "throw" /\ Step.act = "work" /\ Step.on = {r}
    /\ Cardinality(Left("op")) <= 1
    /\ ending = "return" => Left("op") \cup Left("key") = {}
    /\ call \in Method => Left("key") = {}
    /\ {r[2] : r \in Left("vector")} \subseteq Inputs(call)
=============================================================================
