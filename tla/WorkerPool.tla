----------------------------- MODULE WorkerPool -----------------------------
(***************************************************************************)
(* The pool (ts/pool.ts), its workers (ts/worker.ts) and the sessions that *)
(* use them.  A session is a Comlink remote for the worker it was given;   *)
(* calls become messages on the worker's port, which keeps their order,    *)
(* and each is answered once.  A session may make its next call before the *)
(* last was answered.  When there are more sessions than workers, sessions *)
(* share a worker, and with it everything the worker holds.                *)
(***************************************************************************)
EXTENDS RoundRobin, WorkerSession, Sequences

CONSTANTS
  Session,   \* the clients that take a session and call it
  Owner,     \* the client that calls terminateAll()
  MaxCalls   \* bound on the calls all sessions make together

ASSUME PoolAssumption ==
  /\ Host = Worker
  /\ Client = Session \cup {Owner}
  /\ Owner \notin Session
  /\ None \notin Client \cup Nat \cup FfiObject
  /\ MaxCalls \in Nat

VARIABLES
  host,      \* host[s]: the worker session s was given, or None
  port,      \* port[w]: the messages sent to w and not handled yet
  awaiting,  \* the calls that were sent and not answered yet
  made,      \* how many calls the sessions have made; they are numbered
  closing,   \* terminateAll(): the index it is at, Size when done, or None
  ready,     \* history: an init() was answered and no terminate() ran since
  used       \* history: what the last operation of session s worked with

poolvars == <<host, port, awaiting, made, closing>>
history  == <<ready, used>>
vars     == <<rrvars, wsvars, poolvars, history>>

Init ==
  /\ RRInit
  /\ WSInit
  /\ host     = [s \in Session |-> None]
  /\ port     = [w \in Worker |-> <<>>]
  /\ awaiting = {}
  /\ made     = 0
  /\ closing  = None
  /\ ready    = [w \in Worker |-> FALSE]
  /\ used     = [s \in Session |-> [keys |-> {}, pass |-> None]]

Send(m, w) ==
  /\ port'     = [port EXCEPT ![w] = Append(@, m)]
  /\ awaiting' = awaiting \cup {m}

Idle(c) == \A m \in awaiting : m.from # c

-----------------------------------------------------------------------------
(* The sessions and the owner of the pool.                                 *)

\* pool.session()
TakeSession(s) ==
  /\ host[s] = None
  /\ Take
  /\ host' = [host EXCEPT ![s] = rr]
  /\ UNCHANGED <<wsvars, port, awaiting, made, closing, history>>

\* Mutant of Request: the call goes to the worker that is next in turn.
RequestToNext(s, call) ==
  /\ host[s] # None
  /\ made < MaxCalls
  /\ made' = made + 1
  /\ Send([from |-> s, call |-> call, nr |-> made'], rr)
  /\ UNCHANGED <<rrvars, wsvars, host, closing, history>>

Request(s, call) ==
  /\ host[s] # None
  /\ made < MaxCalls
  /\ made' = made + 1
  /\ Send([from |-> s, call |-> call, nr |-> made'], host[s])
  /\ UNCHANGED <<rrvars, wsvars, host, closing, history>>

\* The owner of the pool makes this one call, to each worker in turn.
Terminating == [from |-> Owner, call |-> "terminate", nr |-> 0]

\* terminateAll(): one worker after the other, each awaited.
TerminateAll ==
  /\ closing = None
  /\ closing' = 0
  /\ Send(Terminating, 0)
  /\ UNCHANGED <<rrvars, wsvars, host, made, history>>

\* Mutant of TerminateNext: the loop ends one worker early.
TerminateNextShort ==
  /\ closing # None /\ Idle(Owner) /\ closing + 1 < Size
  /\ closing' = closing + 1
  /\ Send(Terminating, closing')
  /\ UNCHANGED <<rrvars, wsvars, host, made, history>>

TerminateNext ==
  /\ closing # None /\ Idle(Owner) /\ closing < Size
  /\ closing' = closing + 1
  /\ IF closing' < Size THEN Send(Terminating, closing')
                        ELSE UNCHANGED <<port, awaiting>>
  /\ UNCHANGED <<rrvars, wsvars, host, made, history>>

-----------------------------------------------------------------------------
(* The event loop of worker w.                                             *)

Asked(w)         == Head(port[w])
Receive(w, call) == port[w] # <<>> /\ Asked(w).call = call
Sender(w)        == Asked(w).from
Consume(w)       == port' = [port EXCEPT ![w] = Tail(@)]
Reply(m)         == awaiting' = awaiting \ {m}

\* Mutant of Answer: the message is consumed and nobody replies.
AnswerUnsent(w) ==
  /\ Consume(w)
  /\ UNCHANGED <<rrvars, host, awaiting, made, closing>>

\* The rest of a handler that runs to its end and answers.
Answer(w) ==
  /\ Consume(w)
  /\ Reply(Asked(w))
  /\ UNCHANGED <<rrvars, host, made, closing>>

HandleInit(w) ==
  /\ Receive(w, "init")
  /\ \/ /\ InitAtOnce(w)
        /\ ready' = [ready EXCEPT ![w] = TRUE]
        /\ Answer(w)
        /\ UNCHANGED used
     \/ /\ InitThrows(w)
        /\ Answer(w)
        /\ UNCHANGED history
     \/ /\ InitSuspends(w, Asked(w))
        /\ Consume(w)
        /\ UNCHANGED <<rrvars, host, awaiting, made, closing, history>>

\* Mutant of FinishInit: a failed load is swallowed and never answered.
FinishInitSwallows(w) ==
  \E m \in pending[w] :
    /\ \/ InitResumes(w, m) /\ ready' = [ready EXCEPT ![w] = TRUE] /\ Reply(m)
       \/ InitBreaks(w, m) /\ UNCHANGED ready /\ Reply(m)
       \/ InitFails(w, m) /\ UNCHANGED <<ready, awaiting>>
    /\ UNCHANGED <<rrvars, host, port, made, closing, used>>

FinishInit(w) ==
  \E m \in pending[w] :
    /\ \/ InitResumes(w, m) /\ ready' = [ready EXCEPT ![w] = TRUE]
       \/ InitBreaks(w, m) /\ UNCHANGED ready
       \/ InitFails(w, m) /\ UNCHANGED ready
    /\ Reply(m)
    /\ UNCHANGED <<rrvars, host, port, made, closing, used>>

HandleSetPassphrase(w) ==
  /\ Receive(w, "setPassphrase")
  /\ SetPassphrase(w, Sender(w))
  /\ Answer(w)
  /\ UNCHANGED history

HandleLoadKey(w) ==
  /\ Receive(w, "loadKey")
  /\ LoadKey(w, Sender(w)) \/ Refuse(w)
  /\ Answer(w)
  /\ UNCHANGED history

\* Without its provider an FFI never learns the passphrase.
HandleOperate(w) ==
  /\ Receive(w, "operate")
  /\ \/ /\ Operate(w)
        /\ used' = [used EXCEPT ![Sender(w)] =
                      [keys |-> ffi[w].keys,
                       pass |-> IF ffi[w].provider THEN passphrase[w] ELSE None]]
     \/ Refuse(w) /\ UNCHANGED used
  /\ Answer(w)
  /\ UNCHANGED ready

HandleTerminate(w) ==
  /\ Receive(w, "terminate")
  /\ Terminate(w)
  /\ ready' = [ready EXCEPT ![w] = FALSE]
  /\ Answer(w)
  /\ UNCHANGED used

Loop(w) ==
  \/ HandleInit(w)
  \/ HandleSetPassphrase(w)
  \/ HandleLoadKey(w)
  \/ HandleOperate(w)
  \/ HandleTerminate(w)

-----------------------------------------------------------------------------
Next ==
  \/ \E s \in Session : TakeSession(s) \/ \E call \in Calls : Request(s, call)
  \/ TerminateAll
  \/ TerminateNext
  \/ \E w \in Worker : Loop(w) \/ FinishInit(w)

Spec == Init /\ [][Next]_vars

\* Event loops run, modules load or fail to, and terminateAll() goes on.
FairSpec ==
  /\ Spec
  /\ WF_vars(TerminateNext)
  /\ \A w \in Worker : WF_vars(Loop(w)) /\ WF_vars(FinishInit(w))

-----------------------------------------------------------------------------
TypeOK ==
  /\ RRTypeOK
  /\ WSTypeOK
  /\ host \in [Session -> Worker \cup {None}]
  /\ port \in [Worker -> Seq(Message)]
  /\ awaiting \in SUBSET Message
  /\ made \in 0..MaxCalls
  /\ closing \in 0..Size \cup {None}
  /\ ready \in [Worker -> BOOLEAN]
  /\ used \in [Session -> [keys : SUBSET Client, pass : Client \cup {None}]]

(***************************************************************************)
(* An answered init() holds: until a terminate() runs on the worker, the   *)
(* worker has a module and an FFI, also when other init() calls overlapped *)
(* with it, failed after it or resumed after it (worker.ts init).          *)
(***************************************************************************)
AnsweredInitHolds == \A w \in Worker : ready[w] => rnp[w] # None /\ ffi[w] # None

(***************************************************************************)
(* Every call that is waited for is in exactly one place, a message in one *)
(* port or an init() suspended on one worker, and no other call is in any: *)
(* none is lost, doubled or answered while it goes on.                     *)
(***************************************************************************)
InPortAt(w, m)    == {<<w, i>> : i \in {j \in 1..Len(port[w]) : port[w][j] = m}}
SuspendedAt(w, m) == IF m \in pending[w] THEN {<<w, 0>>} ELSE {}

Places(m) == UNION {InPortAt(w, m) \cup SuspendedAt(w, m) : w \in Worker}

Underway == UNION {{port[w][i] : i \in 1..Len(port[w])} \cup pending[w] : w \in Worker}

CallsConserved ==
  /\ Underway \subseteq awaiting
  /\ \A m \in awaiting : Cardinality(Places(m)) = 1

(***************************************************************************)
(* A session that has a worker to itself is private: its operations work   *)
(* with its own keys and its own passphrase, whatever happens on other     *)
(* workers (pool.ts session, worker.ts:13).                                *)
(***************************************************************************)
Alone(s) == \A t \in Session \ {s} : host[t] # host[s]

AloneMeansPrivate ==
  \A s \in Session : host[s] # None /\ Alone(s) =>
    used[s].keys \subseteq {s} /\ used[s].pass \in {s, None}

\* Every call is answered: handlers finish, a pending init() settles.
Awaited(n) == \E m \in awaiting : m.nr = n

EveryCallAnswered == \A n \in 0..MaxCalls : Awaited(n) ~> ~Awaited(n)

\* terminateAll() reaches the last worker.
TerminateAllEnds == closing # None ~> closing = Size
=============================================================================
