------------------------- MODULE WorkerPool_proofs -------------------------
(***************************************************************************)
(* Theorems about the pool and its workers, for any number of workers,     *)
(* sessions and calls.  The invariant has four parts that are              *)
(* independent of each other, beside the types:                            *)
(*                                                                         *)
(*   Turn               how the sessions given out relate to `rr`;         *)
(*   OneFfiPerWorker, AnsweredInitHolds                                    *)
(*                      what an init() leaves behind;                      *)
(*   Homes              whatever is on a worker, in its port or was used   *)
(*                      on it came from a session that was given it;       *)
(*   Placed             a call that is waited for is in one place.         *)
(***************************************************************************)
EXTENDS WorkerPool, SequenceTheorems, FiniteSetTheorems, TLAPS

\* The workers before rr had their turn in this round.
Turn ==
  \E k \in Nat : \A w \in Worker : handed[w] = IF w < rr THEN k + 1 ELSE k

\* A message is from a session of this worker, or the owner's terminate().
MessagesHome ==
  \A w \in Worker : \A i \in 1..Len(port[w]) :
    IF port[w][i].from = Owner THEN port[w][i].call = "terminate"
                               ELSE host[port[w][i].from] = w

\* Keys and passphrase on a worker are from sessions of this worker.
MaterialHome ==
  \A w \in Worker :
    /\ ffi[w] # None => \A s \in ffi[w].keys : s \in Session /\ host[s] = w
    /\ passphrase[w] # None =>
         passphrase[w] \in Session /\ host[passphrase[w]] = w

\* What an operation worked with is from sessions of the same worker.
UsedHome ==
  \A s \in Session : \A t \in used[s].keys \cup ({used[s].pass} \ {None}) :
    t \in Session /\ host[t] # None /\ host[t] = host[s]

Homes == MessagesHome /\ MaterialHome /\ UsedHome

IInv ==
  /\ TypeOK
  /\ Turn
  /\ OneFfiPerWorker
  /\ AnsweredInitHolds
  /\ Homes

-----------------------------------------------------------------------------
(* The constants.                                                          *)

LEMMA Constants ==
  /\ Worker \subseteq Nat /\ 0 \in Worker /\ Host = Worker
  /\ Session \subseteq Client /\ Owner \in Client /\ Owner \notin Session
  /\ \A c \in Client : c # Owner => c \in Session
  /\ None \notin Client /\ None \notin Nat /\ None \notin FfiObject
  /\ None \notin Worker
BY PoolAssumption, SizeAssumption DEF Worker

-----------------------------------------------------------------------------
(* The scheduler.                                                          *)

LEMMA Wrap ==
  ASSUME NEW i \in Worker
  PROVE  (i + 1) % Size = IF i + 1 = Size THEN 0 ELSE i + 1
<1>1. CASE i + 1 = Size
  BY <1>1, SizeAssumption DEF Worker
<1>2. CASE i + 1 < Size
  BY <1>2, SizeAssumption DEF Worker
<1> QED BY <1>1, <1>2, SizeAssumption DEF Worker

\* A turn more; when rr wraps a new round begins.
LEMMA TakeTurn ==
  ASSUME RRTypeOK, Turn, Take
  PROVE  RRTypeOK' /\ Turn'
<1>1. /\ rr' = (rr + 1) % Size
      /\ handed' = [handed EXCEPT ![rr] = @ + 1]
      /\ rr \in Worker /\ handed \in [Worker -> Nat]
  BY DEF Take, RRTypeOK
<1>2. rr' = IF rr + 1 = Size THEN 0 ELSE rr + 1
  BY <1>1, Wrap
<1>3. rr' \in Worker
  BY <1>1, <1>2, SizeAssumption DEF Worker
<1>4. RRTypeOK'
  BY <1>1, <1>3 DEF RRTypeOK
<1>5. PICK k \in Nat : \A w \in Worker : handed[w] = IF w < rr THEN k + 1 ELSE k
  BY DEF Turn
<1>6. \A w \in Worker : handed'[w] = IF w = rr THEN k + 1 ELSE handed[w]
  BY <1>1, <1>5, SizeAssumption DEF Worker
<1>7. CASE rr + 1 = Size
  <2>1. \A w \in Worker : handed'[w] = IF w < rr' THEN (k + 1) + 1 ELSE k + 1
    BY <1>1, <1>2, <1>5, <1>6, <1>7, SizeAssumption DEF Worker
  <2> QED BY <1>4, <2>1 DEF Turn
<1>8. CASE rr + 1 # Size
  <2>1. \A w \in Worker : handed'[w] = IF w < rr' THEN k + 1 ELSE k
    BY <1>1, <1>2, <1>5, <1>6, <1>8, SizeAssumption DEF Worker
  <2> QED BY <1>4, <2>1 DEF Turn
<1> QED BY <1>7, <1>8

-----------------------------------------------------------------------------
(* The ports.                                                              *)

\* One message more, at the end of one port.
LEMMA Sent ==
  ASSUME port \in [Worker -> Seq(Message)], awaiting \in SUBSET Message,
         NEW m \in Message, NEW w \in Worker, Send(m, w)
  PROVE  /\ port' \in [Worker -> Seq(Message)]
         /\ awaiting' \in SUBSET Message
         /\ \A v \in Worker : \A i \in 1..Len(port'[v]) :
              \/ i \in 1..Len(port[v]) /\ port'[v][i] = port[v][i]
              \/ v = w /\ port'[v][i] = m
<1> DEFINE q == port[w]
<1>1. /\ port' = [port EXCEPT ![w] = Append(q, m)]
      /\ awaiting' = awaiting \cup {m}
  BY DEF Send
<1>2. q \in Seq(Message)
  OBVIOUS
<1>3. /\ Append(q, m) \in Seq(Message)
      /\ Len(Append(q, m)) = Len(q) + 1
      /\ \A i \in 1..Len(q) : Append(q, m)[i] = q[i]
      /\ Append(q, m)[Len(q) + 1] = m
      /\ Len(q) \in Nat
  BY <1>2, AppendProperties, LenProperties
<1>4. port'[w] = Append(q, m) /\ \A v \in Worker \ {w} : port'[v] = port[v]
  BY <1>1
<1>5. port' \in [Worker -> Seq(Message)] /\ awaiting' \in SUBSET Message
  BY <1>1, <1>3
<1>6. \A i \in 1..Len(port'[w]) :
        \/ i \in 1..Len(port[w]) /\ port'[w][i] = port[w][i]
        \/ port'[w][i] = m
  BY <1>3, <1>4
<1> QED BY <1>4, <1>5, <1>6

\* The first message of a port is taken off.
LEMMA Consumed ==
  ASSUME port \in [Worker -> Seq(Message)],
         NEW w \in Worker, port[w] # <<>>, Consume(w)
  PROVE  /\ port' \in [Worker -> Seq(Message)]
         /\ 1 \in 1..Len(port[w]) /\ Head(port[w]) = port[w][1]
         /\ Head(port[w]) \in Message
         /\ \A v \in Worker : \A i \in 1..Len(port'[v]) :
              \E j \in 1..Len(port[v]) : port'[v][i] = port[v][j]
<1> DEFINE q == port[w]
<1>1. port' = [port EXCEPT ![w] = Tail(q)] /\ q \in Seq(Message)
  BY DEF Consume
<1>2. /\ Tail(q) \in Seq(Message)
      /\ Len(Tail(q)) = Len(q) - 1
      /\ \A i \in 1..Len(Tail(q)) : Tail(q)[i] = q[i + 1]
      /\ Head(q) = q[1] /\ Head(q) \in Message
      /\ Len(q) \in Nat \ {0}
  BY <1>1, HeadTailProperties, EmptySeq, LenProperties
<1>3. port'[w] = Tail(q) /\ \A v \in Worker \ {w} : port'[v] = port[v]
  BY <1>1
<1>4. port' \in [Worker -> Seq(Message)]
  BY <1>1, <1>2
<1>5. \A i \in 1..Len(port'[w]) : i + 1 \in 1..Len(q) /\ port'[w][i] = q[i + 1]
  BY <1>2, <1>3
<1>6. \A v \in Worker : \A i \in 1..Len(port'[v]) :
        \E j \in 1..Len(port[v]) : port'[v][i] = port[v][j]
  BY <1>3, <1>5
<1> QED BY <1>2, <1>4, <1>6

\* Taking a message off disturbs no home, and tells whose it was.
LEMMA Received ==
  ASSUME TypeOK, MessagesHome, NEW w \in Worker, NEW call \in Calls,
         Receive(w, call), Consume(w), UNCHANGED host
  PROVE  /\ port' \in [Worker -> Seq(Message)]
         /\ Asked(w) \in Message /\ Sender(w) \in Client
         /\ call # "terminate" => Sender(w) \in Session /\ host[Sender(w)] = w
         /\ MessagesHome'
<1>1. port[w] # <<>> /\ Head(port[w]).call = call /\ port \in [Worker -> Seq(Message)]
  BY DEF Receive, Asked, TypeOK
<1>2. /\ port' \in [Worker -> Seq(Message)]
      /\ 1 \in 1..Len(port[w]) /\ Head(port[w]) = port[w][1]
      /\ Head(port[w]) \in Message
      /\ \A v \in Worker : \A i \in 1..Len(port'[v]) :
           \E j \in 1..Len(port[v]) : port'[v][i] = port[v][j]
  BY <1>1, Consumed
<1>3. Asked(w) \in Message /\ Sender(w) \in Client
  BY <1>2 DEF Asked, Sender, Message
<1>4. IF port[w][1].from = Owner THEN port[w][1].call = "terminate"
                                 ELSE host[port[w][1].from] = w
  BY <1>2 DEF MessagesHome
<1>5. call # "terminate" => Sender(w) \in Session /\ host[Sender(w)] = w
  BY <1>1, <1>2, <1>3, <1>4, Constants DEF Asked, Sender
<1>6. MessagesHome'
  <2> SUFFICES ASSUME NEW v \in Worker, NEW i \in 1..Len(port'[v])
               PROVE  IF port'[v][i].from = Owner THEN port'[v][i].call = "terminate"
                                                  ELSE host[port'[v][i].from] = v
    BY DEF MessagesHome
  <2>1. PICK j \in 1..Len(port[v]) : port'[v][i] = port[v][j]
    BY <1>2
  <2> QED BY <2>1 DEF MessagesHome
<1> QED BY <1>2, <1>3, <1>5, <1>6

\* So does sending to the worker a session was given, or a terminate().
LEMMA SentHome ==
  ASSUME TypeOK, MessagesHome, NEW m \in Message, NEW w \in Worker,
         Send(m, w), UNCHANGED host,
         IF m.from = Owner THEN m.call = "terminate" ELSE host[m.from] = w
  PROVE  /\ port' \in [Worker -> Seq(Message)]
         /\ awaiting' \in SUBSET Message
         /\ MessagesHome'
<1>1. /\ port' \in [Worker -> Seq(Message)]
      /\ awaiting' \in SUBSET Message
      /\ \A v \in Worker : \A i \in 1..Len(port'[v]) :
           \/ i \in 1..Len(port[v]) /\ port'[v][i] = port[v][i]
           \/ v = w /\ port'[v][i] = m
  BY Sent DEF TypeOK
<1>2. MessagesHome'
  BY <1>1 DEF MessagesHome
<1> QED BY <1>1, <1>2

\* What is waited for, after a reply.
LEMMA Replied ==
  ASSUME TypeOK, NEW m, Reply(m)
  PROVE  awaiting' \in SUBSET Message
BY DEF TypeOK, Reply

-----------------------------------------------------------------------------
(* The steps of the sessions and of the owner.                             *)

LEMMA InitIInv == Init => IInv
<1> SUFFICES ASSUME Init PROVE IInv
  OBVIOUS
<1>1. RRTypeOK
  BY Constants DEF Init, RRInit, RRTypeOK
<1>2. WSTypeOK
  BY DEF Init, WSInit, WSTypeOK
<1>3. /\ host \in [Session -> Worker \cup {None}]
      /\ port \in [Worker -> Seq(Message)]
      /\ \A w \in Worker : Len(port[w]) = 0
      /\ awaiting \in SUBSET Message
      /\ made \in 0..MaxCalls
      /\ closing \in 0..Size \cup {None}
  BY EmptySeq, PoolAssumption DEF Init
<1>4. /\ ready \in [Worker -> BOOLEAN]
      /\ used \in [Session -> [keys : SUBSET Client, pass : Client \cup {None}]]
  BY DEF Init
<1>5. TypeOK
  BY <1>1, <1>2, <1>3, <1>4 DEF TypeOK
<1>6. Turn
  <2>1. \A w \in Worker : handed[w] = IF w < rr THEN 0 + 1 ELSE 0
    BY Constants DEF Init, RRInit
  <2> QED BY <2>1 DEF Turn
<1>7. OneFfiPerWorker
  BY DEF Init, WSInit, OneFfiPerWorker
<1>8. AnsweredInitHolds
  BY DEF Init, AnsweredInitHolds
<1>9. MessagesHome
  BY <1>3 DEF MessagesHome
<1>10. MaterialHome
  BY Constants DEF Init, WSInit, MaterialHome
<1>11. UsedHome
  BY DEF Init, UsedHome
<1> QED BY <1>5, <1>6, <1>7, <1>8, <1>9, <1>10, <1>11 DEF IInv, Homes

\* A session is given a worker it keeps.
LEMMA StepTakeSession ==
  ASSUME IInv, NEW s \in Session, TakeSession(s)
  PROVE  IInv'
<1>1. /\ host[s] = None /\ Take
      /\ host' = [host EXCEPT ![s] = rr]
      /\ UNCHANGED <<wsvars, port, awaiting, made, closing, history>>
  BY DEF TakeSession
<1>2. /\ rnp' = rnp /\ ffi' = ffi /\ passphrase' = passphrase /\ pending' = pending
      /\ loads' = loads /\ liveFfis' = liveFfis
      /\ ready' = ready /\ used' = used
  BY <1>1 DEF wsvars, history
<1>3. RRTypeOK' /\ Turn' /\ rr \in Worker
  BY <1>1, TakeTurn DEF IInv, TypeOK, RRTypeOK
<1>4. host' \in [Session -> Worker \cup {None}]
  BY <1>1, <1>3 DEF IInv, TypeOK
<1>5. TypeOK'
  BY <1>1, <1>2, <1>3, <1>4 DEF IInv, TypeOK, WSTypeOK
<1>6. OneFfiPerWorker' /\ AnsweredInitHolds'
  BY <1>2 DEF IInv, OneFfiPerWorker, AnsweredInitHolds
<1>7. \A t \in Session : host[t] # None => host'[t] = host[t]
  BY <1>1 DEF IInv, TypeOK
<1>8. MessagesHome'
  <2> SUFFICES ASSUME NEW w \in Worker, NEW i \in 1..Len(port[w])
               PROVE  IF port[w][i].from = Owner THEN port[w][i].call = "terminate"
                                                 ELSE host'[port[w][i].from] = w
    BY <1>1 DEF MessagesHome
  <2>1. port[w][i] \in Message
    BY ElementOfSeq DEF IInv, TypeOK
  <2>2. port[w][i].from \in Client
    BY <2>1 DEF Message
  <2> QED BY <1>7, <2>2, Constants DEF IInv, Homes, MessagesHome
<1>9. MaterialHome'
  BY <1>2, <1>7, Constants DEF IInv, Homes, MaterialHome
<1>10. UsedHome'
  <2> SUFFICES ASSUME NEW r \in Session, NEW t \in used[r].keys \cup ({used[r].pass} \ {None})
               PROVE  t \in Session /\ host'[t] # None /\ host'[t] = host'[r]
    BY <1>2 DEF UsedHome
  <2>1. t \in Session /\ host[t] # None /\ host[t] = host[r]
    BY DEF IInv, Homes, UsedHome
  <2> QED BY <1>7, <2>1
<1> QED BY <1>3, <1>5, <1>6, <1>8, <1>9, <1>10 DEF IInv, Homes

\* What a step that only sends leaves as it was.
LEMMA OnlyPorts ==
  ASSUME IInv, UNCHANGED <<rrvars, wsvars, host, history>>,
         port' \in [Worker -> Seq(Message)],
         awaiting' \in SUBSET Message,
         made' \in 0..MaxCalls, closing' \in 0..Size \cup {None},
         MessagesHome'
  PROVE  IInv'
<1>1. /\ rr' = rr /\ handed' = handed /\ host' = host
      /\ rnp' = rnp /\ ffi' = ffi /\ passphrase' = passphrase /\ pending' = pending
      /\ loads' = loads /\ liveFfis' = liveFfis
      /\ ready' = ready /\ used' = used
  BY DEF rrvars, wsvars, history
<1>2. TypeOK'
  BY <1>1 DEF IInv, TypeOK, RRTypeOK, WSTypeOK
<1>3. Turn'
  BY <1>1 DEF IInv, Turn
<1>4. OneFfiPerWorker' /\ AnsweredInitHolds'
  BY <1>1 DEF IInv, OneFfiPerWorker, AnsweredInitHolds
<1>5. MaterialHome' /\ UsedHome'
  BY <1>1 DEF IInv, Homes, MaterialHome, UsedHome
<1> QED BY <1>2, <1>3, <1>4, <1>5 DEF IInv, Homes

\* The message of a call.
LEMMA Asking ==
  ASSUME TypeOK, NEW s \in Session, NEW call \in Calls, Request(s, call),
         NEW m, m = [from |-> s, call |-> call, nr |-> made + 1]
  PROVE  /\ host[s] \in Worker /\ Send(m, host[s])
         /\ m \in Message /\ m.from = s /\ m.nr = made + 1
         /\ s # Owner /\ made \in Nat
<1>1. made' = made + 1 /\ host[s] # None
  BY DEF Request
<1>2. Send(m, host[s])
  BY <1>1 DEF Request
<1>3. made \in Nat /\ host[s] \in Worker
  BY <1>1, PoolAssumption DEF TypeOK
<1>4. made + 1 \in Nat /\ s \in Client /\ s # Owner
  BY <1>3, Constants
<1> QED BY <1>2, <1>3, <1>4 DEF Message

LEMMA Ending ==
  /\ Terminating \in Message
  /\ Terminating.from = Owner /\ Terminating.call = "terminate"
BY Constants DEF Terminating, Message, Calls

LEMMA StepRequest ==
  ASSUME IInv, NEW s \in Session, NEW call \in Calls, Request(s, call)
  PROVE  IInv'
<1> PICK m : m = [from |-> s, call |-> call, nr |-> made + 1]
  OBVIOUS
<1>1. /\ made < MaxCalls
      /\ made' = made + 1 /\ closing' = closing
      /\ UNCHANGED <<rrvars, wsvars, host, closing, history>>
  BY DEF Request
<1>2. /\ host[s] \in Worker /\ Send(m, host[s]) /\ m \in Message
      /\ m.from = s /\ s # Owner
  BY Asking DEF IInv
<1>3. /\ port' \in [Worker -> Seq(Message)]
      /\ awaiting' \in SUBSET Message
      /\ MessagesHome'
  BY <1>1, <1>2, SentHome DEF IInv, Homes
<1>4. made' \in 0..MaxCalls /\ closing' \in 0..Size \cup {None}
  BY <1>1, PoolAssumption DEF IInv, TypeOK
<1> QED BY <1>1, <1>3, <1>4, OnlyPorts

LEMMA StepTerminateAll ==
  ASSUME IInv, TerminateAll
  PROVE  IInv'
<1>1. /\ closing' = 0 /\ made' = made
      /\ Send(Terminating, 0)
      /\ UNCHANGED <<rrvars, wsvars, host, history>>
  BY DEF TerminateAll
<1>2. /\ port' \in [Worker -> Seq(Message)]
      /\ awaiting' \in SUBSET Message
      /\ MessagesHome'
  BY <1>1, SentHome, Constants, Ending DEF IInv, Homes
<1>3. made' \in 0..MaxCalls /\ closing' \in 0..Size \cup {None}
  BY <1>1, SizeAssumption DEF IInv, TypeOK
<1> QED BY <1>1, <1>2, <1>3, OnlyPorts

LEMMA StepTerminateNext ==
  ASSUME IInv, TerminateNext
  PROVE  IInv'
<1>1. /\ closing # None /\ closing < Size /\ closing' = closing + 1 /\ made' = made
      /\ UNCHANGED <<rrvars, wsvars, host, history>>
  BY DEF TerminateNext
<1>2. closing \in 0..Size /\ closing' \in 0..Size
  BY <1>1, SizeAssumption DEF IInv, TypeOK
<1>3. CASE closing' < Size
  <2>1. Send(Terminating, closing')
    BY <1>3 DEF TerminateNext
  <2>2. closing' \in Worker
    BY <1>2, <1>3, SizeAssumption DEF Worker
  <2> DEFINE k == closing'
  <2>3. k \in Worker /\ Send(Terminating, k)
    BY <2>1, <2>2
  <2>4. /\ port' \in [Worker -> Seq(Message)]
        /\ awaiting' \in SUBSET Message
        /\ MessagesHome'
    <3> HIDE DEF k
    <3>1. UNCHANGED host
      BY <1>1
    <3> QED BY <2>3, <3>1, SentHome, Ending DEF IInv, Homes
  <2> QED BY <1>1, <1>2, <2>4, OnlyPorts DEF IInv, TypeOK
<1>4. CASE ~(closing' < Size)
  <2>1. port' = port /\ awaiting' = awaiting
    BY <1>4 DEF TerminateNext
  <2>2. MessagesHome'
    BY <1>1, <2>1 DEF IInv, Homes, MessagesHome
  <2> QED BY <1>1, <1>2, <2>1, <2>2, OnlyPorts DEF IInv, TypeOK
<1> QED BY <1>3, <1>4

-----------------------------------------------------------------------------
(* The steps of the workers.                                               *)

\* A new FFI where there was none: one native FFI, with an empty keyring.
LEMMA Added ==
  ASSUME TypeOK, OneFfiPerWorker, MaterialHome,
         NEW w \in Worker, NEW m \in Nat, NEW set \in BOOLEAN,
         ffi[w] = None, NewFfi(w, m, set), UNCHANGED <<host, passphrase>>
  PROVE  /\ ffi' \in [Host -> FfiObject \cup {None}]
         /\ liveFfis' \in [Host -> Int]
         /\ ffi'[w] # None
         /\ \A v \in Worker \ {w} : ffi'[v] = ffi[v]
         /\ OneFfiPerWorker'
         /\ MaterialHome'
<1> DEFINE new == [module |-> m, keys |-> {}, provider |-> set]
<1>1. /\ ffi \in [Worker -> FfiObject \cup {None}] /\ liveFfis \in [Worker -> Int]
      /\ Host = Worker
  BY Constants DEF TypeOK, WSTypeOK
<1>2. new \in FfiObject /\ new # None /\ new.keys = {}
  <2>1. new \in FfiObject
    BY DEF FfiObject
  <2> QED BY <2>1, Constants
<1>3. /\ ffi' = [ffi EXCEPT ![w] = new]
      /\ liveFfis' = [liveFfis EXCEPT ![w] = @ + 1]
  BY DEF NewFfi
<1> HIDE DEF new
<1>4. /\ ffi'[w] = new /\ liveFfis'[w] = liveFfis[w] + 1
      /\ \A v \in Worker \ {w} : ffi'[v] = ffi[v] /\ liveFfis'[v] = liveFfis[v]
  BY <1>1, <1>3
<1>5. ffi' \in [Host -> FfiObject \cup {None}] /\ liveFfis' \in [Host -> Int]
  BY <1>1, <1>2, <1>3
<1>6. OneFfiPerWorker'
  BY <1>1, <1>2, <1>4 DEF OneFfiPerWorker
<1>7. MaterialHome'
  BY <1>2, <1>4 DEF MaterialHome
<1> QED BY <1>2, <1>4, <1>5, <1>6, <1>7

\* With this.ffi set one native FFI exists, without it none; both ways there
\* is one afterwards.  When it throws there may be none; one that was there
\* stays.
LEMMA Ensured ==
  ASSUME TypeOK, OneFfiPerWorker, MaterialHome,
         NEW w \in Worker, NEW m \in Nat,
         EnsureFfi(w, m) \/ EnsureFfiThrows(w, m), UNCHANGED <<host, passphrase>>
  PROVE  /\ ffi' \in [Host -> FfiObject \cup {None}]
         /\ liveFfis' \in [Host -> Int]
         /\ EnsureFfi(w, m) \/ ffi[w] # None => ffi'[w] # None
         /\ \A v \in Worker \ {w} : ffi'[v] = ffi[v]
         /\ OneFfiPerWorker'
         /\ MaterialHome'
<1>1. CASE ffi[w] = None /\ \E set \in BOOLEAN : NewFfi(w, m, set)
  BY <1>1, Added
<1>2. CASE UNCHANGED <<ffi, liveFfis>> /\ (EnsureFfi(w, m) => ffi[w] # None)
  <2>1. OneFfiPerWorker' /\ MaterialHome'
    BY <1>2 DEF OneFfiPerWorker, MaterialHome
  <2> QED BY <1>2, <2>1 DEF TypeOK, WSTypeOK
<1>3. \/ ffi[w] = None /\ \E set \in BOOLEAN : NewFfi(w, m, set)
      \/ UNCHANGED <<ffi, liveFfis>> /\ (EnsureFfi(w, m) => ffi[w] # None)
  <2>1. CASE ffi[w] = None /\ EnsureFfi(w, m)
    BY <2>1 DEF EnsureFfi
  <2>2. CASE ffi[w] # None /\ EnsureFfi(w, m)
    BY <2>2 DEF EnsureFfi
  <2>3. CASE EnsureFfiThrows(w, m) /\ ~EnsureFfi(w, m)
    BY <2>3 DEF EnsureFfiThrows
  <2> QED BY <2>1, <2>2, <2>3
<1> QED BY <1>1, <1>2, <1>3

\* The scheduler and the sessions' side do not move.
LEMMA Elsewhere ==
  ASSUME IInv, UNCHANGED <<rrvars, host, made, closing>>,
         WSTypeOK', port' \in [Worker -> Seq(Message)],
         awaiting' \in SUBSET Message,
         ready' \in [Worker -> BOOLEAN],
         used' \in [Session -> [keys : SUBSET Client, pass : Client \cup {None}]]
  PROVE  TypeOK' /\ Turn'
<1>1. rr' = rr /\ handed' = handed /\ host' = host /\ made' = made /\ closing' = closing
  BY DEF rrvars
<1>2. TypeOK'
  BY <1>1 DEF IInv, TypeOK, RRTypeOK
<1>3. Turn'
  BY <1>1 DEF IInv, Turn
<1> QED BY <1>2, <1>3

LEMMA StepHandleInit ==
  ASSUME IInv, NEW w \in Worker, HandleInit(w)
  PROVE  IInv'
<1>1. /\ Receive(w, "init") /\ Consume(w) /\ "init" \in Calls
      /\ UNCHANGED <<rrvars, host, made, closing, used>>
  BY DEF HandleInit, Answer, history, Calls
<1>2. /\ port' \in [Worker -> Seq(Message)]
      /\ Asked(w) \in Message
      /\ MessagesHome'
  BY <1>1, Received DEF IInv, Homes
<1>3. UsedHome'
  BY <1>1 DEF IInv, Homes, UsedHome
<1>4. /\ WSTypeOK /\ Host = Worker
      /\ ready \in [Worker -> BOOLEAN]
      /\ used \in [Session -> [keys : SUBSET Client, pass : Client \cup {None}]]
  BY Constants DEF IInv, TypeOK
<1>5. CASE /\ Answer(w)
           /\ \/ InitAtOnce(w) /\ ready' = [ready EXCEPT ![w] = TRUE]
              \/ InitThrows(w) /\ UNCHANGED ready
  <2>1. /\ rnp[w] # None
        /\ EnsureFfi(w, rnp[w]) \/ EnsureFfiThrows(w, rnp[w])
        /\ UNCHANGED <<rnp, passphrase, pending, loads>>
        /\ \/ EnsureFfi(w, rnp[w]) /\ ready' = [ready EXCEPT ![w] = TRUE]
           \/ UNCHANGED ready
        /\ Reply(Asked(w))
    BY <1>5 DEF InitAtOnce, InitThrows, Answer
  <2>2. rnp[w] \in Nat
    BY <1>4, <2>1 DEF WSTypeOK
  <2>3. /\ ffi' \in [Host -> FfiObject \cup {None}] /\ liveFfis' \in [Host -> Int]
        /\ EnsureFfi(w, rnp[w]) \/ ffi[w] # None => ffi'[w] # None
        /\ \A v \in Worker \ {w} : ffi'[v] = ffi[v]
        /\ OneFfiPerWorker' /\ MaterialHome'
    BY <1>1, <2>1, <2>2, Ensured DEF IInv, Homes
  <2>4. WSTypeOK'
    BY <1>4, <2>1, <2>3 DEF WSTypeOK
  <2>5. awaiting' \in SUBSET Message
    BY <2>1, Replied DEF IInv
  <2>6. ready' \in [Worker -> BOOLEAN]
    BY <1>4, <2>1
  <2>7. TypeOK' /\ Turn'
    BY <1>1, <1>2, <1>4, <2>4, <2>5, <2>6, Elsewhere
  <2>8. AnsweredInitHolds'
    BY <1>4, <2>1, <2>3 DEF IInv, AnsweredInitHolds
  <2> QED BY <1>2, <1>3, <2>3, <2>7, <2>8 DEF IInv, Homes
<1>6. CASE InitSuspends(w, Asked(w)) /\ UNCHANGED <<awaiting, history>>
  <2>1. /\ pending' = [pending EXCEPT ![w] = @ \cup {Asked(w)}]
        /\ UNCHANGED <<rnp, ffi, passphrase, loads, liveFfis, awaiting, ready>>
    BY <1>6 DEF InitSuspends, history
  <2>2. WSTypeOK'
    BY <1>2, <1>4, <2>1 DEF WSTypeOK
  <2>3. TypeOK' /\ Turn'
    BY <1>1, <1>2, <1>4, <2>1, <2>2, Elsewhere DEF IInv, TypeOK
  <2>4. OneFfiPerWorker' /\ AnsweredInitHolds'
    BY <2>1 DEF IInv, OneFfiPerWorker, AnsweredInitHolds
  <2>5. MaterialHome'
    BY <1>1, <2>1 DEF IInv, Homes, MaterialHome
  <2> QED BY <1>2, <1>3, <2>3, <2>4, <2>5 DEF IInv, Homes
<1> QED BY <1>5, <1>6 DEF HandleInit, history

\* Whatever this.rnp and this.ffi became while the module was loading.
LEMMA StepFinishInit ==
  ASSUME IInv, NEW w \in Worker, FinishInit(w)
  PROVE  IInv'
<1>1. PICK m \in pending[w] :
        /\ \/ InitResumes(w, m) /\ ready' = [ready EXCEPT ![w] = TRUE]
           \/ InitBreaks(w, m) /\ UNCHANGED ready
           \/ InitFails(w, m) /\ UNCHANGED ready
        /\ Reply(m)
        /\ UNCHANGED <<rrvars, host, port, made, closing, used>>
  BY DEF FinishInit
<1>2. /\ WSTypeOK /\ Host = Worker
      /\ ready \in [Worker -> BOOLEAN]
      /\ used \in [Session -> [keys : SUBSET Client, pass : Client \cup {None}]]
      /\ port \in [Worker -> Seq(Message)]
  BY Constants DEF IInv, TypeOK
<1>3. awaiting' \in SUBSET Message
  BY <1>1, Replied DEF IInv
<1>4. MessagesHome' /\ UsedHome'
  BY <1>1 DEF IInv, Homes, MessagesHome, UsedHome
<1>5. CASE \/ InitResumes(w, m) /\ ready' = [ready EXCEPT ![w] = TRUE]
           \/ InitBreaks(w, m) /\ UNCHANGED ready
  <2>1. /\ pending' = [pending EXCEPT ![w] = @ \ {m}]
        /\ loads' = [loads EXCEPT ![w] = @ + 1]
        /\ rnp' = [rnp EXCEPT ![w] = loads'[w]]
        /\ EnsureFfi(w, loads'[w]) \/ EnsureFfiThrows(w, loads'[w])
        /\ \/ EnsureFfi(w, loads'[w]) /\ ready' = [ready EXCEPT ![w] = TRUE]
           \/ UNCHANGED ready
        /\ UNCHANGED passphrase
    BY <1>5 DEF InitResumes, InitBreaks, ModuleArrives
  <2>2. loads' \in [Host -> Nat] /\ loads'[w] \in Nat
    BY <1>2, <2>1 DEF WSTypeOK
  <2>3. /\ ffi' \in [Host -> FfiObject \cup {None}] /\ liveFfis' \in [Host -> Int]
        /\ EnsureFfi(w, loads'[w]) \/ ffi[w] # None => ffi'[w] # None
        /\ \A v \in Worker \ {w} : ffi'[v] = ffi[v]
        /\ OneFfiPerWorker' /\ MaterialHome'
    <3> PICK n \in Nat : n = loads'[w]
      BY <2>2
    <3>1. EnsureFfi(w, n) \/ EnsureFfiThrows(w, n)
      BY <2>1
    <3> QED BY <1>1, <2>1, <3>1, Ensured DEF IInv, Homes
  <2>4. rnp' \in [Host -> Nat \cup {None}] /\ pending' \in [Host -> SUBSET Message]
    BY <1>2, <2>1, <2>2 DEF WSTypeOK
  <2>5. WSTypeOK'
    BY <1>2, <2>1, <2>2, <2>3, <2>4 DEF WSTypeOK
  <2>6. ready' \in [Worker -> BOOLEAN]
    BY <1>2, <2>1
  <2>7. TypeOK' /\ Turn'
    BY <1>1, <1>2, <1>3, <2>5, <2>6, Elsewhere
  <2>8. rnp'[w] # None /\ \A v \in Worker \ {w} : rnp'[v] = rnp[v]
    BY <1>2, <2>1, <2>2, Constants DEF WSTypeOK
  <2>9. AnsweredInitHolds'
    <3>1. \A v \in Worker \ {w} : ready'[v] = ready[v]
      BY <1>2, <2>1
    <3>2. ready'[w] => EnsureFfi(w, loads'[w]) \/ ready[w]
      BY <1>2, <2>1
    <3> QED BY <2>3, <2>8, <3>1, <3>2 DEF IInv, AnsweredInitHolds
  <2> QED BY <1>4, <2>3, <2>7, <2>9 DEF IInv, Homes
<1>6. CASE InitFails(w, m) /\ UNCHANGED ready
  <2>1. /\ pending' = [pending EXCEPT ![w] = @ \ {m}]
        /\ UNCHANGED <<rnp, ffi, passphrase, loads, liveFfis, ready>>
    BY <1>6 DEF InitFails
  <2>2. WSTypeOK'
    BY <1>2, <2>1 DEF WSTypeOK
  <2>3. TypeOK' /\ Turn'
    BY <1>1, <1>2, <1>3, <2>1, <2>2, Elsewhere
  <2>4. OneFfiPerWorker' /\ AnsweredInitHolds'
    BY <2>1 DEF IInv, OneFfiPerWorker, AnsweredInitHolds
  <2>5. MaterialHome'
    BY <1>1, <2>1 DEF IInv, Homes, MaterialHome
  <2> QED BY <1>4, <2>3, <2>4, <2>5 DEF IInv, Homes
<1> QED BY <1>1, <1>5, <1>6

LEMMA StepHandleSetPassphrase ==
  ASSUME IInv, NEW w \in Worker, HandleSetPassphrase(w)
  PROVE  IInv'
<1> DEFINE c == Sender(w)
<1>1. /\ Receive(w, "setPassphrase") /\ "setPassphrase" \in Calls
      /\ Consume(w) /\ Reply(Asked(w))
      /\ passphrase' = [passphrase EXCEPT ![w] = c]
      /\ UNCHANGED <<rnp, ffi, pending, loads, liveFfis, ready, used>>
      /\ UNCHANGED <<rrvars, host, made, closing>>
  BY DEF HandleSetPassphrase, SetPassphrase, Answer, history, Calls
<1>2. /\ port' \in [Worker -> Seq(Message)]
      /\ c \in Session /\ host[c] = w /\ c \in Client
      /\ MessagesHome'
  BY <1>1, Received DEF IInv, Homes
<1>3. awaiting' \in SUBSET Message
  BY <1>1, Replied DEF IInv
<1> HIDE DEF c
<1>4. WSTypeOK'
  BY <1>1, <1>2 DEF IInv, TypeOK, WSTypeOK
<1>5. TypeOK' /\ Turn'
  BY <1>1, <1>2, <1>3, <1>4, Elsewhere DEF IInv, TypeOK
<1>6. OneFfiPerWorker' /\ AnsweredInitHolds'
  BY <1>1 DEF IInv, OneFfiPerWorker, AnsweredInitHolds
<1>7. MaterialHome'
  <2>1. passphrase'[w] = c /\ \A v \in Worker \ {w} : passphrase'[v] = passphrase[v]
    BY <1>1, Constants DEF IInv, TypeOK, WSTypeOK
  <2> QED BY <1>1, <1>2, <2>1 DEF IInv, Homes, MaterialHome
<1>8. UsedHome'
  BY <1>1 DEF IInv, Homes, UsedHome
<1> QED BY <1>2, <1>5, <1>6, <1>7, <1>8 DEF IInv, Homes

\* A handler that answers and leaves the worker's state alone.
LEMMA OnlyAnswered ==
  ASSUME IInv, UNCHANGED <<rrvars, wsvars, host, made, closing, ready>>,
         port' \in [Worker -> Seq(Message)],
         awaiting' \in SUBSET Message,
         used' \in [Session -> [keys : SUBSET Client, pass : Client \cup {None}]],
         MessagesHome', UsedHome'
  PROVE  IInv'
<1>1. /\ host' = host
      /\ rnp' = rnp /\ ffi' = ffi /\ passphrase' = passphrase /\ pending' = pending
      /\ loads' = loads /\ liveFfis' = liveFfis
      /\ ready' = ready
  BY DEF wsvars
<1>2. WSTypeOK'
  BY <1>1 DEF IInv, TypeOK, WSTypeOK
<1>3. ready' \in [Worker -> BOOLEAN]
  BY <1>1 DEF IInv, TypeOK
<1>4. TypeOK' /\ Turn'
  BY <1>2, <1>3, Elsewhere
<1>5. OneFfiPerWorker' /\ AnsweredInitHolds'
  BY <1>1 DEF IInv, OneFfiPerWorker, AnsweredInitHolds
<1>6. MaterialHome'
  BY <1>1 DEF IInv, Homes, MaterialHome
<1> QED BY <1>4, <1>5, <1>6 DEF IInv, Homes

LEMMA StepHandleLoadKey ==
  ASSUME IInv, NEW w \in Worker, HandleLoadKey(w)
  PROVE  IInv'
<1> DEFINE c == Sender(w)
<1>1. /\ Receive(w, "loadKey") /\ "loadKey" \in Calls
      /\ Consume(w) /\ Reply(Asked(w))
      /\ UNCHANGED <<ready, used>>
      /\ UNCHANGED <<rrvars, host, made, closing>>
      /\ LoadKey(w, c) \/ Refuse(w)
  BY DEF HandleLoadKey, Answer, history, Calls
<1>2. /\ port' \in [Worker -> Seq(Message)]
      /\ c \in Session /\ host[c] = w /\ c \in Client
      /\ MessagesHome'
  BY <1>1, Received DEF IInv, Homes
<1>3. awaiting' \in SUBSET Message
  BY <1>1, Replied DEF IInv
<1>4. /\ used' \in [Session -> [keys : SUBSET Client, pass : Client \cup {None}]]
      /\ UsedHome'
  BY <1>1 DEF IInv, TypeOK, Homes, UsedHome
<1> HIDE DEF c
<1>5. CASE LoadKey(w, c)
  <2>1. /\ ffi[w] # None
        /\ ffi' = [ffi EXCEPT ![w].keys = @ \cup {c}]
        /\ UNCHANGED <<rnp, passphrase, pending, loads, liveFfis>>
    BY <1>5 DEF LoadKey
  <2>2. ffi \in [Worker -> FfiObject \cup {None}] /\ Host = Worker
    BY Constants DEF IInv, TypeOK, WSTypeOK
  <2>3. ffi[w] \in FfiObject
    BY <2>1, <2>2
  <2>4. /\ ffi'[w] = [ffi[w] EXCEPT !.keys = @ \cup {c}]
        /\ \A v \in Worker \ {w} : ffi'[v] = ffi[v]
    BY <2>1, <2>2
  <2>5. ffi'[w] \in FfiObject /\ ffi'[w].keys = ffi[w].keys \cup {c}
    <3>1. ffi[w].keys \cup {c} \in SUBSET Client
      BY <1>2, <2>3 DEF FfiObject
    <3>2. \A f \in FfiObject, k \in SUBSET Client :
            [f EXCEPT !.keys = k] \in FfiObject /\ [f EXCEPT !.keys = k].keys = k
      BY DEF FfiObject
    <3> QED BY <2>3, <2>4, <3>1, <3>2
  <2>6. ffi'[w] # None
    BY <2>5, Constants
  <2>7. ffi' \in [Worker -> FfiObject \cup {None}]
    BY <2>1, <2>2, <2>4, <2>5
  <2>8. WSTypeOK'
    BY <2>1, <2>2, <2>7 DEF IInv, TypeOK, WSTypeOK
  <2>9. TypeOK' /\ Turn'
    BY <1>1, <1>2, <1>3, <1>4, <2>8, Elsewhere DEF IInv, TypeOK
  <2>10. OneFfiPerWorker'
    BY <2>1, <2>2, <2>4, <2>6 DEF IInv, OneFfiPerWorker
  <2>11. AnsweredInitHolds'
    BY <1>1, <2>1, <2>4, <2>6 DEF IInv, AnsweredInitHolds
  <2>12. MaterialHome'
    <3>1. \A s \in ffi'[w].keys : s \in Session /\ host[s] = w
      BY <1>2, <2>1, <2>5 DEF IInv, Homes, MaterialHome
    <3> QED BY <1>1, <2>1, <2>4, <3>1 DEF IInv, Homes, MaterialHome
  <2> QED BY <1>2, <1>4, <2>9, <2>10, <2>11, <2>12 DEF IInv, Homes
<1>6. CASE Refuse(w)
  <2>1. UNCHANGED wsvars
    BY <1>6 DEF Refuse
  <2> QED BY <1>1, <1>2, <1>3, <1>4, <2>1, OnlyAnswered
<1> QED BY <1>1, <1>5, <1>6

\* An operation works with what is on the worker: material of its sessions.
LEMMA StepHandleOperate ==
  ASSUME IInv, NEW w \in Worker, HandleOperate(w)
  PROVE  IInv'
<1> DEFINE c == Sender(w)
           u == [keys |-> ffi[w].keys,
                 pass |-> IF ffi[w].provider THEN passphrase[w] ELSE None]
<1>1. /\ Receive(w, "operate") /\ "operate" \in Calls
      /\ Consume(w) /\ Reply(Asked(w))
      /\ UNCHANGED ready
      /\ UNCHANGED <<rrvars, host, made, closing>>
      /\ UNCHANGED wsvars
      /\ \/ ffi[w] # None /\ used' = [used EXCEPT ![c] = u]
         \/ UNCHANGED used
  BY DEF HandleOperate, Answer, Operate, Refuse, Calls
<1>2. /\ port' \in [Worker -> Seq(Message)]
      /\ c \in Session /\ host[c] = w /\ c \in Client
      /\ MessagesHome'
  BY <1>1, Received DEF IInv, Homes
<1>3. awaiting' \in SUBSET Message
  BY <1>1, Replied DEF IInv
<1> HIDE DEF c
<1>4. CASE ffi[w] # None /\ used' = [used EXCEPT ![c] = u]
  <2>1. /\ ffi[w] \in FfiObject /\ passphrase[w] \in Client \cup {None}
        /\ used \in [Session -> [keys : SUBSET Client, pass : Client \cup {None}]]
    BY <1>4, Constants DEF IInv, TypeOK, WSTypeOK
  <2>2. u \in [keys : SUBSET Client, pass : Client \cup {None}]
    BY <2>1 DEF FfiObject
  <2>3. u.keys = ffi[w].keys /\ u.pass \in {passphrase[w], None}
    OBVIOUS
  <2> HIDE DEF u
  <2>4. used' \in [Session -> [keys : SUBSET Client, pass : Client \cup {None}]]
    BY <1>4, <2>1, <2>2
  <2>5. used'[c] = u /\ \A s \in Session \ {c} : used'[s] = used[s]
    BY <1>2, <1>4, <2>1
  <2>6. \A t \in u.keys \cup ({u.pass} \ {None}) : t \in Session /\ host[t] = w
    BY <1>4, <2>3 DEF IInv, Homes, MaterialHome
  <2>7. UsedHome'
    <3> SUFFICES ASSUME NEW s \in Session,
                        NEW t \in used'[s].keys \cup ({used'[s].pass} \ {None})
                 PROVE  t \in Session /\ host[t] # None /\ host[t] = host[s]
      BY <1>1 DEF UsedHome
    <3>1. CASE s = c
      BY <1>2, <2>5, <2>6, <3>1, Constants
    <3>2. CASE s # c
      BY <2>5, <3>2 DEF IInv, Homes, UsedHome
    <3> QED BY <3>1, <3>2
  <2> QED BY <1>1, <1>2, <1>3, <2>4, <2>7, OnlyAnswered
<1>5. CASE UNCHANGED used
  <2>1. /\ used' \in [Session -> [keys : SUBSET Client, pass : Client \cup {None}]]
        /\ UsedHome'
    BY <1>1, <1>5 DEF IInv, TypeOK, Homes, UsedHome
  <2> QED BY <1>1, <1>2, <1>3, <2>1, OnlyAnswered
<1> QED BY <1>1, <1>4, <1>5

LEMMA StepHandleTerminate ==
  ASSUME IInv, NEW w \in Worker, HandleTerminate(w)
  PROVE  IInv'
<1> DEFINE c == Sender(w)
<1>1. /\ Receive(w, "terminate") /\ "terminate" \in Calls
      /\ Consume(w) /\ Reply(Asked(w))
      /\ ffi' = [ffi EXCEPT ![w] = None]
      /\ liveFfis' = IF ffi[w] # None THEN [liveFfis EXCEPT ![w] = @ - 1] ELSE liveFfis
      /\ ready' = [ready EXCEPT ![w] = FALSE]
      /\ UNCHANGED <<rnp, passphrase, pending, loads, used>>
      /\ UNCHANGED <<rrvars, host, made, closing>>
  BY DEF HandleTerminate, Terminate, Answer, Calls
<1>2. /\ port' \in [Worker -> Seq(Message)]
      /\ c \in Client
      /\ MessagesHome'
  BY <1>1, Received DEF IInv, Homes
<1>3. awaiting' \in SUBSET Message
  BY <1>1, Replied DEF IInv
<1>4. /\ WSTypeOK /\ Host = Worker
      /\ ready \in [Worker -> BOOLEAN]
      /\ used' \in [Session -> [keys : SUBSET Client, pass : Client \cup {None}]]
  BY <1>1, Constants DEF IInv, TypeOK
<1>5. /\ ffi'[w] = None /\ \A v \in Worker \ {w} : ffi'[v] = ffi[v]
      /\ ffi' \in [Host -> FfiObject \cup {None}]
  BY <1>1, <1>4 DEF WSTypeOK
<1>6. /\ liveFfis'[w] = IF ffi[w] # None THEN liveFfis[w] - 1 ELSE liveFfis[w]
      /\ \A v \in Worker \ {w} : liveFfis'[v] = liveFfis[v]
      /\ liveFfis' \in [Host -> Int]
  BY <1>1, <1>4 DEF WSTypeOK
<1>7. WSTypeOK'
  BY <1>1, <1>4, <1>5, <1>6 DEF WSTypeOK
<1>8. ready' \in [Worker -> BOOLEAN]
  BY <1>1, <1>4 DEF WSTypeOK
<1>9. TypeOK' /\ Turn'
  BY <1>1, <1>2, <1>3, <1>4, <1>7, <1>8, Elsewhere
<1>10. OneFfiPerWorker'
  BY <1>4, <1>5, <1>6 DEF IInv, OneFfiPerWorker
<1>11. AnsweredInitHolds'
  BY <1>1, <1>4, <1>5 DEF IInv, AnsweredInitHolds
<1>12. MaterialHome' /\ UsedHome'
  BY <1>1, <1>5 DEF IInv, Homes, MaterialHome, UsedHome
<1> QED BY <1>2, <1>9, <1>10, <1>11, <1>12 DEF IInv, Homes

LEMMA Stutter ==
  ASSUME IInv, UNCHANGED vars
  PROVE  IInv'
<1>1. /\ UNCHANGED <<rrvars, wsvars, host, history>>
      /\ port' = port /\ awaiting' = awaiting /\ made' = made /\ closing' = closing
      /\ host' = host
  BY DEF vars, poolvars
<1>2. MessagesHome'
  BY <1>1 DEF IInv, Homes, MessagesHome
<1> QED BY <1>1, <1>2, OnlyPorts DEF IInv, TypeOK

LEMMA Inductive == IInv /\ [Next]_vars => IInv'
<1> SUFFICES ASSUME IInv, [Next]_vars PROVE IInv'
  OBVIOUS
<1>1. ASSUME NEW s \in Session, TakeSession(s) \/ \E call \in Calls : Request(s, call)
      PROVE  IInv'
  BY <1>1, StepTakeSession, StepRequest
<1>2. ASSUME NEW w \in Worker, Loop(w) PROVE IInv'
  BY <1>2, StepHandleInit, StepHandleSetPassphrase, StepHandleLoadKey,
     StepHandleOperate, StepHandleTerminate DEF Loop
<1> QED BY <1>1, <1>2, StepTerminateAll, StepTerminateNext, StepFinishInit, Stutter
        DEF Next

LEMMA Invariant == Spec => []IInv
<1>1. Init => IInv
  BY InitIInv
<1>2. IInv /\ [Next]_vars => IInv'
  BY Inductive
<1> QED BY <1>1, <1>2, PTL DEF Spec

-----------------------------------------------------------------------------
(* Where the calls are.                                                    *)

InPort(m) == \E w \in Worker : \E i \in 1..Len(port[w]) : port[w][i] = m
InInit(m) == \E w \in Worker : m \in pending[w]

\* A call is at most one message and at most one suspended init(), and it is
\* one or the other while it is waited for.
OnePlace(m) ==
  /\ \A v, w \in Worker : \A i \in 1..Len(port[v]) : \A j \in 1..Len(port[w]) :
       port[v][i] = m /\ port[w][j] = m => v = w /\ i = j
  /\ \A v, w \in Worker : m \in pending[v] /\ m \in pending[w] => v = w
  /\ ~(InPort(m) /\ InInit(m))
  /\ m \in awaiting <=> InPort(m) \/ InInit(m)

\* The numbers of the sessions' calls are used up one by one, and the owner
\* waits for nothing but its terminateAll().
Numbered ==
  \A m \in awaiting : IF m.from = Owner THEN m = Terminating /\ closing # None
                                         ELSE m.nr <= made

Placed == Numbered /\ \A m \in Message : OnePlace(m)

LEMMA InitPlaced == Init => Placed
<1> SUFFICES ASSUME Init PROVE Placed
  OBVIOUS
<1>1. /\ awaiting = {}
      /\ \A w \in Worker : port[w] = <<>> /\ Len(port[w]) = 0 /\ pending[w] = {}
  BY Constants DEF Init, WSInit
<1>2. \A m \in Message : ~InPort(m) /\ ~InInit(m) /\ m \notin awaiting
  BY <1>1 DEF InPort, InInit
<1>3. \A m \in Message : OnePlace(m)
  BY <1>1, <1>2 DEF OnePlace
<1> QED BY <1>1, <1>3 DEF Placed, Numbered

\* A call that is not waited for is sent.
LEMMA PlacedSent ==
  ASSUME IInv, Placed, NEW m \in Message, NEW w \in Worker,
         Send(m, w), m \notin awaiting, UNCHANGED pending
  PROVE  \A d \in Message : OnePlace(d)'
<1> DEFINE n == Len(port[w]) + 1
<1>1. /\ port' = [port EXCEPT ![w] = Append(port[w], m)]
      /\ awaiting' = awaiting \cup {m}
      /\ port \in [Worker -> Seq(Message)]
  BY DEF Send, IInv, TypeOK
<1>2. /\ \A v \in Worker \ {w} : port'[v] = port[v]
      /\ Len(port'[w]) = n
      /\ \A i \in 1..n - 1 : port'[w][i] = port[w][i]
      /\ port'[w][n] = m
      /\ n \in Nat \ {0}
  BY <1>1, AppendProperties, LenProperties
<1>3. OnePlace(m) /\ ~InPort(m) /\ ~InInit(m)
  BY DEF Placed, OnePlace
<1>4. ~InInit(m)' /\ \A d \in Message : InInit(d)' <=> InInit(d)
  BY <1>3 DEF InInit
<1>5. OnePlace(m)'
  <2>1. \A v \in Worker : \A i \in 1..Len(port'[v]) :
          port'[v][i] = m => v = w /\ i = n
    BY <1>2, <1>3 DEF InPort
  <2>2. InPort(m)'
    BY <1>2 DEF InPort
  <2>3. \A v \in Worker : m \notin pending'[v]
    BY <1>4 DEF InInit
  <2> QED BY <1>1, <1>4, <2>1, <2>2, <2>3 DEF OnePlace
<1>6. ASSUME NEW d \in Message \ {m} PROVE OnePlace(d)'
  <2>1. \A v \in Worker : \A i \in 1..Len(port'[v]) :
          port'[v][i] = d => i \in 1..Len(port[v]) /\ port[v][i] = d
    BY <1>2
  <2>2. \A v \in Worker : \A i \in 1..Len(port[v]) :
          i \in 1..Len(port'[v]) /\ port'[v][i] = port[v][i]
    BY <1>2
  <2>3. InPort(d)' <=> InPort(d)
    BY <2>1, <2>2 DEF InPort
  <2>4. OnePlace(d)
    BY DEF Placed
  <2> QED BY <1>1, <1>4, <2>1, <2>3, <2>4 DEF OnePlace
<1> QED BY <1>5, <1>6

\* Taking the first message off a port moves the others up by one.
LEMMA Shifted ==
  ASSUME IInv, NEW w \in Worker, port[w] # <<>>, Consume(w)
  PROVE  /\ \A v \in Worker \ {w} : port'[v] = port[v]
         /\ Len(port'[w]) = Len(port[w]) - 1 /\ Len(port[w]) \in Nat \ {0}
         /\ \A i \in 1..Len(port'[w]) : port'[w][i] = port[w][i + 1]
         /\ Asked(w) = port[w][1] /\ Asked(w) \in Message
<1> DEFINE q == port[w]
<1>1. port' = [port EXCEPT ![w] = Tail(q)] /\ q \in Seq(Message)
      /\ port \in [Worker -> Seq(Message)]
  BY DEF Consume, IInv, TypeOK
<1>2. /\ Len(Tail(q)) = Len(q) - 1
      /\ \A i \in 1..Len(Tail(q)) : Tail(q)[i] = q[i + 1]
      /\ Head(q) = q[1] /\ Head(q) \in Message
      /\ Len(q) \in Nat \ {0}
  BY <1>1, HeadTailProperties, EmptySeq, LenProperties
<1>3. port'[w] = Tail(q) /\ \A v \in Worker \ {w} : port'[v] = port[v]
  BY <1>1
<1> QED BY <1>2, <1>3 DEF Asked

\* So that message is in no port any more, and every other as often as before.
LEMMA Gone ==
  ASSUME IInv, Placed, NEW w \in Worker, port[w] # <<>>, Consume(w),
         NEW m, m = Asked(w)
  PROVE  /\ m \in Message /\ InPort(m) /\ ~InPort(m)'
         /\ \A d \in Message \ {m} :
              /\ InPort(d)' <=> InPort(d)
              /\ \A u, v \in Worker :
                   \A i \in 1..Len(port'[u]) : \A j \in 1..Len(port'[v]) :
                     port'[u][i] = d /\ port'[v][j] = d => u = v /\ i = j
<1> DEFINE Was(v, i) == IF v = w THEN i + 1 ELSE i
<1>1. /\ \A v \in Worker \ {w} : port'[v] = port[v]
      /\ Len(port'[w]) = Len(port[w]) - 1 /\ Len(port[w]) \in Nat \ {0}
      /\ \A i \in 1..Len(port'[w]) : port'[w][i] = port[w][i + 1]
      /\ m = port[w][1] /\ m \in Message
  BY Shifted
<1>2. \A v \in Worker : \A i \in 1..Len(port'[v]) :
        Was(v, i) \in 1..Len(port[v]) /\ port'[v][i] = port[v][Was(v, i)]
  BY <1>1
<1>3. \A v \in Worker : \A i \in 1..Len(port[v]) :
        (v = w /\ i = 1) \/ \E j \in 1..Len(port'[v]) : port'[v][j] = port[v][i]
  <2> SUFFICES ASSUME NEW v \in Worker, NEW i \in 1..Len(port[v]), ~(v = w /\ i = 1)
               PROVE  \E j \in 1..Len(port'[v]) : port'[v][j] = port[v][i]
    OBVIOUS
  <2>1. CASE v # w
    BY <1>1, <2>1
  <2>2. CASE v = w
    <3>1. i - 1 \in 1..Len(port'[w]) /\ (i - 1) + 1 = i
      BY <1>1, <2>2
    <3> QED BY <1>1, <2>2, <3>1
  <2> QED BY <2>1, <2>2
<1>4. \A d \in Message : OnePlace(d)
  BY DEF Placed
<1>5. InPort(m)
  BY <1>1 DEF InPort
<1>6. ~InPort(m)'
  <2> SUFFICES ASSUME NEW v \in Worker, NEW i \in 1..Len(port'[v]), port'[v][i] = m
               PROVE  FALSE
    BY DEF InPort
  <2>1. Was(v, i) \in 1..Len(port[v]) /\ port[v][Was(v, i)] = m
    BY <1>2
  <2>2. v = w /\ Was(v, i) = 1
    BY <1>1, <1>4, <2>1 DEF OnePlace
  <2> QED BY <1>1, <2>2
<1>7. ASSUME NEW d \in Message \ {m}
      PROVE  /\ InPort(d)' <=> InPort(d)
             /\ \A u, v \in Worker :
                  \A i \in 1..Len(port'[u]) : \A j \in 1..Len(port'[v]) :
                    port'[u][i] = d /\ port'[v][j] = d => u = v /\ i = j
  <2>1. InPort(d)' => InPort(d)
    BY <1>2 DEF InPort
  <2>2. ASSUME InPort(d) PROVE InPort(d)'
    <3>1. PICK v \in Worker : \E i \in 1..Len(port[v]) : port[v][i] = d
      BY <2>2 DEF InPort
    <3>2. PICK i \in 1..Len(port[v]) : port[v][i] = d
      BY <3>1
    <3>3. PICK j \in 1..Len(port'[v]) : port'[v][j] = port[v][i]
      BY <1>1, <1>3, <3>2
    <3> QED BY <3>2, <3>3 DEF InPort
  <2>3. ASSUME NEW u \in Worker, NEW v \in Worker,
               NEW i \in 1..Len(port'[u]), NEW j \in 1..Len(port'[v]),
               port'[u][i] = d, port'[v][j] = d
        PROVE  u = v /\ i = j
    <3>1. /\ Was(u, i) \in 1..Len(port[u]) /\ port[u][Was(u, i)] = d
          /\ Was(v, j) \in 1..Len(port[v]) /\ port[v][Was(v, j)] = d
      BY <1>2, <2>3
    <3>2. u = v /\ Was(u, i) = Was(v, j)
      BY <1>4, <3>1 DEF OnePlace
    <3>3. i \in Int /\ j \in Int
      OBVIOUS
    <3> QED BY <3>2, <3>3
  <2> QED BY <2>1, <2>2, <2>3
<1> QED BY <1>1, <1>5, <1>6, <1>7

\* Fewer calls are waited for.
LEMMA StillNumbered ==
  ASSUME Numbered, awaiting' \subseteq awaiting, made' = made,
         closing' = None => closing = None
  PROVE  Numbered'
<1>1. Terminating' = Terminating
  BY DEF Terminating
<1> QED BY <1>1 DEF Numbered

\* A handler that ran to its end: the message is gone and is waited for no
\* longer.
LEMMA PlacedAnswered ==
  ASSUME IInv, Placed, NEW w \in Worker, port[w] # <<>>,
         Answer(w), UNCHANGED pending
  PROVE  Placed'
<1> PICK m : m = Asked(w)
  OBVIOUS
<1>1. /\ Consume(w) /\ awaiting' = awaiting \ {m}
      /\ UNCHANGED <<closing, made>>
  BY DEF Answer, Reply
<1>2. /\ m \in Message /\ InPort(m) /\ ~InPort(m)'
      /\ \A d \in Message \ {m} :
           /\ InPort(d)' <=> InPort(d)
           /\ \A u, v \in Worker :
                \A i \in 1..Len(port'[u]) : \A j \in 1..Len(port'[v]) :
                  port'[u][i] = d /\ port'[v][j] = d => u = v /\ i = j
  BY <1>1, Gone
<1>3. \A d \in Message : OnePlace(d) /\ (InInit(d)' <=> InInit(d))
  BY DEF Placed, InInit
<1>4. ~InInit(m)
  BY <1>2, <1>3 DEF OnePlace
<1>5. OnePlace(m)'
  BY <1>1, <1>2, <1>3, <1>4 DEF OnePlace, InPort, InInit
<1>6. \A d \in Message \ {m} : OnePlace(d)'
  BY <1>1, <1>2, <1>3 DEF OnePlace
<1>7. Numbered'
  BY <1>1, StillNumbered DEF Placed
<1> QED BY <1>5, <1>6, <1>7 DEF Placed

\* An init() that suspends: the call moves from the port to the worker.
LEMMA PlacedSuspended ==
  ASSUME IInv, Placed, NEW w \in Worker, port[w] # <<>>, Consume(w),
         pending' = [pending EXCEPT ![w] = @ \cup {Asked(w)}],
         UNCHANGED <<awaiting, made, closing>>
  PROVE  Placed'
<1> PICK m : m = Asked(w)
  OBVIOUS
<1>1. pending \in [Worker -> SUBSET Message]
  BY Constants DEF IInv, TypeOK, WSTypeOK
<1>2. /\ m \in Message /\ InPort(m) /\ ~InPort(m)'
      /\ \A d \in Message \ {m} :
           /\ InPort(d)' <=> InPort(d)
           /\ \A u, v \in Worker :
                \A i \in 1..Len(port'[u]) : \A j \in 1..Len(port'[v]) :
                  port'[u][i] = d /\ port'[v][j] = d => u = v /\ i = j
  BY Gone
<1>3. pending'[w] = pending[w] \cup {m} /\ \A v \in Worker \ {w} : pending'[v] = pending[v]
  BY <1>1
<1>4. \A d \in Message : OnePlace(d)
  BY DEF Placed
<1>5. ~InInit(m) /\ m \in awaiting
  BY <1>2, <1>4 DEF OnePlace
<1>6. \A v \in Worker : m \in pending'[v] <=> v = w
  BY <1>3, <1>5 DEF InInit
<1>7. InInit(m)'
  BY <1>6 DEF InInit
<1>8. OnePlace(m)'
  BY <1>2, <1>5, <1>6, <1>7 DEF OnePlace, InPort
<1>9. ASSUME NEW d \in Message \ {m} PROVE OnePlace(d)'
  <2>1. \A v \in Worker : d \in pending'[v] <=> d \in pending[v]
    BY <1>3
  <2>2. InInit(d)' <=> InInit(d)
    BY <2>1 DEF InInit
  <2> QED BY <1>2, <1>4, <2>1, <2>2 DEF OnePlace
<1>10. Numbered'
  BY StillNumbered DEF Placed
<1> QED BY <1>8, <1>9, <1>10 DEF Placed

\* A suspended init() that ends, one way or another, is waited for no longer.
LEMMA PlacedFinished ==
  ASSUME IInv, Placed, NEW w \in Worker, NEW m \in pending[w], Reply(m),
         pending' = [pending EXCEPT ![w] = @ \ {m}],
         UNCHANGED <<port, made, closing>>
  PROVE  Placed'
<1>1. /\ pending \in [Worker -> SUBSET Message]
      /\ awaiting' = awaiting \ {m}
  BY Constants DEF IInv, TypeOK, WSTypeOK, Reply
<1>2. m \in Message
  BY <1>1
<1>3. pending'[w] = pending[w] \ {m} /\ \A v \in Worker \ {w} : pending'[v] = pending[v]
  BY <1>1, <1>2
<1>4. \A d \in Message : OnePlace(d) /\ (InPort(d)' <=> InPort(d))
  BY DEF Placed, InPort
<1>5. InInit(m) /\ ~InPort(m)
  BY <1>2, <1>4 DEF OnePlace, InInit
<1>6. \A v \in Worker : m \notin pending'[v]
  BY <1>2, <1>3, <1>4 DEF OnePlace
<1>7. OnePlace(m)'
  BY <1>1, <1>2, <1>3, <1>4, <1>5, <1>6 DEF OnePlace, InPort, InInit
<1>8. ASSUME NEW d \in Message \ {m} PROVE OnePlace(d)'
  <2>1. \A v \in Worker : d \in pending'[v] <=> d \in pending[v]
    BY <1>3
  <2>2. InInit(d)' <=> InInit(d)
    BY <2>1 DEF InInit
  <2> QED BY <1>1, <1>4, <2>1, <2>2 DEF OnePlace
<1>9. Numbered'
  BY <1>1, StillNumbered DEF Placed
<1> QED BY <1>7, <1>8, <1>9 DEF Placed

\* Steps that touch no call.
LEMMA PlacedSame ==
  ASSUME Placed, UNCHANGED <<port, pending, awaiting, made>>,
         closing' = None => closing = None
  PROVE  Placed'
<1>1. Numbered'
  BY StillNumbered DEF Placed
<1>2. \A m \in Message : OnePlace(m)'
  BY DEF Placed, OnePlace, InPort, InInit
<1> QED BY <1>1, <1>2 DEF Placed

LEMMA PlacedInductive == IInv /\ Placed /\ [Next]_vars => Placed'
<1> SUFFICES ASSUME IInv, Placed, [Next]_vars PROVE Placed'
  OBVIOUS
<1> USE DEF Terminating
<1>1. ASSUME NEW s \in Session, TakeSession(s) PROVE Placed'
  BY <1>1, PlacedSame DEF TakeSession, wsvars
<1>2. ASSUME NEW s \in Session, NEW call \in Calls, Request(s, call) PROVE Placed'
  <2>1. PICK m : m = [from |-> s, call |-> call, nr |-> made + 1]
    OBVIOUS
  <2>2. /\ host[s] \in Worker /\ Send(m, host[s]) /\ m \in Message
        /\ m.from = s /\ m.nr = made + 1 /\ s # Owner /\ made \in Nat
    BY <1>2, <2>1, Asking DEF IInv
  <2>3. made' = made + 1 /\ pending' = pending /\ closing' = closing
    BY <1>2 DEF Request, wsvars
  <2>4. m \notin awaiting
    BY <2>2 DEF Placed, Numbered
  <2>5. \A d \in Message : OnePlace(d)'
    BY <2>2, <2>3, <2>4, PlacedSent
  <2>6. Numbered'
    <3> SUFFICES ASSUME NEW d \in awaiting'
                 PROVE  IF d.from = Owner THEN d = Terminating /\ closing' # None
                                          ELSE d.nr <= made'
      BY DEF Numbered
    <3>1. CASE d = m
      BY <2>2, <2>3, <3>1
    <3>2. CASE d # m
      <4>1. d \in awaiting /\ d \in Message
        BY <2>2, <3>2 DEF Send, IInv, TypeOK
      <4>2. d.nr \in Nat
        BY <4>1 DEF Message
      <4> QED BY <2>2, <2>3, <4>1, <4>2 DEF Placed, Numbered
    <3> QED BY <3>1, <3>2
  <2> QED BY <2>5, <2>6 DEF Placed
<1>3. ASSUME NEW k \in Worker, Send(Terminating, k), Idle(Owner),
             closing' # None, UNCHANGED <<pending, made>>
      PROVE  Placed'
  <2>1. Terminating \notin awaiting
    BY <1>3 DEF Idle
  <2>2. \A d \in Message : OnePlace(d)'
    BY <1>3, <2>1, Ending, PlacedSent
  <2>3. Numbered'
    BY <1>3 DEF Placed, Numbered, Send, Idle
  <2> QED BY <2>2, <2>3 DEF Placed
<1>4. ASSUME TerminateAll PROVE Placed'
  <2>1. /\ closing = None /\ closing' = 0 /\ Send(Terminating, 0)
        /\ UNCHANGED <<pending, made>>
    BY <1>4 DEF TerminateAll, wsvars
  <2>2. Idle(Owner) /\ closing' # None
    BY <2>1, Constants DEF Placed, Numbered, Idle
  <2> QED BY <1>3, <2>1, <2>2, Constants
<1>5. ASSUME TerminateNext PROVE Placed'
  <2>1. /\ closing # None /\ Idle(Owner) /\ closing < Size
        /\ closing' = closing + 1 /\ UNCHANGED <<pending, made>>
    BY <1>5 DEF TerminateNext, wsvars
  <2>2. closing \in 0..Size /\ closing' \in 0..Size /\ closing' # None
    BY <2>1, SizeAssumption, Constants DEF IInv, TypeOK
  <2>3. CASE closing' < Size
    <3> DEFINE k == closing'
    <3>1. k \in Worker /\ Send(Terminating, k)
      BY <1>5, <2>2, <2>3, SizeAssumption DEF TerminateNext, Worker
    <3> HIDE DEF k
    <3> QED BY <1>3, <2>1, <2>2, <3>1
  <2>4. CASE ~(closing' < Size)
    <3>1. port' = port /\ awaiting' = awaiting
      BY <1>5, <2>4 DEF TerminateNext
    <3> QED BY <2>1, <2>2, <3>1, PlacedSame
  <2> QED BY <2>3, <2>4
<1>6. ASSUME NEW w \in Worker, Loop(w) PROVE Placed'
  <2>1. port[w] # <<>>
    BY <1>6 DEF Loop, HandleInit, HandleSetPassphrase, HandleLoadKey, HandleOperate,
                HandleTerminate, Receive
  <2>2. CASE HandleInit(w)
    <3>1. CASE (InitAtOnce(w) \/ InitThrows(w)) /\ Answer(w)
      BY <2>1, <3>1, PlacedAnswered DEF InitAtOnce, InitThrows
    <3>2. CASE /\ InitSuspends(w, Asked(w)) /\ Consume(w)
               /\ UNCHANGED <<awaiting, made, closing>>
      BY <2>1, <3>2, PlacedSuspended DEF InitSuspends
    <3> QED BY <2>2, <3>1, <3>2 DEF HandleInit
  <2>3. CASE HandleSetPassphrase(w) \/ HandleLoadKey(w) \/ HandleOperate(w) \/ HandleTerminate(w)
    <3>1. Answer(w) /\ pending' = pending
      BY <2>3 DEF HandleSetPassphrase, HandleLoadKey, HandleOperate, HandleTerminate,
                  SetPassphrase, LoadKey, Operate, Refuse, Terminate, wsvars
    <3> QED BY <2>1, <3>1, PlacedAnswered
  <2> QED BY <1>6, <2>2, <2>3 DEF Loop
<1>7. ASSUME NEW w \in Worker, FinishInit(w) PROVE Placed'
  <2>1. PICK m \in pending[w] :
          /\ pending' = [pending EXCEPT ![w] = @ \ {m}]
          /\ Reply(m) /\ UNCHANGED <<port, made, closing>>
    BY <1>7 DEF FinishInit, InitResumes, InitBreaks, ModuleArrives, InitFails
  <2> QED BY <2>1, PlacedFinished
<1>8. ASSUME UNCHANGED vars PROVE Placed'
  BY <1>8, PlacedSame DEF vars, poolvars, wsvars
<1> QED BY <1>1, <1>2, <1>4, <1>5, <1>6, <1>7, <1>8 DEF Next

\* One place, counted: the place of the message or that of the suspended call.
LEMMA PlacedCounted ==
  ASSUME Placed, NEW m \in Message, m \in awaiting
  PROVE  Cardinality(Places(m)) = 1
<1>1. \A x : x \in Places(m) <=>
              \/ \E w \in Worker : \E i \in 1..Len(port[w]) : port[w][i] = m /\ x = <<w, i>>
              \/ \E w \in Worker : m \in pending[w] /\ x = <<w, 0>>
  <2>1. \A x : x \in Places(m) <=>
                \E w \in Worker : x \in InPortAt(w, m) \/ x \in SuspendedAt(w, m)
    BY DEF Places
  <2>2. \A w \in Worker : \A x :
          x \in InPortAt(w, m) <=> \E i \in 1..Len(port[w]) : port[w][i] = m /\ x = <<w, i>>
    BY DEF InPortAt
  <2>3. \A w \in Worker : \A x : x \in SuspendedAt(w, m) <=> m \in pending[w] /\ x = <<w, 0>>
    BY DEF SuspendedAt
  <2> QED BY <2>1, <2>2, <2>3
<1>2. OnePlace(m)
  BY DEF Placed
<1>3. \E x : Places(m) = {x}
  <2>1. CASE InPort(m)
    <3>1. PICK w \in Worker : \E i \in 1..Len(port[w]) : port[w][i] = m
      BY <2>1 DEF InPort
    <3>2. PICK i \in 1..Len(port[w]) : port[w][i] = m
      BY <3>1
    <3>3. \A v \in Worker : \A j \in 1..Len(port[v]) : port[v][j] = m => v = w /\ j = i
      BY <1>2, <3>2 DEF OnePlace
    <3>4. \A v \in Worker : m \notin pending[v]
      BY <1>2, <2>1 DEF OnePlace, InInit
    <3>5. \A x : x \in Places(m) <=> x = <<w, i>>
      BY <1>1, <3>2, <3>3, <3>4
    <3>6. Places(m) = {<<w, i>>}
      BY <3>5
    <3> QED BY <3>6
  <2>2. CASE InInit(m)
    <3>1. PICK w \in Worker : m \in pending[w]
      BY <2>2 DEF InInit
    <3>2. \A v \in Worker : m \in pending[v] => v = w
      BY <1>2, <3>1 DEF OnePlace
    <3>3. \A v \in Worker : \A j \in 1..Len(port[v]) : port[v][j] # m
      BY <1>2, <2>2 DEF OnePlace, InPort
    <3>4. \A x : x \in Places(m) <=> x = <<w, 0>>
      BY <1>1, <3>1, <3>2, <3>3
    <3>5. Places(m) = {<<w, 0>>}
      BY <3>4
    <3> QED BY <3>5
  <2> QED BY <1>2, <2>1, <2>2 DEF OnePlace
<1> QED BY <1>3, FS_Singleton

\* Whatever is underway is waited for.
LEMMA UnderwayAwaited ==
  ASSUME TypeOK, Placed
  PROVE  Underway \subseteq awaiting
<1> SUFFICES ASSUME NEW m \in Underway PROVE m \in awaiting
  OBVIOUS
<1>1. PICK w \in Worker : m \in {port[w][i] : i \in 1..Len(port[w])} \cup pending[w]
  BY DEF Underway
<1>2. port[w] \in Seq(Message) /\ pending[w] \in SUBSET Message
  BY Constants DEF TypeOK, WSTypeOK
<1>3. m \in Message
  BY <1>1, <1>2, ElementOfSeq
<1>4. InPort(m) \/ InInit(m)
  BY <1>1 DEF InPort, InInit
<1> QED BY <1>3, <1>4 DEF Placed, OnePlace

-----------------------------------------------------------------------------
\* The pool, its workers, ports and sessions are well typed: among others
\* the round-robin index is always a worker's (pool.ts session).
THEOREM TypeCorrect == Spec => []TypeOK
<1>1. IInv => TypeOK
  BY DEF IInv
<1> QED BY <1>1, Invariant, PTL

\* However many sessions are taken, no worker is given two more than another
\* (pool.ts session).
THEOREM AlwaysBalanced == Spec => []Balanced
<1>1. IInv => Balanced
  <2> SUFFICES ASSUME IInv, NEW v \in Worker, NEW w \in Worker
               PROVE  handed[v] <= handed[w] + 1
    BY DEF Balanced
  <2>1. PICK k \in Nat : \A x \in Worker : handed[x] = IF x < rr THEN k + 1 ELSE k
    BY DEF IInv, Turn
  <2> QED BY <2>1
<1> QED BY <1>1, Invariant, PTL

\* init(), overlapping with others and with terminate(), never leaves a
\* native FFI behind that this.ffi does not hold (worker.ts init).
THEOREM AlwaysOneFfi == Spec => []OneFfiPerWorker
<1>1. IInv => OneFfiPerWorker
  BY DEF IInv
<1> QED BY <1>1, Invariant, PTL

\* After an answered init() the worker has its module and its FFI until a
\* terminate() runs there (worker.ts init).
THEOREM InitHolds == Spec => []AnsweredInitHolds
<1>1. IInv => AnsweredInitHolds
  BY DEF IInv
<1> QED BY <1>1, Invariant, PTL

\* A session alone on its worker works with its own keys and passphrase only
\* (pool.ts session, worker.ts loadKey, setPassphrase and the operations).
THEOREM Private == Spec => []AloneMeansPrivate
<1>1. IInv => AloneMeansPrivate
  <2> SUFFICES ASSUME IInv, NEW s \in Session, host[s] # None, Alone(s)
               PROVE  used[s].keys \subseteq {s} /\ used[s].pass \in {s, None}
    BY DEF AloneMeansPrivate
  <2>1. \A t \in used[s].keys \cup ({used[s].pass} \ {None}) :
          t \in Session /\ host[t] = host[s]
    BY DEF IInv, Homes, UsedHome
  <2>2. \A t \in Session : host[t] = host[s] => t = s
    BY DEF Alone
  <2>3. \A t \in used[s].keys \cup ({used[s].pass} \ {None}) : t = s
    BY <2>1, <2>2
  <2>4. used[s].keys \subseteq Client
    BY DEF IInv, TypeOK
  <2>5. None \notin used[s].keys
    BY <2>4, Constants
  <2> QED BY <2>3, <2>5
<1> QED BY <1>1, Invariant, PTL

\* A call that is waited for is one message in one port or one suspended
\* init(), however sessions share workers and whatever fails: none is lost,
\* doubled or answered twice (worker.ts, pool.ts terminateAll).
THEOREM AlwaysConserved == Spec => []CallsConserved
<1>1. Init => IInv /\ Placed
  BY InitIInv, InitPlaced
<1>2. (IInv /\ Placed) /\ [Next]_vars => (IInv /\ Placed)'
  BY Inductive, PlacedInductive
<1>3. IInv /\ Placed => CallsConserved
  BY PlacedCounted, UnderwayAwaited DEF CallsConserved, IInv, TypeOK
<1> QED BY <1>1, <1>2, <1>3, PTL DEF Spec
=============================================================================
