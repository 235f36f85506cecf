------------------------------ MODULE Streams ------------------------------
(***************************************************************************)
(* StreamInput and StreamOutput (ts/streams.ts, src/cpp/bindings/          *)
(* stream.cpp).  create() allocates a context that holds the JavaScript    *)
(* callback and gives it to rnp; rnp's closer deletes it when the stream   *)
(* is destroyed, create() itself when rnp refuses.  While an operation     *)
(* runs, rnp calls the reader and the writer of the streams it was created *)
(* over, through their contexts; no wrapper keeps these streams from being *)
(* destroyed before.                                                       *)
(***************************************************************************)
EXTENDS Naturals, Integers

CONSTANT MaxStreams       \* bound on the streams of a history

ASSUME StreamsAssumption == MaxStreams \in Nat

VARIABLES
  stream,    \* stream[s]: the context of the open stream of a side, 0 if none
  heap,      \* heap[c]: times context c was allocated minus times deleted
  made,      \* how many contexts were allocated
  over,      \* over[s]: the context the open operation works over, 0 if none
  flow,      \* flow[s]: "open", "end" or "abort", what rnp knows of a side
  conduct    \* the callbacks of the running operation: see Worse

svars == <<stream, heap, made, over, flow, conduct>>

Side     == {"in", "out"}
NoStream == [s \in Side |-> 0]

(***************************************************************************)
(* What a reader returns when it is offered len bytes, and a writer when   *)
(* it is handed some.  The reader's contract is a number n, 0 < n <= len,  *)
(* or null for the end; "zero" stands for 0, NaN and other numbers that    *)
(* uint32_t makes 0, "wrapped" for one out of range that it brings back to *)
(* 1..len (2^32 + 1), "over" for one that it leaves above len (also -1).   *)
(* "other" is no number, "truthy" and "falsy" are no Booleans.             *)
(***************************************************************************)
ReaderAnswer == {"short", "full", "null", "zero", "wrapped", "undefined",
                 "over", "other", "exception"}
WriterAnswer == {"true", "truthy", "undefined", "null",
                 "false", "falsy", "exception"}

Agreed  == {"short", "full", "null"}
Failing == {"over", "other", "exception", "false", "falsy"}

\* "kept" the contract; "strayed" from it with an answer that the trampoline
\* takes all the same; "failed" with one that is to end the operation.
Conduct == {"kept", "strayed", "failed"}
Worse(c, a) == IF c = "failed" \/ a \in Failing THEN "failed"
               ELSE IF a \in ReaderAnswer \ Agreed THEN "strayed" ELSE c

\* Mutant of ReaderOutcome: any number is taken for a length.
ReaderOutcomeUnchecked(a) ==
  IF a \in {"short", "full", "wrapped", "over"} THEN "open"
  ELSE IF a \in {"zero", "null", "undefined"} THEN "end" ELSE "abort"

\* A number is read as uint32_t and compared with len; no bytes are the end
\* of the input for rnp.
ReaderOutcome(a) ==
  IF a \in {"short", "full", "wrapped"} THEN "open"
  ELSE IF a \in {"zero", "null", "undefined"} THEN "end" ELSE "abort"

WriterOutcome(a) ==
  IF a \in {"true", "truthy", "undefined", "null"} THEN "open" ELSE "abort"

StreamsInit ==
  /\ stream = NoStream /\ over = NoStream
  /\ heap = [c \in 1..MaxStreams |-> 0]
  /\ made = 0
  /\ flow = [s \in Side |-> "open"]
  /\ conduct = "kept"

CreateStream(s) ==
  /\ stream[s] = 0 /\ made < MaxStreams
  /\ made' = made + 1
  /\ heap' = [heap EXCEPT ![made + 1] = @ + 1]
  /\ stream' = [stream EXCEPT ![s] = made + 1]
  /\ UNCHANGED <<over, flow, conduct>>

\* Mutant of CreateFails: the context stays when rnp refuses.
CreateFailsKeeping(s) ==
  /\ stream[s] = 0 /\ made < MaxStreams
  /\ made' = made + 1
  /\ heap' = [heap EXCEPT ![made + 1] = @ + 1]
  /\ UNCHANGED <<stream, over, flow, conduct>>

\* rnp_input_from_callback or rnp_output_to_callback fails: new, delete.
CreateFails(s) ==
  /\ stream[s] = 0 /\ made < MaxStreams
  /\ made' = made + 1
  /\ heap' = [heap EXCEPT ![made + 1] = (@ + 1) - 1]
  /\ UNCHANGED <<stream, over, flow, conduct>>

\* The wrapper is destroyed, rnp closes the stream, the closer deletes.
DestroyStream(s) ==
  /\ stream[s] # 0
  /\ heap' = [heap EXCEPT ![stream[s]] = @ - 1]
  /\ stream' = [stream EXCEPT ![s] = 0]
  /\ UNCHANGED <<made, over, flow, conduct>>

\* An operation is created over the streams that are open, or over memory.
Attach(o) == /\ over' = o
             /\ flow' = [s \in Side |-> "open"]
             /\ conduct' = "kept"
             /\ UNCHANGED <<stream, heap, made>>

\* rnp starts to work over its streams.
Restart == Attach(over)

\* rnp calls the reader: until it reports the end or fails.  If the program
\* destroyed the stream, the context is gone and any answer may come back.
Read(a) ==
  /\ over["in"] # 0 /\ flow["in"] = "open"
  /\ flow' = [flow EXCEPT !["in"] = ReaderOutcome(a)]
  /\ conduct' = Worse(conduct, a)
  /\ UNCHANGED <<stream, heap, made, over>>

Write(a) ==
  /\ over["out"] # 0 /\ flow["out"] = "open"
  /\ flow' = [flow EXCEPT !["out"] = WriterOutcome(a)]
  /\ conduct' = IF a \in Failing THEN "failed" ELSE conduct
  /\ UNCHANGED <<stream, heap, made, over>>

\* rnp reports success only if it saw the end and no side failed.
Complete == /\ over["in"] # 0 => flow["in"] = "end"
            /\ flow["out"] # "abort"

\* The program has not destroyed a stream under the operation over it.
StreamsKept == \A s \in Side : over[s] # 0 => stream[s] = over[s]

StreamsTypeOK ==
  /\ stream \in [Side -> 0..MaxStreams]
  /\ over \in [Side -> 0..MaxStreams]
  /\ heap \in [1..MaxStreams -> Int]
  /\ made \in 0..MaxStreams
  /\ flow \in [Side -> {"open", "end", "abort"}]
  /\ conduct \in Conduct
=============================================================================
