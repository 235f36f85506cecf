----------------------------- MODULE BufferPool -----------------------------
(***************************************************************************)
(* ByteBufferPool (ts/memory/pool.ts): recycling of WASM-heap buffers.     *)
(*                                                                         *)
(* acquire() rounds the size up to a bucket, takes the bucket's last free  *)
(* buffer or allocates one; release() puts a buffer back, or frees it when *)
(* its bucket is full; drain() frees everything pooled.  The pool keeps    *)
(* statistics, among them the bytes it believes are resident.              *)
(*                                                                         *)
(* Sizes are in units of the smallest bucket (256 bytes).                  *)
(***************************************************************************)
EXTENDS Integers, Sequences, FiniteSets, Functions

CONSTANTS
  Ptr,           \* the non-null pointers malloc may return
  Bucket,        \* the bucket sizes: the powers of two roundUp() can return
  Request,       \* the sizes callers ask for
  CapPerBucket,  \* opts.capPerBucket, 4 by default
  MaxAcquires    \* bound on the calls of acquire()

ASSUME BufferPoolAssumption ==
  /\ IsFiniteSet(Ptr) /\ IsFiniteSet(Bucket)
  /\ Bucket \in SUBSET (Nat \ {0})
  /\ Request \in SUBSET Nat
  /\ CapPerBucket \in Nat
  /\ MaxAcquires \in Nat
  /\ \A n \in Request : \E b \in Bucket :
       n <= b /\ \A c \in Bucket : n <= c => b <= c

VARIABLES
  pooled,     \* pooled[b]: the free buffers of bucket b, last one on top
  lent,       \* the buffers handed out and not released, with their sizes
  heap,       \* heap[p]: the size of the allocation at p, or 0
  resident,   \* residentBytes
  hits, misses, evictions

stats == <<resident, hits, misses, evictions>>
vars  == <<pooled, lent, heap, stats>>

Init ==
  /\ pooled = [b \in Bucket |-> <<>>]
  /\ lent   = {}
  /\ heap   = [p \in Ptr |-> 0]
  /\ resident = 0 /\ hits = 0 /\ misses = 0 /\ evictions = 0

\* The smallest bucket that holds n.
RoundUp(n) == CHOOSE b \in Bucket : n <= b /\ \A c \in Bucket : n <= c => b <= c

Elements(s) == {s[i] : i \in 1..Len(s)}
Pooled      == UNION {Elements(pooled[b]) : b \in Bucket}
PooledBytes == SumFunction([b \in Bucket |-> b * Len(pooled[b])])
Lent        == {buf.ptr : buf \in lent}

-----------------------------------------------------------------------------
\* Mutant of AcquirePooled: the buffer stays in the free list.
AcquirePeeks(n) ==
  LET b == RoundUp(n)
      s == pooled[b]
  IN
  /\ s # <<>>
  /\ lent' = lent \cup {[ptr |-> s[Len(s)], size |-> b]}
  /\ hits' = hits + 1
  /\ UNCHANGED <<pooled, heap, resident, misses, evictions>>

AcquirePooled(n) ==
  LET b == RoundUp(n)
      s == pooled[b]
  IN
  /\ s # <<>>
  /\ pooled' = [pooled EXCEPT ![b] = SubSeq(s, 1, Len(s) - 1)]
  /\ lent'   = lent \cup {[ptr |-> s[Len(s)], size |-> b]}
  /\ hits'   = hits + 1
  /\ UNCHANGED <<heap, resident, misses, evictions>>

\* Mutant of AcquireFresh: the size asked for is allocated, not the bucket's.
AcquireUnrounded(n) ==
  /\ pooled[RoundUp(n)] = <<>>
  /\ misses' = misses + 1
  /\ \E p \in Ptr :
       /\ heap[p] = 0
       /\ heap' = [heap EXCEPT ![p] = n]
       /\ lent' = lent \cup {[ptr |-> p, size |-> RoundUp(n)]}
  /\ resident' = resident + RoundUp(n)
  /\ UNCHANGED <<pooled, hits, evictions>>

AcquireFresh(n) ==
  LET b == RoundUp(n) IN
  /\ pooled[b] = <<>>
  /\ misses' = misses + 1
  /\ \E p \in Ptr :
       /\ heap[p] = 0
       /\ heap' = [heap EXCEPT ![p] = b]
       /\ lent' = lent \cup {[ptr |-> p, size |-> b]}
  /\ resident' = resident + b
  /\ UNCHANGED <<pooled, hits, evictions>>

\* malloc returns 0 and acquire() throws: the miss is already counted.
AcquireFails(n) ==
  /\ pooled[RoundUp(n)] = <<>>
  /\ misses' = misses + 1
  /\ UNCHANGED <<pooled, lent, heap, resident, hits, evictions>>

Acquire(n) ==
  /\ hits + misses < MaxAcquires
  /\ AcquirePooled(n) \/ AcquireFresh(n) \/ AcquireFails(n)

\* Mutants of Release: one buffer too many; an eviction that is not counted.
ReleaseOverCap(buf) ==
  LET b == RoundUp(buf.size) IN
  /\ buf \in lent
  /\ Len(pooled[b]) <= CapPerBucket
  /\ lent' = lent \ {buf}
  /\ pooled' = [pooled EXCEPT ![b] = Append(@, buf.ptr)]
  /\ UNCHANGED <<heap, stats>>

ReleaseUncounted(buf) ==
  LET b == RoundUp(buf.size)
      s == pooled[b]
  IN
  /\ buf \in lent
  /\ lent' = lent \ {buf}
  /\ IF Len(s) >= CapPerBucket
     THEN /\ heap' = [heap EXCEPT ![buf.ptr] = 0]
          /\ evictions' = evictions + 1
          /\ UNCHANGED pooled
     ELSE /\ pooled' = [pooled EXCEPT ![b] = Append(s, buf.ptr)]
          /\ UNCHANGED <<heap, evictions>>
  /\ UNCHANGED <<resident, hits, misses>>

\* Callers release what they were lent, once.
Release(buf) ==
  LET b == RoundUp(buf.size)
      s == pooled[b]
  IN
  /\ buf \in lent
  /\ lent' = lent \ {buf}
  /\ IF Len(s) >= CapPerBucket
     THEN /\ heap' = [heap EXCEPT ![buf.ptr] = 0]
          /\ resident'  = resident - buf.size
          /\ evictions' = evictions + 1
          /\ UNCHANGED pooled
     ELSE /\ pooled' = [pooled EXCEPT ![b] = Append(s, buf.ptr)]
          /\ UNCHANGED <<heap, resident, evictions>>
  /\ UNCHANGED <<hits, misses>>

\* Mutant of Drain: the free lists are not cleared.
DrainKeepsLists ==
  /\ heap' = [p \in Ptr |-> IF p \in Pooled THEN 0 ELSE heap[p]]
  /\ resident' = resident - PooledBytes
  /\ UNCHANGED <<pooled, lent, hits, misses, evictions>>

Drain ==
  /\ heap' = [p \in Ptr |-> IF p \in Pooled THEN 0 ELSE heap[p]]
  /\ resident' = resident - PooledBytes
  /\ pooled' = [b \in Bucket |-> <<>>]
  /\ UNCHANGED <<lent, hits, misses, evictions>>

Next ==
  \/ \E n \in Request : Acquire(n)
  \/ \E buf \in lent : Release(buf)
  \/ Drain

Spec == Init /\ [][Next]_vars

-----------------------------------------------------------------------------
Buffer == [ptr : Ptr, size : Bucket]

\* What `resident` is, ResidentExact says.
TypeOK ==
  /\ pooled \in [Bucket -> Seq(Ptr)]
  /\ lent \in SUBSET Buffer
  /\ heap \in [Ptr -> Bucket \cup {0}]
  /\ hits \in Nat /\ misses \in Nat /\ evictions \in Nat

(***************************************************************************)
(* No two users of one buffer: a buffer is lent once or pooled once, in    *)
(* one bucket and at one place of it, never both (acquire, release).       *)
(***************************************************************************)
NoAliasing ==
  /\ \A buf1, buf2 \in lent : buf1.ptr = buf2.ptr => buf1 = buf2
  /\ Lent \cap Pooled = {}
  /\ \A b, c \in Bucket : \A i \in 1..Len(pooled[b]), j \in 1..Len(pooled[c]) :
       pooled[b][i] = pooled[c][j] => b = c /\ i = j

(***************************************************************************)
(* Every buffer the pool knows is allocated with the size of its bucket,   *)
(* so a buffer handed out is never smaller than what it is used as, and a  *)
(* freed buffer is nowhere in the pool.                                    *)
(***************************************************************************)
BuffersAllocated ==
  /\ \A buf \in lent : heap[buf.ptr] = buf.size
  /\ \A b \in Bucket : \A p \in Elements(pooled[b]) : heap[p] = b

\* A bucket holds at most capPerBucket free buffers.
WithinCap == \A b \in Bucket : Len(pooled[b]) <= CapPerBucket

(***************************************************************************)
(* stats().resident is what the heap really holds for the pool, after any  *)
(* history of reuse, eviction, failed allocation and drain, and nothing    *)
(* the pool allocated is forgotten by it and by its callers.               *)
(***************************************************************************)
ResidentExact ==
  /\ resident = SumFunction(heap)
  /\ {p \in Ptr : heap[p] # 0} = Lent \cup Pooled
=============================================================================
