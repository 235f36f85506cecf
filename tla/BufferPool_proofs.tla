------------------------- MODULE BufferPool_proofs -------------------------
(***************************************************************************)
(* Theorems about ByteBufferPool for any heap, any buckets and any cap.    *)
(* The invariant is                                                        *)
(*                                                                         *)
(*     IInv == TypeOK /\ NoAliasing /\ BuffersAllocated                    *)
(*                                                                         *)
(* The last two need each other: that a fresh pointer is nobody's follows  *)
(* from the sizes recorded on the heap, and that a freed buffer is in no   *)
(* list follows from its having one place only.  The statistics are        *)
(* compared with a sum over the heap: a step changes the size of one       *)
(* pointer (or, in a drain, of those of the lists), and a sum changes by   *)
(* what is changed in it.                                                  *)
(***************************************************************************)
EXTENDS BufferPool, SequenceTheorems, FiniteSetTheorems, TLAPS

IInv == TypeOK /\ NoAliasing /\ BuffersAllocated

-----------------------------------------------------------------------------
\* A bucket size is its own bucket.
LEMMA RoundUpBucket ==
  ASSUME NEW b \in Bucket
  PROVE  RoundUp(b) = b
<1>1. Bucket \subseteq Nat
  BY BufferPoolAssumption
<1>2. b <= b /\ \A c \in Bucket : b <= c => b <= c
  BY <1>1
<1>3. \A d \in Bucket : (b <= d /\ \A c \in Bucket : b <= c => d <= c) => d = b
  BY <1>1, <1>2
<1> QED BY <1>2, <1>3 DEF RoundUp

\* Every request has a bucket.
LEMMA RoundUpRequest ==
  ASSUME NEW n \in Request
  PROVE  RoundUp(n) \in Bucket
<1>1. \E b \in Bucket : n <= b /\ \A c \in Bucket : n <= c => b <= c
  BY BufferPoolAssumption
<1> QED BY <1>1 DEF RoundUp

\* A free list without its last buffer.
LEMMA Popped ==
  ASSUME NEW s \in Seq(Ptr), s # <<>>
  PROVE  LET t == SubSeq(s, 1, Len(s) - 1) IN
         /\ t \in Seq(Ptr)
         /\ Len(t) = Len(s) - 1
         /\ \A i \in 1..Len(t) : t[i] = s[i]
         /\ Len(s) \in 1..Len(s)
         /\ s[Len(s)] \in Ptr
<1> DEFINE n == Len(s) - 1
<1>1. n \in Nat /\ Len(s) \in Nat
  BY EmptySeq, LenProperties
<1>2. \A i \in 1..Len(s) : s[i] \in Ptr
  BY <1>1, ElementOfSeq
<1> HIDE DEF n
<1> DEFINE t == SubSeq(s, 1, n)
<1>3. /\ t \in Seq(Ptr)
      /\ Len(t) = IF 1 <= n THEN n-1+1 ELSE 0
      /\ \A i \in 1..n-1+1 : t[i] = s[1+i-1]
  BY <1>1, <1>2, SubSeqProperties DEF n
<1>4. Len(t) = n /\ \A i \in 1..Len(t) : t[i] = s[i]
  BY <1>1, <1>3
<1>5. Len(s) \in 1..Len(s) /\ s[Len(s)] \in Ptr
  BY <1>1, <1>2 DEF n
<1> QED BY <1>3, <1>4, <1>5 DEF n

\* A free list with one more buffer.
LEMMA Pushed ==
  ASSUME NEW s \in Seq(Ptr), NEW p \in Ptr
  PROVE  LET t == Append(s, p) IN
         /\ t \in Seq(Ptr)
         /\ Len(t) = Len(s) + 1
         /\ \A i \in 1..Len(s) : t[i] = s[i]
         /\ t[Len(s) + 1] = p
         /\ Len(s) \in Nat
BY AppendProperties, LenProperties

\* What is pooled, by its place.
LEMMA PooledPlaces ==
  ASSUME NEW p
  PROVE  p \in Pooled <=> \E b \in Bucket : \E i \in 1..Len(pooled[b]) : p = pooled[b][i]
BY DEF Pooled, Elements

\* What a buffer lent has to do with the free lists, by place.
LEMMA LentPlaces ==
  ASSUME NoAliasing
  PROVE  \A x \in lent : \A c \in Bucket : \A i \in 1..Len(pooled[c]) :
           x.ptr # pooled[c][i]
<1> SUFFICES ASSUME NEW x \in lent, NEW c \in Bucket, NEW i \in 1..Len(pooled[c]),
                    x.ptr = pooled[c][i]
             PROVE  FALSE
  OBVIOUS
<1>1. x.ptr \in Lent
  BY DEF Lent
<1>2. x.ptr \in Pooled
  BY DEF Pooled, Elements
<1> QED BY <1>1, <1>2 DEF NoAliasing

\* A step that moves no buffer.
LEMMA Unmoved ==
  ASSUME NoAliasing, BuffersAllocated, UNCHANGED <<pooled, lent, heap>>
  PROVE  NoAliasing' /\ BuffersAllocated'
<1>1. pooled' = pooled /\ lent' = lent /\ heap' = heap
  OBVIOUS
<1>2. Lent' = Lent /\ Pooled' = Pooled
  BY <1>1 DEF Lent, Pooled, Elements
<1>3. NoAliasing'
  BY <1>1, <1>2 DEF NoAliasing
<1>4. BuffersAllocated'
  BY <1>1 DEF BuffersAllocated, Elements
<1> QED BY <1>3, <1>4

-----------------------------------------------------------------------------
(* Sums over finite sets.                                                  *)

\* The fold of SumFunctionOnSet as a function on the subsets: which element
\* it takes off a set, and the equation it solves.
Pick(s) == CHOOSE x \in s : TRUE
Solves(f, S, g) == g = [s \in SUBSET S |-> IF s = {} THEN 0 ELSE f[Pick(s)] + g[s \ {Pick(s)}]]
Total(f, S) == CHOOSE g : Solves(f, S, g)

\* Induction over the subsets of a finite set: if some are bad, one of them
\* has no bad proper subset.
LEMMA SmallestBad ==
  ASSUME NEW S, IsFiniteSet(S), NEW B \in SUBSET SUBSET S, B # {}
  PROVE  \E T \in B : \A U \in B : U \subseteq T => U = T
<1> DEFINE R == StrictSubsetOrdering(S)
<1>1. IsWellFoundedOn(R, SUBSET S)
  BY FS_StrictSubsetOrderingWellFounded, FS_FiniteSubsetsOfFinite
<1>2. \A U, T \in SUBSET S : U \subseteq T /\ U # T => <<U, T>> \in R
  BY DEF StrictSubsetOrdering
<1> HIDE DEF R
<1>3. \E T \in B : \A U \in B : <<U, T>> \notin R
  BY <1>1, WFMin
<1> QED BY <1>2, <1>3

LEMMA SumIsTotal ==
  ASSUME NEW f, NEW S
  PROVE  SumFunctionOnSet(f, S) = Total(f, S)[S]
BY Zenon DEF SumFunctionOnSet, FoldFunctionOnSet, MapThenFoldSet, Total, Solves, Pick

LEMMA Picked ==
  ASSUME NEW s, s # {}
  PROVE  Pick(s) \in s
BY DEF Pick

\* Solutions agree where both are defined.
LEMMA SolvesOnce ==
  ASSUME NEW f, NEW S, NEW T, IsFiniteSet(S), NEW g, NEW h,
         Solves(f, S, g), Solves(f, T, h)
  PROVE  \A U \in SUBSET (S \cap T) : g[U] = h[U]
<1> DEFINE B == {U \in SUBSET (S \cap T) : g[U] # h[U]}
<1> SUFFICES ASSUME B # {} PROVE FALSE
  OBVIOUS
<1>1. IsFiniteSet(S \cap T) /\ B \in SUBSET SUBSET (S \cap T)
  BY FS_Intersection
<1> HIDE DEF B
<1>2. PICK U \in B : \A V \in B : V \subseteq U => V = U
  BY <1>1, SmallestBad
<1> USE DEF B
<1>3. /\ g[U] = IF U = {} THEN 0 ELSE f[Pick(U)] + g[U \ {Pick(U)}]
      /\ h[U] = IF U = {} THEN 0 ELSE f[Pick(U)] + h[U \ {Pick(U)}]
  BY DEF Solves
<1>4. CASE U = {}
  BY <1>3, <1>4
<1>5. CASE U # {}
  <2> DEFINE V == U \ {Pick(U)}
  <2>1. V \subseteq U /\ V # U /\ V \in SUBSET (S \cap T)
    BY <1>5, Picked
  <2>2. g[V] = h[V]
    BY <1>2, <2>1
  <2> QED BY <1>3, <1>5, <2>2
<1> QED BY <1>4, <1>5

\* A solution on a set is one on each of its subsets.
LEMMA SolvesBelow ==
  ASSUME NEW f, NEW S, NEW T \in SUBSET S, NEW g, Solves(f, S, g)
  PROVE  Solves(f, T, [s \in SUBSET T |-> g[s]])
<1> DEFINE h == [s \in SUBSET T |-> g[s]]
<1>1. \A s \in SUBSET T : g[s] = IF s = {} THEN 0 ELSE f[Pick(s)] + g[s \ {Pick(s)}]
  BY DEF Solves
<1>2. \A s \in SUBSET T : h[s] = g[s] /\ h[s \ {Pick(s)}] = g[s \ {Pick(s)}]
  OBVIOUS
<1>3. \A s \in SUBSET T : h[s] = IF s = {} THEN 0 ELSE f[Pick(s)] + h[s \ {Pick(s)}]
  BY <1>1, <1>2
<1>4. h = [s \in SUBSET T |-> h[s]]
  OBVIOUS
<1> HIDE DEF h
<1>5. h = [s \in SUBSET T |-> IF s = {} THEN 0 ELSE f[Pick(s)] + h[s \ {Pick(s)}]]
  BY <1>3, <1>4
<1> QED BY <1>5 DEF Solves, h

\* There is one: put together from solutions on the proper subsets.
LEMMA Solvable ==
  ASSUME NEW f, NEW S, IsFiniteSet(S)
  PROVE  \E g : Solves(f, S, g)
<1> DEFINE B == {T \in SUBSET S : ~\E g : Solves(f, T, g)}
<1> SUFFICES ASSUME B # {} PROVE FALSE
  BY DEF B
<1>0. B \in SUBSET SUBSET S
  OBVIOUS
<1> HIDE DEF B
<1>1. PICK T \in B : \A U \in B : U \subseteq T => U = T
  BY <1>0, SmallestBad
<1> USE DEF B
<1>2. \A U \in SUBSET T : U # T => \E g : Solves(f, U, g)
  BY <1>1
<1>3. \A U \in SUBSET T : U # T => Solves(f, U, Total(f, U))
  BY <1>2 DEF Total
<1> DEFINE Rest(s) == s \ {Pick(s)}
           g == [s \in SUBSET T |->
                   IF s = {} THEN 0 ELSE f[Pick(s)] + Total(f, Rest(s))[Rest(s)]]
<1>4. ASSUME NEW s \in SUBSET T, s # {}
      PROVE  g[Rest(s)] = Total(f, Rest(s))[Rest(s)]
  <2> DEFINE r == Rest(s)
             h == Total(f, r)
  <2>1. r \in SUBSET T /\ r # T
    BY <1>4, Picked
  <2>2. Solves(f, r, h)
    BY <1>3, <2>1
  <2>3. h[r] = IF r = {} THEN 0 ELSE f[Pick(r)] + h[Rest(r)]
    <3>1. r \in SUBSET r
      OBVIOUS
    <3> HIDE DEF h, r
    <3> QED BY <2>2, <3>1 DEF Solves
  <2>4. CASE r = {}
    <3>1. g[r] = 0
      BY <2>1, <2>4
    <3> HIDE DEF h, r, g
    <3>2. g[r] = h[r]
      BY <2>3, <2>4, <3>1
    <3> QED BY <3>2 DEF h, r
  <2>5. CASE r # {}
    <3> DEFINE q == Rest(r)
    <3>1. q \in SUBSET r /\ q # T /\ q \in SUBSET T
      BY <2>1, <2>5, Picked
    <3>2. Solves(f, q, Total(f, q)) /\ IsFiniteSet(r)
      BY <1>3, <2>1, <3>1, FS_Subset
    <3> HIDE DEF h, r, q
    <3>3. q \in SUBSET (r \cap q)
      BY <3>1
    <3>4. h[q] = Total(f, q)[q]
      BY <2>2, <3>2, <3>3, SolvesOnce
    <3>5. g[r] = f[Pick(r)] + Total(f, q)[q]
      BY <2>1, <2>5 DEF q
    <3>6. h[r] = f[Pick(r)] + h[q]
      BY <2>3, <2>5 DEF q
    <3> HIDE DEF g
    <3>7. g[r] = h[r]
      BY <3>4, <3>5, <3>6
    <3> QED BY <3>7 DEF r, h
  <2> QED BY <2>4, <2>5 DEF h, r
<1>5. g = [s \in SUBSET T |-> IF s = {} THEN 0 ELSE f[Pick(s)] + g[Rest(s)]]
  <2>1. \A s \in SUBSET T : g[s] = IF s = {} THEN 0 ELSE f[Pick(s)] + g[Rest(s)]
    BY <1>4
  <2>2. g = [s \in SUBSET T |-> g[s]]
    OBVIOUS
  <2> HIDE DEF g, Rest
  <2> QED BY <2>1, <2>2
<1> HIDE DEF g
<1>6. Solves(f, T, g)
  BY <1>5 DEF Solves
<1> QED BY <1>1, <1>6


LEMMA SumSolved ==
  ASSUME NEW f, NEW S, IsFiniteSet(S)
  PROVE  Solves(f, S, Total(f, S))
BY Solvable DEF Total

\* The sum of nothing, and of one thing after the other.
LEMMA SumEmpty ==
  ASSUME NEW f
  PROVE  SumFunctionOnSet(f, {}) = 0
<1>1. Solves(f, {}, Total(f, {}))
  BY SumSolved, FS_EmptySet
<1>2. Total(f, {})[{}] = 0
  BY <1>1 DEF Solves
<1> QED BY <1>2, SumIsTotal

LEMMA SumPick ==
  ASSUME NEW f, NEW S, IsFiniteSet(S), S # {}
  PROVE  SumFunctionOnSet(f, S) = f[Pick(S)] + SumFunctionOnSet(f, S \ {Pick(S)})
<1> DEFINE R == S \ {Pick(S)}
<1>1. IsFiniteSet(R) /\ R \in SUBSET (S \cap R) /\ R \in SUBSET S /\ S \in SUBSET S
  BY FS_RemoveElement
<1>2. Solves(f, S, Total(f, S)) /\ Solves(f, R, Total(f, R))
  BY <1>1, SumSolved
<1>3. Total(f, S)[R] = Total(f, R)[R]
  BY <1>1, <1>2, SolvesOnce
<1>4. Total(f, S)[S] = f[Pick(S)] + Total(f, S)[R]
  BY <1>1, <1>2 DEF Solves
<1> QED BY <1>3, <1>4, SumIsTotal

\* A sum of integers is one.
LEMMA SumInt ==
  ASSUME NEW f, NEW S, IsFiniteSet(S), \A x \in S : f[x] \in Int
  PROVE  SumFunctionOnSet(f, S) \in Int
<1> DEFINE B == {T \in SUBSET S : SumFunctionOnSet(f, T) \notin Int}
<1> SUFFICES ASSUME B # {} PROVE FALSE
  OBVIOUS
<1>1. B \in SUBSET SUBSET S
  OBVIOUS
<1> HIDE DEF B
<1>2. PICK T \in B : \A U \in B : U \subseteq T => U = T
  BY <1>1, SmallestBad
<1>3. T \in SUBSET S /\ SumFunctionOnSet(f, T) \notin Int /\ IsFiniteSet(T)
  BY FS_Subset DEF B
<1>4. T # {}
  BY <1>3, SumEmpty
<1> DEFINE R == T \ {Pick(T)}
<1>5. Pick(T) \in T /\ R \subseteq T /\ R # T
  BY <1>4, Picked
<1>6. SumFunctionOnSet(f, R) \in Int
  BY <1>2, <1>3, <1>5 DEF B
<1>7. SumFunctionOnSet(f, T) = f[Pick(T)] + SumFunctionOnSet(f, R)
  BY <1>3, <1>4, SumPick
<1> QED BY <1>3, <1>5, <1>6, <1>7

\* Any element may be taken off first.
LEMMA SumRemove ==
  ASSUME NEW f, NEW S, IsFiniteSet(S), \A x \in S : f[x] \in Int, NEW x \in S
  PROVE  SumFunctionOnSet(f, S) = f[x] + SumFunctionOnSet(f, S \ {x})
<1> DEFINE B == {T \in SUBSET S : \E y \in T :
                   SumFunctionOnSet(f, T) # f[y] + SumFunctionOnSet(f, T \ {y})}
<1> SUFFICES ASSUME B # {} PROVE FALSE
  OBVIOUS
<1>1. B \in SUBSET SUBSET S
  OBVIOUS
<1> HIDE DEF B
<1>2. PICK T \in B : \A U \in B : U \subseteq T => U = T
  BY <1>1, SmallestBad
<1>3. T \in SUBSET S /\ IsFiniteSet(T)
  BY FS_Subset DEF B
<1>4. PICK y \in T : SumFunctionOnSet(f, T) # f[y] + SumFunctionOnSet(f, T \ {y})
  BY DEF B
<1> DEFINE p == Pick(T)
<1>5. p \in T
  BY <1>4, Picked
<1>6. SumFunctionOnSet(f, T) = f[p] + SumFunctionOnSet(f, T \ {p})
  BY <1>3, <1>4, SumPick
<1> HIDE DEF p
<1>7. y # p
  BY <1>4, <1>6
<1>8. \A U \in SUBSET T : U # T => \A z \in U :
        SumFunctionOnSet(f, U) = f[z] + SumFunctionOnSet(f, U \ {z})
  BY <1>2, <1>3 DEF B
<1> DEFINE q == (T \ {p}) \ {y}
<1>9. SumFunctionOnSet(f, T \ {p}) = f[y] + SumFunctionOnSet(f, q)
  BY <1>5, <1>7, <1>8
<1>10. (T \ {y}) \ {p} = q
  OBVIOUS
<1>11. SumFunctionOnSet(f, T \ {y}) = f[p] + SumFunctionOnSet(f, q)
  BY <1>5, <1>7, <1>8, <1>10
<1>12. f[p] \in Int /\ f[y] \in Int
  BY <1>3, <1>5
<1>13. SumFunctionOnSet(f, q) \in Int
  <2>1. IsFiniteSet(q) /\ q \subseteq S
    BY <1>3, FS_Subset
  <2> HIDE DEF q
  <2> QED BY <2>1, SumInt
<1> HIDE DEF q
<1> QED BY <1>4, <1>6, <1>9, <1>11, <1>12, <1>13

LEMMA SumAdd ==
  ASSUME NEW f, NEW S, IsFiniteSet(S), NEW x, x \notin S,
         \A y \in S \cup {x} : f[y] \in Int
  PROVE  SumFunctionOnSet(f, S \cup {x}) = f[x] + SumFunctionOnSet(f, S)
<1> DEFINE T == S \cup {x}
<1>1. IsFiniteSet(T) /\ x \in T /\ T \ {x} = S /\ \A y \in T : f[y] \in Int
  BY FS_AddElement
<1> HIDE DEF T
<1>2. SumFunctionOnSet(f, T) = f[x] + SumFunctionOnSet(f, S)
  BY <1>1, SumRemove
<1> QED BY <1>2 DEF T

\* A sum depends on the values summed only.
LEMMA SumSame ==
  ASSUME NEW f, NEW g, NEW S, IsFiniteSet(S), \A x \in S : f[x] = g[x]
  PROVE  SumFunctionOnSet(f, S) = SumFunctionOnSet(g, S)
<1> DEFINE B == {T \in SUBSET S : SumFunctionOnSet(f, T) # SumFunctionOnSet(g, T)}
<1> SUFFICES ASSUME B # {} PROVE FALSE
  OBVIOUS
<1>1. B \in SUBSET SUBSET S
  OBVIOUS
<1> HIDE DEF B
<1>2. PICK T \in B : \A U \in B : U \subseteq T => U = T
  BY <1>1, SmallestBad
<1>3. T \in SUBSET S /\ IsFiniteSet(T) /\ SumFunctionOnSet(f, T) # SumFunctionOnSet(g, T)
  BY FS_Subset DEF B
<1>4. T # {}
  BY <1>3, SumEmpty
<1> DEFINE R == T \ {Pick(T)}
<1>5. Pick(T) \in T /\ R \subseteq T /\ R # T
  BY <1>4, Picked
<1>6. SumFunctionOnSet(f, R) = SumFunctionOnSet(g, R)
  BY <1>2, <1>3, <1>5 DEF B
<1>7. /\ SumFunctionOnSet(f, T) = f[Pick(T)] + SumFunctionOnSet(f, R)
      /\ SumFunctionOnSet(g, T) = g[Pick(T)] + SumFunctionOnSet(g, R)
  BY <1>3, <1>4, SumPick
<1> QED BY <1>3, <1>5, <1>6, <1>7

\* The sum over two disjoint sets.
LEMMA SumUnion ==
  ASSUME NEW f, NEW S, NEW T, IsFiniteSet(S), IsFiniteSet(T), S \cap T = {},
         \A x \in S \cup T : f[x] \in Int
  PROVE  SumFunctionOnSet(f, S \cup T) = SumFunctionOnSet(f, S) + SumFunctionOnSet(f, T)
<1> DEFINE B == {U \in SUBSET T : SumFunctionOnSet(f, S \cup U)
                   # SumFunctionOnSet(f, S) + SumFunctionOnSet(f, U)}
<1> SUFFICES ASSUME B # {} PROVE FALSE
  OBVIOUS
<1>1. B \in SUBSET SUBSET T
  OBVIOUS
<1> HIDE DEF B
<1>2. PICK U \in B : \A V \in B : V \subseteq U => V = U
  BY <1>1, SmallestBad
<1>3. U \in SUBSET T /\ IsFiniteSet(U)
      /\ SumFunctionOnSet(f, S \cup U) # SumFunctionOnSet(f, S) + SumFunctionOnSet(f, U)
  BY FS_Subset DEF B
<1>4. SumFunctionOnSet(f, S) \in Int
  BY SumInt
<1>5. U # {}
  <2>1. S \cup {} = S
    OBVIOUS
  <2> QED BY <1>3, <1>4, <2>1, SumEmpty
<1>6. PICK x : x \in U
  BY <1>5
<1> DEFINE R == U \ {x}
<1>7. IsFiniteSet(R) /\ IsFiniteSet(S \cup R)
  BY <1>3, FS_RemoveElement, FS_Union
<1>8. SumFunctionOnSet(f, S \cup R) = SumFunctionOnSet(f, S) + SumFunctionOnSet(f, R)
  BY <1>2, <1>3, <1>6 DEF B
<1>9. SumFunctionOnSet(f, U) = f[x] + SumFunctionOnSet(f, R)
  BY <1>3, <1>6, SumRemove
<1>10. SumFunctionOnSet(f, S \cup U) = f[x] + SumFunctionOnSet(f, S \cup R)
  <2> DEFINE V == S \cup U
  <2>1. IsFiniteSet(V) /\ x \in V /\ V \ {x} = S \cup R /\ \A y \in V : f[y] \in Int
    BY <1>3, <1>6, FS_Union
  <2> HIDE DEF V, R
  <2>2. SumFunctionOnSet(f, V) = f[x] + SumFunctionOnSet(f, S \cup R)
    BY <2>1, SumRemove
  <2> QED BY <2>2 DEF V
<1>11. f[x] \in Int /\ SumFunctionOnSet(f, R) \in Int
  <2>1. \A y \in R : f[y] \in Int
    BY <1>3
  <2> HIDE DEF R
  <2> QED BY <1>3, <1>6, <1>7, <2>1, SumInt
<1> HIDE DEF R
<1> QED BY <1>3, <1>4, <1>8, <1>9, <1>10, <1>11

\* The sum of equal values.
LEMMA SumEqual ==
  ASSUME NEW f, NEW S, IsFiniteSet(S), NEW k \in Nat, \A x \in S : f[x] = k
  PROVE  SumFunctionOnSet(f, S) = k * Cardinality(S)
<1> DEFINE B == {T \in SUBSET S : SumFunctionOnSet(f, T) # k * Cardinality(T)}
<1> SUFFICES ASSUME B # {} PROVE FALSE
  OBVIOUS
<1>1. B \in SUBSET SUBSET S
  OBVIOUS
<1> HIDE DEF B
<1>2. PICK T \in B : \A U \in B : U \subseteq T => U = T
  BY <1>1, SmallestBad
<1>3. T \in SUBSET S /\ IsFiniteSet(T) /\ SumFunctionOnSet(f, T) # k * Cardinality(T)
  BY FS_Subset DEF B
<1>4. T # {}
  <2>1. k * 0 = 0
    OBVIOUS
  <2> QED BY <1>3, <2>1, SumEmpty, FS_EmptySet
<1>5. PICK x : x \in T
  BY <1>4
<1> DEFINE R == T \ {x}
           n == Cardinality(R)
<1>6. IsFiniteSet(R) /\ Cardinality(T) = n + 1 /\ n \in Nat
  <2>1. IsFiniteSet(R) /\ Cardinality(R) = Cardinality(T) - 1
    BY <1>3, <1>5, FS_RemoveElement
  <2>2. Cardinality(R) \in Nat /\ Cardinality(T) \in Nat
    BY <1>3, <2>1, FS_CardinalityType
  <2> QED BY <2>1, <2>2
<1>7. SumFunctionOnSet(f, R) = k * n
  BY <1>2, <1>3, <1>5 DEF B
<1>8. SumFunctionOnSet(f, T) = k + SumFunctionOnSet(f, R)
  BY <1>3, <1>5, SumRemove
<1> HIDE DEF n, R
<1>9. k * (n + 1) = k + k * n
  BY <1>6
<1> QED BY <1>3, <1>6, <1>7, <1>8, <1>9

\* The sum of all values, when one of them is changed.
LEMMA SumUpdate ==
  ASSUME NEW S, IsFiniteSet(S), NEW f \in [S -> Int], NEW x \in S, NEW v \in Int
  PROVE  SumFunction([f EXCEPT ![x] = v]) = SumFunction(f) - f[x] + v
<1> DEFINE g == [f EXCEPT ![x] = v]
           R == S \ {x}
<1>1. DOMAIN f = S /\ DOMAIN g = S /\ g \in [S -> Int] /\ g[x] = v
  OBVIOUS
<1>2. IsFiniteSet(R) /\ \A y \in R : g[y] = f[y] /\ f[y] \in Int
  BY FS_RemoveElement
<1> HIDE DEF g
<1>3. /\ SumFunctionOnSet(f, S) = f[x] + SumFunctionOnSet(f, R)
      /\ SumFunctionOnSet(g, S) = g[x] + SumFunctionOnSet(g, R)
  BY <1>1, SumRemove
<1> HIDE DEF R
<1>4. SumFunctionOnSet(g, R) = SumFunctionOnSet(f, R) /\ SumFunctionOnSet(f, R) \in Int
  BY <1>2, SumSame, SumInt
<1>5. SumFunction(f) = SumFunctionOnSet(f, S) /\ SumFunction(g) = SumFunctionOnSet(g, S)
  BY <1>1 DEF SumFunction
<1>6. f[x] \in Int
  OBVIOUS
<1>7. SumFunction(g) = SumFunction(f) - f[x] + v
  BY <1>1, <1>3, <1>4, <1>5, <1>6
<1> QED BY <1>7 DEF g

\* A list without repetitions has as many elements as places.
LEMMA ListSize ==
  ASSUME NEW s \in Seq(Ptr), \A i, j \in 1..Len(s) : s[i] = s[j] => i = j
  PROVE  IsFiniteSet(Elements(s)) /\ Cardinality(Elements(s)) = Len(s)
<1> DEFINE n == Len(s)
           T == Elements(s)
           f == [i \in 1..n |-> s[i]]
<1>1. n \in Nat
  BY LenProperties
<1>2. f \in [1..n -> T] /\ \A y \in T : \E i \in 1..n : f[i] = y
  BY DEF Elements
<1>3. \A i, j \in 1..n : f[i] = f[j] => i = j
  OBVIOUS
<1> HIDE DEF n, T, f
<1>4. f \in Bijection(1..n, T)
  BY <1>2, <1>3 DEF Bijection, Injection, Surjection, IsInjective
<1>5. ExistsBijection(1..n, T)
  BY <1>4 DEF ExistsBijection
<1>6. IsFiniteSet(1..n) /\ Cardinality(1..n) = n
  BY <1>1, FS_Interval
<1>7. IsFiniteSet(T) /\ Cardinality(T) = Cardinality(1..n)
  BY <1>5, <1>6, FS_Bijection
<1> QED BY <1>6, <1>7 DEF n, T

-----------------------------------------------------------------------------
LEMMA InitIInv == Init => IInv
<1> SUFFICES ASSUME Init PROVE IInv
  OBVIOUS
<1>1. \A b \in Bucket : pooled[b] = <<>> /\ Len(pooled[b]) = 0
  BY DEF Init
<1>2. pooled \in [Bucket -> Seq(Ptr)] /\ heap \in [Ptr -> Bucket \cup {0}] /\ lent = {}
  BY DEF Init
<1>3. TypeOK
  BY <1>2 DEF Init, TypeOK
<1>4. Lent = {}
  BY <1>2 DEF Lent
<1>5. NoAliasing
  BY <1>1, <1>2, <1>4 DEF NoAliasing
<1>6. BuffersAllocated
  BY <1>1, <1>2 DEF BuffersAllocated, Elements
<1> QED BY <1>3, <1>5, <1>6 DEF IInv

\* A pooled buffer changes hands.
LEMMA StepAcquirePooled ==
  ASSUME IInv, NEW n \in Request, AcquirePooled(n)
  PROVE  IInv'
<1> DEFINE b == RoundUp(n)
           s == pooled[b]
           p == s[Len(s)]
           buf == [ptr |-> p, size |-> b]
<1>1. b \in Bucket
  BY RoundUpRequest
<1>2. /\ s # <<>>
      /\ pooled' = [pooled EXCEPT ![b] = SubSeq(s, 1, Len(s) - 1)]
      /\ lent' = lent \cup {buf}
      /\ heap' = heap
  BY DEF AcquirePooled
<1>3. pooled \in [Bucket -> Seq(Ptr)] /\ s \in Seq(Ptr)
  BY <1>1 DEF IInv, TypeOK
<1>4. /\ pooled'[b] \in Seq(Ptr)
      /\ Len(pooled'[b]) = Len(s) - 1
      /\ \A i \in 1..Len(pooled'[b]) : pooled'[b][i] = s[i]
      /\ Len(s) \in 1..Len(s)
      /\ p \in Ptr
  BY <1>1, <1>2, <1>3, Popped
<1>5. \A c \in Bucket \ {b} : pooled'[c] = pooled[c]
  BY <1>2, <1>3
<1>6. pooled' \in [Bucket -> Seq(Ptr)]
  BY <1>1, <1>2, <1>3, <1>4
<1>7. \A c \in Bucket : Len(pooled'[c]) \in Nat /\ Len(pooled[c]) \in Nat
  BY <1>3, <1>6, LenProperties
<1>8. \A c \in Bucket : \A i \in 1..Len(pooled'[c]) :
        /\ i \in 1..Len(pooled[c])
        /\ pooled'[c][i] = pooled[c][i]
        /\ c = b => i # Len(s)
  BY <1>4, <1>5, <1>7
<1> HIDE DEF b, s, p
<1>9. TypeOK'
  <2>1. buf \in Buffer
    BY <1>1, <1>4 DEF Buffer
  <2>2. hits' \in Nat /\ misses' \in Nat /\ evictions' \in Nat
    BY DEF AcquirePooled, IInv, TypeOK
  <2> QED BY <1>2, <1>6, <2>1, <2>2 DEF IInv, TypeOK
<1>10. p \notin Lent /\ p = pooled[b][Len(s)] /\ Len(s) \in 1..Len(pooled[b])
  <2>1. p = pooled[b][Len(s)] /\ Len(s) \in 1..Len(pooled[b])
    BY <1>4 DEF p, s
  <2>2. p \in Pooled
    BY <2>1, <1>1, PooledPlaces
  <2> QED BY <2>1, <2>2 DEF IInv, NoAliasing
<1>11. \A c \in Bucket : \A i \in 1..Len(pooled'[c]) : pooled'[c][i] # p
  BY <1>1, <1>8, <1>10 DEF IInv, NoAliasing
<1>12. NoAliasing'
  <2>1. \A buf1, buf2 \in lent' : buf1.ptr = buf2.ptr => buf1 = buf2
    BY <1>2, <1>10 DEF IInv, NoAliasing, Lent
  <2>2. \A x \in lent' : \A c \in Bucket : \A i \in 1..Len(pooled'[c]) : x.ptr # pooled'[c][i]
    <3>1. \A x \in lent : \A c \in Bucket : \A i \in 1..Len(pooled[c]) : x.ptr # pooled[c][i]
      BY LentPlaces DEF IInv
    <3> QED BY <1>2, <1>8, <1>11, <3>1
  <2>3. Lent' \cap Pooled' = {}
    BY <2>2 DEF Lent, Pooled, Elements
  <2>4. \A c, d \in Bucket : \A i \in 1..Len(pooled'[c]), j \in 1..Len(pooled'[d]) :
          pooled'[c][i] = pooled'[d][j] => c = d /\ i = j
    BY <1>8 DEF IInv, NoAliasing
  <2> QED BY <2>1, <2>3, <2>4 DEF NoAliasing
<1>13. BuffersAllocated'
  <2>1. heap[p] = b
    BY <1>1, <1>10 DEF IInv, BuffersAllocated, Elements
  <2>2. \A c \in Bucket : \A i \in 1..Len(pooled'[c]) : heap[pooled'[c][i]] = c
    BY <1>8 DEF IInv, BuffersAllocated, Elements
  <2> QED BY <1>2, <2>1, <2>2 DEF IInv, BuffersAllocated, Elements
<1> QED BY <1>9, <1>12, <1>13 DEF IInv

\* A fresh buffer is nobody's: what is lent or pooled is allocated.
LEMMA StepAcquireFresh ==
  ASSUME IInv, NEW n \in Request, AcquireFresh(n)
  PROVE  IInv'
<1> DEFINE b == RoundUp(n)
<1>1. b \in Bucket /\ b # 0
  BY RoundUpRequest, BufferPoolAssumption
<1>2. PICK p \in Ptr : /\ heap[p] = 0
                       /\ heap' = [heap EXCEPT ![p] = b]
                       /\ lent' = lent \cup {[ptr |-> p, size |-> b]}
  BY DEF AcquireFresh
<1>3. pooled' = pooled /\ resident' = resident + b /\ misses' = misses + 1
      /\ UNCHANGED <<hits, evictions>>
  BY DEF AcquireFresh
<1> HIDE DEF b
<1>4. TypeOK'
  BY <1>1, <1>2, <1>3, BufferPoolAssumption DEF IInv, TypeOK, Buffer
<1>5. \A x \in lent : x.ptr # p /\ x.ptr \in Ptr
  BY <1>2, BufferPoolAssumption DEF IInv, TypeOK, BuffersAllocated, Buffer
<1>6. \A c \in Bucket : \A i \in 1..Len(pooled[c]) :
        /\ pooled[c][i] # p
        /\ pooled[c][i] \in Ptr
        /\ heap[pooled[c][i]] = c
  <2>1. \A c \in Bucket : pooled[c] \in Seq(Ptr)
    BY DEF IInv, TypeOK
  <2>2. \A c \in Bucket : \A i \in 1..Len(pooled[c]) : pooled[c][i] \in Ptr
    BY <2>1, ElementOfSeq
  <2>3. \A c \in Bucket : \A i \in 1..Len(pooled[c]) : heap[pooled[c][i]] = c /\ c # 0
    BY BufferPoolAssumption DEF IInv, BuffersAllocated, Elements
  <2> QED BY <1>2, <2>2, <2>3
<1>7. NoAliasing'
  <2>1. \A buf1, buf2 \in lent' : buf1.ptr = buf2.ptr => buf1 = buf2
    BY <1>2, <1>5 DEF IInv, NoAliasing
  <2>2. \A x \in lent' : \A c \in Bucket : \A i \in 1..Len(pooled[c]) : x.ptr # pooled[c][i]
    <3>1. \A x \in lent : \A c \in Bucket : \A i \in 1..Len(pooled[c]) : x.ptr # pooled[c][i]
      BY LentPlaces DEF IInv
    <3> QED BY <1>2, <1>6, <3>1
  <2>3. Lent' \cap Pooled' = {}
    BY <1>3, <2>2 DEF Lent, Pooled, Elements
  <2> QED BY <1>3, <2>1, <2>3 DEF IInv, NoAliasing
<1>8. BuffersAllocated'
  <2>1. \A x \in lent' : heap'[x.ptr] = x.size
    BY <1>1, <1>2, <1>5 DEF IInv, TypeOK, BuffersAllocated
  <2>2. \A c \in Bucket : \A i \in 1..Len(pooled[c]) : heap'[pooled[c][i]] = c
    BY <1>2, <1>6 DEF IInv, TypeOK
  <2> QED BY <1>3, <2>1, <2>2 DEF BuffersAllocated, Elements
<1> QED BY <1>4, <1>7, <1>8 DEF IInv

\* malloc failed: nothing but a counter moves.
LEMMA StepAcquireFails ==
  ASSUME IInv, NEW n \in Request, AcquireFails(n)
  PROVE  IInv'
<1>1. UNCHANGED <<pooled, lent, heap, resident, hits, evictions>> /\ misses' = misses + 1
  BY DEF AcquireFails
<1>2. TypeOK'
  BY <1>1 DEF IInv, TypeOK
<1>3. NoAliasing' /\ BuffersAllocated'
  BY <1>1, Unmoved DEF IInv
<1> QED BY <1>2, <1>3 DEF IInv

\* release(): evicted or pooled, by the length of the bucket's list.
LEMMA StepRelease ==
  ASSUME IInv, NEW buf \in lent, Release(buf)
  PROVE  IInv'
<1> DEFINE b == buf.size
           p == buf.ptr
           s == pooled[b]
<1>1. /\ b \in Bucket /\ p \in Ptr /\ RoundUp(b) = b
      /\ pooled \in [Bucket -> Seq(Ptr)] /\ s \in Seq(Ptr)
  BY RoundUpBucket DEF IInv, TypeOK, Buffer
<1>2. /\ \A x \in lent \ {buf} : x.ptr # p
      /\ \A x \in lent : \A c \in Bucket : \A i \in 1..Len(pooled[c]) : x.ptr # pooled[c][i]
  <2>1. \A x \in lent \ {buf} : x.ptr # p
    BY DEF IInv, NoAliasing
  <2> QED BY <2>1, LentPlaces DEF IInv
<1>3. lent' = lent \ {buf} /\ hits' = hits /\ misses' = misses
  BY DEF Release
<1>4. \A c \in Bucket : \A i \in 1..Len(pooled[c]) : heap[pooled[c][i]] = c
  BY DEF IInv, BuffersAllocated, Elements
<1>5. CASE Len(s) >= CapPerBucket
  <2>1. /\ heap' = [heap EXCEPT ![p] = 0] /\ pooled' = pooled
        /\ resident' = resident - b /\ evictions' = evictions + 1
    BY <1>1, <1>5 DEF Release
  <2> HIDE DEF b, p, s
  <2>2. TypeOK'
    BY <1>1, <1>3, <2>1, BufferPoolAssumption DEF IInv, TypeOK
  <2>3. NoAliasing'
    <3>1. Pooled' = Pooled
      BY <2>1 DEF Pooled, Elements
    <3>2. Lent' \subseteq Lent
      BY <1>3 DEF Lent
    <3> QED BY <1>3, <2>1, <3>1, <3>2 DEF IInv, NoAliasing
  <2>4. BuffersAllocated'
    <3>1. \A x \in lent' : heap'[x.ptr] = x.size
      BY <1>2, <1>3, <2>1 DEF IInv, TypeOK, BuffersAllocated, Buffer
    <3>2. \A c \in Bucket : \A i \in 1..Len(pooled[c]) : pooled[c][i] # p
      BY <1>2 DEF p
    <3>3. \A c \in Bucket : \A i \in 1..Len(pooled[c]) : pooled[c][i] \in Ptr
      BY <1>1, ElementOfSeq
    <3>4. \A c \in Bucket : \A i \in 1..Len(pooled[c]) : heap'[pooled[c][i]] = c
      BY <1>4, <2>1, <3>2, <3>3 DEF IInv, TypeOK
    <3> QED BY <2>1, <3>1, <3>4 DEF BuffersAllocated, Elements
  <2> QED BY <2>2, <2>3, <2>4 DEF IInv
<1>6. CASE ~(Len(s) >= CapPerBucket)
  <2>1. /\ pooled' = [pooled EXCEPT ![b] = Append(s, p)] /\ heap' = heap
        /\ resident' = resident /\ evictions' = evictions
    BY <1>1, <1>6 DEF Release
  <2>2. /\ pooled'[b] \in Seq(Ptr)
        /\ Len(pooled'[b]) = Len(s) + 1
        /\ \A i \in 1..Len(s) : pooled'[b][i] = s[i]
        /\ pooled'[b][Len(s) + 1] = p
        /\ Len(s) \in Nat
    BY <1>1, <2>1, Pushed
  <2>3. \A c \in Bucket \ {b} : pooled'[c] = pooled[c]
    BY <1>1, <2>1
  <2>4. pooled' \in [Bucket -> Seq(Ptr)]
    BY <1>1, <2>1, <2>2
  <2>5. \A c \in Bucket : \A i \in 1..Len(pooled'[c]) :
          \/ i \in 1..Len(pooled[c]) /\ pooled'[c][i] = pooled[c][i]
          \/ c = b /\ i = Len(s) + 1 /\ pooled'[c][i] = p
    BY <2>2, <2>3
  <2> HIDE DEF b, p, s
  <2>6. TypeOK'
    BY <1>3, <2>1, <2>4 DEF IInv, TypeOK
  <2>7. NoAliasing'
    <3>0. \A c, d \in Bucket : \A i \in 1..Len(pooled[c]), j \in 1..Len(pooled[d]) :
            pooled[c][i] = pooled[d][j] => c = d /\ i = j
      BY DEF IInv, NoAliasing
    <3>1. \A x \in lent' : \A c \in Bucket : \A i \in 1..Len(pooled'[c]) : x.ptr # pooled'[c][i]
      BY <1>2, <1>3, <2>5
    <3>2. Lent' \cap Pooled' = {}
      BY <3>1 DEF Lent, Pooled, Elements
    <3>3. \A c \in Bucket : \A i \in 1..Len(pooled[c]) : pooled[c][i] # p
      BY <1>2 DEF p
    <3>4. \A c, d \in Bucket : \A i \in 1..Len(pooled'[c]), j \in 1..Len(pooled'[d]) :
            pooled'[c][i] = pooled'[d][j] => c = d /\ i = j
      <4> SUFFICES ASSUME NEW c \in Bucket, NEW d \in Bucket,
                          NEW i \in 1..Len(pooled'[c]), NEW j \in 1..Len(pooled'[d]),
                          pooled'[c][i] = pooled'[d][j]
                   PROVE  c = d /\ i = j
        OBVIOUS
      <4>1. CASE i \in 1..Len(pooled[c]) /\ pooled'[c][i] = pooled[c][i]
        <5>1. j \in 1..Len(pooled[d]) /\ pooled'[d][j] = pooled[d][j]
          BY <4>1, <2>5, <3>3
        <5>2. pooled[c][i] = pooled[d][j]
          BY <4>1, <5>1
        <5>3. i \in 1..Len(pooled[c])
          BY <4>1
        <5>4. j \in 1..Len(pooled[d])
          BY <5>1
        <5> QED BY <5>2, <5>3, <5>4, <3>0
      <4>2. CASE c = b /\ i = Len(s) + 1 /\ pooled'[c][i] = p
        <5>1. d = b /\ j = Len(s) + 1
          BY <4>2, <2>5, <3>3
        <5> QED BY <4>2, <5>1
      <4> QED BY <2>5, <4>1, <4>2
    <3> QED BY <1>3, <3>2, <3>4 DEF IInv, NoAliasing
  <2>8. BuffersAllocated'
    <3>1. heap[p] = b
      BY DEF IInv, BuffersAllocated, p, b
    <3>2. \A c \in Bucket : \A i \in 1..Len(pooled'[c]) : heap'[pooled'[c][i]] = c
      BY <1>4, <2>1, <2>5, <3>1
    <3> QED BY <1>3, <2>1, <3>2 DEF IInv, BuffersAllocated, Elements
  <2> QED BY <2>6, <2>7, <2>8 DEF IInv
<1> QED BY <1>5, <1>6

\* drain(): what is freed is in no list and lent to nobody.
LEMMA StepDrain ==
  ASSUME IInv, Drain
  PROVE  IInv'
<1>1. /\ pooled' = [b \in Bucket |-> <<>>]
      /\ heap' = [p \in Ptr |-> IF p \in Pooled THEN 0 ELSE heap[p]]
      /\ UNCHANGED <<lent, hits, misses, evictions>>
  BY DEF Drain
<1>2. \A b \in Bucket : pooled'[b] = <<>> /\ Len(pooled'[b]) = 0
  BY <1>1
<1>3. TypeOK'
  BY <1>1, <1>2 DEF IInv, TypeOK
<1>4. NoAliasing'
  BY <1>1, <1>2 DEF IInv, NoAliasing, Lent, Pooled, Elements
<1>5. BuffersAllocated'
  <2>1. \A x \in lent : x.ptr \notin Pooled /\ x.ptr \in Ptr
    BY DEF IInv, TypeOK, NoAliasing, Lent, Buffer
  <2>2. \A x \in lent' : heap'[x.ptr] = x.size
    BY <1>1, <2>1 DEF IInv, BuffersAllocated
  <2> QED BY <1>2, <2>2 DEF BuffersAllocated, Elements
<1> QED BY <1>3, <1>4, <1>5 DEF IInv

LEMMA NextIInv == IInv /\ [Next]_vars => IInv'
<1> SUFFICES ASSUME IInv, [Next]_vars PROVE IInv'
  OBVIOUS
<1>1. CASE \E n \in Request : Acquire(n)
  BY <1>1, StepAcquirePooled, StepAcquireFresh, StepAcquireFails DEF Acquire
<1>2. CASE \E buf \in lent : Release(buf)
  BY <1>2, StepRelease
<1>3. CASE Drain
  BY <1>3, StepDrain
<1>4. CASE UNCHANGED vars
  <2>1. TypeOK'
    BY <1>4 DEF IInv, TypeOK, vars, stats
  <2> QED BY <1>4, <2>1, Unmoved DEF IInv, vars
<1> QED BY <1>1, <1>2, <1>3, <1>4 DEF Next

THEOREM Inductive == Spec => []IInv
BY InitIInv, NextIInv, PTL DEF Spec

-----------------------------------------------------------------------------
(* The bytes, counted.                                                     *)

\* The pooled buffers of some of the buckets.
PooledIn(C) == UNION {Elements(pooled[b]) : b \in C}
Bytes == [b \in Bucket |-> b * Len(pooled[b])]

\* What drain() subtracts is what the pooled buffers take of the heap.
LEMMA PooledBytesExact ==
  ASSUME IInv
  PROVE  SumFunctionOnSet(heap, Pooled) = PooledBytes /\ IsFiniteSet(Pooled)
<1>1. /\ IsFiniteSet(Bucket) /\ Bucket \subseteq Nat
      /\ pooled \in [Bucket -> Seq(Ptr)]
  BY BufferPoolAssumption DEF IInv, TypeOK
<1>2. \A b \in Bucket : Len(pooled[b]) \in Nat /\ pooled[b] \in Seq(Ptr)
  BY <1>1, LenProperties
<1>3. ASSUME NEW b \in Bucket
      PROVE  /\ IsFiniteSet(Elements(pooled[b]))
             /\ SumFunctionOnSet(heap, Elements(pooled[b])) = b * Len(pooled[b])
             /\ \A p \in Elements(pooled[b]) : heap[p] = b
  <2>1. \A i, j \in 1..Len(pooled[b]) : pooled[b][i] = pooled[b][j] => i = j
    BY DEF IInv, NoAliasing
  <2>2. /\ IsFiniteSet(Elements(pooled[b]))
        /\ Cardinality(Elements(pooled[b])) = Len(pooled[b])
    BY <1>2, <2>1, ListSize
  <2>3. \A p \in Elements(pooled[b]) : heap[p] = b
    BY DEF IInv, BuffersAllocated
  <2> QED BY <1>1, <2>2, <2>3, SumEqual
<1>4. \A b \in Bucket : Bytes[b] = b * Len(pooled[b]) /\ Bytes[b] \in Int
  BY <1>1, <1>2 DEF Bytes
<1> DEFINE Exact(C) == /\ IsFiniteSet(PooledIn(C))
                       /\ SumFunctionOnSet(heap, PooledIn(C)) = SumFunctionOnSet(Bytes, C)
           B == {C \in SUBSET Bucket : ~Exact(C)}
<1>5. ASSUME B # {} PROVE FALSE
  <2>1. B \in SUBSET SUBSET Bucket
    OBVIOUS
  <2> HIDE DEF B
  <2>2. PICK C \in B : \A D \in B : D \subseteq C => D = C
    <3>1. IsFiniteSet(Bucket) /\ B # {}
      BY <1>1, <1>5
    <3> QED BY <2>1, <3>1, SmallestBad
  <2>3. C \in SUBSET Bucket /\ ~Exact(C)
    BY DEF B
  <2>4. C # {}
    <3>1. PooledIn({}) = {}
      BY DEF PooledIn
    <3>2. Exact({})
      BY <3>1, SumEmpty, FS_EmptySet
    <3> QED BY <2>3, <3>2
  <2>5. PICK b : b \in C
    BY <2>4
  <2> DEFINE D == C \ {b}
             E == Elements(pooled[b])
  <2>6. Exact(D)
    BY <2>2, <2>3, <2>5 DEF B
  <2>7. PooledIn(C) = PooledIn(D) \cup E
    BY <2>5 DEF PooledIn
  <2>8. PooledIn(D) \cap E = {}
    <3> SUFFICES ASSUME NEW c \in D, NEW p \in Elements(pooled[c]), p \in E
                 PROVE  FALSE
      BY DEF PooledIn
    <3>1. heap[p] = b /\ heap[p] = c
      BY <1>3, <2>3, <2>5
    <3> QED BY <3>1
  <2>9. IsFiniteSet(E) /\ SumFunctionOnSet(heap, E) = Bytes[b]
    BY <1>3, <1>4, <2>3, <2>5
  <2>10. \A p \in PooledIn(D) \cup E : heap[p] \in Int
    <3>1. \A c \in Bucket : \A p \in Elements(pooled[c]) : heap[p] \in Int
      BY <1>1, <1>3
    <3> QED BY <2>3, <2>5, <3>1 DEF PooledIn
  <2> HIDE DEF E
  <2>11. SumFunctionOnSet(heap, PooledIn(D) \cup E)
           = SumFunctionOnSet(heap, PooledIn(D)) + SumFunctionOnSet(heap, E)
    BY <2>6, <2>8, <2>9, <2>10, SumUnion
  <2>12. SumFunctionOnSet(Bytes, C) = Bytes[b] + SumFunctionOnSet(Bytes, D)
    <3>1. IsFiniteSet(C) /\ \A c \in C : Bytes[c] \in Int
      BY <1>1, <1>4, <2>3, FS_Subset
    <3> QED BY <2>5, <3>1, SumRemove
  <2>13. SumFunctionOnSet(Bytes, D) \in Int /\ Bytes[b] \in Int
    <3>1. IsFiniteSet(D) /\ \A c \in D : Bytes[c] \in Int
      BY <1>1, <1>4, <2>3, FS_Subset
    <3> HIDE DEF D
    <3> QED BY <1>4, <2>3, <2>5, <3>1, SumInt
  <2> HIDE DEF D
  <2>14. IsFiniteSet(PooledIn(D) \cup E)
    BY <2>6, <2>9, FS_Union
  <2>15. Exact(C)
    BY <2>6, <2>7, <2>9, <2>11, <2>12, <2>13, <2>14
  <2> QED BY <2>3, <2>15
<1>6. Exact(Bucket)
  BY <1>5
<1>7. PooledIn(Bucket) = Pooled
  BY DEF PooledIn, Pooled
<1>8. PooledBytes = SumFunctionOnSet(Bytes, Bucket)
  BY DEF PooledBytes, SumFunction, Bytes
<1> QED BY <1>6, <1>7, <1>8

\* The heap, as a function to sum.
LEMMA HeapInt ==
  ASSUME IInv
  PROVE  /\ IsFiniteSet(Ptr) /\ Bucket \subseteq Nat \ {0}
         /\ heap \in [Ptr -> Int] /\ DOMAIN heap = Ptr
         /\ SumFunction(heap) = SumFunctionOnSet(heap, Ptr)
         /\ SumFunction(heap) \in Int
<1>1. IsFiniteSet(Ptr) /\ Bucket \subseteq Nat \ {0} /\ heap \in [Ptr -> Bucket \cup {0}]
  BY BufferPoolAssumption DEF IInv, TypeOK
<1>2. heap \in [Ptr -> Int] /\ DOMAIN heap = Ptr
  <2>1. Bucket \cup {0} \subseteq Int
    BY <1>1
  <2> HIDE DEF IInv
  <2> QED BY <1>1, <2>1
<1>3. SumFunction(heap) = SumFunctionOnSet(heap, Ptr)
  BY <1>2 DEF SumFunction
<1> QED BY <1>1, <1>2, <1>3, SumInt

LEMMA LentMore ==
  ASSUME NEW p, NEW b, lent' = lent \cup {[ptr |-> p, size |-> b]}
  PROVE  Lent' = Lent \cup {p}
<1> DEFINE buf == [ptr |-> p, size |-> b]
<1>1. buf.ptr = p
  OBVIOUS
<1>2. lent' = lent \cup {buf}
  OBVIOUS
<1> HIDE DEF buf
<1> QED BY <1>1, <1>2 DEF Lent

LEMMA ResidentAcquirePooled ==
  ASSUME IInv, ResidentExact, NEW n \in Request, AcquirePooled(n)
  PROVE  ResidentExact'
<1> DEFINE b == RoundUp(n)
           s == pooled[b]
           p == s[Len(s)]
<1>1. b \in Bucket
  BY RoundUpRequest
<1>2. /\ s # <<>>
      /\ pooled' = [pooled EXCEPT ![b] = SubSeq(s, 1, Len(s) - 1)]
      /\ lent' = lent \cup {[ptr |-> p, size |-> b]}
      /\ heap' = heap /\ resident' = resident
  BY DEF AcquirePooled
<1>3. pooled \in [Bucket -> Seq(Ptr)] /\ s \in Seq(Ptr)
  BY <1>1 DEF IInv, TypeOK
<1>4. /\ Len(pooled'[b]) = Len(s) - 1
      /\ \A i \in 1..Len(pooled'[b]) : pooled'[b][i] = s[i]
      /\ Len(s) \in 1..Len(s)
  BY <1>1, <1>2, <1>3, Popped
<1>5. \A c \in Bucket \ {b} : pooled'[c] = pooled[c]
  BY <1>2, <1>3
<1>6. Len(s) \in Nat
  BY <1>3, LenProperties
<1> HIDE DEF b
<1>7. Elements(pooled'[b]) \cup {p} = Elements(pooled[b])
  <2>1. \A i \in 1..Len(s) : i = Len(s) \/ i \in 1..Len(pooled'[b])
    BY <1>4, <1>6
  <2>2. \A i \in 1..Len(pooled'[b]) : i \in 1..Len(s)
    BY <1>4, <1>6
  <2> QED BY <1>4, <2>1, <2>2 DEF Elements
<1> HIDE DEF s, p
<1>8. Pooled' \cup {p} = Pooled
  BY <1>1, <1>5, <1>7 DEF Pooled
<1>9. Lent' = Lent \cup {p}
  BY <1>2, LentMore
<1>10. Lent' \cup Pooled' = Lent \cup Pooled
  BY <1>8, <1>9
<1> QED BY <1>2, <1>10 DEF ResidentExact

LEMMA ResidentAcquireFresh ==
  ASSUME IInv, ResidentExact, NEW n \in Request, AcquireFresh(n)
  PROVE  ResidentExact'
<1> DEFINE b == RoundUp(n)
<1>1. b \in Bucket
  BY RoundUpRequest
<1>2. PICK p \in Ptr : /\ heap[p] = 0
                       /\ heap' = [heap EXCEPT ![p] = b]
                       /\ lent' = lent \cup {[ptr |-> p, size |-> b]}
  BY DEF AcquireFresh
<1>3. pooled' = pooled /\ resident' = resident + b
  BY DEF AcquireFresh
<1> HIDE DEF b
<1>4. b \in Nat \ {0} /\ IsFiniteSet(Ptr) /\ heap \in [Ptr -> Int] /\ SumFunction(heap) \in Int
  BY <1>1, HeapInt
<1>5. SumFunction(heap') = SumFunction(heap) + b
  <2>1. b \in Int
    BY <1>4
  <2>2. SumFunction([heap EXCEPT ![p] = b]) = SumFunction(heap) - heap[p] + b
    BY <1>4, <2>1, SumUpdate
  <2> QED BY <1>2, <1>4, <2>1, <2>2
<1>6. Lent' = Lent \cup {p} /\ Pooled' = Pooled
  <2>1. Lent' = Lent \cup {p}
    BY <1>2, LentMore
  <2>2. Pooled' = Pooled
    BY <1>3 DEF Pooled
  <2> QED BY <2>1, <2>2
<1>7. {q \in Ptr : heap'[q] # 0} = {q \in Ptr : heap[q] # 0} \cup {p}
  BY <1>2, <1>4
<1> QED BY <1>3, <1>5, <1>6, <1>7 DEF ResidentExact

\* An evicted buffer leaves the heap and the sum; a pooled one stays in both.
LEMMA ResidentRelease ==
  ASSUME IInv, ResidentExact, NEW buf \in lent, Release(buf)
  PROVE  ResidentExact'
<1> DEFINE b == buf.size
           p == buf.ptr
           s == pooled[b]
<1>1. /\ b \in Bucket /\ p \in Ptr /\ RoundUp(b) = b /\ heap[p] = b
      /\ pooled \in [Bucket -> Seq(Ptr)] /\ s \in Seq(Ptr)
  BY RoundUpBucket DEF IInv, TypeOK, Buffer, BuffersAllocated
<1>2. lent' = lent \ {buf}
  BY DEF Release
<1>3. Lent' = Lent \ {p} /\ p \in Lent /\ p \notin Pooled
  BY <1>2 DEF Lent, IInv, NoAliasing
<1>4. b \in Nat \ {0} /\ IsFiniteSet(Ptr) /\ heap \in [Ptr -> Int] /\ SumFunction(heap) \in Int
  BY <1>1, HeapInt
<1>5. CASE Len(s) >= CapPerBucket
  <2>1. /\ heap' = [heap EXCEPT ![p] = 0] /\ pooled' = pooled
        /\ resident' = resident - b
    BY <1>1, <1>5 DEF Release
  <2> HIDE DEF b, p, s
  <2>2. SumFunction(heap') = SumFunction(heap) - b + 0
    <3>1. SumFunction([heap EXCEPT ![p] = 0]) = SumFunction(heap) - heap[p] + 0
      <4>1. 0 \in Int
        OBVIOUS
      <4>2. p \in Ptr /\ IsFiniteSet(Ptr) /\ heap \in [Ptr -> Int]
        BY <1>1, <1>4
      <4> HIDE DEF IInv
      <4> QED BY <4>1, <4>2, SumUpdate
    <3> QED BY <1>1, <2>1, <3>1
  <2>3. Pooled' = Pooled
    BY <2>1 DEF Pooled, Elements
  <2>4. {q \in Ptr : heap'[q] # 0} = {q \in Ptr : heap[q] # 0} \ {p}
    BY <1>1, <1>4, <2>1
  <2> QED BY <1>3, <1>4, <2>1, <2>2, <2>3, <2>4 DEF ResidentExact
<1>6. CASE ~(Len(s) >= CapPerBucket)
  <2>1. /\ pooled' = [pooled EXCEPT ![b] = Append(s, p)] /\ heap' = heap
        /\ resident' = resident
    BY <1>1, <1>6 DEF Release
  <2>2. /\ Len(pooled'[b]) = Len(s) + 1
        /\ \A i \in 1..Len(s) : pooled'[b][i] = s[i]
        /\ pooled'[b][Len(s) + 1] = p
        /\ Len(s) \in Nat
    BY <1>1, <2>1, Pushed
  <2>3. \A c \in Bucket \ {b} : pooled'[c] = pooled[c]
    BY <1>1, <2>1
  <2>4. Elements(pooled'[b]) = Elements(s) \cup {p}
    <3>1. \A i \in 1..Len(pooled'[b]) : i = Len(s) + 1 \/ i \in 1..Len(s)
      BY <2>2
    <3>2. \A i \in 1..Len(s) : i \in 1..Len(pooled'[b])
      BY <2>2
    <3>3. Len(s) + 1 \in 1..Len(pooled'[b])
      BY <2>2
    <3> QED BY <2>2, <3>1, <3>2, <3>3 DEF Elements
  <2>5. Elements(pooled'[b]) = Elements(pooled[b]) \cup {p}
    BY <2>4
  <2> HIDE DEF b, p, s
  <2>6. Pooled' = Pooled \cup {p}
    <3>1. b \in Bucket
      BY <1>1
    <3>2. \A c \in Bucket : Elements(pooled'[c])
                               = Elements(pooled[c]) \cup (IF c = b THEN {p} ELSE {})
      BY <2>3, <2>5
    <3> QED BY <3>1, <3>2 DEF Pooled
  <2>7. Lent' \cup Pooled' = Lent \cup Pooled
    BY <1>3, <2>6
  <2> QED BY <2>1, <2>7 DEF ResidentExact
<1> QED BY <1>5, <1>6

\* drain(): the heap without the pooled buffers.
LEMMA ResidentDrain ==
  ASSUME IInv, ResidentExact, Drain
  PROVE  ResidentExact'
<1> DEFINE h == [p \in Ptr |-> IF p \in Pooled THEN 0 ELSE heap[p]]
           R == Ptr \ Pooled
<1>1. /\ pooled' = [b \in Bucket |-> <<>>] /\ lent' = lent /\ heap' = h
      /\ resident' = resident - PooledBytes
  BY DEF Drain
<1>2. /\ IsFiniteSet(Ptr) /\ heap \in [Ptr -> Int]
      /\ SumFunction(heap) = SumFunctionOnSet(heap, Ptr)
  BY HeapInt
<1>3. Pooled \subseteq Ptr
  BY DEF ResidentExact
<1>4. IsFiniteSet(Pooled) /\ SumFunctionOnSet(heap, Pooled) = PooledBytes
  BY PooledBytesExact
<1>5. IsFiniteSet(R)
  BY <1>2, FS_Difference
<1>6. /\ \A p \in R : h[p] = heap[p]
      /\ \A p \in Pooled : h[p] = 0
      /\ \A p \in Ptr : h[p] \in Int /\ heap[p] \in Int
      /\ DOMAIN h = Ptr
  BY <1>2, <1>3
<1>7. R \cup Pooled = Ptr /\ R \cap Pooled = {}
  BY <1>3
<1> HIDE DEF h, R
<1>8. /\ SumFunctionOnSet(heap, Ptr)
           = SumFunctionOnSet(heap, R) + SumFunctionOnSet(heap, Pooled)
      /\ SumFunctionOnSet(h, Ptr)
           = SumFunctionOnSet(h, R) + SumFunctionOnSet(h, Pooled)
  <2>1. \A p \in R \cup Pooled : heap[p] \in Int /\ h[p] \in Int
    BY <1>6, <1>7
  <2>2. SumFunctionOnSet(heap, R \cup Pooled)
          = SumFunctionOnSet(heap, R) + SumFunctionOnSet(heap, Pooled)
    BY <1>4, <1>5, <1>7, <2>1, SumUnion
  <2>3. SumFunctionOnSet(h, R \cup Pooled)
          = SumFunctionOnSet(h, R) + SumFunctionOnSet(h, Pooled)
    BY <1>4, <1>5, <1>7, <2>1, SumUnion
  <2> QED BY <1>7, <2>2, <2>3
<1>9. SumFunctionOnSet(h, R) = SumFunctionOnSet(heap, R)
  BY <1>5, <1>6, SumSame
<1>10. SumFunctionOnSet(h, Pooled) = 0
  <2>1. 0 * Cardinality(Pooled) = 0
    BY <1>4, FS_CardinalityType
  <2>2. SumFunctionOnSet(h, Pooled) = 0 * Cardinality(Pooled)
    <3>1. 0 \in Nat /\ \A p \in Pooled : h[p] = 0
      BY <1>6
    <3> QED BY <1>4, <3>1, SumEqual
  <2> QED BY <2>1, <2>2
<1>11. SumFunctionOnSet(heap, R) \in Int /\ SumFunctionOnSet(heap, Pooled) \in Int
  BY <1>4, <1>5, <1>6, <1>7, SumInt
<1>12. SumFunction(h) = SumFunctionOnSet(h, Ptr)
  BY <1>6 DEF SumFunction
<1>13. resident' = SumFunction(heap')
  BY <1>1, <1>2, <1>4, <1>8, <1>9, <1>10, <1>11, <1>12 DEF ResidentExact
<1>14. Lent' = Lent /\ Pooled' = {}
  <2>1. \A b \in Bucket : pooled'[b] = <<>> /\ Elements(<<>>) = {}
    BY <1>1 DEF Elements
  <2> QED BY <1>1, <2>1 DEF Lent, Pooled
<1>15. {p \in Ptr : h[p] # 0} = {p \in Ptr : heap[p] # 0} \ Pooled
  <2>1. \A p \in Ptr : h[p] # 0 <=> heap[p] # 0 /\ p \notin Pooled
    BY <1>6, <1>7
  <2> HIDE DEF Pooled
  <2> QED BY <2>1
<1>16. Lent \cap Pooled = {}
  BY DEF IInv, NoAliasing
<1> QED BY <1>1, <1>13, <1>14, <1>15, <1>16 DEF ResidentExact

LEMMA InitResident == Init => ResidentExact
<1> SUFFICES ASSUME Init PROVE ResidentExact
  OBVIOUS
<1>1. heap = [p \in Ptr |-> 0] /\ DOMAIN heap = Ptr /\ resident = 0 /\ IsFiniteSet(Ptr)
  BY BufferPoolAssumption DEF Init
<1>2. SumFunctionOnSet(heap, Ptr) = 0 * Cardinality(Ptr)
  BY <1>1, SumEqual
<1>3. 0 * Cardinality(Ptr) = 0
  BY <1>1, FS_CardinalityType
<1>4. SumFunction(heap) = 0
  BY <1>1, <1>2, <1>3 DEF SumFunction
<1>5. Lent = {} /\ Pooled = {}
  <2>1. \A b \in Bucket : pooled[b] = <<>> /\ Elements(<<>>) = {}
    BY DEF Init, Elements
  <2> QED BY <2>1 DEF Init, Lent, Pooled
<1> QED BY <1>1, <1>4, <1>5 DEF ResidentExact

LEMMA NextResident == IInv /\ ResidentExact /\ [Next]_vars => ResidentExact'
<1> SUFFICES ASSUME IInv, ResidentExact, [Next]_vars PROVE ResidentExact'
  OBVIOUS
<1>1. ASSUME UNCHANGED <<pooled, lent, heap, resident>> PROVE ResidentExact'
  BY <1>1 DEF ResidentExact, Lent, Pooled, Elements
<1>2. CASE \E n \in Request : Acquire(n)
  BY <1>1, <1>2, ResidentAcquirePooled, ResidentAcquireFresh DEF Acquire, AcquireFails
<1>3. CASE \E buf \in lent : Release(buf)
  BY <1>3, ResidentRelease
<1>4. CASE Drain
  BY <1>4, ResidentDrain
<1>5. CASE UNCHANGED vars
  BY <1>1, <1>5 DEF vars, stats
<1> QED BY <1>2, <1>3, <1>4, <1>5 DEF Next

-----------------------------------------------------------------------------
(***************************************************************************)
(* The lists, the buffers lent and the heap are well typed.                *)
(***************************************************************************)
THEOREM TypeCorrect == Spec => []TypeOK
<1>1. IInv => TypeOK
  BY DEF IInv
<1> QED BY <1>1, Inductive, PTL

(***************************************************************************)
(* No buffer has two users: whatever is acquired, released and drained, a  *)
(* buffer is lent once or pooled at one place (memory/pool.ts).            *)
(***************************************************************************)
THEOREM NeverAliased == Spec => []NoAliasing
<1>1. IInv => NoAliasing
  BY DEF IInv
<1> QED BY <1>1, Inductive, PTL

(***************************************************************************)
(* What is lent or pooled is allocated with the size of its bucket.        *)
(***************************************************************************)
THEOREM AlwaysAllocated == Spec => []BuffersAllocated
<1>1. IInv => BuffersAllocated
  BY DEF IInv
<1> QED BY <1>1, Inductive, PTL

(***************************************************************************)
(* No bucket pools more than capPerBucket buffers (release).               *)
(***************************************************************************)
THEOREM CapRespected == Spec => []WithinCap
<1>1. Init => WithinCap
  BY BufferPoolAssumption DEF Init, WithinCap
<1>2. IInv /\ WithinCap /\ [Next]_vars => WithinCap'
  <2> SUFFICES ASSUME IInv, WithinCap, [Next]_vars
               PROVE  WithinCap'
    OBVIOUS
  <2>1. pooled \in [Bucket -> Seq(Ptr)] /\ CapPerBucket \in Nat
    BY BufferPoolAssumption DEF IInv, TypeOK
  <2>2. ASSUME NEW n \in Request, AcquirePooled(n) PROVE WithinCap'
    <3>1. RoundUp(n) \in Bucket
      BY RoundUpRequest
    <3>2. /\ pooled' = [pooled EXCEPT ![RoundUp(n)] =
                           SubSeq(pooled[RoundUp(n)], 1, Len(pooled[RoundUp(n)]) - 1)]
          /\ pooled[RoundUp(n)] # <<>>
      BY <2>2 DEF AcquirePooled
    <3>3. Len(SubSeq(pooled[RoundUp(n)], 1, Len(pooled[RoundUp(n)]) - 1))
            = Len(pooled[RoundUp(n)]) - 1
      BY <2>1, <3>1, <3>2, Popped
    <3>4. Len(pooled[RoundUp(n)]) \in Nat
      BY <2>1, <3>1, LenProperties
    <3>5. \A c \in Bucket : Len(pooled[c]) <= CapPerBucket
      BY DEF WithinCap
    <3>6. pooled'[RoundUp(n)] = SubSeq(pooled[RoundUp(n)], 1, Len(pooled[RoundUp(n)]) - 1)
      BY <2>1, <3>1, <3>2
    <3>7. Len(pooled'[RoundUp(n)]) <= CapPerBucket
      BY <2>1, <3>1, <3>3, <3>4, <3>5, <3>6
    <3>8. \A c \in Bucket \ {RoundUp(n)} : pooled'[c] = pooled[c]
      BY <2>1, <3>2
    <3> QED BY <3>5, <3>7, <3>8 DEF WithinCap
  <2>3. ASSUME NEW n \in Request, AcquireFresh(n) \/ AcquireFails(n) PROVE WithinCap'
    BY <2>3 DEF AcquireFresh, AcquireFails, WithinCap
  <2>4. ASSUME NEW buf \in lent, Release(buf) PROVE WithinCap'
    <3>1. buf.size \in Bucket /\ buf.ptr \in Ptr /\ RoundUp(buf.size) = buf.size
      BY RoundUpBucket DEF IInv, TypeOK, Buffer
    <3>2. CASE Len(pooled[buf.size]) >= CapPerBucket
      BY <2>4, <3>1, <3>2 DEF Release, WithinCap
    <3>3. CASE ~(Len(pooled[buf.size]) >= CapPerBucket)
      <4>1. pooled' = [pooled EXCEPT ![buf.size] = Append(pooled[buf.size], buf.ptr)]
        BY <2>4, <3>1, <3>3 DEF Release
      <4>2. /\ Len(Append(pooled[buf.size], buf.ptr)) = Len(pooled[buf.size]) + 1
            /\ Len(pooled[buf.size]) \in Nat
        BY <2>1, <3>1, Pushed
      <4>3. pooled'[buf.size] = Append(pooled[buf.size], buf.ptr)
        BY <2>1, <3>1, <4>1
      <4>4. Len(pooled'[buf.size]) <= CapPerBucket
        BY <2>1, <3>3, <4>2, <4>3
      <4>5. \A c \in Bucket \ {buf.size} : pooled'[c] = pooled[c]
        BY <2>1, <4>1
      <4> QED BY <4>4, <4>5 DEF WithinCap
    <3> QED BY <3>2, <3>3
  <2>5. CASE Drain
    BY <2>1, <2>5 DEF Drain, WithinCap
  <2>6. CASE UNCHANGED vars
    BY <2>6 DEF WithinCap, vars
  <2> QED BY <2>2, <2>3, <2>4, <2>5, <2>6 DEF Next, Acquire
<1> QED BY <1>1, <1>2, Inductive, PTL DEF Spec

(***************************************************************************)
(* stats().resident is the size of what the heap holds for the pool, and   *)
(* what the heap holds is lent or pooled: no history of reuse, eviction,   *)
(* failed allocation and drain makes the pool forget a buffer or miscount  *)
(* its bytes, for any finite heap and buckets (memory/pool.ts).            *)
(***************************************************************************)
THEOREM AlwaysResidentExact == Spec => []ResidentExact
<1>1. Init => IInv /\ ResidentExact
  BY InitIInv, InitResident
<1>2. (IInv /\ ResidentExact) /\ [Next]_vars => (IInv /\ ResidentExact)'
  BY NextIInv, NextResident
<1>3. IInv /\ ResidentExact => ResidentExact
  OBVIOUS
<1> QED BY <1>1, <1>2, <1>3, PTL DEF Spec
=============================================================================
