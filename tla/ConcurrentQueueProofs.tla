----------------------- MODULE ConcurrentQueueProofs ------------------------
(***************************************************************************)
(* Proofs about the two halves of a ConcurrentQueue: the queue of one      *)
(* producer (ProducerQueue) and the list of all producers (ProducerList),  *)
(* for any number of consumers, owners, producers, blocks and elements.    *)
(* They share the theory of sums that comes first.                         *)
(*                                                                         *)
(* The queue.  Consumers reserve with counters that each of them reads at  *)
(* another time: dequeueOptimisticCount is what calls have asked for,      *)
(* dequeueOvercommit what they have given back, headIndex what they have   *)
(* claimed.  ResInv says that the three agree up to what the calls in      *)
(* progress hold, and that what has been claimed and will be claimed by    *)
(* the calls counted so far stays below the tail, wherever the tail will   *)
(* be by the time they load it.                                            *)
(*                                                                         *)
(* The list.  Inv says who owns what.  ListInv adds a numbering r of the   *)
(* producers on the list in the order in which they were put there, where  *)
(* each call stands in that order, and, for a call with no other beside    *)
(* it, that what it has got and the sizes of the producers it has yet to   *)
(* try add up to what was there when it began.                             *)
(***************************************************************************)
EXTENDS ProducerQueue, ProducerList, FiniteSetTheorems, WellFoundedInduction, TLAPS

-----------------------------------------------------------------------------
(* Sums over finite sets, from the recursion that MapThenSumSet is. *)


Sum(f, S) == MapThenSumSet(LAMBDA x : f[x], S)
Pick(s) == CHOOSE x \in s : TRUE
Folding(f, s, g) == IF s = {} THEN 0 ELSE f[Pick(s)] + g[s \ {Pick(s)}]

Folded(g, f, S) == g = [s \in SUBSET S |-> Folding(f, s, g)]

\* Induction over the numbers, for a set of them.
LEMMA Inductive ==
  ASSUME NEW P, 0 \in P, \A n \in Nat : n \in P => n + 1 \in P
  PROVE  Nat \subseteq P
<1> SUFFICES ASSUME NEW n \in Nat, n \notin P PROVE FALSE
  OBVIOUS
<1> DEFINE Q == Nat \ P
<1>1. Q \subseteq Nat /\ Q # {}
  OBVIOUS
<1>2. \E x \in Q : \A y \in Q : ~ (<<y, x>> \in OpToRel(<, Nat))
  BY <1>1, NatLessThanWellFounded, WFMin
<1>3. PICK x \in Q : \A y \in Q : ~ (y < x)
  BY <1>2 DEF OpToRel
<1>4. x # 0 /\ x - 1 \in Nat /\ (x - 1) + 1 = x /\ x - 1 < x
  OBVIOUS
<1>5. x - 1 \in P
  BY <1>3, <1>4
<1> QED
  BY <1>4, <1>5

\* Induction over the subsets of a finite set, for a set of them.
LEMMA SubsetInductive ==
  ASSUME NEW S, IsFiniteSet(S), NEW W,
         {} \in W, \A s \in SUBSET S : (\A x \in s : s \ {x} \in W) => s \in W
  PROVE  SUBSET S \subseteq W
<1> DEFINE P == {n \in Nat : \A s \in SUBSET S : Cardinality(s) = n => s \in W}
<1>1. ASSUME NEW s \in SUBSET S
      PROVE  /\ IsFiniteSet(s) /\ Cardinality(s) \in Nat /\ (Cardinality(s) = 0 <=> s = {})
             /\ \A x \in s : Cardinality(s \ {x}) = Cardinality(s) - 1
  <2>1. IsFiniteSet(s)
    BY FS_Subset
  <2> QED
    BY <2>1, FS_CardinalityType, FS_EmptySet, FS_RemoveElement
<1>2. 0 \in P
  BY <1>1
<1>3. ASSUME NEW n \in Nat, n \in P PROVE n + 1 \in P
  <2>1. ASSUME NEW s \in SUBSET S, Cardinality(s) = n + 1 PROVE s \in W
    <3>1. ASSUME NEW x \in s PROVE s \ {x} \in W
      <4>1. Cardinality(s \ {x}) = n /\ s \ {x} \in SUBSET S
        BY <1>1, <2>1
      <4> QED
        BY <4>1, <1>3
    <3> QED
      BY <3>1
  <2> QED
    BY <2>1
<1>4. Nat \subseteq P
  <2> HIDE DEF P
  <2> QED
    BY <1>2, <1>3, Inductive
<1> QED
  BY <1>1, <1>4

\* The recursive function that the fold is defined by exists.
LEMMA FoldExists ==
  ASSUME NEW S, IsFiniteSet(S), NEW f
  PROVE  \E g : Folded(g, f, S)
<1> DEFINE D(n) == {s \in SUBSET S : Cardinality(s) <= n}
           P == {n \in Nat : \E g : g = [s \in D(n) |-> Folding(f, s, g)]}
<1>1. ASSUME NEW s \in SUBSET S
      PROVE  /\ IsFiniteSet(s) /\ Cardinality(s) \in Nat /\ (Cardinality(s) = 0 <=> s = {})
             /\ s # {} => Pick(s) \in s /\ Cardinality(s \ {Pick(s)}) = Cardinality(s) - 1
             /\ s \ {Pick(s)} \in SUBSET S
  <2>1. IsFiniteSet(s)
    BY FS_Subset
  <2>2. s # {} => Pick(s) \in s
    BY DEF Pick
  <2> QED
    BY <2>1, <2>2, FS_CardinalityType, FS_EmptySet, FS_RemoveElement
<1>2. 0 \in P
  <2> DEFINE g == [s \in D(0) |-> 0]
  <2>1. ASSUME NEW s \in D(0) PROVE s = {}
    <3>1. s \in SUBSET S /\ Cardinality(s) <= 0
      OBVIOUS
    <3>2. Cardinality(s) \in Nat /\ (Cardinality(s) = 0 => s = {})
      BY <1>1, <3>1, Zenon
    <3>3. Cardinality(s) = 0
      BY <3>1, <3>2
    <3> QED
      BY <3>2, <3>3
  <2>2. g = [s \in D(0) |-> Folding(f, s, g)]
    BY <2>1 DEF Folding
  <2> HIDE DEF g
  <2> QED
    BY <2>2
<1>3. ASSUME NEW n \in Nat, n \in P PROVE n + 1 \in P
  <2>1. PICK g : g = [s \in D(n) |-> Folding(f, s, g)]
    BY <1>3
  <2> DEFINE h == [s \in D(n + 1) |-> Folding(f, s, g)]
  <2>2. ASSUME NEW s \in D(n + 1) PROVE h[s] = Folding(f, s, h)
    <3>1. CASE s = {}
      BY <3>1 DEF Folding
    <3>2. CASE s # {}
      <4>1. s \ {Pick(s)} \in D(n)
        BY <1>1, <3>2
      <4>2. s \ {Pick(s)} \in D(n + 1)
        BY <1>1, <4>1
      <4>3. g[s \ {Pick(s)}] = Folding(f, s \ {Pick(s)}, g)
        BY <2>1, <4>1
      <4>4. h[s \ {Pick(s)}] = g[s \ {Pick(s)}]
        BY <4>2, <4>3
      <4> QED
        BY <3>2, <4>4 DEF Folding
    <3> QED
      BY <3>1, <3>2
  <2>3. h = [s \in D(n + 1) |-> Folding(f, s, h)]
    BY <2>2
  <2> HIDE DEF h
  <2> QED
    BY <2>3
<1>4. Nat \subseteq P
  <2> HIDE DEF P
  <2> QED
    BY <1>2, <1>3, Inductive
<1>5. Cardinality(S) \in Nat /\ \A s \in SUBSET S : Cardinality(s) <= Cardinality(S)
  BY FS_CardinalityType, FS_Subset
<1>6. D(Cardinality(S)) = SUBSET S
  BY <1>5
<1>7. Cardinality(S) \in P
  BY <1>4, <1>5
<1> QED
  BY <1>6, <1>7 DEF Folded

\* What g adds up, over the subsets of S.
Adds(g, f, S) ==
  /\ g \in [SUBSET S -> Int] /\ g[{}] = 0
  /\ \A s \in SUBSET S : \A x \in s : g[s] = f[x] + g[s \ {x}]

LEMMA SumAdds ==
  ASSUME NEW S, IsFiniteSet(S), NEW f, \A x \in S : f[x] \in Int
  PROVE  \E g : Adds(g, f, S) /\ Sum(f, S) = g[S]
<1> DEFINE g == CHOOSE g : Folded(g, f, S)
<1>0. \E h : Folded(h, f, S)
  BY FoldExists
<1>1. Folded(g, f, S)
  BY <1>0, Zenon
<1>2. Sum(f, S) = g[S]
  BY DEF Sum, MapThenSumSet, MapThenFoldSet, Folded, Folding, Pick
<1> HIDE DEF g
<1>3. DOMAIN g = SUBSET S /\ \A s \in SUBSET S : g[s] = Folding(f, s, g)
  BY <1>1 DEF Folded
<1>4. ASSUME NEW s \in SUBSET S, s # {} PROVE Pick(s) \in s /\ g[s] = f[Pick(s)] + g[s \ {Pick(s)}]
  BY <1>3, <1>4 DEF Folding, Pick
<1>5. g[{}] = 0
  BY <1>3 DEF Folding
<1>6. \A s \in SUBSET S : g[s] \in Int
  <2> DEFINE W == {s \in SUBSET S : g[s] \in Int}
  <2>1. {} \in W
    BY <1>5
  <2>2. ASSUME NEW s \in SUBSET S, \A x \in s : s \ {x} \in W PROVE s \in W
    <3>1. CASE s = {}
      BY <2>1, <3>1
    <3>2. CASE s # {}
      <4>1. PICK y \in s : g[s] = f[y] + g[s \ {y}]
        BY <1>4, <3>2
      <4>2. s \ {y} \in W /\ f[y] \in Int
        BY <2>2
      <4> QED
        BY <4>1, <4>2
    <3> QED
      BY <3>1, <3>2
  <2>3. SUBSET S \subseteq W
    <3> HIDE DEF W
    <3> QED
      BY <2>1, <2>2, SubsetInductive
  <2> QED
    BY <2>3
<1>7. \A s \in SUBSET S : \A x \in s : g[s] = f[x] + g[s \ {x}]
  <2> DEFINE W == {s \in SUBSET S : \A x \in s : g[s] = f[x] + g[s \ {x}]}
  <2>1. {} \in W
    OBVIOUS
  <2>2. ASSUME NEW s \in SUBSET S, \A x \in s : s \ {x} \in W PROVE s \in W
    <3> SUFFICES ASSUME NEW x \in s PROVE g[s] = f[x] + g[s \ {x}]
      OBVIOUS
    <3>1. PICK y \in s : g[s] = f[y] + g[s \ {y}]
      BY <1>4
    <3>2. CASE x = y
      BY <3>1, <3>2
    <3>3. CASE x # y
      <4>1. g[s \ {y}] = f[x] + g[(s \ {y}) \ {x}]
        BY <2>2, <3>3
      <4>2. g[s \ {x}] = f[y] + g[(s \ {x}) \ {y}]
        BY <2>2, <3>3
      <4>3. (s \ {x}) \ {y} = (s \ {y}) \ {x}
        OBVIOUS
      <4>4. f[x] \in Int /\ f[y] \in Int /\ g[(s \ {y}) \ {x}] \in Int
        BY <1>6
      <4> DEFINE r == g[(s \ {y}) \ {x}]
      <4>5. g[s] = f[y] + (f[x] + r) /\ g[s \ {x}] = f[y] + r
        BY <3>1, <4>1, <4>2, <4>3
      <4>6. r \in Int
        BY <4>4
      <4> HIDE DEF r
      <4> QED
        BY <4>4, <4>5, <4>6
    <3> QED
      BY <3>2, <3>3
  <2>3. SUBSET S \subseteq W
    <3> HIDE DEF W
    <3> QED
      BY <2>1, <2>2, SubsetInductive
  <2> QED
    BY <2>3
<1>8. g \in [SUBSET S -> Int]
  BY <1>1, <1>6 DEF Folded
<1>9. Adds(g, f, S)
  BY <1>5, <1>7, <1>8 DEF Adds
<1> QED
  BY <1>2, <1>9

LEMMA SumInt ==
  ASSUME NEW S, IsFiniteSet(S), NEW f, \A x \in S : f[x] \in Int
  PROVE  Sum(f, S) \in Int
<1>1. PICK g : Adds(g, f, S) /\ Sum(f, S) = g[S]
  BY SumAdds
<1> QED
  BY <1>1 DEF Adds

\* A sum is monotone, and so depends on the values over S alone.
LEMMA AddsMonotone ==
  ASSUME NEW S, IsFiniteSet(S), NEW f, NEW h, \A x \in S : f[x] \in Int /\ h[x] \in Int,
         NEW g, Adds(g, f, S), NEW k, Adds(k, h, S), NEW T \in SUBSET S,
         \A x \in T : f[x] <= h[x]
  PROVE  g[T] <= k[T]
<1> DEFINE W == {s \in SUBSET T : g[s] <= k[s]}
<1>1. {} \in W
  BY DEF Adds
<1>2. ASSUME NEW s \in SUBSET T, \A x \in s : s \ {x} \in W PROVE s \in W
  <2>1. CASE s = {}
    BY <1>1, <2>1
  <2>2. CASE s # {}
    <3>1. PICK x : x \in s
      BY <2>2
    <3>2. g[s] = f[x] + g[s \ {x}] /\ k[s] = h[x] + k[s \ {x}]
      BY <3>1 DEF Adds
    <3>3. g[s \ {x}] <= k[s \ {x}] /\ f[x] <= h[x]
      BY <1>2, <3>1
    <3>4. g[s \ {x}] \in Int /\ k[s \ {x}] \in Int /\ f[x] \in Int /\ h[x] \in Int
      BY <3>1 DEF Adds
    <3> QED
      BY <3>2, <3>3, <3>4
  <2> QED
    BY <2>1, <2>2
<1>3. IsFiniteSet(T)
  BY FS_Subset
<1>4. SUBSET T \subseteq W
  <2> HIDE DEF W
  <2> QED
    BY <1>1, <1>2, <1>3, SubsetInductive
<1> QED
  BY <1>4

LEMMA SumMonotone ==
  ASSUME NEW S, IsFiniteSet(S), NEW f, NEW h, \A x \in S : f[x] \in Int /\ h[x] \in Int,
         \A x \in S : f[x] <= h[x]
  PROVE  Sum(f, S) <= Sum(h, S)
<1>1. PICK g : Adds(g, f, S) /\ Sum(f, S) = g[S]
  BY SumAdds
<1>2. PICK k : Adds(k, h, S) /\ Sum(h, S) = k[S]
  BY SumAdds
<1>3. g[S] <= k[S]
  BY <1>1, <1>2, AddsMonotone
<1> QED
  BY <1>1, <1>2, <1>3

\* One value is replaced.
LEMMA SumUpdate ==
  ASSUME NEW S, IsFiniteSet(S), NEW f, NEW h, \A x \in S : f[x] \in Int /\ h[x] \in Int,
         NEW c \in S, \A x \in S \ {c} : h[x] = f[x]
  PROVE  Sum(h, S) = Sum(f, S) - f[c] + h[c]
<1>1. PICK g : Adds(g, f, S) /\ Sum(f, S) = g[S]
  BY SumAdds
<1>2. PICK k : Adds(k, h, S) /\ Sum(h, S) = k[S]
  BY SumAdds
<1> DEFINE T == S \ {c}
<1>3. T \in SUBSET S /\ \A x \in T : f[x] <= h[x] /\ h[x] <= f[x]
  OBVIOUS
<1> HIDE DEF T
<1>4. g[T] <= k[T]
  BY <1>1, <1>2, <1>3, AddsMonotone
<1>5. k[T] <= g[T]
  BY <1>1, <1>2, <1>3, AddsMonotone
<1>6. g[T] \in Int /\ k[T] \in Int /\ f[c] \in Int /\ h[c] \in Int
  BY <1>1, <1>2, <1>3 DEF Adds
<1>7. g[S] = f[c] + g[T] /\ k[S] = h[c] + k[T]
  BY <1>1, <1>2 DEF Adds, T
<1> QED
  BY <1>1, <1>2, <1>4, <1>5, <1>6, <1>7

\* At most b each.
LEMMA SumBounded ==
  ASSUME NEW S, IsFiniteSet(S), NEW b \in Nat, NEW f, \A x \in S : f[x] \in 0 .. b
  PROVE  Sum(f, S) \in 0 .. Cardinality(S) * b
<1>1. PICK g : Adds(g, f, S) /\ Sum(f, S) = g[S]
  BY SumAdds
<1> DEFINE W == {s \in SUBSET S : 0 <= g[s] /\ g[s] <= Cardinality(s) * b}
<1>0. ASSUME NEW s \in SUBSET S
      PROVE  /\ IsFiniteSet(s) /\ Cardinality(s) \in Nat
             /\ \A x \in s : Cardinality(s \ {x}) = Cardinality(s) - 1
  <2>1. IsFiniteSet(s)
    BY FS_Subset
  <2> QED
    BY <2>1, FS_CardinalityType, FS_RemoveElement
<1>2. {} \in W
  <2>1. Cardinality({}) = 0 /\ g[{}] = 0
    BY <1>1, FS_EmptySet DEF Adds
  <2> QED
    BY <2>1
<1>3. ASSUME NEW s \in SUBSET S, \A x \in s : s \ {x} \in W PROVE s \in W
  <2>1. CASE s = {}
    BY <1>2, <2>1
  <2>2. CASE s # {}
    <3>1. PICK x : x \in s
      BY <2>2
    <3>2. g[s] = f[x] + g[s \ {x}] /\ g[s \ {x}] \in Int /\ f[x] \in 0 .. b
      BY <1>1, <3>1 DEF Adds
    <3> DEFINE n == Cardinality(s)
               m == g[s \ {x}]
    <3>3. n \in Nat /\ 0 <= m /\ m <= (n - 1) * b
      BY <1>0, <1>3, <3>1
    <3>4. (n - 1) * b + b = n * b
      BY <3>3
    <3> QED
      BY <3>2, <3>3, <3>4
  <2> QED
    BY <2>1, <2>2
<1>4. SUBSET S \subseteq W
  <2> HIDE DEF W
  <2> QED
    BY <1>2, <1>3, SubsetInductive
<1>5. g[S] \in Int
  BY <1>1 DEF Adds
<1>6. 0 <= g[S] /\ g[S] <= Cardinality(S) * b /\ Cardinality(S) \in Nat
  BY <1>4, <1>0
<1> QED
  BY <1>1, <1>5, <1>6
\* A sum of sums.
LEMMA SumPlus ==
  ASSUME NEW S, IsFiniteSet(S), NEW f, NEW h, \A x \in S : f[x] \in Int /\ h[x] \in Int,
         NEW e, \A x \in S : e[x] = f[x] + h[x]
  PROVE  Sum(e, S) = Sum(f, S) + Sum(h, S)
<1>1. PICK g : Adds(g, f, S) /\ Sum(f, S) = g[S]
  BY SumAdds
<1>2. PICK k : Adds(k, h, S) /\ Sum(h, S) = k[S]
  BY SumAdds
<1>3. PICK m : Adds(m, e, S) /\ Sum(e, S) = m[S]
  <2>1. \A x \in S : e[x] \in Int
    OBVIOUS
  <2> QED
    BY <2>1, SumAdds
<1> DEFINE W == {s \in SUBSET S : m[s] = g[s] + k[s]}
<1>4. {} \in W
  BY <1>1, <1>2, <1>3 DEF Adds
<1>5. ASSUME NEW s \in SUBSET S, \A x \in s : s \ {x} \in W PROVE s \in W
  <2>1. CASE s = {}
    BY <1>4, <2>1
  <2>2. CASE s # {}
    <3>1. PICK x : x \in s
      BY <2>2
    <3>2. g[s] = f[x] + g[s \ {x}] /\ k[s] = h[x] + k[s \ {x}] /\ m[s] = e[x] + m[s \ {x}]
      BY <1>1, <1>2, <1>3, <3>1 DEF Adds
    <3>3. m[s \ {x}] = g[s \ {x}] + k[s \ {x}] /\ e[x] = f[x] + h[x]
      BY <1>5, <3>1
    <3>4. g[s \ {x}] \in Int /\ k[s \ {x}] \in Int /\ f[x] \in Int /\ h[x] \in Int
      BY <1>1, <1>2, <3>1 DEF Adds
    <3> QED
      BY <3>2, <3>3, <3>4
  <2> QED
    BY <2>1, <2>2
<1>6. SUBSET S \subseteq W
  <2> HIDE DEF W
  <2> QED
    BY <1>4, <1>5, SubsetInductive
<1> QED
  BY <1>1, <1>2, <1>3, <1>6

\* The sum over a part of S is what the recursion gives for it.
LEMMA AddsPart ==
  ASSUME NEW S, IsFiniteSet(S), NEW f, \A x \in S : f[x] \in Int,
         NEW g, Adds(g, f, S), NEW T \in SUBSET S
  PROVE  Sum(f, T) = g[T]
<1>1. IsFiniteSet(T) /\ \A x \in T : f[x] \in Int
  BY FS_Subset
<1>2. PICK k : Adds(k, f, T) /\ Sum(f, T) = k[T]
  BY <1>1, SumAdds
<1> DEFINE W == {s \in SUBSET T : g[s] = k[s]}
<1>3. {} \in W
  BY <1>2 DEF Adds
<1>4. ASSUME NEW s \in SUBSET T, \A x \in s : s \ {x} \in W PROVE s \in W
  <2>1. CASE s = {}
    BY <1>3, <2>1
  <2>2. CASE s # {}
    <3>1. PICK x : x \in s
      BY <2>2
    <3>2. g[s] = f[x] + g[s \ {x}] /\ k[s] = f[x] + k[s \ {x}]
      BY <1>2, <3>1 DEF Adds
    <3> QED
      BY <1>4, <3>1, <3>2
  <2> QED
    BY <2>1, <2>2
<1>5. SUBSET T \subseteq W
  <2> HIDE DEF W
  <2> QED
    BY <1>1, <1>3, <1>4, SubsetInductive
<1> QED
  BY <1>2, <1>5

LEMMA SumRemove ==
  ASSUME NEW S, IsFiniteSet(S), NEW f, \A x \in S : f[x] \in Int, NEW c \in S
  PROVE  Sum(f, S) = f[c] + Sum(f, S \ {c})
<1>1. PICK g : Adds(g, f, S) /\ Sum(f, S) = g[S]
  BY SumAdds
<1>2. Sum(f, S \ {c}) = g[S \ {c}]
  BY <1>1, AddsPart
<1> QED
  BY <1>1, <1>2 DEF Adds

LEMMA SumEmpty ==
  ASSUME NEW f
  PROVE  Sum(f, {}) = 0
<1>1. PICK g : Adds(g, f, {}) /\ Sum(f, {}) = g[{}]
  BY SumAdds, FS_EmptySet
<1> QED
  BY <1>1 DEF Adds

\* More that is not negative makes a sum no smaller, and zeroes leave it alone.
LEMMA SumSubset ==
  ASSUME NEW T, IsFiniteSet(T), NEW f, \A x \in T : f[x] \in Nat, NEW S \in SUBSET T
  PROVE  /\ Sum(f, S) <= Sum(f, T)
         /\ (\A x \in T \ S : f[x] = 0) => Sum(f, S) = Sum(f, T)
<1>1. PICK g : Adds(g, f, T) /\ Sum(f, T) = g[T]
  BY SumAdds
<1>2. Sum(f, S) = g[S]
  BY <1>1, AddsPart
<1> DEFINE U == T \ S
           W == {u \in SUBSET U : g[S] <= g[S \cup u]
                                  /\ ((\A x \in U : f[x] = 0) => g[S] = g[S \cup u])}
<1>3. {} \in W
  <2>1. S \cup {} = S /\ g[S] \in Int
    BY <1>1 DEF Adds
  <2> QED
    BY <2>1
<1>4. ASSUME NEW u \in SUBSET U, \A x \in u : u \ {x} \in W PROVE u \in W
  <2>1. CASE u = {}
    BY <1>3, <2>1
  <2>2. CASE u # {}
    <3>1. PICK x : x \in u
      BY <2>2
    <3>2. (S \cup u) \ {x} = S \cup (u \ {x}) /\ S \cup u \in SUBSET T /\ x \in U
      BY <3>1
    <3>3. g[S \cup u] = f[x] + g[S \cup (u \ {x})] /\ f[x] \in Nat
      BY <1>1, <3>1, <3>2 DEF Adds
    <3>4. g[S] \in Int /\ g[S \cup (u \ {x})] \in Int
      BY <1>1, <3>2 DEF Adds
    <3>5. u \ {x} \in W
      BY <1>4, <3>1
    <3>6. g[S] <= g[S \cup (u \ {x})] /\ ((\A y \in U : f[y] = 0) => g[S] = g[S \cup (u \ {x})])
      BY <3>5
    <3>7. g[S] <= g[S \cup u]
      BY <3>3, <3>4, <3>6
    <3>8. ASSUME \A y \in U : f[y] = 0 PROVE g[S] = g[S \cup u]
      <4>1. f[x] = 0
        BY <3>2, <3>8
      <4> QED
        BY <3>3, <3>4, <3>6, <3>8, <4>1
    <3> QED
      BY <3>7, <3>8
  <2> QED
    BY <2>1, <2>2
<1>5. SUBSET U \subseteq W
  <2>1. IsFiniteSet(U)
    BY FS_Subset
  <2> HIDE DEF W, U
  <2> QED
    BY <2>1, <1>3, <1>4, SubsetInductive
<1>6. U \in W /\ S \cup U = T
  BY <1>5
<1> QED
  BY <1>1, <1>2, <1>6

-----------------------------------------------------------------------------
(* The circle of indices: no two that are in use are half of it apart. *)

\* How far round the circle from the start an index is.
Ordinal(i) == Sub(i, StartIndex)

LEMMA Circle ==
  /\ IndexMod \in Nat /\ IndexMod > 0 /\ StartIndex \in 0 .. IndexMod - 1
  /\ IndexMod \div 2 \in Nat /\ 2 * (IndexMod \div 2) <= IndexMod
  /\ IndexMod <= 2 * (IndexMod \div 2) + 1
  BY ProducerQueueAssumption

LEMMA Mod ==
  ASSUME NEW x \in Int
  PROVE  /\ 0 <= x /\ x < IndexMod => x % IndexMod = x
         /\ IndexMod <= x /\ x < 2 * IndexMod => x % IndexMod = x - IndexMod
         /\ - IndexMod <= x /\ x < 0 => x % IndexMod = x + IndexMod
         /\ x % IndexMod \in 0 .. IndexMod - 1
<1>1. IndexMod \in Nat /\ IndexMod > 0
  BY Circle
<1> QED
  BY <1>1

LEMMA OrdinalIs ==
  ASSUME NEW i \in Indices
  PROVE  /\ Ordinal(i) = IF i >= StartIndex THEN i - StartIndex ELSE i - StartIndex + IndexMod
         /\ Ordinal(i) \in Indices
  BY Circle, Mod DEF Ordinal, Sub, Indices

\* Going on by n, short of the whole circle.
LEMMA OrdinalAdd ==
  ASSUME NEW i \in Indices, NEW n \in Nat, Ordinal(i) + n < IndexMod
  PROVE  Add(i, n) \in Indices /\ Ordinal(Add(i, n)) = Ordinal(i) + n
<1>1. Ordinal(i) \in Indices
  BY OrdinalIs
<1>2. n < IndexMod
  BY <1>1, Circle DEF Indices
<1>3. Add(i, n) = IF i + n < IndexMod THEN i + n ELSE i + n - IndexMod
  BY <1>2, Circle, Mod DEF Add, Indices
<1>4. Add(i, n) \in Indices
  BY <1>2, <1>3, Circle DEF Indices
<1> QED
  BY <1>2, <1>3, <1>4, OrdinalIs, Circle DEF Indices

LEMMA OrdinalSub ==
  ASSUME NEW i \in Indices, NEW n \in Nat, n <= Ordinal(i)
  PROVE  Sub(i, n) \in Indices /\ Ordinal(Sub(i, n)) = Ordinal(i) - n
<1>1. Ordinal(i) \in Indices
  BY OrdinalIs
<1>2. n < IndexMod
  BY <1>1, Circle DEF Indices
<1>3. Sub(i, n) = IF i >= n THEN i - n ELSE i - n + IndexMod
  BY <1>2, Circle, Mod DEF Sub, Indices
<1>4. Sub(i, n) \in Indices
  BY <1>2, <1>3, Circle DEF Indices
<1> QED
  BY <1>1, <1>2, <1>3, <1>4, OrdinalIs, Circle DEF Indices

\* The distance between two indices.
LEMMA Distance ==
  ASSUME NEW i \in Indices, NEW j \in Indices
  PROVE  /\ Sub(i, j) \in Indices
         /\ Sub(i, j) = IF Ordinal(i) >= Ordinal(j) THEN Ordinal(i) - Ordinal(j)
                        ELSE Ordinal(i) - Ordinal(j) + IndexMod
<1>1. Sub(i, j) = IF i >= j THEN i - j ELSE i - j + IndexMod
  BY Circle, Mod DEF Sub, Indices
<1>2. /\ Ordinal(i) = IF i >= StartIndex THEN i - StartIndex ELSE i - StartIndex + IndexMod
      /\ Ordinal(j) = IF j >= StartIndex THEN j - StartIndex ELSE j - StartIndex + IndexMod
  BY OrdinalIs
<1>3. /\ i \in Int /\ j \in Int /\ IndexMod \in Int /\ StartIndex \in Int
      /\ 0 <= i /\ i < IndexMod /\ 0 <= j /\ j < IndexMod /\ 0 <= StartIndex /\ StartIndex < IndexMod
  BY Circle DEF Indices
<1>4. Sub(i, j) \in Indices
  BY <1>1, <1>3 DEF Indices
<1>5. CASE i >= j
  BY <1>1, <1>2, <1>3, <1>4, <1>5
<1>6. CASE i < j
  BY <1>1, <1>2, <1>3, <1>4, <1>6
<1> QED
  BY <1>3, <1>5, <1>6

LEMMA OrdinalInjective ==
  ASSUME NEW i \in Indices, NEW j \in Indices, Ordinal(i) = Ordinal(j)
  PROVE  i = j
  BY OrdinalIs, Circle DEF Indices

LEMMA OrdinalStart == StartIndex \in Indices /\ Ordinal(StartIndex) = 0
  BY Circle, OrdinalIs DEF Indices

\* A distance that counts as something to dequeue is a real one.
LEMMA Something ==
  ASSUME NEW i \in Indices, NEW j \in Indices, Ordinal(j) <= Ordinal(i) + IndexMod \div 2
  PROVE  circular_less_than(0, Sub(i, j)) => Ordinal(i) > Ordinal(j)
           /\ Sub(i, j) = Ordinal(i) - Ordinal(j)
<1> DEFINE d == Sub(i, j)
<1>1. d \in Indices /\ d = IF Ordinal(i) >= Ordinal(j) THEN Ordinal(i) - Ordinal(j)
                        ELSE Ordinal(i) - Ordinal(j) + IndexMod
  BY Distance
<1>2. Sub(0, d) = IF d = 0 THEN 0 ELSE IndexMod - d
  BY <1>1, Circle, Mod DEF Sub, Indices
<1>3. Ordinal(i) \in Indices /\ Ordinal(j) \in Indices
  BY OrdinalIs
<1> HIDE DEF d
<1>4. Sub(0, d) > IndexMod \div 2 => Ordinal(i) > Ordinal(j) /\ d = Ordinal(i) - Ordinal(j)
  BY <1>1, <1>2, <1>3, Circle DEF Indices
<1> QED
  BY <1>4 DEF circular_less_than, d
-----------------------------------------------------------------------------
(* The reservation protocol.                                               *)

\* What may still be given back.
Spare(c) == IF cpc[c] \in {"count", "decide"} THEN loc[c].n
            ELSE IF cpc[c] = "surplus" THEN loc[c].my ELSE 0

\* How many elements were spoken for when a call was counted, and how many of
\* the elements up to the t-th it will decide to take.
Rank(c) == Ordinal(Sub(loc[c].my, loc[c].over))
Share(c, t) == IF Rank(c) < t THEN Least(loc[c].n, t - Rank(c)) ELSE 0
Promised(c, t) == IF cpc[c] = "decide" THEN Share(c, t) ELSE Due(c)

HeldSum == Sum([c \in Consumers |-> Held(c)], Consumers)
SpareSum == Sum([c \in Consumers |-> Spare(c)], Consumers)
PromisedSum(t) == Sum([c \in Consumers |-> Promised(c, t)], Consumers)

\* The most that can have been given back, or may still be.
Room == MaxOvercommit + Cardinality(Consumers) * MaxBulk

Reserving == {"count", "decide", "surplus", "claim"}
Reservation == [n : 0 .. MaxBulk, over : Nat, my : Nat, idx : {0}, end : {0},
                header : {0}, pos : {0}, block : {Null}]

ResType ==
  /\ tailIndex \in Indices /\ headIndex \in Indices /\ dequeueOptimisticCount \in Indices
  /\ dequeueOvercommit \in Nat
  /\ DOMAIN cpc = Consumers /\ DOMAIN loc = Consumers
  /\ \A c \in Consumers : cpc[c] \in Reserving => loc[c] \in Reservation

\* The elements the producer is about to publish.
Enqueuing ==
  /\ Ordinal(tailIndex) <= MaxItems
  /\ ppc # "idle" => /\ "n" \in DOMAIN op /\ op.n \in 1 .. MaxBulk
                     /\ Ordinal(tailIndex) + op.n <= MaxItems

CallOK(c) ==
  /\ cpc[c] \in {"count", "decide"} => loc[c].over <= dequeueOvercommit
  /\ cpc[c] = "decide" => loc[c].my \in Indices /\ Rank(c) <= Ordinal(tailIndex) + Room
  /\ cpc[c] = "surplus" => loc[c].n + loc[c].my <= MaxBulk
  /\ cpc[c] \in {"count", "decide", "claim"} => loc[c].n > 0

\* Wherever the tail will be, what has been claimed and will be claimed by the
\* calls that have been counted by now stays below it.
Covered ==
  \A t \in Nat : t >= Ordinal(tailIndex) => Ordinal(headIndex) + PromisedSum(t) <= t

ResInv ==
  /\ ResType /\ Enqueuing
  /\ \A c \in Consumers : CallOK(c)
  /\ dequeueOvercommit + SpareSum <= Room
  /\ Ordinal(dequeueOptimisticCount) = Ordinal(headIndex) + dequeueOvercommit + HeldSum
  /\ Covered

LEMMA Constants ==
  /\ IsFiniteSet(Consumers) /\ MaxBulk \in Nat /\ MaxOvercommit \in Nat /\ MaxItems \in Nat
  /\ Cardinality(Consumers) \in Nat /\ Cardinality(Consumers) * MaxBulk \in Nat
  /\ Room \in Nat /\ Room <= IndexMod \div 2 /\ MaxItems < IndexMod \div 2
<1>1. Cardinality(Consumers) \in Nat
  BY ProducerQueueAssumption, FS_CardinalityType
<1> QED
  BY <1>1, ProducerQueueAssumption DEF Room

LEMMA RankType ==
  ASSUME NEW c, loc[c].my \in Int, loc[c].over \in Int
  PROVE  Sub(loc[c].my, loc[c].over) \in Indices /\ Rank(c) \in Nat /\ Rank(c) < IndexMod
<1>1. Sub(loc[c].my, loc[c].over) \in Indices
  BY Mod DEF Sub, Indices
<1> QED
  BY <1>1, OrdinalIs, Circle DEF Rank, Indices

\* The summands are numbers, and related one by one.
LEMMA Summands ==
  ASSUME ResType, NEW c \in Consumers, NEW t \in Nat
  PROVE  /\ Held(c) \in Nat /\ Spare(c) \in Nat /\ Due(c) \in Nat /\ Promised(c, t) \in Nat
         /\ Due(c) <= Promised(c, t) /\ Promised(c, t) <= Held(c)
         /\ Held(c) <= Spare(c) + Promised(c, t)
<1>1. CASE cpc[c] \notin Reserving
  BY <1>1 DEF Held, Spare, Due, Promised, Reserving
<1>2. CASE cpc[c] \in Reserving
  <2>1. loc[c] \in Reservation
    BY <1>2 DEF ResType
  <2>2. loc[c].n \in Nat /\ loc[c].my \in Nat /\ loc[c].over \in Nat
    BY <2>1, Constants DEF Reservation
  <2>3. Rank(c) \in Nat
    BY <2>2, RankType
  <2>4. Share(c, t) \in Nat /\ Share(c, t) <= loc[c].n
    BY <2>2, <2>3 DEF Share, Least
  <2> QED
    BY <1>2, <2>2, <2>4 DEF Held, Spare, Due, Promised, Reserving
<1> QED
  BY <1>1, <1>2

\* The summands before and after a step.
SummandsTyped ==
  \A d \in Consumers, t \in Nat : Held(d) \in Nat /\ Spare(d) \in Nat /\ Promised(d, t) \in Nat

LEMMA SummandsNat == ResType => SummandsTyped
  BY Summands DEF SummandsTyped

LEMMA SummandsNatNext == ResType' => SummandsTyped'
  BY SummandsNat, PTL

\* Hence so are the sums.
LEMMA SumTypes ==
  ASSUME ResType
  PROVE  HeldSum \in Nat /\ SpareSum \in Nat /\ \A t \in Nat : PromisedSum(t) \in Nat
<1> USE Constants
<1>1. ASSUME NEW f, \A c \in Consumers : f[c] \in Nat PROVE Sum(f, Consumers) \in Nat
  <2> DEFINE z == [c \in Consumers |-> 0]
  <2>1. \A c \in Consumers : z[c] \in Int /\ f[c] \in Int /\ z[c] <= f[c]
    <3> TAKE c \in Consumers
    <3>1. z[c] = 0 /\ f[c] \in Nat
      BY <1>1
    <3> QED
      BY <3>1
  <2>2. Sum(z, Consumers) = 0
    <3>1. \A c \in Consumers : z[c] \in 0 .. 0
      OBVIOUS
    <3> HIDE DEF z
    <3>2. Sum(z, Consumers) \in 0 .. Cardinality(Consumers) * 0
      BY <3>1, SumBounded, 0 \in Nat
    <3> QED
      BY <3>2
  <2> HIDE DEF z
  <2>3. Sum(z, Consumers) <= Sum(f, Consumers)
    BY <2>1, SumMonotone
  <2>4. Sum(f, Consumers) \in Int
    BY <2>1, SumInt
  <2> QED
    BY <2>2, <2>3, <2>4
<1>2. HeldSum \in Nat
  <2>1. \A c \in Consumers : [d \in Consumers |-> Held(d)][c] \in Nat
    BY Summands, 0 \in Nat
  <2> QED
    BY <2>1, <1>1 DEF HeldSum
<1>3. SpareSum \in Nat
  <2>1. \A c \in Consumers : [d \in Consumers |-> Spare(d)][c] \in Nat
    BY Summands, 0 \in Nat
  <2> QED
    BY <2>1, <1>1 DEF SpareSum
<1>4. ASSUME NEW t \in Nat PROVE PromisedSum(t) \in Nat
  <2>1. \A c \in Consumers : [d \in Consumers |-> Promised(d, t)][c] \in Nat
    BY Summands
  <2> QED
    BY <2>1, <1>1 DEF PromisedSum
<1> QED
  BY <1>2, <1>3, <1>4

LEMMA PromisedHeld ==
  ASSUME ResType, NEW t \in Nat
  PROVE  PromisedSum(t) <= HeldSum
<1> DEFINE f == [c \in Consumers |-> Promised(c, t)]
           h == [c \in Consumers |-> Held(c)]
<1>1. \A c \in Consumers : f[c] \in Int /\ h[c] \in Int /\ f[c] <= h[c]
  <2> TAKE c \in Consumers
  <2>1. f[c] = Promised(c, t) /\ h[c] = Held(c)
    OBVIOUS
  <2> HIDE DEF f, h
  <2> QED
    BY <2>1, Summands
<1>2. PromisedSum(t) = Sum(f, Consumers) /\ HeldSum = Sum(h, Consumers)
  BY DEF PromisedSum, HeldSum
<1> HIDE DEF f, h
<1> QED
  BY <1>1, <1>2, SumMonotone, Constants

LEMMA DuePromised ==
  ASSUME ResType, NEW t \in Nat
  PROVE  Sum([c \in Consumers |-> Due(c)], Consumers) <= PromisedSum(t)
<1> DEFINE f == [c \in Consumers |-> Due(c)]
           h == [c \in Consumers |-> Promised(c, t)]
<1>1. \A c \in Consumers : f[c] \in Int /\ h[c] \in Int /\ f[c] <= h[c]
  <2> TAKE c \in Consumers
  <2>1. f[c] = Due(c) /\ h[c] = Promised(c, t)
    OBVIOUS
  <2> HIDE DEF f, h
  <2> QED
    BY <2>1, Summands
<1>2. PromisedSum(t) = Sum(h, Consumers)
  BY DEF PromisedSum
<1> HIDE DEF f, h
<1>3. Sum(f, Consumers) <= Sum(h, Consumers)
  BY <1>1, SumMonotone, Constants
<1> QED
  BY <1>2, <1>3 DEF f

\* What is held is spare or promised, with what c is about to count.
LEMMA HeldBound ==
  ASSUME ResType, NEW t \in Nat, NEW c \in Consumers, NEW n \in Nat,
         n <= Spare(c) + Promised(c, t)
  PROVE  HeldSum - Held(c) + n <= SpareSum + PromisedSum(t)
<1> DEFINE f == [d \in Consumers |-> Spare(d)]
           h == [d \in Consumers |-> Promised(d, t)]
           e == [d \in Consumers |-> Spare(d) + Promised(d, t)]
           g == [d \in Consumers |-> Held(d)]
           k == [d \in Consumers |-> IF d = c THEN n ELSE Held(d)]
<1>1. /\ \A d \in Consumers : f[d] \in Int /\ h[d] \in Int /\ e[d] \in Int /\ g[d] \in Int
           /\ k[d] \in Int
      /\ \A d \in Consumers : e[d] = f[d] + h[d] /\ k[d] <= e[d]
      /\ \A d \in Consumers \ {c} : k[d] = g[d]
      /\ g[c] = Held(c) /\ k[c] = n
  BY Summands
<1>2. SpareSum = Sum(f, Consumers) /\ PromisedSum(t) = Sum(h, Consumers)
        /\ HeldSum = Sum(g, Consumers)
  BY DEF SpareSum, PromisedSum, HeldSum
<1> HIDE DEF f, h, e, g, k
<1>3. Sum(e, Consumers) = Sum(f, Consumers) + Sum(h, Consumers)
  BY <1>1, SumPlus, Constants
<1>4. Sum(k, Consumers) <= Sum(e, Consumers)
  BY <1>1, SumMonotone, Constants
<1>5. Sum(k, Consumers) = Sum(g, Consumers) - g[c] + k[c]
  BY <1>1, SumUpdate, Constants
<1> QED
  BY <1>1, <1>2, <1>3, <1>4, <1>5

\* One call goes on.
LEMMA OneCall ==
  ASSUME ResType, ResType', NEW c \in Consumers,
         \A d \in Consumers \ {c} : cpc'[d] = cpc[d] /\ loc'[d] = loc[d]
  PROVE  /\ HeldSum' = HeldSum - Held(c) + Held(c)'
         /\ SpareSum' = SpareSum - Spare(c) + Spare(c)'
         /\ \A t \in Nat : PromisedSum(t)' = PromisedSum(t) - Promised(c, t) + Promised(c, t)'
<1> USE Constants
<1>0. \A d \in Consumers, t \in Nat : /\ Held(d) \in Nat /\ Spare(d) \in Nat
                                      /\ Promised(d, t) \in Nat
                                      /\ Held(d)' \in Nat /\ Spare(d)' \in Nat
                                      /\ Promised(d, t)' \in Nat
  BY SummandsNat, SummandsNatNext DEF SummandsTyped
<1>1. HeldSum' = HeldSum - Held(c) + Held(c)'
  <2> DEFINE f == [d \in Consumers |-> Held(d)]
             h == [d \in Consumers |-> Held(d)']
  <2>1. /\ \A d \in Consumers : f[d] \in Int /\ h[d] \in Int
        /\ f[c] = Held(c) /\ h[c] = Held(c)'
    BY <1>0, 0 \in Nat
  <2>2. \A d \in Consumers \ {c} : h[d] = f[d]
    BY DEF Held
  <2>3. HeldSum = Sum(f, Consumers) /\ HeldSum' = Sum(h, Consumers)
    BY DEF HeldSum
  <2> HIDE DEF f, h
  <2> QED
    BY <2>1, <2>2, <2>3, SumUpdate
<1>2. SpareSum' = SpareSum - Spare(c) + Spare(c)'
  <2> DEFINE f == [d \in Consumers |-> Spare(d)]
             h == [d \in Consumers |-> Spare(d)']
  <2>1. /\ \A d \in Consumers : f[d] \in Int /\ h[d] \in Int
        /\ f[c] = Spare(c) /\ h[c] = Spare(c)'
    BY <1>0, 0 \in Nat
  <2>2. \A d \in Consumers \ {c} : h[d] = f[d]
    BY DEF Spare
  <2>3. SpareSum = Sum(f, Consumers) /\ SpareSum' = Sum(h, Consumers)
    BY DEF SpareSum
  <2> HIDE DEF f, h
  <2> QED
    BY <2>1, <2>2, <2>3, SumUpdate
<1>3. ASSUME NEW t \in Nat PROVE PromisedSum(t)' = PromisedSum(t) - Promised(c, t) + Promised(c, t)'
  <2> DEFINE f == [d \in Consumers |-> Promised(d, t)]
             h == [d \in Consumers |-> Promised(d, t)']
  <2>1. /\ \A d \in Consumers : f[d] \in Int /\ h[d] \in Int
        /\ f[c] = Promised(c, t) /\ h[c] = Promised(c, t)'
    BY <1>0
  <2>2. \A d \in Consumers \ {c} : h[d] = f[d]
    BY DEF Promised, Share, Rank, Due
  <2>3. PromisedSum(t) = Sum(f, Consumers) /\ PromisedSum(t)' = Sum(h, Consumers)
    BY DEF PromisedSum
  <2> HIDE DEF f, h
  <2> QED
    BY <2>1, <2>2, <2>3, SumUpdate
<1> QED
  BY <1>1, <1>2, <1>3

\* The calls in progress of other consumers.
LEMMA OtherCalls ==
  ASSUME ResInv, ResType', NEW c \in Consumers,
         \A d \in Consumers \ {c} : cpc'[d] = cpc[d] /\ loc'[d] = loc[d],
         dequeueOvercommit' >= dequeueOvercommit, tailIndex' = tailIndex
  PROVE  \A d \in Consumers \ {c} : CallOK(d)'
<1> SUFFICES ASSUME NEW d \in Consumers \ {c} PROVE CallOK(d)'
  OBVIOUS
<1>1. CallOK(d) /\ cpc'[d] = cpc[d] /\ loc'[d] = loc[d]
  BY DEF ResInv
<1>2. Rank(d)' = Rank(d) /\ Ordinal(tailIndex)' = Ordinal(tailIndex)
  BY <1>1 DEF Rank
<1>3. cpc[d] \in {"count", "decide"} => loc[d].over \in Nat
  BY DEF ResInv, ResType, Reserving, Reservation
<1>4. dequeueOvercommit \in Nat /\ dequeueOvercommit' \in Nat
  BY DEF ResInv, ResType
<1> QED
  BY <1>1, <1>2, <1>3, <1>4 DEF CallOK

LEMMA NumbersType ==
  ASSUME ResInv
  PROVE  /\ Ordinal(tailIndex) \in Nat /\ Ordinal(headIndex) \in Nat
         /\ Ordinal(dequeueOptimisticCount) \in Nat /\ dequeueOvercommit \in Nat
         /\ HeldSum \in Nat /\ SpareSum \in Nat /\ \A t \in Nat : PromisedSum(t) \in Nat
         /\ Ordinal(headIndex) + PromisedSum(Ordinal(tailIndex)) <= Ordinal(tailIndex)
         /\ Ordinal(tailIndex) <= MaxItems
<1>1. ResType
  BY DEF ResInv
<1>2. Ordinal(tailIndex) \in Nat /\ Ordinal(headIndex) \in Nat
        /\ Ordinal(dequeueOptimisticCount) \in Nat
  BY <1>1, OrdinalIs, Circle DEF ResType, Indices
<1>3. Ordinal(headIndex) + PromisedSum(Ordinal(tailIndex)) <= Ordinal(tailIndex)
  BY <1>2 DEF ResInv, Covered
<1> QED
  BY <1>1, <1>2, <1>3, SumTypes DEF ResType, ResInv, Enqueuing

\* The records of a call.
Call(n, over, my) == [n |-> n, over |-> over, my |-> my, idx |-> 0, end |-> 0, header |-> 0,
                      pos |-> 0, block |-> Null]

LEMMA CallRecords ==
  ASSUME NEW n, NEW over, NEW my
  PROVE  /\ [NoCall EXCEPT !.n = n, !.over = over] = Call(n, over, 0)
         /\ [NoCall EXCEPT !.n = n, !.my = my] = Call(n, 0, my)
<1>0. [NoCall EXCEPT !.n = n] = Call(n, 0, 0)
  BY DEF NoCall, Call
<1>1. [NoCall EXCEPT !.n = n, !.over = over] = Call(n, over, 0)
  <2>1. [Call(n, 0, 0) EXCEPT !.over = over] = Call(n, over, 0)
    BY DEF Call
  <2>2. [NoCall EXCEPT !.n = n, !.over = over] = [[NoCall EXCEPT !.n = n] EXCEPT !.over = over]
    OBVIOUS
  <2> QED
    BY <1>0, <2>1, <2>2
<1>2. [NoCall EXCEPT !.n = n, !.my = my] = Call(n, 0, my)
  <2>1. [Call(n, 0, 0) EXCEPT !.my = my] = Call(n, 0, my)
    BY DEF Call
  <2>2. [NoCall EXCEPT !.n = n, !.my = my] = [[NoCall EXCEPT !.n = n] EXCEPT !.my = my]
    OBVIOUS
  <2> QED
    BY <1>0, <2>1, <2>2
<1> QED
  BY <1>1, <1>2

LEMMA CallMy ==
  ASSUME NEW n, NEW over, NEW my, NEW m
  PROVE  [Call(n, over, my) EXCEPT !.my = m] = Call(n, over, m)
  BY DEF Call

LEMMA CallType ==
  ASSUME NEW n \in 0 .. MaxBulk, NEW over \in Nat, NEW my \in Nat
  PROVE  /\ Call(n, over, my).n = n /\ Call(n, over, my).over = over /\ Call(n, over, my).my = my
         /\ Call(n, over, my) \in Reservation
  BY DEF Call, Reservation

LEMMA CallTyped ==
  ASSUME NEW r \in Reservation
  PROVE  /\ r = Call(r.n, r.over, r.my)
         /\ r.n \in 0 .. MaxBulk /\ r.over \in Nat /\ r.my \in Nat
  BY DEF Reservation, Call

LEMMA ResLoad ==
  ASSUME ResInv, NEW c \in Consumers, NEW max \in 1 .. MaxBulk, Load(c, max)
  PROVE  ResInv'
<1> DEFINE desired == Sub(tailIndex, Sub(dequeueOptimisticCount, dequeueOvercommit))
           n == Least(max, desired)
           l == Call(n, dequeueOvercommit, 0)
<1> USE NumbersType, Constants
<1>1. desired \in Indices /\ desired >= 1
  <2>1. desired \in Indices
    <3>1. Sub(dequeueOptimisticCount, dequeueOvercommit) \in Int
      BY Mod DEF Sub, ResInv, ResType, Indices
    <3> QED
      BY <3>1, Mod DEF Sub, ResInv, ResType, Indices
  <2>2. circular_less_than(0, desired)
    BY DEF Load
  <2>3. Sub(0, 0) = 0
    BY Mod, Circle DEF Sub
  <2>4. desired # 0
    BY <2>2, <2>3, Circle DEF circular_less_than
  <2> QED
    BY <2>1, <2>4, Circle DEF Indices
<1>2. n \in 1 .. MaxBulk
  BY <1>1, Circle DEF Least, Indices
<1>3. [NoCall EXCEPT !.n = n, !.over = dequeueOvercommit] = l
  BY CallRecords
<1>4. /\ cpc[c] = "idle" /\ dequeueOvercommit < MaxOvercommit
      /\ cpc' = [cpc EXCEPT ![c] = "count"] /\ loc' = [loc EXCEPT ![c] = l]
      /\ UNCHANGED <<counters, ppc, op>>
  <2> HIDE DEF l
  <2> QED
    BY ONLY <1>3, Load(c, max) DEF Load, Local, producer
<1> HIDE DEF n, l
<1>5. l.n = n /\ l.over = dequeueOvercommit /\ l \in Reservation
  <2>1. n \in 0 .. MaxBulk /\ dequeueOvercommit \in Nat /\ 0 \in Nat
    BY <1>2
  <2> QED
    BY ONLY <2>1, CallType DEF l
<1>6. /\ cpc'[c] = "count" /\ loc'[c] = l
      /\ \A d \in Consumers \ {c} : cpc'[d] = cpc[d] /\ loc'[d] = loc[d]
  BY <1>4 DEF ResInv, ResType
<1>7. ResType'
  BY <1>4, <1>5, <1>6 DEF ResInv, ResType, counters
<1>8. /\ Held(c) = 0 /\ Spare(c) = 0 /\ Held(c)' = 0 /\ Spare(c)' = n
      /\ \A t \in Nat : Promised(c, t) = 0 /\ Promised(c, t)' = 0
  BY <1>4, <1>5, <1>6 DEF Held, Spare, Promised, Due
<1>9. HeldSum' = HeldSum /\ SpareSum' = SpareSum + n
        /\ \A t \in Nat : PromisedSum(t)' = PromisedSum(t)
  <2>1. ResType
    BY DEF ResInv
  <2> QED
    BY <2>1, <1>6, <1>7, <1>8, <1>2, OneCall
<1>10. Enqueuing'
  BY <1>4 DEF ResInv, Enqueuing, counters
<1>11. \A d \in Consumers : CallOK(d)'
  <2>1. CallOK(c)'
    BY <1>2, <1>4, <1>5, <1>6 DEF CallOK, counters
  <2>2. \A d \in Consumers \ {c} : CallOK(d)'
    BY <1>4, <1>6, <1>7, OtherCalls DEF counters
  <2> QED
    BY <2>1, <2>2
<1>12. (dequeueOvercommit + SpareSum <= Room)'
  <2> DEFINE f == [d \in Consumers |-> Spare(d)']
  <2>1. \A d \in Consumers : f[d] \in 0 .. MaxBulk
    <3> SUFFICES ASSUME NEW d \in Consumers PROVE Spare(d)' \in 0 .. MaxBulk
      OBVIOUS
    <3>1. cpc'[d] \in Reserving => loc'[d].n \in 0 .. MaxBulk /\ loc'[d].my \in Nat
      BY <1>7 DEF ResType, Reservation
    <3>2. cpc'[d] = "surplus" => loc'[d].n + loc'[d].my <= MaxBulk
      BY <1>11 DEF CallOK
    <3> QED
      BY <3>1, <3>2 DEF Spare, Reserving
  <2>2. SpareSum' = Sum(f, Consumers)
    BY DEF SpareSum
  <2> HIDE DEF f
  <2>3. Sum(f, Consumers) \in 0 .. Cardinality(Consumers) * MaxBulk
    BY <2>1, SumBounded
  <2> QED
    BY <1>4, <2>2, <2>3 DEF Room, counters
<1>13. (Ordinal(dequeueOptimisticCount) = Ordinal(headIndex) + dequeueOvercommit + HeldSum)'
  BY <1>4, <1>9 DEF ResInv, counters
<1>14. Covered'
  BY <1>4, <1>9 DEF ResInv, Covered, counters
<1> QED
  BY <1>7, <1>10, <1>11, <1>12, <1>13, <1>14 DEF ResInv

LEMMA ResCount ==
  ASSUME ResInv, NEW c \in Consumers, Count(c)
  PROVE  ResInv'
<1> DEFINE n == loc[c].n
           o == loc[c].over
           l == Call(n, o, dequeueOptimisticCount)
<1> USE NumbersType, Constants
<1>1. cpc[c] = "count" /\ loc[c] \in Reservation /\ ResType
  BY DEF Count, ResInv, ResType, Reserving
<1>2. n \in 0 .. MaxBulk /\ o \in Nat /\ n > 0 /\ o <= dequeueOvercommit
  <2>1. n \in 0 .. MaxBulk /\ o \in Nat
    BY <1>1, CallTyped
  <2>2. CallOK(c)
    BY DEF ResInv
  <2> QED
    BY <1>1, <2>1, <2>2 DEF CallOK
<1>3. [loc[c] EXCEPT !.my = dequeueOptimisticCount] = l
  <2>1. loc[c] = Call(n, o, loc[c].my)
    BY <1>1, CallTyped
  <2> QED
    BY <2>1, CallMy
<1>4. /\ cpc' = [cpc EXCEPT ![c] = "decide"] /\ loc' = [loc EXCEPT ![c] = l]
      /\ dequeueOptimisticCount' = Add(dequeueOptimisticCount, n)
      /\ UNCHANGED <<tailIndex, headIndex, dequeueOvercommit, ppc, op>>
  <2> HIDE DEF l
  <2> QED
    BY ONLY <1>3, Count(c) DEF Count, Local, producer
<1>5. l.n = n /\ l.over = o /\ l.my = dequeueOptimisticCount /\ l \in Reservation
  <2>1. dequeueOptimisticCount \in Nat
    BY <1>1, Circle DEF ResType, Indices
  <2> QED
    BY <1>2, <2>1, CallType
<1> HIDE DEF n, o, l
<1>6. /\ cpc'[c] = "decide" /\ loc'[c] = l
      /\ \A d \in Consumers \ {c} : cpc'[d] = cpc[d] /\ loc'[d] = loc[d]
  BY <1>4 DEF ResInv, ResType
\* The count stays short of the whole circle.
<1>7. Spare(c) = n /\ Held(c) = 0 /\ \A t \in Nat : Promised(c, t) = 0
  BY <1>1 DEF Spare, Held, Promised, Due, n
<1> DEFINE T == Ordinal(tailIndex)
           H == Ordinal(headIndex)
<1>8. HeldSum + n <= SpareSum + PromisedSum(T)
  BY <1>1, <1>2, <1>7, HeldBound
<1>9. H + dequeueOvercommit + HeldSum + n <= T + Room /\ T + Room < IndexMod
  BY <1>8, <1>2, Circle DEF ResInv
<1>10. Ordinal(dequeueOptimisticCount) = H + dequeueOvercommit + HeldSum
  BY DEF ResInv
<1>11. /\ dequeueOptimisticCount' \in Indices
       /\ Ordinal(dequeueOptimisticCount') = H + dequeueOvercommit + HeldSum + n
  <2>1. Ordinal(dequeueOptimisticCount) + n < IndexMod /\ n \in Nat
    BY <1>2, <1>9, <1>10, Circle
  <2> QED
    BY <2>1, <1>1, <1>4, <1>10, OrdinalAdd DEF ResType
<1>12. ResType'
  BY <1>1, <1>4, <1>5, <1>6, <1>11 DEF ResType
<1>13. Rank(c)' = H + dequeueOvercommit + HeldSum - o
  <2>1. Ordinal(Sub(dequeueOptimisticCount, o)) = Ordinal(dequeueOptimisticCount) - o
    BY <1>1, <1>2, <1>10, OrdinalSub DEF ResType
  <2>2. Rank(c)' = Ordinal(Sub(dequeueOptimisticCount, o))
    BY <1>5, <1>6 DEF Rank
  <2>3. Rank(c)' = Ordinal(dequeueOptimisticCount) - o
    BY ONLY <2>1, <2>2
  <2> QED
    BY <2>3, <1>2, <1>10
<1>14. /\ Held(c)' = n /\ Spare(c)' = n
       /\ \A t \in Nat : Promised(c, t)' = IF Rank(c)' < t THEN Least(n, t - Rank(c)') ELSE 0
  BY <1>5, <1>6 DEF Held, Spare, Promised, Share
<1>15. /\ HeldSum' = HeldSum + n /\ SpareSum' = SpareSum
       /\ \A t \in Nat : PromisedSum(t)' = PromisedSum(t) + Promised(c, t)'
  <2>1. /\ HeldSum' = HeldSum - 0 + n /\ SpareSum' = SpareSum - n + n
        /\ \A t \in Nat : PromisedSum(t)' = PromisedSum(t) - 0 + Promised(c, t)'
    BY <1>1, <1>6, <1>7, <1>12, <1>14, OneCall
  <2> QED
    BY <2>1, <1>2
<1>16. Enqueuing'
  BY <1>4 DEF ResInv, Enqueuing
<1>17. \A d \in Consumers : CallOK(d)'
  <2>1. CallOK(c)'
    BY <1>1, <1>2, <1>4, <1>5, <1>6, <1>9, <1>13 DEF CallOK, ResType
  <2>2. \A d \in Consumers \ {c} : CallOK(d)'
    BY <1>4, <1>6, <1>12, OtherCalls
  <2> QED
    BY <2>1, <2>2
<1>18. (dequeueOvercommit + SpareSum <= Room)'
  BY <1>4, <1>15 DEF ResInv
<1>19. (Ordinal(dequeueOptimisticCount) = Ordinal(headIndex) + dequeueOvercommit + HeldSum)'
  BY <1>2, <1>4, <1>11, <1>15
<1>20. Covered'
  <2> SUFFICES ASSUME NEW t \in Nat, t >= T PROVE H + PromisedSum(t)' <= t
    BY <1>4 DEF Covered
  <2>1. H + PromisedSum(t) <= t /\ PromisedSum(t) <= HeldSum
    BY <1>1, PromisedHeld DEF ResInv, Covered
  <2> DEFINE r == Rank(c)'
  <2>2. r \in Nat /\ H + HeldSum <= r
    BY <1>2, <1>13
  <2>3. PromisedSum(t)' = PromisedSum(t) + (IF r < t THEN Least(n, t - r) ELSE 0)
    BY <1>14, <1>15
  <2> HIDE DEF r
  <2> QED
    BY <1>2, <2>1, <2>2, <2>3 DEF Least
<1> QED
  BY <1>12, <1>16, <1>17, <1>18, <1>19, <1>20 DEF ResInv

LEMMA ResDecide ==
  ASSUME ResInv, NEW c \in Consumers, Decide(c)
  PROVE  ResInv'
<1> DEFINE m == loc[c].n
           actual == Sub(tailIndex, Sub(loc[c].my, loc[c].over))
           n == IF circular_less_than(0, actual) THEN Least(m, actual) ELSE 0
           l == Call(n, 0, m - n)
           T == Ordinal(tailIndex)
<1> USE NumbersType, Constants
<1>1. cpc[c] = "decide" /\ loc[c] \in Reservation /\ ResType /\ CallOK(c)
  BY DEF Decide, ResInv, ResType, Reserving
<1>2. m \in 0 .. MaxBulk /\ m > 0 /\ loc[c].my \in Nat /\ loc[c].over \in Nat
  <2>1. m \in 0 .. MaxBulk /\ loc[c].my \in Nat /\ loc[c].over \in Nat
    BY <1>1, CallTyped
  <2> QED
    BY <1>1, <2>1 DEF CallOK
<1>3. Rank(c) \in Nat /\ Rank(c) <= T + IndexMod \div 2
  <2>1. Rank(c) \in Nat /\ Rank(c) <= T + Room
    BY <1>1, <1>2, RankType DEF CallOK
  <2> QED
    BY <2>1, Circle
<1>4. circular_less_than(0, actual) => T > Rank(c) /\ actual = T - Rank(c)
  <2>1. Sub(loc[c].my, loc[c].over) \in Indices
    BY <1>2, RankType
  <2>2. tailIndex \in Indices
    BY <1>1 DEF ResType
  <2> QED
    BY <2>1, <2>2, <1>3, Something DEF Rank
<1>5. n \in 0 .. m /\ n <= Share(c, T)
  BY <1>2, <1>3, <1>4 DEF Share, Least
<1>6. /\ cpc' = [cpc EXCEPT ![c] = IF n < m THEN "surplus" ELSE "claim"]
      /\ loc' = [loc EXCEPT ![c] = l]
      /\ UNCHANGED <<counters, ppc, op>>
  <2>1. [NoCall EXCEPT !.n = n, !.my = m - n] = l
    BY CallRecords
  <2> HIDE DEF l
  <2> QED
    BY ONLY <2>1, Decide(c) DEF Decide, Local, producer
<1>7. l.n = n /\ l.my = m - n /\ l \in Reservation
  <2>1. n \in 0 .. MaxBulk /\ m - n \in Nat /\ 0 \in Nat
    BY <1>2, <1>5
  <2> HIDE DEF n, m, l
  <2> QED
    BY ONLY <2>1, CallType DEF l
<1> HIDE DEF n, m, l, actual
<1>8. /\ cpc'[c] = (IF n < m THEN "surplus" ELSE "claim") /\ loc'[c] = l
      /\ \A d \in Consumers \ {c} : cpc'[d] = cpc[d] /\ loc'[d] = loc[d]
  BY <1>6 DEF ResInv, ResType
<1>9. ResType'
  BY <1>1, <1>6, <1>7, <1>8 DEF ResType, counters
<1>10. /\ Held(c) = m /\ Spare(c) = m /\ Held(c)' = m /\ Spare(c)' = m - n
       /\ \A t \in Nat : Promised(c, t) = Share(c, t) /\ Promised(c, t)' = n
  <2>1. Held(c) = m /\ Spare(c) = m /\ \A t \in Nat : Promised(c, t) = Share(c, t)
    BY <1>1 DEF Held, Spare, Promised, m
  <2>2. Held(c)' = m /\ Spare(c)' = m - n /\ \A t \in Nat : Promised(c, t)' = n
    <3>1. CASE n < m
      BY <3>1, <1>2, <1>5, <1>7, <1>8 DEF Held, Spare, Promised, Due
    <3>2. CASE ~ (n < m)
      BY <3>2, <1>2, <1>5, <1>7, <1>8 DEF Held, Spare, Promised, Due
    <3> QED
      BY <3>1, <3>2
  <2> QED
    BY <2>1, <2>2
<1>11. /\ HeldSum' = HeldSum /\ SpareSum' = SpareSum - n
       /\ \A t \in Nat : PromisedSum(t)' = PromisedSum(t) - Share(c, t) + n
  <2>1. /\ HeldSum' = HeldSum - m + m /\ SpareSum' = SpareSum - m + (m - n)
        /\ \A t \in Nat : PromisedSum(t)' = PromisedSum(t) - Share(c, t) + n
    BY <1>1, <1>8, <1>9, <1>10, OneCall
  <2> QED
    BY <2>1, <1>2, <1>5
<1>12. Enqueuing'
  BY <1>6 DEF ResInv, Enqueuing, counters
<1>13. \A d \in Consumers : CallOK(d)'
  <2>1. CallOK(c)'
    BY <1>2, <1>5, <1>7, <1>8 DEF CallOK
  <2>2. \A d \in Consumers \ {c} : CallOK(d)'
    BY <1>6, <1>8, <1>9, OtherCalls DEF counters
  <2> QED
    BY <2>1, <2>2
<1>14. (dequeueOvercommit + SpareSum <= Room)'
  BY <1>2, <1>5, <1>6, <1>11 DEF ResInv, counters
<1>15. (Ordinal(dequeueOptimisticCount) = Ordinal(headIndex) + dequeueOvercommit + HeldSum)'
  BY <1>6, <1>11 DEF ResInv, counters
<1>16. Covered'
  <2> SUFFICES ASSUME NEW t \in Nat, t >= T PROVE Ordinal(headIndex) + PromisedSum(t)' <= t
    BY <1>6 DEF Covered, counters
  <2>1. Ordinal(headIndex) + PromisedSum(t) <= t
    BY DEF ResInv, Covered
  <2>2. Share(c, t) \in Nat /\ Share(c, T) <= Share(c, t)
    <3>1. T \in Nat
      OBVIOUS
    <3> HIDE DEF T
    <3> QED
      BY <3>1, <1>2, <1>3 DEF Share, Least, m
  <2>3. Share(c, T) \in Nat
    BY <1>2, <1>3 DEF Share, Least, m
  <2>4. n <= Share(c, t) /\ n \in Nat
    BY <1>2, <1>5, <2>2, <2>3
  <2> QED
    BY <1>11, <2>1, <2>2, <2>4
<1> QED
  BY <1>9, <1>12, <1>13, <1>14, <1>15, <1>16 DEF ResInv

LEMMA ResSurplus ==
  ASSUME ResInv, NEW c \in Consumers, Surplus(c)
  PROVE  ResInv'
<1> DEFINE n == loc[c].n
           m == loc[c].my
           l == IF n = 0 THEN NoCall ELSE Call(n, loc[c].over, 0)
<1> USE NumbersType, Constants
<1>1. cpc[c] = "surplus" /\ loc[c] \in Reservation /\ ResType /\ CallOK(c)
  BY DEF Surplus, ResInv, ResType, Reserving
<1>2. n \in 0 .. MaxBulk /\ m \in Nat /\ loc[c].over \in Nat
  BY <1>1, CallTyped
<1>3. /\ cpc' = [cpc EXCEPT ![c] = IF n = 0 THEN "idle" ELSE "claim"]
      /\ loc' = [loc EXCEPT ![c] = l]
      /\ dequeueOvercommit' = Add(dequeueOvercommit, m)
      /\ UNCHANGED <<tailIndex, headIndex, dequeueOptimisticCount, ppc, op>>
  <2>1. [loc[c] EXCEPT !.my = 0] = Call(n, loc[c].over, 0)
    <3>1. loc[c] = Call(n, loc[c].over, m)
      BY <1>1, CallTyped
    <3> QED
      BY <3>1, CallMy
  <2> QED
    BY ONLY <2>1, Surplus(c) DEF Surplus, Local, producer
<1>4. n # 0 => l.n = n /\ l \in Reservation
  <2>1. 0 \in Nat
    OBVIOUS
  <2> HIDE DEF n, l
  <2> QED
    BY ONLY <1>2, <2>1, CallType DEF l
<1> HIDE DEF n, m, l
<1>5. /\ cpc'[c] = (IF n = 0 THEN "idle" ELSE "claim") /\ loc'[c] = l
      /\ \A d \in Consumers \ {c} : cpc'[d] = cpc[d] /\ loc'[d] = loc[d]
  BY <1>3 DEF ResInv, ResType
<1>6. /\ Held(c) = n + m /\ Spare(c) = m /\ \A t \in Nat : Promised(c, t) = n
  BY <1>1 DEF Held, Spare, Promised, Due, n, m
<1>7. /\ Held(c)' = n /\ Spare(c)' = 0 /\ \A t \in Nat : Promised(c, t)' = n
  BY <1>4, <1>5 DEF Held, Spare, Promised, Due
\* The surplus was accounted for.
<1>8. m <= SpareSum
  <2> DEFINE f == [d \in Consumers |-> Spare(d)]
             h == [d \in Consumers |-> IF d = c THEN Spare(d) ELSE 0]
             z == [d \in Consumers |-> 0]
  <2>1. /\ \A d \in Consumers : f[d] \in Int /\ h[d] \in Int /\ z[d] \in Int /\ h[d] <= f[d]
        /\ \A d \in Consumers \ {c} : h[d] = z[d]
        /\ h[c] = m /\ z[c] = 0
    BY <1>1, <1>2, <1>6, SummandsNat DEF SummandsTyped
  <2>2. Sum(z, Consumers) = 0
    <3>1. \A d \in Consumers : z[d] \in 0 .. 0
      OBVIOUS
    <3> HIDE DEF z
    <3>2. Sum(z, Consumers) \in 0 .. Cardinality(Consumers) * 0
      BY <3>1, SumBounded, 0 \in Nat
    <3> QED
      BY <3>2
  <2>3. SpareSum = Sum(f, Consumers)
    BY DEF SpareSum
  <2> HIDE DEF f, h, z
  <2>4. Sum(h, Consumers) <= Sum(f, Consumers)
    BY <2>1, SumMonotone
  <2>5. Sum(h, Consumers) = Sum(z, Consumers) - z[c] + h[c]
    BY <2>1, SumUpdate
  <2> QED
    BY <1>2, <2>1, <2>2, <2>3, <2>4, <2>5
<1>9. dequeueOvercommit + SpareSum <= Room
  BY DEF ResInv
<1>10. dequeueOvercommit' = dequeueOvercommit + m
  <2>1. dequeueOvercommit + m \in 0 .. IndexMod - 1
    BY <1>2, <1>8, <1>9, Circle
  <2> QED
    BY <1>3, <2>1, Mod, Circle DEF Add
<1>11. ResType'
  BY <1>1, <1>2, <1>3, <1>4, <1>5, <1>10 DEF ResType, Reserving
<1>12. /\ HeldSum' = HeldSum - m /\ SpareSum' = SpareSum - m
       /\ \A t \in Nat : PromisedSum(t)' = PromisedSum(t)
  <2>1. /\ HeldSum' = HeldSum - (n + m) + n /\ SpareSum' = SpareSum - m + 0
        /\ \A t \in Nat : PromisedSum(t)' = PromisedSum(t) - n + n
    BY <1>1, <1>5, <1>6, <1>7, <1>11, OneCall
  <2> QED
    BY <2>1, <1>2
<1>13. Enqueuing'
  BY <1>3 DEF ResInv, Enqueuing
<1>14. \A d \in Consumers : CallOK(d)'
  <2>1. CallOK(c)'
    BY <1>2, <1>4, <1>5 DEF CallOK
  <2>2. \A d \in Consumers \ {c} : CallOK(d)'
    BY <1>2, <1>3, <1>5, <1>10, <1>11, OtherCalls
  <2> QED
    BY <2>1, <2>2
<1>15. (dequeueOvercommit + SpareSum <= Room)'
  BY <1>2, <1>9, <1>10, <1>12
<1>16. (Ordinal(dequeueOptimisticCount) = Ordinal(headIndex) + dequeueOvercommit + HeldSum)'
  BY <1>2, <1>3, <1>10, <1>12 DEF ResInv
<1>17. Covered'
  BY <1>3, <1>12 DEF ResInv, Covered
<1> QED
  BY <1>11, <1>13, <1>14, <1>15, <1>16, <1>17 DEF ResInv

LEMMA ResClaim ==
  ASSUME ResInv, NEW c \in Consumers, Claim(c)
  PROVE  ResInv'
<1> DEFINE n == loc[c].n
           T == Ordinal(tailIndex)
           H == Ordinal(headIndex)
<1> USE NumbersType, Constants
<1>1. cpc[c] = "claim" /\ loc[c] \in Reservation /\ ResType
  BY DEF Claim, ResInv, ResType, Reserving
<1>2. n \in 0 .. MaxBulk
  BY <1>1, CallTyped
<1>3. /\ cpc' = [cpc EXCEPT ![c] = "locate"] /\ DOMAIN loc' = Consumers
      /\ \A d \in Consumers \ {c} : loc'[d] = loc[d]
      /\ headIndex' = Add(headIndex, n)
      /\ UNCHANGED <<tailIndex, dequeueOptimisticCount, dequeueOvercommit, ppc, op>>
  BY <1>1 DEF Claim, Local, producer, ResType
<1>4. cpc'[c] = "locate" /\ \A d \in Consumers \ {c} : cpc'[d] = cpc[d] /\ loc'[d] = loc[d]
  BY <1>1, <1>3 DEF ResType
<1>5. Held(c) = n /\ Spare(c) = 0 /\ \A t \in Nat : Promised(c, t) = n
  BY <1>1 DEF Held, Spare, Promised, Due
<1>6. Held(c)' = 0 /\ Spare(c)' = 0 /\ \A t \in Nat : Promised(c, t)' = 0
  BY <1>4 DEF Held, Spare, Promised, Due
<1> HIDE DEF n
\* The claim was promised.
<1>7. n <= PromisedSum(T)
  <2> DEFINE f == [d \in Consumers |-> Promised(d, T)]
             h == [d \in Consumers |-> IF d = c THEN n ELSE 0]
             z == [d \in Consumers |-> 0]
  <2>1. /\ \A d \in Consumers : f[d] \in Int /\ h[d] \in Int /\ z[d] \in Int /\ h[d] <= f[d]
        /\ \A d \in Consumers \ {c} : h[d] = z[d]
        /\ h[c] = n /\ z[c] = 0
    BY <1>1, <1>2, <1>5, SummandsNat DEF SummandsTyped
  <2>2. Sum(z, Consumers) = 0
    <3>1. \A d \in Consumers : z[d] \in 0 .. 0
      OBVIOUS
    <3> HIDE DEF z
    <3>2. Sum(z, Consumers) \in 0 .. Cardinality(Consumers) * 0
      BY <3>1, SumBounded, 0 \in Nat
    <3> QED
      BY <3>2
  <2>3. PromisedSum(T) = Sum(f, Consumers)
    BY DEF PromisedSum
  <2> HIDE DEF f, h, z
  <2>4. Sum(h, Consumers) <= Sum(f, Consumers)
    BY <2>1, SumMonotone
  <2>5. Sum(h, Consumers) = Sum(z, Consumers) - z[c] + h[c]
    BY <2>1, SumUpdate
  <2> QED
    BY <1>2, <2>1, <2>2, <2>3, <2>4, <2>5
<1>8. headIndex' \in Indices /\ Ordinal(headIndex') = H + n
  <2>1. H + n < IndexMod /\ n \in Nat
    BY <1>2, <1>7, Circle
  <2> QED
    BY <2>1, <1>1, <1>3, OrdinalAdd DEF ResType
<1>9. ResType'
  BY <1>1, <1>3, <1>4, <1>8 DEF ResType, Reserving
<1>10. /\ HeldSum' = HeldSum - n /\ SpareSum' = SpareSum
       /\ \A t \in Nat : PromisedSum(t)' = PromisedSum(t) - n
  <2>1. /\ HeldSum' = HeldSum - n + 0 /\ SpareSum' = SpareSum - 0 + 0
        /\ \A t \in Nat : PromisedSum(t)' = PromisedSum(t) - n + 0
    BY <1>1, <1>4, <1>5, <1>6, <1>9, OneCall
  <2> QED
    BY <2>1, <1>2
<1>11. Enqueuing'
  BY <1>3 DEF ResInv, Enqueuing
<1>12. \A d \in Consumers : CallOK(d)'
  <2>1. CallOK(c)'
    BY <1>4 DEF CallOK
  <2>2. \A d \in Consumers \ {c} : CallOK(d)'
    BY <1>3, <1>4, <1>9, OtherCalls
  <2> QED
    BY <2>1, <2>2
<1>13. (dequeueOvercommit + SpareSum <= Room)'
  BY <1>3, <1>10 DEF ResInv
<1>14. (Ordinal(dequeueOptimisticCount) = Ordinal(headIndex) + dequeueOvercommit + HeldSum)'
  BY <1>2, <1>3, <1>8, <1>10 DEF ResInv
<1>15. Covered'
  <2> SUFFICES ASSUME NEW t \in Nat, t >= T PROVE Ordinal(headIndex') + PromisedSum(t)' <= t
    BY <1>3 DEF Covered
  <2>1. H + PromisedSum(t) <= t
    BY DEF ResInv, Covered
  <2> QED
    BY <1>2, <1>8, <1>10, <2>1
<1> QED
  BY <1>9, <1>11, <1>12, <1>13, <1>14, <1>15 DEF ResInv

LEMMA ResPublish ==
  ASSUME ResInv, Publish
  PROVE  ResInv'
<1> DEFINE T == Ordinal(tailIndex)
<1> USE NumbersType, Constants
<1>1. /\ op.n \in 1 .. MaxBulk /\ T + op.n <= MaxItems
      /\ tailIndex' = Add(tailIndex, op.n) /\ ppc' = "idle"
      /\ UNCHANGED <<headIndex, dequeueOptimisticCount, dequeueOvercommit, cpc, loc>>
  BY DEF Publish, ResInv, Enqueuing, consumer
<1>2. tailIndex' \in Indices /\ Ordinal(tailIndex') = T + op.n
  <2>1. T + op.n < IndexMod /\ op.n \in Nat /\ tailIndex \in Indices
    BY <1>1, Circle DEF ResInv, ResType
  <2> QED
    BY <2>1, <1>1, OrdinalAdd
<1>3. ResType'
  BY <1>1, <1>2 DEF ResInv, ResType
<1>4. Enqueuing'
  BY <1>1, <1>2 DEF Enqueuing
<1>5. /\ HeldSum' = HeldSum /\ SpareSum' = SpareSum
      /\ \A t \in Nat : PromisedSum(t)' = PromisedSum(t)
  BY <1>1 DEF HeldSum, SpareSum, PromisedSum, Held, Spare, Promised, Due, Share, Rank
<1>6. ASSUME NEW d \in Consumers PROVE CallOK(d)'
  <2>1. CallOK(d) /\ Rank(d)' = Rank(d)
    BY <1>1 DEF ResInv, Rank
  <2>2. cpc[d] = "decide" => Rank(d) \in Nat
    <3>1. cpc[d] = "decide" => loc[d].my \in Nat /\ loc[d].over \in Nat
      BY DEF ResInv, ResType, Reserving, Reservation
    <3> QED
      BY <3>1, RankType
  <2> QED
    BY <1>1, <1>2, <2>1, <2>2 DEF CallOK
<1>7. (dequeueOvercommit + SpareSum <= Room)'
  BY <1>1, <1>5 DEF ResInv
<1>8. (Ordinal(dequeueOptimisticCount) = Ordinal(headIndex) + dequeueOvercommit + HeldSum)'
  BY <1>1, <1>5 DEF ResInv
<1>9. Covered'
  <2> SUFFICES ASSUME NEW t \in Nat, t >= T + op.n PROVE Ordinal(headIndex) + PromisedSum(t)' <= t
    BY <1>1, <1>2 DEF Covered
  <2>1. t >= T
    BY <1>1
  <2> QED
    BY <1>5, <2>1 DEF ResInv, Covered
<1> QED
  BY <1>3, <1>4, <1>6, <1>7, <1>8, <1>9 DEF ResInv

\* The producer's other steps: the operation goes on, or ends.
LEMMA ResProducer ==
  ASSUME ResInv, UNCHANGED <<counters, consumer>>,
         ppc' # "idle" => "n" \in DOMAIN op' /\ op'.n \in 1 .. MaxBulk
                          /\ Ordinal(tailIndex) + op'.n <= MaxItems
  PROVE  ResInv'
<1>1. ResType'
  BY DEF ResInv, ResType, counters, consumer
<1>2. Enqueuing'
  BY DEF ResInv, Enqueuing, counters
<1>3. /\ HeldSum' = HeldSum /\ SpareSum' = SpareSum
      /\ \A t \in Nat : PromisedSum(t)' = PromisedSum(t)
  BY DEF HeldSum, SpareSum, PromisedSum, Held, Spare, Promised, Due, Share, Rank, consumer
<1>4. \A d \in Consumers : CallOK(d)'
  BY DEF ResInv, CallOK, Rank, counters, consumer
<1>5. (dequeueOvercommit + SpareSum <= Room)'
  BY <1>3 DEF ResInv, counters
<1>6. (Ordinal(dequeueOptimisticCount) = Ordinal(headIndex) + dequeueOvercommit + HeldSum)'
  BY <1>3 DEF ResInv, counters
<1>7. Covered'
  BY <1>3 DEF ResInv, Covered, counters
<1> QED
  BY <1>1, <1>2, <1>4, <1>5, <1>6, <1>7 DEF ResInv

\* A consumer's steps past the reservation.
LEMMA ResElsewhere ==
  ASSUME ResInv, NEW c \in Consumers, NEW pc, NEW l, Local(c, pc, l),
         UNCHANGED <<counters, producer>>, cpc[c] \notin Reserving, pc \notin Reserving
  PROVE  ResInv'
<1> USE NumbersType, Constants
<1>1. ResType /\ cpc' = [cpc EXCEPT ![c] = pc] /\ loc' = [loc EXCEPT ![c] = l]
  BY DEF ResInv, Local
<1>2. cpc'[c] = pc /\ \A d \in Consumers \ {c} : cpc'[d] = cpc[d] /\ loc'[d] = loc[d]
  BY <1>1 DEF ResType
<1>3. ResType'
  BY <1>1, <1>2 DEF ResType, counters
<1>4. /\ Held(c) = 0 /\ Spare(c) = 0 /\ \A t \in Nat : Promised(c, t) = 0
      /\ Held(c)' = 0 /\ Spare(c)' = 0 /\ \A t \in Nat : Promised(c, t)' = 0
  BY <1>2 DEF Held, Spare, Promised, Due, Reserving
<1>5. /\ HeldSum' = HeldSum /\ SpareSum' = SpareSum
      /\ \A t \in Nat : PromisedSum(t)' = PromisedSum(t)
  <2>1. /\ HeldSum' = HeldSum - 0 + 0 /\ SpareSum' = SpareSum - 0 + 0
        /\ \A t \in Nat : PromisedSum(t)' = PromisedSum(t) - 0 + 0
    BY <1>1, <1>2, <1>3, <1>4, OneCall
  <2> QED
    BY <2>1
<1>6. Enqueuing'
  BY DEF ResInv, Enqueuing, counters, producer
<1>7. \A d \in Consumers : CallOK(d)'
  <2>1. CallOK(c)'
    BY <1>2 DEF CallOK, Reserving
  <2>2. \A d \in Consumers \ {c} : CallOK(d)'
    BY <1>2, <1>3, OtherCalls DEF counters
  <2> QED
    BY <2>1, <2>2
<1>8. (dequeueOvercommit + SpareSum <= Room)'
  BY <1>5 DEF ResInv, counters
<1>9. (Ordinal(dequeueOptimisticCount) = Ordinal(headIndex) + dequeueOvercommit + HeldSum)'
  BY <1>5 DEF ResInv, counters
<1>10. Covered'
  BY <1>5 DEF ResInv, Covered, counters
<1> QED
  BY <1>3, <1>6, <1>7, <1>8, <1>9, <1>10 DEF ResInv

LEMMA ResInit == Init => ResInv
<1> SUFFICES ASSUME Init PROVE ResInv
  OBVIOUS
<1> USE Constants
<1>1. \A c \in Consumers : cpc[c] = "idle"
  BY DEF Init
<1>2. ResType
  BY <1>1, OrdinalStart, Circle DEF Init, ResType, Reserving, Indices
<1>3. Enqueuing
  BY OrdinalStart DEF Init, Enqueuing
<1>4. \A c \in Consumers : CallOK(c)
  BY <1>1 DEF CallOK
<1>5. ASSUME NEW f, \A c \in Consumers : f[c] = 0 PROVE Sum(f, Consumers) = 0
  <2>1. \A c \in Consumers : f[c] \in 0 .. 0
    <3> TAKE c \in Consumers
    <3>1. f[c] = 0
      BY <1>5
    <3> QED
      BY <3>1
  <2>2. Sum(f, Consumers) \in 0 .. Cardinality(Consumers) * 0
    BY <2>1, SumBounded, 0 \in Nat
  <2> QED
    BY <2>2
<1>6. HeldSum = 0 /\ SpareSum = 0 /\ \A t \in Nat : PromisedSum(t) = 0
  BY <1>1, <1>5 DEF HeldSum, SpareSum, PromisedSum, Held, Spare, Promised, Due
<1>7. dequeueOvercommit + SpareSum <= Room
  BY <1>6 DEF Init
<1>8. Ordinal(dequeueOptimisticCount) = Ordinal(headIndex) + dequeueOvercommit + HeldSum
  BY <1>6, OrdinalStart DEF Init
<1>9. Covered
  BY <1>6, OrdinalStart DEF Init, Covered
<1> QED
  BY <1>2, <1>3, <1>4, <1>7, <1>8, <1>9 DEF ResInv

LEMMA ResStep == ResInv /\ [Next]_vars => ResInv'
<1> SUFFICES ASSUME ResInv, [Next]_vars PROVE ResInv'
  OBVIOUS
<1>0. ppc # "idle" => "n" \in DOMAIN op /\ op.n \in 1 .. MaxBulk
        /\ Ordinal(tailIndex) + op.n <= MaxItems
  BY DEF ResInv, Enqueuing
<1>1. ASSUME NEW n \in 1 .. MaxBulk, Begin(n) PROVE ResInv'
  <2>1. /\ "n" \in DOMAIN op' /\ op'.n = n /\ Ordinal(tailIndex) + n <= MaxItems
        /\ UNCHANGED <<counters, consumer>>
    BY <1>1 DEF Begin, Ordinal
  <2> QED
    BY <2>1, ResProducer
<1>2. CASE Producing
  <2>1. ASSUME NEW b PROVE ppc # "idle" => "n" \in DOMAIN Got(b) /\ Got(b).n = op.n
    BY <1>0 DEF Got
  <2>2. ASSUME NEW b, NEW fresh, AddEntry(b, fresh), ppc # "idle"
        PROVE  "n" \in DOMAIN op' /\ op'.n = op.n
    <3>1. op' = [Got(b) EXCEPT !.fresh = fresh]
      BY <2>2 DEF AddEntry
    <3> QED
      BY <2>1, <2>2, <3>1
  <2>3. CASE ReuseAhead
    BY <1>0, <2>2, <2>3, ResProducer DEF ReuseAhead
  <2>4. CASE GrowExplicit
    <3>1. op' = [op EXCEPT !.fresh = TRUE,
        !.front = op.used] /\ ppc # "idle" /\ UNCHANGED <<counters, consumer>>
      BY <2>4 DEF GrowExplicit
    <3>2. "n" \in DOMAIN op' /\ op'.n = op.n
      BY <1>0, <3>1
    <3> QED
      BY <1>0, <3>1, <3>2, ResProducer
  <2>5. ASSUME NEW b \in Blocks, NewBlock(b) PROVE ResInv'
    BY <1>0, <2>2, <2>5, ResProducer DEF NewBlock
  <2>6. CASE FailExplicit
    BY <2>6, ResProducer DEF FailExplicit
  <2>7. CASE PublishFront
    BY <1>0, <2>7, ResProducer DEF PublishFront
  <2>8. CASE InsertEntry
    BY <1>0, <2>8, ResProducer DEF InsertEntry
  <2>9. CASE GrowImplicit
    BY <1>0, <2>9, ResProducer DEF GrowImplicit, producer
  <2>10. ASSUME NEW b \in Blocks, ImplicitBlock(b) PROVE ResInv'
    BY <1>0, <2>1, <2>10, ResProducer DEF ImplicitBlock
  <2>11. CASE FailImplicit
    BY <2>11, ResProducer DEF FailImplicit
  <2>12. CASE Fill
    BY <1>0, <2>12, ResProducer DEF Fill
  <2>13. CASE Publish
    BY <2>13, ResPublish
  <2> QED
    BY <1>2, <2>3, <2>4, <2>5, <2>6, <2>7, <2>8, <2>9, <2>10, <2>11, <2>12, <2>13
       DEF Producing, ExplicitEnqueue, ImplicitEnqueue
<1>3. ASSUME NEW c \in Consumers, NEW max \in 1 .. MaxBulk, Load(c, max) PROVE ResInv'
  BY <1>3, ResLoad
<1>4. ASSUME NEW c \in Consumers, Dequeuing(c) PROVE ResInv'
  <2>1. CASE Reserve(c)
    BY <2>1, ResCount, ResDecide, ResSurplus, ResClaim DEF Reserve
  <2>2. ASSUME NextBlock(c), cpc[c] \in {"empty", "free"}, UNCHANGED <<counters, producer>>
        PROVE  ResInv'
    BY <2>2, ResElsewhere DEF NextBlock, Reserving
  <2>3. CASE Locate(c)
    BY <2>3, ResElsewhere DEF Locate, Reserving
  <2>4. CASE Find(c)
    <3>1. /\ cpc[c] = "find" /\ UNCHANGED <<counters, producer>>
          /\ \E l : Local(c, "take", l)
      BY <2>4 DEF Find
    <3> QED
      BY <3>1, ResElsewhere DEF Reserving
  <2>5. CASE Take(c)
    BY <2>5, ResElsewhere DEF Take, Reserving
  <2>6. CASE ExplicitEmpty(c)
    BY <2>2, <2>6 DEF ExplicitEmpty
  <2>7. CASE ImplicitEmpty(c)
    BY <2>2, <2>7, ResElsewhere DEF ImplicitEmpty, Reserving
  <2>8. CASE Clear(c)
    BY <2>8, ResElsewhere DEF Clear, Reserving
  <2>9. CASE Free(c)
    BY <2>2, <2>9 DEF Free
  <2> QED
    BY <1>4, <2>1, <2>3, <2>4, <2>5, <2>6, <2>7, <2>8, <2>9
       DEF Dequeuing, ExplicitDequeue, ImplicitDequeue
<1>5. CASE UNCHANGED vars
  BY <1>0, <1>5, ResProducer DEF vars, producer
<1> QED
  BY <1>1, <1>2, <1>3, <1>4, <1>5 DEF Next

LEMMA HeldSumIs == MapThenSumSet(Held, Consumers) = HeldSum
  BY DEF HeldSum, Sum, MapThenSumSet, MapThenFoldSet

LEMMA DueSumIs == MapThenSumSet(Due, Consumers) = Sum([c \in Consumers |-> Due(c)], Consumers)
  BY DEF Sum, MapThenSumSet, MapThenFoldSet

LEMMA ResAlways == Spec => []ResInv
  BY ResInit, ResStep, PTL DEF Spec

\* What the calls hold is accounted for (ReservationsBalance): dequeueOptimisticCount
\* less dequeueOvercommit is headIndex and what the calls between their first
\* fetch_add and their last hold, for any number of consumers.
THEOREM ReservationsAlwaysBalance == Spec => []ReservationsBalance
<1>1. ResInv => ReservationsBalance
  <2> SUFFICES ASSUME ResInv PROVE ReservationsBalance
    OBVIOUS
  <2> USE NumbersType, Constants
  <2>1. ResType
          /\ Ordinal(dequeueOptimisticCount) = Ordinal(headIndex) + dequeueOvercommit + HeldSum
    BY DEF ResInv
  <2>2. /\ Sub(dequeueOptimisticCount, dequeueOvercommit) \in Indices
        /\ Ordinal(Sub(dequeueOptimisticCount, dequeueOvercommit)) = Ordinal(headIndex) + HeldSum
    <3>1. dequeueOvercommit <= Ordinal(dequeueOptimisticCount) /\ dequeueOptimisticCount \in Indices
      BY <2>1 DEF ResType
    <3> QED
      BY <2>1, <3>1, OrdinalSub
  <2>3. Ordinal(headIndex) + HeldSum < IndexMod
    BY <2>1, OrdinalIs, Circle DEF ResType, Indices
  <2>4. Add(headIndex, HeldSum) \in Indices
          /\ Ordinal(Add(headIndex, HeldSum)) = Ordinal(headIndex) + HeldSum
    BY <2>1, <2>3, OrdinalAdd DEF ResType
  <2>5. Sub(dequeueOptimisticCount, dequeueOvercommit) = Add(headIndex, HeldSum)
    BY <2>2, <2>4, OrdinalInjective
  <2>6. MapThenSumSet(Held, Consumers) = HeldSum
    BY HeldSumIs
  <2> QED
    BY <2>5, <2>6 DEF ReservationsBalance
<1> QED
  BY <1>1, ResAlways, PTL

\* The consumers past their decision never claim more than has been published
\* (NoOverrun), however many decide on a tail and an overcommit that have
\* moved on since they were loaded.
THEOREM NeverOverruns == Spec => []NoOverrun
<1>1. ResInv => NoOverrun
  <2> SUFFICES ASSUME ResInv PROVE NoOverrun
    OBVIOUS
  <2> USE NumbersType, Constants
  <2> DEFINE T == Ordinal(tailIndex)
             H == Ordinal(headIndex)
             D == Sum([c \in Consumers |-> Due(c)], Consumers)
  <2>1. ResType
    BY DEF ResInv
  <2>2. D <= PromisedSum(T) /\ H + PromisedSum(T) <= T
    BY <2>1, DuePromised
  <2>3. Sub(tailIndex, headIndex) = T - H
    BY <2>1, <2>2, Distance DEF ResType
  <2>4. Signed(Sub(tailIndex, headIndex)) = T - H
    BY <2>2, <2>3, Circle DEF Signed
  <2>5. D \in Int
    <3> DEFINE f == [c \in Consumers |-> Due(c)]
    <3>1. \A c \in Consumers : f[c] \in Int
      <4> TAKE c \in Consumers
      <4>1. Due(c) \in Nat /\ f[c] = Due(c)
        BY <2>1, Summands, 0 \in Nat
      <4> QED
        BY <4>1
    <3> HIDE DEF f
    <3> QED
      BY <3>1, SumInt DEF f
  <2>6. MapThenSumSet(Due, Consumers) = D
    BY DueSumIs
  <2> HIDE DEF D
  <2>7. D <= T - H
    BY <2>2, <2>5
  <2> QED
    BY <2>4, <2>6, <2>7 DEF NoOverrun
<1> QED
  BY <1>1, ResAlways, PTL

-----------------------------------------------------------------------------
(* The list of producers: types and owners. *)

Inv == ListTypeOK /\ OneOwner

\* What an owner holds stays well typed when one field is replaced, and when
\* there are more producers.
LEMMA OwnerFields ==
  ASSUME NEW P, NEW r \in OwnerOf(P), NEW x \in P \cup {Null},
         NEW pc \in {"idle", "scan", "load", "push"}
  PROVE  /\ [r EXCEPT !.ptr = x] \in OwnerOf(P)
         /\ [r EXCEPT !.pc = pc] \in OwnerOf(P)
  BY DEF OwnerOf

LEMMA OwnerMade ==
  ASSUME NEW P, NEW w \in OwnerOf(P), NEW n
  PROVE  [w EXCEPT !.pc = "load", !.has = n]
           = [pc |-> "load", has |-> n, ptr |-> w.ptr, explicit |-> w.explicit]
<1> DEFINE v == [w EXCEPT !.pc = "load"]
<1>1. v = [pc |-> "load", has |-> w.has, ptr |-> w.ptr, explicit |-> w.explicit]
  BY DEF OwnerOf
<1>2. [w EXCEPT !.pc = "load", !.has = n] = [v EXCEPT !.has = n]
  BY DEF OwnerOf
<1> HIDE DEF v
<1>3. [v EXCEPT !.has = n] = [pc |-> "load", has |-> n, ptr |-> w.ptr, explicit |-> w.explicit]
  BY <1>1
<1> QED
  BY <1>2, <1>3

LEMMA OwnerReplaced ==
  ASSUME NEW P, NEW Q, P \subseteq Q, NEW f \in [Owners -> OwnerOf(P)], NEW o \in Owners,
         NEW r \in OwnerOf(Q)
  PROVE  [f EXCEPT ![o] = r] \in [Owners -> OwnerOf(Q)]
<1>1. OwnerOf(P) \subseteq OwnerOf(Q)
  BY DEF OwnerOf
<1> QED
  BY <1>1

\* A step that leaves the producers and their owners alone keeps Inv.
LEMMA Untouched == Inv /\ UNCHANGED <<producers, owner>> => Inv'
  BY DEF Inv, ListTypeOK, OneOwner, Producers, producers

LEMMA InitInv == ListInit => Inv
<1> SUFFICES ASSUME ListInit PROVE Inv
  OBVIOUS
<1> USE ProducerListAssumption DEF ListInit, Producers, NoProducer, OwnerOf
<1>1. ListTypeOK
  BY DEF ListTypeOK
<1>2. OneOwner
  BY DEF OneOwner
<1> QED
  BY <1>1, <1>2 DEF Inv

\* Only owners change producers or owners.
LEMMA ConsumersElsewhere ==
  ASSUME NEW c \in Consumers, NEW max,
         \/ MakeConsumerToken(c) \/ StartBest(c) \/ StartList(c, max) \/ StartToken(c, max)
         \/ ConsumerStep(c)
  PROVE  UNCHANGED <<producers, owner>>
  BY DEF MakeConsumerToken, StartBest, StartList, StartToken, ConsumerStep, try_dequeue, Score,
         DequeueBest, DequeueList, update_current_producer_after_rotation, RotateLoadTail, Place,
         token_dequeue, DequeueCurrent, Turn, LoadTailAround, DequeueOthers, Return

\* An owner that lets go of its producer, or has not got one, keeps Inv.
LEMMA Freed ==
  ASSUME Inv, NEW o \in Owners, owner' = [owner EXCEPT ![o] = NoProducer], UNCHANGED producers
  PROVE  Inv'
<1> USE DEF Inv, ListTypeOK, OneOwner, Producers, producers
<1>1. NoProducer \in OwnerOf(Producers) /\ NoProducer.has = Null /\ NoProducer.pc = "idle"
  BY DEF NoProducer, OwnerOf
<1>2. owner' \in [Owners -> OwnerOf(Producers)]
  BY <1>1, OwnerReplaced
<1>3. \A u \in Owners : owner'[u] = owner[u] \/ owner'[u] = NoProducer
  OBVIOUS
<1> QED
  BY <1>1, <1>2, <1>3

\* Storing the tail in the next of a producer keeps the list well typed.
LEMMA Relinked ==
  ASSUME ListTypeOK, NEW p \in Producers, next_prod' = [next_prod EXCEPT ![p] = producerListTail]
  PROVE  /\ next_prod' \in Seq(Nat \cup {Null}) /\ Len(next_prod') = Len(next_prod)
         /\ Producers' = Producers
         /\ \A q \in Producers : next_prod'[q] \in Producers \cup {Null}
  BY DEF ListTypeOK, Producers

LEMMA InvStep == Inv /\ [ListNext]_listVars => Inv'
<1> SUFFICES ASSUME Inv, [ListNext]_listVars PROVE Inv'
  OBVIOUS
<1> USE ProducerListAssumption DEF Inv, ListTypeOK, OneOwner, Producers
<1>0. ASSUME NEW o \in Owners
      PROVE  /\ owner[o] \in OwnerOf(Producers) /\ owner[o].has \in Producers \cup {Null}
             /\ owner[o].ptr \in Producers \cup {Null} /\ owner[o].explicit \in BOOLEAN
  BY DEF OwnerOf
<1>1. ASSUME NEW o \in Owners, NEW explicit \in BOOLEAN, StartProducer(o, explicit) PROVE Inv'
  <2> DEFINE r == [pc |-> "scan", has |-> Null, ptr |-> producerListTail, explicit |-> explicit]
  <2>1. owner' = [owner EXCEPT ![o] = r] /\ UNCHANGED producers
    BY <1>1 DEF StartProducer
  <2>2. r \in OwnerOf(Producers)
    BY DEF OwnerOf
  <2>3. owner' \in [Owners -> OwnerOf(Producers)]
    BY <2>1, <2>2, OwnerReplaced
  <2>4. \A u \in Owners : owner'[u] = owner[u] \/ (owner'[u].pc = "scan" /\ owner'[u].has = Null)
    BY <2>1
  <2> QED
    BY <2>1, <2>3, <2>4 DEF producers
<1>2. ASSUME NEW o \in Owners, Recycle(o) PROVE Inv'
  <2> DEFINE p == owner[o].ptr
  <2>1. /\ p \in Producers /\ p # Null /\ owner[o].pc = "scan"
        /\ UNCHANGED <<producerListTail, next_prod, explicitProducer>>
    BY <1>0, <1>2 DEF Recycle
  <2>2. CASE inactive[p] /\ explicitProducer[p] = owner[o].explicit
    <3> DEFINE r == [pc |-> "idle", has |-> p, ptr |-> Null, explicit |-> explicitProducer[p]]
    <3>1. /\ inactive' = [inactive EXCEPT ![p] = FALSE]
          /\ owner' = [owner EXCEPT ![o] = r]
      BY <1>2, <2>2, Zenon DEF Recycle, Holding
    <3>3. r \in OwnerOf(Producers)
      <4>1. explicitProducer[p] \in BOOLEAN
        BY <2>1
      <4> QED
        BY <2>1, <4>1 DEF OwnerOf
    <3>4. owner' \in [Owners -> OwnerOf(Producers)]
      BY <3>1, <3>3, OwnerReplaced
    <3>5. inactive' \in Seq(BOOLEAN) /\ Len(inactive') = Len(next_prod)
      BY <2>1, <3>1
    <3>6. owner'[o].has = p /\ owner'[o].pc = "idle" /\ \A u \in Owners \ {o} : owner'[u] = owner[u]
      BY <3>1
    <3>7. ListTypeOK'
      BY <2>1, <3>4, <3>5, <3>6
    <3>8. \A u \in Owners : owner[u].has # p
      BY <2>1, <2>2, Zenon
    <3>9. OneOwner'
      BY <2>1, <3>1, <3>6, <3>8
    <3> QED
      BY <3>7, <3>9
  <2>3. CASE ~ (inactive[p] /\ explicitProducer[p] = owner[o].explicit)
    <3>1. owner' = [owner EXCEPT ![o].ptr = next_prod[p]] /\ UNCHANGED inactive
      BY <1>2, <2>3, Zenon DEF Recycle
    <3>2. owner' = [owner EXCEPT ![o] = [owner[o] EXCEPT !.ptr = next_prod[p]]]
      BY <3>1
    <3>3. [owner[o] EXCEPT !.ptr = next_prod[p]] \in OwnerOf(Producers)
      BY <1>0, <2>1, OwnerFields
    <3>4. owner' \in [Owners -> OwnerOf(Producers)]
      BY <3>2, <3>3, OwnerReplaced
    <3>5. /\ owner'[o].pc = "scan" /\ owner'[o].has = owner[o].has
          /\ \A u \in Owners \ {o} : owner'[u] = owner[u]
      BY <1>0, <2>1, <3>2 DEF OwnerOf
    <3>6. ListTypeOK'
      BY <2>1, <3>1, <3>4, <3>5
    <3>7. OneOwner'
      BY <2>1, <3>1, <3>5
    <3> QED
      BY <3>6, <3>7
  <2> QED
    BY <2>2, <2>3
<1>3. ASSUME NEW o \in Owners, CreateProducer(o) PROVE Inv'
  <2> DEFINE n == Len(next_prod) + 1
             r == [pc |-> "load", has |-> n, ptr |-> owner[o].ptr, explicit |-> owner[o].explicit]
  <2>1. /\ next_prod' = Append(next_prod, Null) /\ inactive' = Append(inactive, FALSE)
        /\ explicitProducer' = Append(explicitProducer, owner[o].explicit)
        /\ owner' = [owner EXCEPT ![o].pc = "load", ![o].has = n]
        /\ UNCHANGED producerListTail
    BY <1>3 DEF CreateProducer
  <2>2. /\ next_prod' \in Seq(Nat \cup {Null}) /\ Len(next_prod') = n /\ next_prod'[n] = Null
        /\ \A p \in Producers : next_prod'[p] = next_prod[p]
    BY <2>1
  <2>3. /\ inactive' \in Seq(BOOLEAN) /\ Len(inactive') = n /\ inactive'[n] = FALSE
        /\ \A p \in Producers : inactive'[p] = inactive[p]
    BY <2>1
  <2>4. explicitProducer' \in Seq(BOOLEAN) /\ Len(explicitProducer') = n
    BY <1>0, <2>1
  <2>5. DOMAIN next_prod = 1 .. Len(next_prod) /\ DOMAIN next_prod' = 1 .. n
          /\ n \notin Producers /\ n # Null
    BY <2>2
  <2>6. owner' = [owner EXCEPT ![o] = r]
    <3>1. owner \in [Owners -> OwnerOf(Producers)] /\ o \in Owners
      BY <1>3
    <3>2. [owner[o] EXCEPT !.pc = "load", !.has = n] = r
      BY <1>0, OwnerMade
    <3> HIDE DEF Inv, n, r
    <3>3. owner' = [owner EXCEPT ![o] = [owner[o] EXCEPT !.pc = "load", !.has = n]]
      BY <2>1, <3>1
    <3> QED
      BY <3>2, <3>3
  <2>7. Producers \subseteq Producers' /\ n \in Producers'
    BY <2>5
  <2>8. r \in OwnerOf(Producers')
    BY <1>0, <2>7 DEF OwnerOf
  <2>9. owner' \in [Owners -> OwnerOf(Producers')]
    BY <2>6, <2>7, <2>8, OwnerReplaced
  <2>10. owner'[o].has = n /\ \A u \in Owners \ {o} : owner'[u] = owner[u]
    BY <2>6
  <2>11. ListTypeOK'
    <3>1. \A u \in Owners : owner'[u].pc \in {"load", "push"} => owner'[u].has # Null
      BY <2>5, <2>10
    <3>2. \A p \in Producers' : next_prod'[p] \in Producers' \cup {Null}
      <4>1. ASSUME NEW p \in Producers
            PROVE  next_prod[p] \in Producers' \cup {Null}
        BY <2>5
      <4>2. \A p \in Producers' : p \in Producers \/ p = n
        BY <2>5
      <4> QED
        BY <2>2, <4>1, <4>2
    <3>3. producerListTail' \in Producers' \cup {Null}
      BY <2>1, <2>5
    <3> QED
      BY <2>2, <2>3, <2>4, <2>9, <3>1, <3>2, <3>3
  <2>12. OneOwner'
    <3>1. \A u \in Owners : owner[u].has # n
      BY <1>0, <2>5 DEF OwnerOf
    <3>2. \A u, v \in Owners : u # v /\ owner'[u].has = owner'[v].has => owner'[u].has = Null
      BY <2>10, <3>1
    <3>3. ASSUME NEW u \in Owners, owner'[u].has # Null PROVE ~inactive'[owner'[u].has]
      <4>1. CASE u = o
        BY <2>3, <2>10, <4>1
      <4>2. CASE u # o
        <5>1. owner[u].has \in Producers
          BY <1>0, <2>10, <3>3, <4>2 DEF OwnerOf
        <5> QED
          BY <2>3, <2>10, <3>3, <4>2, <5>1
      <4> QED
        BY <4>1, <4>2
    <3> QED
      BY <3>2, <3>3
  <2> QED
    BY <2>11, <2>12
<1>4. ASSUME NEW o \in Owners, CreateFails(o) PROVE Inv'
  BY <1>4, Freed DEF CreateFails, producers
<1>5. ASSUME NEW o \in Owners, LoadTail(o) PROVE Inv'
  <2>1. /\ owner[o].has \in Producers
        /\ next_prod' = [next_prod EXCEPT ![owner[o].has] = producerListTail]
        /\ owner' = [owner EXCEPT ![o].pc = "push"]
        /\ UNCHANGED <<producerListTail, inactive, explicitProducer>>
    BY <1>0, <1>5 DEF LoadTail
  <2>2. owner' = [owner EXCEPT ![o] = [owner[o] EXCEPT !.pc = "push"]]
    BY <2>1
  <2>3. owner' \in [Owners -> OwnerOf(Producers)]
    BY <1>0, <2>2, OwnerFields, OwnerReplaced
  <2>4. \A u \in Owners : owner'[u].has = owner[u].has /\ (owner'[u].pc # owner[u].pc => u = o)
    BY <1>0, <2>2 DEF OwnerOf
  <2>5. \A u \in Owners : owner'[u].pc \in {"load", "push"} => owner'[u].has # Null
    BY <1>5, <2>4 DEF LoadTail
  <2>6. ListTypeOK'
    BY <2>1, <2>3, <2>5, Relinked
  <2>7. OneOwner'
    BY <2>1, <2>4
  <2> QED
    BY <2>6, <2>7
<1>6. ASSUME NEW o \in Owners, PushProducer(o) PROVE Inv'
  <2>1. CASE producerListTail = next_prod[owner[o].has]
    <3>1. /\ owner[o].has \in Producers
          /\ producerListTail' = owner[o].has
          /\ owner' = [owner EXCEPT ![o].pc = "idle"]
          /\ UNCHANGED <<next_prod, inactive, explicitProducer>>
      BY <1>0, <1>6, <2>1 DEF PushProducer
    <3>2. owner' = [owner EXCEPT ![o] = [owner[o] EXCEPT !.pc = "idle"]]
      BY <3>1
    <3>3. owner' \in [Owners -> OwnerOf(Producers)]
      BY <1>0, <3>2, OwnerFields, OwnerReplaced
    <3>4. \A u \in Owners : owner'[u].has = owner[u].has /\ owner'[u].pc \in {owner[u].pc, "idle"}
      BY <1>0, <3>2 DEF OwnerOf
    <3>5. ListTypeOK'
      BY <3>1, <3>3, <3>4
    <3>6. OneOwner'
      BY <3>1, <3>4
    <3> QED
      BY <3>5, <3>6
  <2>2. CASE producerListTail # next_prod[owner[o].has]
    <3>1. /\ owner[o].has \in Producers
          /\ next_prod' = [next_prod EXCEPT ![owner[o].has] = producerListTail]
          /\ UNCHANGED <<producerListTail, inactive, explicitProducer, owner>>
      BY <1>0, <1>6, <2>2 DEF PushProducer
    <3>2. ListTypeOK'
      BY <3>1, Relinked
    <3>3. OneOwner'
      BY <3>1
    <3> QED
      BY <3>2, <3>3
  <2> QED
    BY <2>1, <2>2
<1>7. ASSUME NEW o \in Owners, DestroyToken(o) PROVE Inv'
  <2> DEFINE p == owner[o].has
  <2>1. /\ p \in Producers /\ p # Null
        /\ inactive' = [inactive EXCEPT ![p] = TRUE] /\ owner' = [owner EXCEPT ![o] = NoProducer]
        /\ UNCHANGED <<producerListTail, next_prod, explicitProducer>>
    BY <1>0, <1>7 DEF DestroyToken
  <2>2. NoProducer \in OwnerOf(Producers) /\ NoProducer.has = Null /\ NoProducer.pc = "idle"
    BY DEF NoProducer, OwnerOf
  <2>3. owner' \in [Owners -> OwnerOf(Producers)]
    BY <2>1, <2>2, OwnerReplaced
  <2>4. inactive' \in Seq(BOOLEAN) /\ Len(inactive') = Len(next_prod)
    BY <2>1
  <2>5. owner'[o] = NoProducer /\ \A u \in Owners \ {o} : owner'[u] = owner[u] /\ owner[u].has # p
    BY <2>1
  <2>6. ListTypeOK'
    BY <2>1, <2>2, <2>3, <2>4, <2>5
  <2>7. OneOwner'
    BY <2>1, <2>2, <2>5, <1>0
  <2> QED
    BY <2>6, <2>7
<1>8. ASSUME NEW o \in Owners, Enqueue(o) PROVE Inv'
  BY <1>8, Untouched DEF Enqueue
<1>9. ASSUME UNCHANGED listVars PROVE Inv'
  BY <1>9, Untouched DEF listVars
<1>10. ASSUME NEW c \in Consumers, NEW max,
              \/ MakeConsumerToken(c) \/ StartBest(c) \/ StartList(c, max) \/ StartToken(c, max)
              \/ ConsumerStep(c)
       PROVE  Inv'
  BY <1>10, ConsumersElsewhere, Untouched
<1> QED
  BY <1>1, <1>2, <1>3, <1>4, <1>5, <1>6, <1>7, <1>8, <1>9, <1>10
     DEF ListNext, OwnerStep, recycle_or_create_producer, add_producer

LEMMA InvAlways == ListSpec => []Inv
<1>1. ListInit => Inv
  BY InitInv
<1> QED
  BY <1>1, InvStep, PTL DEF ListSpec

\* The list of producers and what the owners hold are well typed: nobody
\* holds or follows a pointer to a producer that was never made.
THEOREM ListTypeCorrect == ListSpec => []ListTypeOK
<1>1. Inv => ListTypeOK
  BY DEF Inv
<1> QED
  BY <1>1, InvAlways, PTL

\* recycle_or_create_producer and ~ProducerToken: whatever the interleaving,
\* no producer has two owners and an inactive one has none.
THEOREM OneOwnerAlways == ListSpec => []OneOwner
<1>1. Inv => OneOwner
  BY DEF Inv
<1> QED
  BY <1>1, InvAlways, PTL

-----------------------------------------------------------------------------
(* Searching the list.                                                     *)

\* The producers that have been put on the list: all but those an owner is
\* about to put there.
OnList ==
  {p \in Producers : \A o \in Owners : owner[o].pc \in {"load", "push"} => owner[o].has # p}

\* r numbers the producers of the list, the last one on it being the first.
Linked(r) ==
  /\ r \in [Nat -> Nat]
  /\ IF producerListTail = Null THEN OnList = {} ELSE producerListTail \in OnList
  /\ \A p \in OnList :
       /\ r[p] >= 1 /\ r[p] <= r[producerListTail]
       /\ IF next_prod[p] = Null THEN r[p] = 1
            ELSE next_prod[p] \in OnList /\ r[next_prod[p]] = r[p] - 1
       /\ \A q \in OnList : r[q] = r[p] => q = p

Sizes ==
  /\ size \in Seq(Nat) /\ Len(size) = Len(next_prod)
  /\ \A p \in Producers \ OnList : size[p] = 0

CallOn(P) ==
  [pc : {"idle", "score", "best", "list", "rotate", "place", "current", "turn", "around",
         "others", "return"},
   ptr : P \cup {Null}, tail : P \cup {Null}, best : P \cup {Null},
   bestSize : Nat, nonEmpty : Nat, count : Nat, left : Nat, max : Nat, start : Nat,
   alone : BOOLEAN]

TokenOf(P) ==
  [initialOffset : Nat \cup {Null}, last : Int, consumed : Nat,
   current : P \cup {Null}, desired : P \cup {Null}]

ConsumerType ==
  /\ producerCount = Len(next_prod) /\ nextExplicitConsumerId \in Nat
  /\ globalExplicitConsumerOffset \in Nat
  /\ call \in [Consumers -> CallOn(OnList)] /\ token \in [Consumers -> TokenOf(OnList)]

\* Where a call stands.
Standing(r, c) ==
  /\ call[c].count + call[c].left = call[c].max
  /\ call[c].nonEmpty > 0 \/ call[c].pc = "best" => call[c].best # Null
  /\ call[c].best = Null => call[c].bestSize = 0
  /\ call[c].pc \in {"rotate", "place"} => token[c].initialOffset # Null
  /\ call[c].pc = "place" => call[c].tail # Null
  /\ call[c].pc \in {"current", "around", "others"} \/ token[c].desired # Null
       => token[c].current # Null
  /\ call[c].pc = "others" =>
       /\ call[c].ptr # Null /\ call[c].tail # Null
       /\ r[call[c].ptr] <= r[call[c].tail] /\ r[token[c].current] <= r[call[c].tail]

\* Going down from rank a, and around from top, one passes rank x before b.
Between(x, a, b, top) == x <= top /\ IF b < a THEN b < x /\ x <= a ELSE a < b /\ (x <= a \/ b < x)

\* The producers a call has yet to try.
Waiting(r, c, p) ==
  \/ call[c].pc \in {"rotate", "place", "current"}
  \/ call[c].pc = "around" /\ p # token[c].current
  \/ call[c].pc = "others" /\ Between(r[p], r[call[c].ptr], r[token[c].current], r[call[c].tail])
  \/ call[c].pc \in {"score", "list"} /\ call[c].ptr # Null /\ r[p] <= r[call[c].ptr]

Untried(r, c) == {p \in OnList : Waiting(r, c, p)}

\* It has not found anything yet that it will take before it returns.
Looking(c) ==
  \/ call[c].pc \in {"list", "rotate", "place", "current", "around", "others"}
  \/ call[c].pc = "score" /\ call[c].nonEmpty = 0

\* A call beside which there is no other has got what was there when it began,
\* or there is as much in the producers it has yet to try.
Searching(r, c) ==
  call[c].alone /\ call[c].pc # "idle" =>
    /\ \A d \in Consumers \ {c} : call[d].pc = "idle"
    /\ call[c].pc \in {"score", "best"} => call[c].count = 0 /\ call[c].max = 1
    /\ call[c].pc \in {"score", "best"} /\ call[c].best # Null => size[call[c].best] > 0
    /\ call[c].pc = "list" => call[c].best = Null
    /\ call[c].pc = "turn" => call[c].left = 0
    /\ call[c].pc = "return" => call[c].count >= call[c].max \/ call[c].count >= call[c].start
    /\ Looking(c) => call[c].count + Sum(size, Untried(r, c)) >= call[c].start

ListInv ==
  /\ Sizes /\ ConsumerType
  /\ \E r : Linked(r) /\ \A c \in Consumers : Standing(r, c) /\ Searching(r, c)

LEMMA Places ==
  ListTypeOK => /\ Producers = 1 .. Len(next_prod) /\ Producers \subseteq Nat
                     /\ IsFiniteSet(Producers)
            /\ OnList \subseteq Producers /\ IsFiniteSet(OnList) /\ Null \notin Producers
<1> SUFFICES ASSUME ListTypeOK
             PROVE  /\ Producers = 1 .. Len(next_prod) /\ Producers \subseteq Nat
                    /\ IsFiniteSet(Producers)
                    /\ OnList \subseteq Producers /\ IsFiniteSet(OnList) /\ Null \notin Producers
  OBVIOUS
<1>1. Producers = 1 .. Len(next_prod) /\ Len(next_prod) \in Nat
  BY DEF ListTypeOK, Producers
<1>2. IsFiniteSet(Producers)
  BY <1>1, FS_Interval
<1>3. OnList \subseteq Producers
  BY DEF OnList
<1>4. IsFiniteSet(OnList)
  BY <1>2, <1>3, FS_Subset
<1> QED
  BY <1>1, <1>2, <1>3, <1>4, ProducerListAssumption

\* There are sums of sizes over any part of the list.
Summable ==
  /\ DOMAIN size = Producers /\ \A p \in Producers : size[p] \in Nat
  /\ \A S \in SUBSET Producers : IsFiniteSet(S) /\ Sum(size, S) \in Int

LEMMA SizesAdd == ListTypeOK /\ Sizes => Summable
<1> SUFFICES ASSUME ListTypeOK, Sizes PROVE Summable
  OBVIOUS
<1>1. DOMAIN size = Producers /\ \A p \in Producers : size[p] \in Nat
  BY Places DEF Sizes
<1>2. ASSUME NEW S \in SUBSET Producers PROVE IsFiniteSet(S) /\ Sum(size, S) \in Int
  <2>1. IsFiniteSet(S)
    BY Places, FS_Subset
  <2>2. \A p \in S : size[p] \in Int
    BY <1>1
  <2> QED
    BY <2>1, <2>2, SumInt
<1> QED
  BY <1>1, <1>2 DEF Summable

LEMMA SizesAddNext == ListTypeOK' /\ Sizes' => Summable'
  BY SizesAdd, PTL

LEMMA Wider ==
  ASSUME NEW P, NEW Q, P \subseteq Q
  PROVE  CallOn(P) \subseteq CallOn(Q) /\ TokenOf(P) \subseteq TokenOf(Q)
<1>1. CallOn(P) \subseteq CallOn(Q)
  BY DEF CallOn
<1>2. TokenOf(P) \subseteq TokenOf(Q)
  BY DEF TokenOf
<1> QED
  BY <1>1, <1>2

\* Where a call stands and what it has yet to find when nobody dequeues.
LEMMA NobodyDequeues ==
  ASSUME ListTypeOK, ListTypeOK', Sizes, Sizes', ConsumerType, NEW c \in Consumers, NEW r, NEW q,
         OnList \subseteq OnList', \A p \in OnList : q[p] = r[p] /\ size[p] <= size'[p],
         UNCHANGED <<call, token>>, Standing(r, c), Searching(r, c)
  PROVE  Standing(q, c)' /\ Searching(q, c)'
<1>1. /\ call[c].ptr \in OnList \cup {Null} /\ call[c].tail \in OnList \cup {Null}
      /\ token[c].current \in OnList \cup {Null}
  BY DEF ConsumerType, CallOn, TokenOf
<1>2. Standing(q, c)'
  BY <1>1 DEF Standing
<1>3. Untried(r, c) \subseteq Untried(q, c)'
  <2> SUFFICES ASSUME NEW p \in OnList, Waiting(r, c, p) PROVE p \in OnList' /\ Waiting(q, c, p)'
    BY DEF Untried
  <2> QED
    BY <1>1 DEF Waiting, Between, Standing
<1>4. /\ Sum(size, Untried(r, c)) <= Sum(size', Untried(q, c)')
      /\ Sum(size, Untried(r, c)) \in Int /\ Sum(size', Untried(q, c)') \in Int
  <2> DEFINE U == Untried(r, c)
             V == Untried(q, c)'
  <2>1. U \subseteq OnList /\ V \subseteq OnList' /\ U \subseteq V
    BY <1>3 DEF Untried
  <2>2. U \subseteq Producers /\ V \subseteq Producers' /\ U \subseteq Producers'
    BY <2>1 DEF OnList
  <2>3. /\ IsFiniteSet(U) /\ Sum(size, U) \in Int
        /\ \A p \in U : size[p] \in Nat
    BY <2>2, SizesAdd DEF Summable
  <2>4. /\ IsFiniteSet(V) /\ Sum(size', V) \in Int /\ Sum(size', U) \in Int
        /\ \A p \in V : size'[p] \in Nat
    BY <2>2, SizesAddNext DEF Summable
  <2>5. \A p \in U : size[p] \in Int /\ size'[p] \in Int /\ size[p] <= size'[p]
    BY <2>1, <2>3, <2>4
  <2> HIDE DEF U, V
  <2>6. Sum(size, U) <= Sum(size', U)
    BY <2>3, <2>5, SumMonotone
  <2>7. Sum(size', U) <= Sum(size', V)
    BY <2>1, <2>4, SumSubset
  <2>8. Sum(size, U) <= Sum(size', V)
    BY <2>3, <2>4, <2>6, <2>7
  <2> QED
    BY <2>3, <2>4, <2>8 DEF U, V
<1>5. Searching(q, c)'
  <2>1. call[c].count \in Nat /\ call[c].start \in Nat
    BY DEF ConsumerType, CallOn
  <2>2. ASSUME call[c].best # Null, size[call[c].best] > 0 PROVE size'[call[c].best] > 0
    <3> DEFINE p == call[c].best
    <3>1. p \in OnList /\ p \in Producers /\ p \in Producers'
      BY <2>2 DEF ConsumerType, CallOn, OnList
    <3>2. size[p] \in Nat /\ size'[p] \in Nat /\ size[p] <= size'[p]
      BY <3>1, SizesAdd, SizesAddNext DEF Summable
    <3> QED
      BY <2>2, <3>2
  <2> QED
    BY <1>4, <2>1, <2>2 DEF Searching, Looking
<1> QED
  BY <1>2, <1>5

-----------------------------------------------------------------------------
(* What the owners do.                                                     *)

LEMMA NobodyDequeuesAtAll ==
  ASSUME ListTypeOK, ListTypeOK', Sizes, Sizes', ConsumerType, NEW r, NEW q, Linked(q)',
         \A c \in Consumers : Standing(r, c) /\ Searching(r, c),
         OnList \subseteq OnList', \A p \in OnList : q[p] = r[p] /\ size[p] <= size'[p],
         producerCount' = Len(next_prod'), UNCHANGED <<rotation, call, token>>
  PROVE  ListInv'
<1>1. \A c \in Consumers : Standing(q, c)' /\ Searching(q, c)'
  BY NobodyDequeues
<1>2. ConsumerType'
  <2>1. CallOn(OnList) \subseteq CallOn(OnList') /\ TokenOf(OnList) \subseteq TokenOf(OnList')
    BY Wider
  <2> QED
    BY <2>1 DEF ConsumerType, rotation
<1> QED
  BY <1>1, <1>2 DEF ListInv

LEMMA SameList ==
  ASSUME NEW r, Linked(r), OnList' = OnList, producerListTail' = producerListTail,
         \A p \in OnList : next_prod'[p] = next_prod[p]
  PROVE  Linked(r)'
  BY DEF Linked

LEMMA InitListInv == ListInit => ListInv
<1> SUFFICES ASSUME ListInit PROVE ListInv
  OBVIOUS
<1>1. Producers = {} /\ OnList = {} /\ next_prod = << >> /\ size = << >>
  BY DEF ListInit, Producers, OnList
<1>2. Sizes
  BY <1>1 DEF Sizes
<1>3. OutsideCall \in CallOn(OnList) /\ NoToken \in TokenOf(OnList)
  BY DEF OutsideCall, CallOn, NoToken, TokenOf
<1>4. ConsumerType
  BY <1>1, <1>3 DEF ConsumerType, ListInit
<1>5. Linked([n \in Nat |-> 0])
  BY <1>1 DEF Linked, ListInit
<1>6. \A c \in Consumers : call[c] = OutsideCall /\ token[c] = NoToken
  BY DEF ListInit
<1>7. ASSUME NEW c \in Consumers, NEW r PROVE Standing(r, c) /\ Searching(r, c)
  BY <1>6 DEF Standing, Searching, OutsideCall, NoToken
<1> QED
  BY <1>2, <1>4, <1>5, <1>7 DEF ListInv

\* Neither before nor after is the owner about to put anything on the list.
LEMMA Elsewhere ==
  ASSUME Inv, Inv', ListInv, NEW o \in Owners,
         UNCHANGED <<producerListTail, producerCount, next_prod, size, rotation, token, call>>,
         \A u \in Owners \ {o} : owner'[u] = owner[u],
         owner[o].pc \notin {"load", "push"}, owner'[o].pc \notin {"load", "push"}
  PROVE  ListInv'
<1>1. PICK r : Linked(r) /\ \A c \in Consumers : Standing(r, c) /\ Searching(r, c)
  BY DEF ListInv
<1>2. OnList' = OnList
  BY DEF OnList, Producers
<1>3. Linked(r)'
  BY <1>1, <1>2, SameList
<1>4. Sizes /\ ConsumerType /\ ListTypeOK /\ ListTypeOK'
  BY DEF Inv, ListInv
<1>5. Sizes'
  BY <1>2, <1>4 DEF Sizes, Producers
<1>6. \A p \in OnList : size[p] <= size'[p]
  BY <1>4, Places, SizesAdd DEF Summable
<1>7. producerCount' = Len(next_prod')
  BY <1>4 DEF ConsumerType
<1> QED
  BY <1>1, <1>2, <1>3, <1>4, <1>5, <1>6, <1>7, NobodyDequeuesAtAll

LEMMA StartProducerListInv ==
  ASSUME Inv, Inv', ListInv, NEW o \in Owners, NEW explicit \in BOOLEAN, StartProducer(o, explicit)
  PROVE  ListInv'
<1>1. /\ owner' = [owner EXCEPT ![o] = [pc |-> "scan", has |-> Null, ptr |-> producerListTail,
                                        explicit |-> explicit]]
      /\ owner \in [Owners -> OwnerOf(Producers)] /\ owner[o].pc = "idle"
  BY DEF Inv, ListTypeOK, StartProducer
<1>2. owner'[o].pc = "scan" /\ \A u \in Owners \ {o} : owner'[u] = owner[u]
  BY <1>1
<1> QED
  BY <1>1, <1>2, Elsewhere DEF StartProducer, producers

LEMMA RecycleListInv ==
  ASSUME Inv, Inv', ListInv, NEW o \in Owners, Recycle(o)
  PROVE  ListInv'
<1>1. owner \in [Owners -> OwnerOf(Producers)] /\ owner[o].pc = "scan"
  BY DEF Inv, ListTypeOK, Recycle
<1>2. \/ owner' = [owner EXCEPT ![o] = Holding(owner[o].ptr)]
      \/ owner' = [owner EXCEPT ![o] = [owner[o] EXCEPT !.ptr = next_prod[owner[o].ptr]]]
  BY <1>1 DEF Recycle
<1>3. Holding(owner[o].ptr).pc = "idle"
        /\ [owner[o] EXCEPT !.ptr = next_prod[owner[o].ptr]].pc = "scan"
  BY <1>1 DEF Holding, OwnerOf
<1>4. owner'[o].pc \in {"idle", "scan"} /\ \A u \in Owners \ {o} : owner'[u] = owner[u]
  BY <1>1, <1>2, <1>3
<1> QED
  BY <1>1, <1>4, Elsewhere DEF Recycle

LEMMA LetGoListInv ==
  ASSUME Inv, Inv', ListInv, NEW o \in Owners, CreateFails(o) \/ DestroyToken(o)
  PROVE  ListInv'
<1>1. owner \in [Owners -> OwnerOf(Producers)] /\ owner[o].pc \in {"idle", "scan"}
  BY DEF Inv, ListTypeOK, CreateFails, DestroyToken, Owns
<1>2. owner'[o].pc = "idle" /\ \A u \in Owners \ {o} : owner'[u] = owner[u]
  BY <1>1 DEF CreateFails, DestroyToken, NoProducer
<1> QED
  BY <1>1, <1>2, Elsewhere DEF CreateFails, DestroyToken, producers

\* A new producer is not on the list, and empty.
LEMMA CreateListInv ==
  ASSUME Inv, Inv', ListInv, NEW o \in Owners, CreateProducer(o)
  PROVE  ListInv'
<1>1. PICK r : Linked(r) /\ \A c \in Consumers : Standing(r, c) /\ Searching(r, c)
  BY DEF ListInv
<1>2. Sizes /\ ConsumerType /\ ListTypeOK /\ ListTypeOK'
  BY DEF Inv, ListInv
<1> DEFINE n == Len(next_prod) + 1
<1>3. /\ owner[o].pc = "scan" /\ next_prod' = Append(next_prod, Null) /\ size' = Append(size, 0)
      /\ producerCount' = producerCount + 1
      /\ owner' = [owner EXCEPT ![o].pc = "load", ![o].has = n]
      /\ UNCHANGED <<producerListTail, rotation, token, call>>
  BY DEF CreateProducer
<1>4. /\ next_prod \in Seq(Nat \cup {Null}) /\ size \in Seq(Nat) /\ Len(size) = Len(next_prod)
      /\ owner \in [Owners -> OwnerOf(Producers)]
  BY <1>2 DEF ListTypeOK, Sizes
<1>5. /\ Len(next_prod') = n /\ \A p \in Producers : next_prod'[p] = next_prod[p]
           /\ size'[p] = size[p]
      /\ size' \in Seq(Nat) /\ Len(size') = n /\ size'[n] = 0
  BY <1>3, <1>4, <1>2, Places
<1>6. Producers' = Producers \cup {n} /\ n \notin Producers
  BY <1>3, <1>4 DEF Producers
<1>7. /\ owner'[o].pc = "load" /\ owner'[o].has = n
      /\ \A u \in Owners \ {o} : owner'[u] = owner[u]
  BY <1>3, <1>4 DEF OwnerOf
<1>8. OnList' = OnList
  <2>1. n \notin OnList'
    BY <1>7 DEF OnList
  <2>2. ASSUME NEW p \in Producers PROVE p \in OnList' <=> p \in OnList
    <3>1. p \in Producers' /\ p # n
      BY <1>6
    <3> QED
      BY <1>3, <1>7, <3>1 DEF OnList
  <2>3. OnList \subseteq Producers /\ OnList' \subseteq Producers'
    BY DEF OnList
  <2> QED
    BY <1>6, <2>1, <2>2, <2>3
<1>9. \A p \in OnList : next_prod'[p] = next_prod[p] /\ size[p] <= size'[p]
  BY <1>2, <1>5, Places, SizesAdd DEF Summable
<1>10. Linked(r)'
  BY <1>1, <1>3, <1>8, <1>9, SameList
<1>11. Sizes'
  <2>1. \A p \in Producers' \ OnList' : size'[p] = 0
    BY <1>2, <1>5, <1>6, <1>8 DEF Sizes
  <2> QED
    BY <1>5, <2>1 DEF Sizes
<1>12. producerCount' = Len(next_prod')
  BY <1>2, <1>3, <1>5 DEF ConsumerType
<1> QED
  BY <1>1, <1>2, <1>3, <1>8, <1>9, <1>10, <1>11, <1>12, NobodyDequeuesAtAll

\* The owner aims its producer at the tail: LoadTail, or another attempt.
LEMMA AimListInv ==
  ASSUME Inv, Inv', ListInv, NEW o \in Owners, owner[o].pc \in {"load", "push"},
         next_prod' = [next_prod EXCEPT ![owner[o].has] = producerListTail],
         \A u \in Owners \ {o} : owner'[u] = owner[u],
         owner'[o].pc = "push", owner'[o].has = owner[o].has,
         UNCHANGED <<producerListTail, producerCount, size, rotation, token, call>>
  PROVE  ListInv'
<1>1. PICK r : Linked(r) /\ \A c \in Consumers : Standing(r, c) /\ Searching(r, c)
  BY DEF ListInv
<1>2. Sizes /\ ConsumerType /\ ListTypeOK /\ ListTypeOK'
  BY DEF Inv, ListInv
<1>3. Producers' = Producers /\ Len(next_prod') = Len(next_prod)
  BY <1>2 DEF ListTypeOK, Producers
<1>4. OnList' = OnList /\ owner[o].has \notin OnList
  BY <1>3 DEF OnList
<1>5. \A p \in OnList : next_prod'[p] = next_prod[p] /\ size[p] <= size'[p]
  <2>1. \A p \in OnList : p \in Producers /\ size[p] \in Nat
    BY <1>2, Places, SizesAdd DEF Summable
  <2> QED
    BY <1>4, <2>1 DEF Producers
<1>6. Linked(r)'
  BY <1>1, <1>4, <1>5, SameList
<1>7. Sizes'
  BY <1>2, <1>3, <1>4 DEF Sizes
<1>8. producerCount' = Len(next_prod')
  BY <1>2, <1>3 DEF ConsumerType
<1> QED
  BY <1>1, <1>2, <1>4, <1>5, <1>6, <1>7, <1>8, NobodyDequeuesAtAll

\* A producer that is put on the list is empty and comes first from then on.
LEMMA PushedListInv ==
  ASSUME Inv, Inv', ListInv, NEW o \in Owners, owner[o].pc = "push",
         producerListTail = next_prod[owner[o].has], producerListTail' = owner[o].has,
         \A u \in Owners \ {o} : owner'[u] = owner[u], owner'[o].pc = "idle",
         UNCHANGED <<producerCount, next_prod, size, rotation, token, call>>
  PROVE  ListInv'
<1>1. PICK r : Linked(r) /\ \A c \in Consumers : Standing(r, c) /\ Searching(r, c)
  BY DEF ListInv
<1>2. Sizes /\ ConsumerType /\ ListTypeOK /\ ListTypeOK' /\ OneOwner
  BY DEF Inv, ListInv
<1> DEFINE p == owner[o].has
           top == IF producerListTail = Null THEN 0 ELSE r[producerListTail]
<1>3. p \in Producers /\ p # Null /\ p \in Nat /\ p \notin OnList /\ Producers' = Producers
  BY <1>2, Places DEF ListTypeOK, OwnerOf, OnList, Producers
<1>4. OnList' = OnList \cup {p}
  BY <1>2, <1>3 DEF OnList, OneOwner
<1>5. /\ r \in [Nat -> Nat] /\ OnList \subseteq Nat /\ Null \notin OnList /\ top \in Nat
      /\ \A x \in OnList : r[x] \in Nat
  BY <1>1, <1>2, Places DEF Linked
<1>6. PICK q \in [Nat -> Nat] : q[p] = top + 1 /\ \A x \in OnList : q[x] = r[x]
  <2> DEFINE k == [r EXCEPT ![p] = top + 1]
  <2>1. k \in [Nat -> Nat] /\ k[p] = top + 1 /\ \A x \in OnList : k[x] = r[x]
    BY <1>3, <1>5
  <2> HIDE DEF k
  <2> QED
    BY <2>1
<1>7. /\ producerListTail \in OnList \cup {Null} /\ (producerListTail = Null => OnList = {})
      /\ \A x \in OnList :
           /\ r[x] >= 1 /\ r[x] <= top
           /\ IF next_prod[x] = Null THEN r[x] = 1
                ELSE next_prod[x] \in OnList /\ r[next_prod[x]] = r[x] - 1
           /\ \A y \in OnList : r[y] = r[x] => y = x
  BY <1>1 DEF Linked
<1>8. Linked(q)'
  <2>1. \A x \in OnList' : q[x] >= 1 /\ q[x] <= q[producerListTail']
    BY <1>4, <1>5, <1>6, <1>7
  <2>2. \A x \in OnList' : IF next_prod[x] = Null THEN q[x] = 1
                           ELSE next_prod[x] \in OnList' /\ q[next_prod[x]] = q[x] - 1
    <3>1. CASE producerListTail = Null
      <4>1. OnList' = {p} /\ next_prod[p] = Null /\ q[p] = 1
        BY <1>4, <1>6, <1>7, <3>1
      <4> QED
        BY <4>1
    <3>2. CASE producerListTail # Null
      <4>1. next_prod[p] = producerListTail /\ producerListTail \in OnList /\ q[next_prod[p]] = top
        BY <1>6, <1>7, <3>2
      <4>2. ASSUME NEW x \in OnList
            PROVE  IF next_prod[x] = Null THEN q[x] = 1
                   ELSE next_prod[x] \in OnList' /\ q[next_prod[x]] = q[x] - 1
        BY <1>4, <1>6, <1>7
      <4>3. next_prod[p] # Null /\ next_prod[p] \in OnList' /\ q[next_prod[p]] = q[p] - 1
        BY <1>4, <1>5, <1>6, <3>2, <4>1
      <4> QED
        BY <1>4, <4>2, <4>3
    <3> QED
      BY <3>1, <3>2
  <2>3. \A x, y \in OnList' : q[x] = q[y] => x = y
    BY <1>4, <1>5, <1>6, <1>7
  <2> QED
    <3>1. producerListTail' # Null /\ producerListTail' \in OnList'
      BY <1>3, <1>4
    <3> QED
      BY <1>6, <2>1, <2>2, <2>3, <3>1 DEF Linked
<1>9. Sizes'
  BY <1>2, <1>3, <1>4 DEF Sizes
<1>10. producerCount' = Len(next_prod')
  BY <1>2 DEF ConsumerType
<1>11. \A x \in OnList : size[x] <= size'[x]
  BY <1>2, Places, SizesAdd DEF Summable
<1> QED
  BY <1>1, <1>2, <1>4, <1>6, <1>8, <1>9, <1>10, <1>11, NobodyDequeuesAtAll

LEMMA AddListInv ==
  ASSUME Inv, Inv', ListInv, NEW o \in Owners, add_producer(o)
  PROVE  ListInv'
<1>1. owner \in [Owners -> OwnerOf(Producers)]
  BY DEF Inv, ListTypeOK
<1>2. CASE LoadTail(o)
  <2>1. owner' = [owner EXCEPT ![o] = [owner[o] EXCEPT !.pc = "push"]]
    BY <1>1, <1>2 DEF LoadTail
  <2>2. /\ owner'[o].pc = "push" /\ owner'[o].has = owner[o].has
        /\ \A u \in Owners \ {o} : owner'[u] = owner[u]
    BY <1>1, <2>1 DEF OwnerOf
  <2> QED
    BY <1>2, <2>2, AimListInv DEF LoadTail
<1>3. CASE PushProducer(o) /\ producerListTail = next_prod[owner[o].has]
  <2>1. owner' = [owner EXCEPT ![o] = [owner[o] EXCEPT !.pc = "idle"]]
    BY <1>1, <1>3 DEF PushProducer
  <2>2. owner'[o].pc = "idle" /\ \A u \in Owners \ {o} : owner'[u] = owner[u]
    BY <1>1, <2>1 DEF OwnerOf
  <2> QED
    BY <1>3, <2>2, PushedListInv DEF PushProducer
<1>4. CASE PushProducer(o) /\ producerListTail # next_prod[owner[o].has]
  BY <1>4, AimListInv DEF PushProducer
<1> QED
  BY <1>2, <1>3, <1>4 DEF add_producer

LEMMA EnqueueListInv ==
  ASSUME Inv, Inv', ListInv, NEW o \in Owners, Enqueue(o)
  PROVE  ListInv'
<1>1. PICK r : Linked(r) /\ \A c \in Consumers : Standing(r, c) /\ Searching(r, c)
  BY DEF ListInv
<1>2. Sizes /\ ConsumerType /\ ListTypeOK /\ ListTypeOK' /\ OneOwner
  BY DEF Inv, ListInv
<1> DEFINE p == owner[o].has
<1>3. /\ p # Null /\ owner[o].pc = "idle" /\ size' = [size EXCEPT ![p] = @ + 1]
      /\ UNCHANGED <<producerListTail, producerCount, next_prod, owner, rotation, token, call>>
  BY DEF Enqueue, Owns, producers
<1>4. p \in Producers
  BY <1>2, <1>3 DEF ListTypeOK, OwnerOf
<1>5. OnList' = OnList /\ Producers' = Producers /\ p \in OnList
  BY <1>2, <1>3, <1>4 DEF OnList, Producers, OneOwner
<1>6. DOMAIN size = Producers /\ (\A x \in Producers : size[x] \in Nat) /\ size \in Seq(Nat)
  BY <1>2, SizesAdd DEF Summable, Sizes
<1>7. /\ size' \in Seq(Nat) /\ Len(size') = Len(size)
      /\ \A x \in Producers : size'[x] = IF x = p THEN size[x] + 1 ELSE size[x]
  BY <1>3, <1>4, <1>6
<1>8. Sizes'
  BY <1>2, <1>3, <1>5, <1>7 DEF Sizes
<1>9. \A x \in OnList : size[x] <= size'[x]
  <2>1. OnList \subseteq Producers
    BY <1>2, Places
  <2>2. ASSUME NEW x \in Producers PROVE size[x] <= size'[x]
    BY <1>6, <1>7
  <2> QED
    BY <2>1, <2>2
<1>10. Linked(r)'
  BY <1>1, <1>3, <1>5, SameList
<1>11. producerCount' = Len(next_prod')
  BY <1>2, <1>3 DEF ConsumerType
<1> QED
  BY <1>1, <1>2, <1>3, <1>5, <1>8, <1>9, <1>10, <1>11, NobodyDequeuesAtAll

-----------------------------------------------------------------------------
(* The walk of a consumer.                                                 *)

LEMMA MinOfTwo ==
  ASSUME NEW a \in Int, NEW b \in Int
  PROVE  Min({a, b}) = IF a <= b THEN a ELSE b
<1> DEFINE m == IF a <= b THEN a ELSE b
           P(x) == \A y \in {a, b} : x <= y
<1>1. m \in {a, b} /\ P(m) /\ \A x \in {a, b} : P(x) => x = m
  OBVIOUS
<1> HIDE DEF m, P
<1>2. (CHOOSE x \in {a, b} : P(x)) = m
  BY <1>1
<1> QED
  BY <1>2 DEF Min, m, P

\* The list from x on: down to the producer that was put there first.
Down(r, x) == {p \in OnList : x # Null /\ r[p] <= r[x]}

LEMMA RanksAre ==
  ASSUME ListTypeOK, NEW r, Linked(r)
  PROVE  /\ Null \notin OnList /\ \A p \in OnList : r[p] \in Nat /\ r[p] >= 1
         /\ \A p, q \in OnList : r[p] = r[q] => p = q
  BY Places DEF Linked

LEMMA DownNext ==
  ASSUME ListTypeOK, NEW r, Linked(r), NEW x \in OnList
  PROVE  x \in Down(r, x) /\ next_prod[x] \in OnList \cup {Null}
           /\ Down(r, next_prod[x]) = Down(r, x) \ {x}
<1>1. next_prod[x] \in OnList \cup {Null} /\ x # Null
  BY RanksAre DEF Linked
<1>2. x \in Down(r, x)
  BY <1>1, RanksAre DEF Down
<1>3. CASE next_prod[x] = Null
  <2>1. r[x] = 1
    BY <1>3 DEF Linked
  <2> QED
    BY <1>1, <1>2, <1>3, <2>1, RanksAre DEF Down
<1>4. CASE next_prod[x] # Null
  <2>1. r[next_prod[x]] = r[x] - 1
    BY <1>4 DEF Linked
  <2>2. ASSUME NEW p \in OnList PROVE r[p] <= r[next_prod[x]] <=> r[p] <= r[x] /\ p # x
    BY <2>1, RanksAre
  <2> QED
    BY <1>1, <1>2, <1>4, <2>2 DEF Down
<1> QED
  BY <1>1, <1>2, <1>3, <1>4

LEMMA DownTail ==
  ASSUME ListTypeOK, NEW r, Linked(r)
  PROVE  producerListTail \in OnList \cup {Null} /\ Down(r, producerListTail) = OnList
  BY RanksAre DEF Down, Linked

\* Going around the list that ends in tail.
LEMMA AroundRank ==
  ASSUME ListTypeOK, NEW r, Linked(r), NEW p \in OnList, NEW tail \in OnList
  PROVE  /\ Around(p, tail) \in OnList
         /\ r[Around(p, tail)] = IF r[p] = 1 THEN r[tail] ELSE r[p] - 1
  BY RanksAre DEF Around, Linked

LEMMA BetweenStart ==
  ASSUME NEW top \in Nat, NEW b \in 1 .. top, NEW x \in Nat
  PROVE  Between(x, IF b = 1 THEN top ELSE b - 1, b, top) <=>
           x <= top /\ (x # b) /\ (x # 0 \/ b # 1)
  BY DEF Between

LEMMA BetweenNext ==
  ASSUME NEW top \in Nat, NEW a \in 1 .. top, NEW b \in 1 .. top, a # b, NEW x \in 1 .. top
  PROVE  Between(x, IF a = 1 THEN top ELSE a - 1, b, top) <=> Between(x, a, b, top) /\ x # a
  BY DEF Between

Walk(at, p, tail, n) == at = [k \in 0 .. n |-> IF k = 0 THEN p ELSE Around(at[k - 1], tail)]

LEMMA WalkExists ==
  ASSUME NEW p, NEW tail, NEW m \in Nat
  PROVE  \E at : Walk(at, p, tail, m)
<1> DEFINE P == {n \in Nat : \E at : Walk(at, p, tail, n)}
<1>1. 0 \in P
  <2> DEFINE at == [k \in 0 .. 0 |-> p]
  <2>1. Walk(at, p, tail, 0)
    BY DEF Walk
  <2> HIDE DEF at
  <2> QED
    BY <2>1
<1>2. ASSUME NEW n \in Nat, n \in P PROVE n + 1 \in P
  <2>1. PICK at : Walk(at, p, tail, n)
    BY <1>2
  <2> DEFINE up == [k \in 0 .. n + 1 |-> IF k = 0 THEN p ELSE Around(at[k - 1], tail)]
  <2>2. ASSUME NEW k \in 0 .. n PROVE up[k] = at[k]
    BY <2>1 DEF Walk
  <2>3. ASSUME NEW k \in 0 .. n + 1, k # 0 PROVE up[k] = Around(up[k - 1], tail)
    <3>1. k - 1 \in 0 .. n
      BY <2>3
    <3>2. up[k - 1] = at[k - 1]
      BY <2>2, <3>1
    <3> QED
      BY <2>3, <3>2
  <2>4. Walk(up, p, tail, n + 1)
    BY <2>3 DEF Walk
  <2> HIDE DEF up
  <2> QED
    BY <2>4
<1>3. Nat \subseteq P
  <2> HIDE DEF P
  <2> QED
    BY <1>1, <1>2, Inductive
<1> QED
  BY <1>3

\* However far it goes, it stays on the list.
LEMMA StepsStay ==
  ASSUME ListTypeOK, NEW r, Linked(r), NEW p \in OnList, NEW tail \in OnList, NEW n \in Nat
  PROVE  Steps(p, tail, n) \in OnList
<1> DEFINE at == CHOOSE f : Walk(f, p, tail, n)
<1>0. \E f : Walk(f, p, tail, n)
  BY WalkExists
<1>1. Walk(at, p, tail, n)
  BY <1>0, Zenon
<1>2. Steps(p, tail, n) = at[n]
  BY DEF Steps, Walk
<1> HIDE DEF at
<1> DEFINE P == {k \in Nat : k <= n => at[k] \in OnList}
<1>3. 0 \in P
  BY <1>1 DEF Walk
<1>4. ASSUME NEW k \in Nat, k \in P PROVE k + 1 \in P
  <2>1. SUFFICES ASSUME k + 1 <= n PROVE at[k + 1] \in OnList
    OBVIOUS
  <2>2. at[k] \in OnList
    BY <1>4, <2>1
  <2>3. at[k + 1] = Around(at[k], tail)
    <3>1. k + 1 \in 0 .. n /\ k + 1 # 0 /\ (k + 1) - 1 = k
      BY <2>1
    <3> QED
      BY <1>1, <3>1 DEF Walk
  <2> QED
    BY <2>2, <2>3, AroundRank
<1>5. Nat \subseteq P
  <2> HIDE DEF P
  <2> QED
    BY <1>3, <1>4, Inductive
<1> QED
  BY <1>2, <1>5

-----------------------------------------------------------------------------
(* What the consumers do.                                                  *)

LEMMA OnListStays ==
  ASSUME UNCHANGED <<producers, owner>>
  PROVE  OnList' = OnList /\ Producers' = Producers /\ \A r : Linked(r) => Linked(r)'
<1>1. OnList' = OnList /\ Producers' = Producers
  BY DEF OnList, Producers, producers
<1> QED
  BY <1>1, SameList DEF producers

LEMMA Amount ==
  ASSUME ListTypeOK, Sizes, ConsumerType, NEW c \in Consumers, NEW p \in OnList,
         NEW n \in Available(c, p)
  PROVE  /\ n \in Nat /\ n <= size[p] /\ n <= call[c].left
         /\ (\A d \in Consumers \ {c} : call[d].pc = "idle") => n = size[p] \/ n = call[c].left
<1>1. size[p] \in Nat /\ call[c].left \in Nat
  BY Places, SizesAdd DEF Summable, ConsumerType, CallOn
<1> DEFINE m == IF size[p] <= call[c].left THEN size[p] ELSE call[c].left
<1>2. Min({size[p], call[c].left}) = m
  BY <1>1, MinOfTwo
<1>3. n \in 0 .. m
  BY <1>1, <1>2 DEF Available
<1>4. (\A d \in Consumers \ {c} : call[d].pc = "idle") => n = m
  BY <1>2 DEF Available, Busy
<1> QED
  BY <1>1, <1>3, <1>4

LEMMA TakenSizes ==
  ASSUME ListTypeOK, Sizes, UNCHANGED <<producers, owner>>, NEW p \in OnList, NEW n \in Nat,
         n <= size[p],
         size' = [size EXCEPT ![p] = @ - n]
  PROVE  Sizes' /\ size'[p] = size[p] - n /\ \A x \in Producers \ {p} : size'[x] = size[x]
<1>1. p \in Producers /\ DOMAIN size = Producers /\ size[p] \in Nat /\ size \in Seq(Nat)
  BY Places, SizesAdd DEF Summable, Sizes
<1>2. size' \in Seq(Nat) /\ Len(size') = Len(size)
  BY <1>1
<1>3. size'[p] = size[p] - n /\ \A x \in Producers \ {p} : size'[x] = size[x]
  BY <1>1
<1>4. OnList' = OnList /\ Producers' = Producers
  BY OnListStays
<1>5. Len(next_prod') = Len(next_prod)
  BY DEF producers
<1> QED
  BY <1>2, <1>3, <1>4, <1>5 DEF Sizes

\* What is left in V once all of p has been taken.
LEMMA TakenSum ==
  ASSUME ListTypeOK, Sizes, UNCHANGED <<producers, owner>>, NEW p \in OnList, NEW n \in Nat,
         n <= size[p],
         size' = [size EXCEPT ![p] = @ - n],
         NEW U \in SUBSET OnList, NEW V \in SUBSET OnList, p \in U, p \notin V, U \ {p} \subseteq V
  PROVE  /\ Sum(size, U) <= size[p] + Sum(size', V)
         /\ Sum(size, U) \in Int /\ Sum(size', V) \in Int
<1>0. OnList \subseteq Producers
  BY Places
<1>1. /\ IsFiniteSet(U) /\ IsFiniteSet(V) /\ IsFiniteSet(U \ {p})
      /\ Sum(size, U) \in Int /\ Sum(size, V) \in Int /\ Sum(size, U \ {p}) \in Int
      /\ \A x \in OnList : size[x] \in Nat
  <2>1. U \in SUBSET Producers /\ V \in SUBSET Producers /\ U \ {p} \in SUBSET Producers
    BY <1>0
  <2> QED
    BY <1>0, <2>1, SizesAdd DEF Summable
<1>2. \A x \in V : size'[x] = size[x] /\ size[x] \in Int
  BY <1>0, <1>1, TakenSizes
<1>3. Sum(size, U) = size[p] + Sum(size, U \ {p})
  BY <1>1, SumRemove
<1>4. Sum(size, U \ {p}) <= Sum(size, V)
  BY <1>1, SumSubset
<1>5. Sum(size, V) <= Sum(size', V)
  <2>1. \A x \in V : size[x] \in Int /\ size'[x] \in Int /\ size[x] <= size'[x]
    BY <1>2
  <2> QED
    BY <1>1, <2>1, SumMonotone
<1>6. Sum(size', V) \in Int
  BY <1>1, <1>2, SumInt
<1> QED
  BY <1>1, <1>3, <1>4, <1>5, <1>6

\* A consumer that is busy is not alone if another one is.
LEMMA OthersStand ==
  ASSUME NEW r, NEW c \in Consumers, NEW d \in Consumers \ {c}, Standing(r, d), Searching(r, d),
         call'[d] = call[d], token'[d] = token[d], call[c].pc # "idle"
  PROVE  Standing(r, d)' /\ Searching(r, d)'
<1>1. Standing(r, d)'
  BY DEF Standing
<1>2. ~ (call[d].alone /\ call[d].pc # "idle")
  BY DEF Searching
<1> QED
  BY <1>1, <1>2 DEF Searching

LEMMA OneConsumer ==
  ASSUME Inv, Inv', ListInv, UNCHANGED <<producers, owner>>, NEW c \in Consumers,
         call[c].pc # "idle", Sizes',
         NEW m \in CallOn(OnList), call' = [call EXCEPT ![c] = m],
         NEW t \in TokenOf(OnList), token' = [token EXCEPT ![c] = t],
         globalExplicitConsumerOffset' \in Nat, nextExplicitConsumerId' = nextExplicitConsumerId,
         \A r : Linked(r) /\ Standing(r, c) /\ Searching(r, c) => Standing(r, c)'
           /\ Searching(r, c)'
  PROVE  ListInv'
<1>1. PICK r : Linked(r) /\ \A d \in Consumers : Standing(r, d) /\ Searching(r, d)
  BY DEF ListInv
<1>2. ConsumerType /\ OnList' = OnList /\ Linked(r)'
  BY <1>1, OnListStays DEF ListInv
<1>3. ConsumerType'
  <2>1. producerCount' = Len(next_prod')
    BY <1>2 DEF ConsumerType, producers
  <2>2. call' \in [Consumers -> CallOn(OnList)] /\ token' \in [Consumers -> TokenOf(OnList)]
    BY <1>2 DEF ConsumerType
  <2> QED
    BY <1>2, <2>1, <2>2 DEF ConsumerType
<1>4. \A d \in Consumers \ {c} : call'[d] = call[d] /\ token'[d] = token[d]
  BY <1>2 DEF ConsumerType
<1>5. \A d \in Consumers \ {c} : Standing(r, d)' /\ Searching(r, d)'
  BY <1>1, <1>4, OthersStand
<1>6. Standing(r, c)' /\ Searching(r, c)'
  BY <1>1
<1> QED
  BY <1>2, <1>3, <1>5, <1>6 DEF ListInv

LEMMA CallIs ==
  ASSUME ConsumerType, NEW c \in Consumers
  PROVE  call[c] \in CallOn(OnList) /\ token[c] \in TokenOf(OnList)
  BY DEF ConsumerType

\* A step that only takes the call from one place to another.
LEMMA OnlyCall ==
  ASSUME Inv, Inv', ListInv, UNCHANGED <<producers, owner, size, token, nextExplicitConsumerId>>,
         globalExplicitConsumerOffset' \in Nat, NEW c \in Consumers, call[c].pc # "idle",
         NEW m \in CallOn(OnList), call' = [call EXCEPT ![c] = m],
         \A r : Linked(r) /\ Standing(r, c) /\ Searching(r, c) /\ call'[c] = m
                  /\ (\A d \in Consumers \ {c} : call'[d] = call[d])
                => Standing(r, c)' /\ Searching(r, c)'
  PROVE  ListInv'
<1>1. Sizes /\ ConsumerType
  BY DEF ListInv
<1>2. Sizes'
  BY <1>1, OnListStays DEF Sizes, producers
<1>3. token' = [token EXCEPT ![c] = token[c]] /\ token[c] \in TokenOf(OnList)
  BY <1>1, CallIs DEF ConsumerType
<1>4. call'[c] = m /\ \A d \in Consumers \ {c} : call'[d] = call[d]
  BY <1>1 DEF ConsumerType
<1>5. \A r : Linked(r) /\ Standing(r, c) /\ Searching(r, c) => Standing(r, c)' /\ Searching(r, c)'
  BY <1>4
<1> QED
  BY <1>2, <1>3, <1>5, OneConsumer

LEMMA ReturnListInv ==
  ASSUME Inv, Inv', ListInv, NEW c \in Consumers, Return(c)
  PROVE  ListInv'
<1>1. /\ call[c].pc = "return" /\ call' = [call EXCEPT ![c] = OutsideCall]
      /\ UNCHANGED <<producers, owner, size, token, rotation>>
  BY DEF Return
<1>2. OutsideCall \in CallOn(OnList)
  BY DEF OutsideCall, CallOn
<1>3. globalExplicitConsumerOffset' \in Nat /\ UNCHANGED nextExplicitConsumerId
  BY <1>1 DEF ListInv, ConsumerType, rotation
<1>4. ASSUME NEW r, Standing(r, c), call'[c] = OutsideCall PROVE Standing(r, c)' /\ Searching(r, c)'
  BY <1>1, <1>4 DEF Standing, Searching, OutsideCall
<1> QED
  BY <1>1, <1>2, <1>3, <1>4, OnlyCall

LEMMA TurnListInv ==
  ASSUME Inv, Inv', ListInv, NEW c \in Consumers, Turn(c)
  PROVE  ListInv'
<1> DEFINE m == [call[c] EXCEPT !.pc = "return"]
<1>1. /\ call[c].pc = "turn" /\ call' = [call EXCEPT ![c] = m]
      /\ UNCHANGED <<producers, owner, size, token, nextExplicitConsumerId>>
      /\ globalExplicitConsumerOffset' = globalExplicitConsumerOffset + 1
  BY DEF Turn
<1>2. call[c] \in CallOn(OnList) /\ globalExplicitConsumerOffset' \in Nat
  BY <1>1, CallIs DEF ListInv, ConsumerType
<1>3. m \in CallOn(OnList)
  BY <1>2 DEF CallOn
<1>4. ASSUME NEW r, Standing(r, c), Searching(r, c), call'[c] = m,
             \A d \in Consumers \ {c} : call'[d] = call[d]
      PROVE  Standing(r, c)' /\ Searching(r, c)'
  <2>1. /\ m.pc = "return" /\ m.count = call[c].count /\ m.left = call[c].left
        /\ m.max = call[c].max /\ m.start = call[c].start /\ m.alone = call[c].alone
        /\ m.best = call[c].best /\ m.nonEmpty = call[c].nonEmpty /\ m.bestSize = call[c].bestSize
    BY <1>2 DEF CallOn
  <2>2. call[c].count \in Nat /\ call[c].left \in Nat /\ call[c].max \in Nat
    BY <1>2 DEF CallOn
  <2> HIDE DEF m
  <2> QED
    BY <1>1, <1>4, <2>1, <2>2 DEF Standing, Searching, Looking
<1> QED
  BY <1>1, <1>2, <1>3, <1>4, OnlyCall

LEMMA RotateLoadTailListInv ==
  ASSUME Inv, Inv', ListInv, NEW c \in Consumers, RotateLoadTail(c)
  PROVE  ListInv'
<1> DEFINE l == call[c]
           to == IF token[c].desired = Null /\ producerListTail = Null THEN "return" ELSE "place"
           m == [l EXCEPT !.tail = producerListTail, !.pc = to]
<1>0. ConsumerType /\ ListTypeOK /\ Sizes
  BY DEF ListInv, Inv
<1>1. /\ l.pc = "rotate" /\ call' = [call EXCEPT ![c] = m]
      /\ UNCHANGED <<producers, owner, size, token, nextExplicitConsumerId,
                     globalExplicitConsumerOffset>>
  BY <1>0 DEF RotateLoadTail, rotation, ConsumerType
<1>2. /\ l \in CallOn(OnList) /\ token[c] \in TokenOf(OnList)
      /\ globalExplicitConsumerOffset' \in Nat
      /\ producerListTail \in OnList \cup {Null} /\ to \in {"return", "place"}
  <2>1. \E r : Linked(r)
    BY DEF ListInv
  <2> QED
    BY <1>0, <1>1, <2>1, CallIs, DownTail DEF ConsumerType
<1>3. m \in CallOn(OnList)
  BY <1>2 DEF CallOn
<1>4. ASSUME NEW r, Linked(r), Standing(r, c), Searching(r, c), call'[c] = m,
             \A d \in Consumers \ {c} : call'[d] = call[d]
      PROVE  Standing(r, c)' /\ Searching(r, c)'
  <2>1. /\ m.pc = to /\ m.tail = producerListTail /\ m.count = l.count /\ m.left = l.left
        /\ m.max = l.max /\ m.start = l.start /\ m.alone = l.alone
        /\ m.best = l.best /\ m.nonEmpty = l.nonEmpty /\ m.bestSize = l.bestSize
    BY <1>2 DEF CallOn
  <2>2. token[c].desired \in OnList \cup {Null} /\ l.count \in Nat /\ l.start \in Nat
    BY <1>2 DEF CallOn, TokenOf
  <2>3. to = "place" => producerListTail # Null
    BY <1>4, <2>2 DEF Linked
  <2>4. to = "return" => OnList = {}
    BY <1>4 DEF Linked
  <2>5. OnList' = OnList
    BY <1>1, OnListStays
  <2>6. Untried(r, c) = OnList
    BY <1>1 DEF Untried, Waiting
  <2>7. to = "place" => Untried(r, c)' = OnList
    BY <1>4, <2>1, <2>5 DEF Untried, Waiting
  <2>8. Sum(size, {}) = 0
    BY SumEmpty
  <2> HIDE DEF m, to
  <2>9. Standing(r, c)'
    BY <1>1, <1>2, <1>4, <2>1, <2>3 DEF Standing
  <2>10. Searching(r, c)'
    <3>1. CASE to = "return"
      BY <1>1, <1>4, <2>1, <2>2, <2>4, <2>6, <2>8, <3>1 DEF Searching, Looking
    <3>2. CASE to = "place"
      BY <1>1, <1>4, <2>1, <2>6, <2>7, <3>2 DEF Searching, Looking
    <3> QED
      BY <1>2, <3>1, <3>2
  <2> QED
    BY <2>9, <2>10
<1> HIDE DEF m
<1> QED
  BY <1>1, <1>2, <1>3, <1>4, OnlyCall

LEMMA LoadTailAroundListInv ==
  ASSUME Inv, Inv', ListInv, NEW c \in Consumers, LoadTailAround(c)
  PROVE  ListInv'
<1> DEFINE l == call[c]
           t == token[c]
           a == Around(t.current, producerListTail)
           m == [l EXCEPT !.tail = producerListTail, !.pc = "others", !.ptr = a]
<1>0. ConsumerType /\ ListTypeOK /\ Sizes
  BY DEF ListInv, Inv
<1>1. /\ l.pc = "around" /\ call' = [call EXCEPT ![c] = m]
      /\ UNCHANGED <<producers, owner, size, token, nextExplicitConsumerId,
                     globalExplicitConsumerOffset>>
  BY <1>0 DEF LoadTailAround, rotation, ConsumerType
<1>2. PICK r0 : Linked(r0) /\ Standing(r0, c)
  BY DEF ListInv
<1>3. /\ l \in CallOn(OnList) /\ t \in TokenOf(OnList) /\ globalExplicitConsumerOffset' \in Nat
      /\ t.current \in OnList /\ producerListTail \in OnList /\ a \in OnList
  <2>1. l \in CallOn(OnList) /\ t \in TokenOf(OnList) /\ globalExplicitConsumerOffset' \in Nat
    BY <1>0, <1>1, CallIs DEF ConsumerType
  <2>2. t.current \in OnList
    BY <1>1, <1>2, <2>1 DEF Standing, TokenOf
  <2>3. producerListTail \in OnList
    BY <1>2, <2>2 DEF Linked
  <2> QED
    BY <1>0, <1>2, <2>1, <2>2, <2>3, AroundRank
<1>4. m \in CallOn(OnList)
  BY <1>3 DEF CallOn
<1>5. ASSUME NEW r, Linked(r), Standing(r, c), Searching(r, c), call'[c] = m,
             \A d \in Consumers \ {c} : call'[d] = call[d]
      PROVE  Standing(r, c)' /\ Searching(r, c)'
  <2>1. /\ m.pc = "others" /\ m.tail = producerListTail /\ m.ptr = a
        /\ m.count = l.count /\ m.left = l.left
        /\ m.max = l.max /\ m.start = l.start /\ m.alone = l.alone
        /\ m.best = l.best /\ m.nonEmpty = l.nonEmpty /\ m.bestSize = l.bestSize
    BY <1>3 DEF CallOn
  <2>2. OnList' = OnList
    BY <1>1, OnListStays
  <2>3. Untried(r, c) = OnList \ {t.current}
    BY <1>1 DEF Untried, Waiting
  <2> DEFINE top == r[producerListTail]
             b == r[t.current]
  <2>4. /\ Null \notin OnList /\ \A p \in OnList : r[p] \in 1 .. top
        /\ \A p, q \in OnList : r[p] = r[q] => p = q
    BY <1>0, <1>3, <1>5, RanksAre DEF Linked
  <2>5. top \in Nat /\ b \in 1 .. top /\ r[a] = IF b = 1 THEN top ELSE b - 1
    BY <1>0, <1>3, <1>5, <2>4, AroundRank
  <2>6. Untried(r, c)' = OnList \ {t.current}
    <3>1. Untried(r, c)' = {p \in OnList : Between(r[p], r[a], b, top)}
      BY <1>1, <1>5, <2>1, <2>2 DEF Untried, Waiting
    <3>2. ASSUME NEW p \in OnList PROVE Between(r[p], r[a], b, top) <=> p # t.current
      <4>1. r[p] \in 1 .. top /\ (r[p] # b <=> p # t.current)
        BY <1>3, <2>4
      <4> HIDE DEF b, top
      <4> QED
        BY <2>5, <4>1, BetweenStart
    <3> QED
      BY <3>1, <3>2
  <2> HIDE DEF m, a
  <2>7. Standing(r, c)'
    BY <1>1, <1>3, <1>5, <2>1, <2>4, <2>5 DEF Standing
  <2>8. Searching(r, c)'
    BY <1>1, <1>5, <2>1, <2>3, <2>6 DEF Searching, Looking
  <2> QED
    BY <2>7, <2>8
<1> HIDE DEF m
<1> QED
  BY <1>1, <1>3, <1>4, <1>5, OnlyCall

LEMMA PlaceListInv ==
  ASSUME Inv, Inv', ListInv, NEW c \in Consumers, Place(c)
  PROVE  ListInv'
<1> DEFINE l == call[c]
           tail == l.tail
           offset == producerCount - 1 - (token[c].initialOffset % producerCount)
           from == IF token[c].desired = Null THEN Steps(tail, tail, offset) ELSE token[c].desired
           delta == (globalExplicitConsumerOffset - token[c].last) % producerCount
           to == Steps(from, tail, delta)
           t == [token[c] EXCEPT !.desired = to, !.current = to, !.consumed = 0,
                                 !.last = globalExplicitConsumerOffset]
           m == [l EXCEPT !.pc = "current"]
<1>0. ConsumerType /\ ListTypeOK /\ Sizes
  BY DEF ListInv, Inv
<1>1. /\ l.pc = "place" /\ call' = [call EXCEPT ![c] = m] /\ token' = [token EXCEPT ![c] = t]
      /\ UNCHANGED <<producers, owner, size, nextExplicitConsumerId, globalExplicitConsumerOffset>>
  BY <1>0 DEF Place, rotation, ConsumerType
<1>2. PICK r0 : Linked(r0) /\ Standing(r0, c)
  BY DEF ListInv
<1>3. /\ l \in CallOn(OnList) /\ token[c] \in TokenOf(OnList)
      /\ globalExplicitConsumerOffset \in Nat
      /\ producerCount \in Nat
  BY <1>0, CallIs DEF ConsumerType, ListTypeOK
<1>4. tail \in OnList /\ token[c].initialOffset \in Nat /\ token[c].last \in Int
  BY <1>1, <1>2, <1>3 DEF Standing, CallOn, TokenOf
<1>5. producerCount > 0
  BY <1>0, <1>4, Places DEF ConsumerType
<1>6. offset \in Nat /\ delta \in Nat
  <2>1. token[c].initialOffset % producerCount \in 0 .. producerCount - 1
    BY <1>3, <1>4, <1>5
  <2>2. (globalExplicitConsumerOffset - token[c].last) % producerCount \in 0 .. producerCount - 1
    BY <1>3, <1>4, <1>5
  <2> QED
    BY <1>3, <2>1, <2>2
<1>7. to \in OnList
  <2>1. from \in OnList
    <3>1. CASE token[c].desired = Null
      <4> HIDE DEF offset
      <4> QED
        BY <1>0, <1>2, <1>4, <1>6, <3>1, StepsStay
    <3>2. CASE token[c].desired # Null
      BY <1>3, <3>2 DEF TokenOf
    <3> QED
      BY <3>1, <3>2
  <2> HIDE DEF from, delta
  <2> QED
    BY <1>0, <1>2, <1>4, <1>6, <2>1, StepsStay
<1> HIDE DEF to
<1>8. m \in CallOn(OnList) /\ t \in TokenOf(OnList) /\ t.current = to
  <2>1. m \in CallOn(OnList)
    BY <1>3 DEF CallOn
  <2>2. t \in TokenOf(OnList) /\ t.current = to
    <3> DEFINE k1 == [token[c] EXCEPT !.desired = to]
               k2 == [k1 EXCEPT !.current = to]
               k3 == [k2 EXCEPT !.consumed = 0]
               k4 == [k3 EXCEPT !.last = globalExplicitConsumerOffset]
    <3>1. t = k4
      OBVIOUS
    <3>2. k1 \in TokenOf(OnList)
      BY <1>3, <1>7 DEF TokenOf
    <3> HIDE DEF k1, t
    <3>3. k2 \in TokenOf(OnList) /\ k2.current = to
      BY <1>7, <3>2 DEF TokenOf
    <3> HIDE DEF k2
    <3>4. k3 \in TokenOf(OnList) /\ k3.current = to
      BY <3>3 DEF TokenOf
    <3> HIDE DEF k3
    <3>5. k4 \in TokenOf(OnList) /\ k4.current = to
      BY <1>3, <3>4 DEF TokenOf
    <3> QED
      BY <3>1, <3>5
  <2> QED
    BY <2>1, <2>2
<1>9. Sizes' /\ OnList' = OnList
  BY <1>0, <1>1, OnListStays DEF Sizes, producers
<1>10. /\ call'[c] = m /\ token'[c] = t /\ \A d \in Consumers \ {c} : call'[d] = call[d]
  BY <1>0, <1>1 DEF ConsumerType
<1>11. /\ m.pc = "current" /\ m.count = l.count /\ m.left = l.left
       /\ m.max = l.max /\ m.start = l.start /\ m.alone = l.alone
       /\ m.best = l.best /\ m.nonEmpty = l.nonEmpty /\ m.bestSize = l.bestSize
  BY <1>3 DEF CallOn
<1>12. t.current = to /\ to # Null
  BY <1>0, <1>7, <1>8, Places
<1>13. ASSUME NEW r, Standing(r, c), Searching(r, c)
       PROVE  Standing(r, c)' /\ Searching(r, c)'
  <2>1. Untried(r, c) = OnList
    BY <1>1 DEF Untried, Waiting
  <2> HIDE DEF m, t
  <2>2. Untried(r, c)' = OnList
    BY <1>9, <1>10, <1>11 DEF Untried, Waiting
  <2>3. Standing(r, c)'
    BY <1>10, <1>11, <1>12, <1>13 DEF Standing
  <2>4. Searching(r, c)'
    BY <1>1, <1>10, <1>11, <1>13, <2>1, <2>2 DEF Searching, Looking
  <2> QED
    BY <2>3, <2>4
<1>14. globalExplicitConsumerOffset' \in Nat
  BY <1>1, <1>3
<1> HIDE DEF m, t
<1> QED
  BY <1>1, <1>8, <1>9, <1>13, <1>14, OneConsumer

LEMMA ScoreListInv ==
  ASSUME Inv, Inv', ListInv, NEW c \in Consumers, Score(c)
  PROVE  ListInv'
<1> DEFINE l == call[c]
           p == l.ptr
<1>0. ConsumerType /\ ListTypeOK /\ Sizes
  BY DEF ListInv, Inv
<1>1. /\ l.pc = "score"
      /\ UNCHANGED <<producers, owner, size, token, nextExplicitConsumerId,
                     globalExplicitConsumerOffset>>
  BY DEF Score, rotation
<1>2. l \in CallOn(OnList) /\ globalExplicitConsumerOffset' \in Nat /\ OnList' = OnList
  BY <1>0, <1>1, CallIs, OnListStays DEF ConsumerType
<1>3. CASE p = Null \/ l.nonEmpty = 3
  <2> DEFINE to == IF l.nonEmpty = 0 THEN "return" ELSE "best"
             m == [l EXCEPT !.pc = to]
  <2>1. call' = [call EXCEPT ![c] = m]
    BY <1>0, <1>3 DEF Score, ConsumerType
  <2>2. /\ m.pc = to /\ m.count = l.count /\ m.left = l.left
        /\ m.max = l.max /\ m.start = l.start /\ m.alone = l.alone
        /\ m.best = l.best /\ m.nonEmpty = l.nonEmpty /\ m.bestSize = l.bestSize
    BY <1>2 DEF CallOn
  <2>3. l.nonEmpty \in Nat /\ l.count \in Nat /\ l.start \in Nat /\ to \in {"return", "best"}
    BY <1>2 DEF CallOn
  <2>4. m \in CallOn(OnList)
    BY <1>2, <2>3 DEF CallOn
  <2>5. ASSUME NEW r, Linked(r), Standing(r, c), Searching(r, c), call'[c] = m,
               \A d \in Consumers \ {c} : call'[d] = call[d]
        PROVE  Standing(r, c)' /\ Searching(r, c)'
    <3>1. p = Null => Untried(r, c) = {}
      BY <1>1 DEF Untried, Waiting
    <3>2. Sum(size, {}) = 0
      BY SumEmpty
    <3> HIDE DEF m
    <3>3. Standing(r, c)'
      BY <1>1, <2>2, <2>3, <2>5 DEF Standing
    <3>4. CASE l.nonEmpty = 0
      <4>1. Searching(r, c)'
        <5>1. p = Null /\ m.pc = "return" /\ Looking(c)
          BY <1>1, <1>3, <2>2, <3>4 DEF Looking
        <5>2. l.alone => (\A d \in Consumers \ {c} : call[d].pc = "idle") /\ l.count >= l.start
          <6>1. ASSUME l.alone
                PROVE  /\ \A d \in Consumers \ {c} : call[d].pc = "idle"
                       /\ l.count + Sum(size, Untried(r, c)) >= l.start
            BY <1>1, <2>5, <5>1, <6>1 DEF Searching
          <6>2. Sum(size, Untried(r, c)) = 0
            BY <3>1, <3>2, <5>1
          <6> QED
            BY <2>3, <6>1, <6>2
        <5> QED
          BY <2>2, <2>5, <5>1, <5>2 DEF Searching, Looking
      <4> QED
        BY <3>3, <4>1
    <3>5. CASE l.nonEmpty # 0
      <4>1. Searching(r, c)'
        BY <1>1, <2>2, <2>3, <2>5, <3>5 DEF Searching, Looking
      <4> QED
        BY <3>3, <4>1
    <3> QED
      BY <3>4, <3>5
  <2> HIDE DEF m
  <2> QED
    BY <1>1, <1>2, <2>1, <2>4, <2>5, OnlyCall
<1>4. CASE ~ (p = Null \/ l.nonEmpty = 3)
  <2> DEFINE s == size[p]
             e == IF s > 0 THEN l.nonEmpty + 1 ELSE l.nonEmpty
             b == IF s > l.bestSize THEN p ELSE l.best
             z == IF s > l.bestSize THEN s ELSE l.bestSize
             m == [l EXCEPT !.ptr = next_prod[p], !.nonEmpty = e, !.best = b, !.bestSize = z]
  <2>1. call' = [call EXCEPT ![c] = m]
    BY <1>4 DEF Score
  <2>2. p \in OnList /\ l.nonEmpty \in Nat /\ l.bestSize \in Nat /\ l.best \in OnList \cup {Null}
    BY <1>2, <1>4 DEF CallOn
  <2>3. s \in Nat /\ next_prod[p] \in OnList \cup {Null}
    <3>1. PICK r : Linked(r)
      BY DEF ListInv
    <3> QED
      BY <1>0, <2>2, <3>1, Places, SizesAdd, DownNext DEF Summable
  <2>4. e \in Nat /\ b \in OnList \cup {Null} /\ z \in Nat
    BY <2>2, <2>3
  <2> HIDE DEF e, b, z
  <2>5. m \in CallOn(OnList)
    BY <1>2, <2>3, <2>4 DEF CallOn
  <2>6. /\ m.pc = "score" /\ m.ptr = next_prod[p] /\ m.count = l.count /\ m.left = l.left
        /\ m.max = l.max /\ m.start = l.start /\ m.alone = l.alone
        /\ m.best = b /\ m.nonEmpty = e /\ m.bestSize = z
    BY <1>1, <1>2 DEF CallOn
  <2>7. ASSUME NEW r, Linked(r), Standing(r, c), Searching(r, c), call'[c] = m,
               \A d \in Consumers \ {c} : call'[d] = call[d]
        PROVE  Standing(r, c)' /\ Searching(r, c)'
    <3>1. Untried(r, c) = Down(r, p) /\ Untried(r, c)' = Down(r, next_prod[p])
      <4>1. Untried(r, c) = Down(r, p)
        BY <1>1, <1>4 DEF Untried, Waiting, Down
      <4>2. Untried(r, c)' = Down(r, next_prod[p])
        BY <1>2, <2>6, <2>7 DEF Untried, Waiting, Down
      <4> QED
        BY <4>1, <4>2
    <3>2. p \in Down(r, p) /\ Down(r, next_prod[p]) = Down(r, p) \ {p}
      BY <1>0, <2>2, <2>7, DownNext
    <3>3. Sum(size, Down(r, p)) = s + Sum(size, Down(r, next_prod[p]))
      <4> DEFINE D == Down(r, p)
      <4>1. D \subseteq Producers
        BY <1>0, Places DEF Down
      <4>2. IsFiniteSet(D) /\ \A x \in D : size[x] \in Int
        BY <1>0, <4>1, SizesAdd DEF Summable
      <4>3. p \in D /\ Down(r, next_prod[p]) = D \ {p}
        BY <3>2
      <4> HIDE DEF D
      <4>4. Sum(size, D) = size[p] + Sum(size, D \ {p})
        BY <4>2, <4>3, SumRemove
      <4> QED
        BY <4>3, <4>4 DEF D
    <3>4. Sum(size, Down(r, next_prod[p])) \in Int
      <4>1. Down(r, next_prod[p]) \subseteq Producers
        BY <1>0, Places DEF Down
      <4> QED
        BY <1>0, <4>1, SizesAdd DEF Summable
    <3>5. p # Null /\ (e > 0 => b # Null) /\ (b = Null => z = 0)
      BY <1>4, <2>2, <2>3, <2>7 DEF Standing, e, b, z
    <3>6. e = 0 => s = 0 /\ l.nonEmpty = 0
      BY <2>2, <2>3 DEF e
    <3>7. l.alone /\ b # Null => size[b] > 0
      <4>1. l.alone /\ l.best # Null => size[l.best] > 0
        BY <1>1, <2>7 DEF Searching
      <4> QED
        BY <2>2, <2>3, <4>1 DEF b
    <3> HIDE DEF m
    <3>8. Standing(r, c)'
      BY <1>1, <2>6, <2>7, <3>5 DEF Standing
    <3>9. Searching(r, c)'
      <4>1. e = 0 => Sum(size, Untried(r, c)) = Sum(size, Untried(r, c)')
        BY <3>1, <3>3, <3>4, <3>6
      <4>2. e = 0 /\ l.alone => l.count + Sum(size, Untried(r, c)') >= l.start
        BY <1>1, <2>7, <3>6, <4>1 DEF Searching, Looking
      <4> QED
        BY <1>1, <2>6, <2>7, <3>7, <4>2 DEF Searching, Looking
    <3> QED
      BY <3>8, <3>9
  <2> HIDE DEF m
  <2> QED
    BY <1>1, <1>2, <2>1, <2>5, <2>7, OnlyCall
<1> QED
  BY <1>3, <1>4

\* The call k with n elements more.
TookFrom(k, n) == [k EXCEPT !.count = @ + n, !.left = @ - n]

LEMMA Counted ==
  ASSUME NEW P, NEW k \in CallOn(P), NEW n \in Nat, n <= k.left
  PROVE  /\ TookFrom(k, n) \in CallOn(P)
         /\ TookFrom(k, n).pc = k.pc /\ TookFrom(k, n).ptr = k.ptr /\ TookFrom(k, n).tail = k.tail
         /\ TookFrom(k, n).best = k.best /\ TookFrom(k, n).bestSize = k.bestSize
         /\ TookFrom(k, n).nonEmpty = k.nonEmpty /\ TookFrom(k, n).count = k.count + n
         /\ TookFrom(k, n).left = k.left - n /\ TookFrom(k, n).max = k.max
         /\ TookFrom(k, n).start = k.start /\ TookFrom(k, n).alone = k.alone
<1> DEFINE x == k.count + n
           y == k.left - n
           m == TookFrom(k, n)
<1>1. x \in Nat /\ y \in Nat
  BY DEF CallOn
<1>2. m = [k EXCEPT !.count = x, !.left = y]
  BY DEF TookFrom
<1> HIDE DEF x, y, m
<1>3. /\ m.pc = k.pc /\ m.ptr = k.ptr /\ m.tail = k.tail /\ m.best = k.best
      /\ m.bestSize = k.bestSize /\ m.nonEmpty = k.nonEmpty /\ m.count = x
      /\ m.left = y /\ m.max = k.max /\ m.start = k.start /\ m.alone = k.alone
  BY <1>2 DEF CallOn
<1>4. m \in CallOn(P)
  BY <1>1, <1>2 DEF CallOn
<1> QED
  BY <1>3, <1>4 DEF x, y, m

\* c takes n elements from p and goes on as k.
LEMMA TakenCall ==
  ASSUME ListTypeOK, Sizes, ConsumerType, UNCHANGED <<producers, owner>>, NEW c \in Consumers,
         NEW p \in OnList, NEW n \in Available(c, p),
         NEW k \in CallOn(OnList), k.left = call[c].left, Dequeue(c, p, n, k)
  PROVE  /\ Sizes' /\ size' = [size EXCEPT ![p] = @ - n] /\ TookFrom(k, n) \in CallOn(OnList)
         /\ call' = [call EXCEPT ![c] = TookFrom(k, n)] /\ call'[c] = TookFrom(k, n)
         /\ \A d \in Consumers \ {c} : call'[d] = call[d]
<1>1. n \in Nat /\ n <= size[p] /\ n <= call[c].left
  BY Amount
<1>2. size' = [size EXCEPT ![p] = @ - n] /\ call' = [call EXCEPT ![c] = TookFrom(k, n)]
  BY DEF Dequeue, TookFrom
<1>3. Sizes'
  BY <1>1, <1>2, TakenSizes
<1>4. TookFrom(k, n) \in CallOn(OnList)
  BY <1>1, Counted
<1>5. call'[c] = TookFrom(k, n) /\ \A d \in Consumers \ {c} : call'[d] = call[d]
  BY <1>2 DEF ConsumerType
<1> QED
  BY <1>2, <1>3, <1>4, <1>5

LEMMA DequeueBestListInv ==
  ASSUME Inv, Inv', ListInv, NEW c \in Consumers, DequeueBest(c)
  PROVE  ListInv'
<1> DEFINE l == call[c]
           p == l.best
<1>0. ConsumerType /\ ListTypeOK /\ Sizes
  BY DEF ListInv, Inv
<1>1. l.pc = "best" /\ UNCHANGED <<producers, owner, rotation, token>>
  BY DEF DequeueBest
<1>2. l \in CallOn(OnList) /\ token[c] \in TokenOf(OnList) /\ OnList' = OnList
  BY <1>0, <1>1, CallIs, OnListStays
<1>3. PICK r0 : Linked(r0) /\ Standing(r0, c)
  BY DEF ListInv
<1>4. p \in OnList /\ producerListTail \in OnList \cup {Null}
  <2>1. p \in OnList \cup {Null}
    BY <1>2 DEF CallOn
  <2> QED
    BY <1>0, <1>1, <1>3, <2>1, DownTail DEF Standing
<1>5. PICK n \in Available(c, p) :
        Dequeue(c, p, n, [l EXCEPT !.pc = IF n > 0 THEN "return" ELSE "list", !.ptr = producerListTail])
  BY DEF DequeueBest
<1>6. /\ n \in Nat /\ n <= size[p] /\ n <= l.left
      /\ (\A d \in Consumers \ {c} : call[d].pc = "idle") => n = size[p] \/ n = l.left
  BY <1>0, <1>4, Amount
<1> DEFINE to == IF n > 0 THEN "return" ELSE "list"
           k == [l EXCEPT !.pc = to, !.ptr = producerListTail]
<1>7. /\ k \in CallOn(OnList) /\ k.pc = to /\ k.best = p /\ k.bestSize = l.bestSize
      /\ k.nonEmpty = l.nonEmpty /\ k.count = l.count /\ k.left = l.left /\ k.max = l.max
      /\ k.start = l.start /\ k.alone = l.alone
  <2>1. to \in {"return", "list"}
    OBVIOUS
  <2> HIDE DEF to
  <2> QED
    BY <1>2, <1>4, <2>1 DEF CallOn
<1>8. Dequeue(c, p, n, k)
  BY <1>5
<1> HIDE DEF k
<1> DEFINE m == TookFrom(k, n)
<1>9. /\ m.pc = to /\ m.best = p /\ m.bestSize = l.bestSize
      /\ m.nonEmpty = l.nonEmpty /\ m.count = l.count + n /\ m.left = l.left - n
      /\ m.max = l.max /\ m.start = l.start /\ m.alone = l.alone
  BY <1>6, <1>7, Counted
<1> HIDE DEF m
<1>10. l.count \in Nat /\ l.left \in Nat /\ l.max \in Nat
  BY <1>2 DEF CallOn
<1>11. token' = [token EXCEPT ![c] = token[c]]
  BY <1>0, <1>1 DEF ConsumerType
<1>12. /\ Sizes' /\ m \in CallOn(OnList) /\ call' = [call EXCEPT ![c] = m] /\ call'[c] = m
      /\ \A d \in Consumers \ {c} : call'[d] = call[d]
  BY <1>0, <1>1, <1>4, <1>7, <1>8, TakenCall DEF m
<1>13. ASSUME NEW r, Linked(r), Standing(r, c), Searching(r, c)
       PROVE  Standing(r, c)' /\ Searching(r, c)'
  <2>1. Standing(r, c)'
    BY <1>1, <1>6, <1>9, <1>10, <1>13, <1>12 DEF Standing
  <2>2. l.alone => n = 1 /\ to = "return"
    <3> SUFFICES ASSUME l.alone PROVE n = 1
      OBVIOUS
    <3>1. size[p] > 0 /\ l.count = 0 /\ l.max = 1 /\ \A d \in Consumers \ {c} : call[d].pc = "idle"
      BY <1>0, <1>1, <1>4, <1>13, Places DEF Searching
    <3>2. l.left = 1
      BY <1>10, <1>13, <3>1 DEF Standing
    <3>3. size[p] \in Nat
      BY <1>0, <1>4, Places, SizesAdd DEF Summable
    <3> QED
      BY <1>6, <3>1, <3>2, <3>3
  <2>3. Searching(r, c)'
    <3>1. CASE l.alone
      <4>1. m.count >= m.max
        BY <1>1, <1>9, <1>10, <1>13, <2>2, <3>1 DEF Searching
      <4> QED
        BY <1>1, <1>9, <1>13, <1>12, <2>2, <3>1, <4>1 DEF Searching, Looking
    <3>2. CASE ~ l.alone
      BY <1>9, <1>12, <3>2 DEF Searching
    <3> QED
      BY <3>1, <3>2
  <2> QED
    BY <2>1, <2>3
<1>14. globalExplicitConsumerOffset' \in Nat /\ nextExplicitConsumerId' = nextExplicitConsumerId
  BY <1>0, <1>1 DEF ConsumerType, rotation
<1> QED
  BY <1>1, <1>2, <1>11, <1>13, <1>14, <1>12, OneConsumer

LEMMA DequeueListListInv ==
  ASSUME Inv, Inv', ListInv, NEW c \in Consumers, DequeueList(c)
  PROVE  ListInv'
<1> DEFINE l == call[c]
           p == l.ptr
<1>0. ConsumerType /\ ListTypeOK /\ Sizes
  BY DEF ListInv, Inv
<1>1. l.pc = "list" /\ UNCHANGED <<producers, owner, rotation, token>>
  BY DEF DequeueList
<1>2. l \in CallOn(OnList) /\ token[c] \in TokenOf(OnList) /\ OnList' = OnList
  BY <1>0, <1>1, CallIs, OnListStays
<1>3. globalExplicitConsumerOffset' \in Nat /\ nextExplicitConsumerId' = nextExplicitConsumerId
  BY <1>0, <1>1 DEF ConsumerType, rotation
<1>4. l.count \in Nat /\ l.left \in Nat /\ l.max \in Nat /\ l.start \in Nat
  BY <1>2 DEF CallOn
<1>5. CASE p = Null
  <2> DEFINE m == [l EXCEPT !.pc = "return"]
  <2>1. call' = [call EXCEPT ![c] = m] /\ UNCHANGED size
    BY <1>5 DEF DequeueList
  <2>2. /\ m \in CallOn(OnList) /\ m.pc = "return" /\ m.count = l.count /\ m.left = l.left
        /\ m.max = l.max /\ m.start = l.start /\ m.alone = l.alone
        /\ m.best = l.best /\ m.nonEmpty = l.nonEmpty /\ m.bestSize = l.bestSize
    BY <1>2 DEF CallOn
  <2> HIDE DEF m
  <2>3. ASSUME NEW r, Standing(r, c), Searching(r, c), call'[c] = m,
               \A d \in Consumers \ {c} : call'[d] = call[d]
        PROVE  Standing(r, c)' /\ Searching(r, c)'
    <3>1. Untried(r, c) = {} /\ Sum(size, {}) = 0
      BY <1>1, <1>5, SumEmpty DEF Untried, Waiting
    <3>2. l.alone => l.count >= l.start
      BY <1>1, <1>4, <2>3, <3>1 DEF Searching, Looking
    <3>3. Standing(r, c)'
      BY <1>1, <2>2, <2>3 DEF Standing
    <3>4. Searching(r, c)'
      BY <1>1, <2>2, <2>3, <3>2 DEF Searching, Looking
    <3> QED
      BY <3>3, <3>4
  <2> QED
    BY <1>1, <1>3, <2>1, <2>2, <2>3, OnlyCall
<1>6. CASE p # Null /\ p = l.best
  <2> DEFINE m == [l EXCEPT !.ptr = next_prod[p]]
  <2>1. call' = [call EXCEPT ![c] = m] /\ UNCHANGED size
    BY <1>6 DEF DequeueList
  <2>2. next_prod[p] \in OnList \cup {Null}
    <3>1. PICK r : Linked(r)
      BY DEF ListInv
    <3>2. p \in OnList
      BY <1>2, <1>6 DEF CallOn
    <3> QED
      BY <1>0, <3>1, <3>2, DownNext
  <2>3. /\ m \in CallOn(OnList) /\ m.pc = "list" /\ m.count = l.count /\ m.left = l.left
        /\ m.max = l.max /\ m.start = l.start /\ m.alone = l.alone
        /\ m.best = l.best /\ m.nonEmpty = l.nonEmpty /\ m.bestSize = l.bestSize
    BY <1>1, <1>2, <2>2 DEF CallOn
  <2> HIDE DEF m
  <2>4. ASSUME NEW r, Standing(r, c), Searching(r, c), call'[c] = m
        PROVE  Standing(r, c)' /\ Searching(r, c)'
    <3>1. ~ l.alone
      BY <1>1, <1>6, <2>4 DEF Searching
    <3>2. Standing(r, c)'
      BY <1>1, <2>3, <2>4 DEF Standing
    <3>3. Searching(r, c)'
      BY <2>3, <2>4, <3>1 DEF Searching
    <3> QED
      BY <3>2, <3>3
  <2> QED
    BY <1>1, <1>3, <2>1, <2>3, <2>4, OnlyCall
<1>7. CASE p # Null /\ p # l.best
  <2>1. PICK n \in Available(c, p) :
          Dequeue(c, p, n, [l EXCEPT !.pc = IF n = l.left THEN "return" ELSE "list", !.ptr = next_prod[p]])
    BY <1>7 DEF DequeueList
  <2>2. p \in OnList
    BY <1>2, <1>7 DEF CallOn
  <2>3. /\ n \in Nat /\ n <= size[p] /\ n <= l.left
        /\ (\A d \in Consumers \ {c} : call[d].pc = "idle") => n = size[p] \/ n = l.left
    BY <1>0, <2>2, Amount
  <2>4. next_prod[p] \in OnList \cup {Null}
    <3>1. PICK r : Linked(r)
      BY DEF ListInv
    <3> QED
      BY <1>0, <2>2, <3>1, DownNext
  <2> DEFINE to == IF n = l.left THEN "return" ELSE "list"
             k == [l EXCEPT !.pc = to, !.ptr = next_prod[p]]
  <2>5. /\ k \in CallOn(OnList) /\ k.pc = to /\ k.ptr = next_prod[p] /\ k.best = l.best
        /\ k.bestSize = l.bestSize /\ k.nonEmpty = l.nonEmpty /\ k.count = l.count
        /\ k.left = l.left /\ k.max = l.max /\ k.start = l.start /\ k.alone = l.alone
    <3>1. to \in {"return", "list"}
      OBVIOUS
    <3> HIDE DEF to
    <3> QED
      BY <1>2, <2>4, <3>1 DEF CallOn
  <2>6. Dequeue(c, p, n, k)
    BY <2>1
  <2> HIDE DEF k
  <2> DEFINE m == TookFrom(k, n)
  <2>7. /\ m.pc = to /\ m.ptr = next_prod[p] /\ m.best = l.best /\ m.bestSize = l.bestSize
        /\ m.nonEmpty = l.nonEmpty /\ m.count = l.count + n /\ m.left = l.left - n
        /\ m.max = l.max /\ m.start = l.start /\ m.alone = l.alone
    BY <2>3, <2>5, Counted
  <2> HIDE DEF m
  <2>8. token' = [token EXCEPT ![c] = token[c]]
    BY <1>0, <1>1 DEF ConsumerType
  <2>9. /\ Sizes' /\ m \in CallOn(OnList) /\ call' = [call EXCEPT ![c] = m] /\ call'[c] = m
        /\ size' = [size EXCEPT ![p] = @ - n]
        /\ \A d \in Consumers \ {c} : call'[d] = call[d]
    BY <1>0, <1>1, <2>2, <2>5, <2>6, TakenCall DEF m
  <2>10. ASSUME NEW r, Linked(r), Standing(r, c), Searching(r, c)
         PROVE  Standing(r, c)' /\ Searching(r, c)'
    <3>1. Standing(r, c)'
      BY <1>1, <1>4, <2>3, <2>7, <2>9, <2>10 DEF Standing
    <3>2. CASE ~ l.alone
      BY <2>7, <2>9, <3>1, <3>2 DEF Searching
    <3>3. CASE l.alone /\ n = l.left
      <4>1. m.count >= m.max /\ m.pc = "return"
        BY <1>4, <2>3, <2>7, <2>10, <3>3 DEF Standing
      <4>2. Searching(r, c)'
        BY <1>1, <2>7, <2>9, <2>10, <3>3, <4>1 DEF Searching, Looking
      <4> QED
        BY <3>1, <4>2
    <3>4. CASE l.alone /\ n # l.left
      <4>1. n = size[p] /\ m.pc = "list"
        BY <1>1, <2>3, <2>7, <2>10, <3>4 DEF Searching
      <4>2. Untried(r, c) = Down(r, p) /\ Untried(r, c)' = Down(r, next_prod[p])
        <5>1. Untried(r, c) = Down(r, p)
          BY <1>1, <1>7 DEF Untried, Waiting, Down
        <5>2. Untried(r, c)' = Down(r, next_prod[p])
          BY <1>2, <2>7, <2>9, <4>1 DEF Untried, Waiting, Down
        <5> QED
          BY <5>1, <5>2
      <4>3. p \in Down(r, p) /\ Down(r, next_prod[p]) = Down(r, p) \ {p}
        BY <1>0, <2>2, <2>10, DownNext
      <4>4. /\ Sum(size, Down(r, p)) <= size[p] + Sum(size', Down(r, next_prod[p]))
            /\ Sum(size, Down(r, p)) \in Int /\ Sum(size', Down(r, next_prod[p])) \in Int
        <5> DEFINE U == Down(r, p)
                   V == Down(r, next_prod[p])
        <5>1. U \in SUBSET OnList /\ V \in SUBSET OnList /\ p \in U /\ V = U \ {p}
          BY <4>3 DEF Down
        <5> HIDE DEF U, V
        <5>2. Sum(size, U) <= size[p] + Sum(size', V) /\ Sum(size, U) \in Int
                /\ Sum(size', V) \in Int
          BY <1>0, <1>1, <2>2, <2>3, <2>9, <5>1, TakenSum
        <5> QED
          BY <5>2 DEF U, V
      <4>5. l.count + Sum(size, Down(r, p)) >= l.start
        BY <1>1, <2>10, <3>4, <4>2 DEF Searching, Looking
      <4>6. m.count + Sum(size', Untried(r, c)') >= m.start
        BY <1>4, <2>3, <2>7, <4>1, <4>2, <4>4, <4>5
      <4>7. Searching(r, c)'
        BY <1>1, <2>7, <2>9, <2>10, <3>4, <4>1, <4>6 DEF Searching, Looking
      <4> QED
        BY <3>1, <4>7
    <3> QED
      BY <3>2, <3>3, <3>4
  <2> QED
    BY <1>1, <1>2, <1>3, <2>8, <2>9, <2>10, OneConsumer
<1> QED
  BY <1>5, <1>6, <1>7

LEMMA DequeueCurrentListInv ==
  ASSUME Inv, Inv', ListInv, NEW c \in Consumers, DequeueCurrent(c)
  PROVE  ListInv'
<1> DEFINE l == call[c]
           p == token[c].current
<1>0. ConsumerType /\ ListTypeOK /\ Sizes
  BY DEF ListInv, Inv
<1>1. l.pc = "current" /\ UNCHANGED <<producers, owner, rotation>>
  BY DEF DequeueCurrent
<1>2. l \in CallOn(OnList) /\ token[c] \in TokenOf(OnList) /\ OnList' = OnList
  BY <1>0, <1>1, CallIs, OnListStays
<1>3. globalExplicitConsumerOffset' \in Nat /\ nextExplicitConsumerId' = nextExplicitConsumerId
  BY <1>0, <1>1 DEF ConsumerType, rotation
<1>4. l.count \in Nat /\ l.left \in Nat /\ l.max \in Nat /\ l.start \in Nat
  BY <1>2 DEF CallOn
<1>5. p \in OnList
  <2>1. PICK r0 : Standing(r0, c)
    BY DEF ListInv
  <2> QED
    BY <1>1, <1>2, <2>1 DEF Standing, TokenOf
<1>6. PICK n \in Available(c, p) :
        LET consumed == token[c].consumed + n
        IN  /\ Dequeue(c, p, n,
                 [l EXCEPT !.pc = IF n < l.left THEN "around"
                                  ELSE IF QuotaReached(l.max, consumed) THEN "turn" ELSE "return"])
            /\ token' = [token EXCEPT ![c].consumed = consumed]
  BY DEF DequeueCurrent
<1>7. /\ n \in Nat /\ n <= size[p] /\ n <= l.left
      /\ (\A d \in Consumers \ {c} : call[d].pc = "idle") => n = size[p] \/ n = l.left
  BY <1>0, <1>5, Amount
<1> DEFINE to == IF n < l.left THEN "around"
                 ELSE IF QuotaReached(l.max, token[c].consumed + n) THEN "turn" ELSE "return"
           k == [l EXCEPT !.pc = to]
           t == [token[c] EXCEPT !.consumed = token[c].consumed + n]
<1>8. /\ k \in CallOn(OnList) /\ k.pc = to /\ k.best = l.best
      /\ k.bestSize = l.bestSize /\ k.nonEmpty = l.nonEmpty /\ k.count = l.count
      /\ k.left = l.left /\ k.max = l.max /\ k.start = l.start /\ k.alone = l.alone
  <2>1. to \in {"around", "turn", "return"}
    OBVIOUS
  <2> HIDE DEF to
  <2> QED
    BY <1>2, <2>1 DEF CallOn
<1>9. /\ t \in TokenOf(OnList) /\ t.current = p /\ t.desired = token[c].desired
      /\ token' = [token EXCEPT ![c] = t] /\ token'[c] = t
  <2>1. token[c].consumed + n \in Nat
    BY <1>2, <1>7 DEF TokenOf
  <2>2. t \in TokenOf(OnList) /\ t.current = p /\ t.desired = token[c].desired
    BY <1>2, <2>1 DEF TokenOf
  <2>3. token' = [token EXCEPT ![c] = t]
    BY <1>6
  <2>4. token'[c] = t
    BY <1>0, <2>3 DEF ConsumerType
  <2> QED
    BY <2>2, <2>3, <2>4
<1>10. Dequeue(c, p, n, k)
  BY <1>6
<1>11. (n < l.left <=> to = "around") /\ to \in {"around", "turn", "return"}
  OBVIOUS
<1> HIDE DEF k, t, to
<1> DEFINE m == TookFrom(k, n)
<1>12. /\ m.pc = to /\ m.best = l.best /\ m.bestSize = l.bestSize
       /\ m.nonEmpty = l.nonEmpty /\ m.count = l.count + n /\ m.left = l.left - n
       /\ m.max = l.max /\ m.start = l.start /\ m.alone = l.alone
  BY <1>7, <1>8, Counted
<1> HIDE DEF m
<1>13. /\ Sizes' /\ m \in CallOn(OnList) /\ call' = [call EXCEPT ![c] = m] /\ call'[c] = m
       /\ size' = [size EXCEPT ![p] = @ - n]
       /\ \A d \in Consumers \ {c} : call'[d] = call[d]
  BY <1>0, <1>1, <1>5, <1>8, <1>10, TakenCall DEF m
<1>14. ASSUME NEW r, Linked(r), Standing(r, c), Searching(r, c)
       PROVE  Standing(r, c)' /\ Searching(r, c)'
  <2>1. Standing(r, c)'
    <3>1. p # Null
      BY <1>0, <1>5, Places
    <3> QED
      BY <1>1, <1>4, <1>7, <1>9, <1>11, <1>12, <1>13, <1>14, <3>1 DEF Standing
  <2>2. CASE ~ l.alone
    BY <1>12, <1>13, <2>1, <2>2 DEF Searching
  <2>3. CASE l.alone /\ to # "around"
    <3>1. m.count >= m.max /\ m.left = 0
      BY <1>4, <1>7, <1>11, <1>12, <1>14, <2>3 DEF Standing
    <3>2. Searching(r, c)'
      BY <1>1, <1>11, <1>12, <1>13, <1>14, <2>3, <3>1 DEF Searching, Looking
    <3> QED
      BY <2>1, <3>2
  <2>4. CASE l.alone /\ to = "around"
    <3>1. n = size[p]
      BY <1>1, <1>4, <1>7, <1>11, <1>14, <2>4 DEF Searching
    <3>2. Untried(r, c) = OnList
      BY <1>1 DEF Untried, Waiting
    <3>3. Untried(r, c)' = OnList \ {p}
      BY <1>2, <1>9, <1>12, <1>13, <2>4 DEF Untried, Waiting
    <3>4. /\ Sum(size, OnList) <= size[p] + Sum(size', OnList \ {p})
          /\ Sum(size, OnList) \in Int /\ Sum(size', OnList \ {p}) \in Int
      <4> DEFINE V == OnList \ {p}
      <4>1. V \in SUBSET OnList /\ p \notin V /\ OnList \ {p} \subseteq V
              /\ OnList \in SUBSET OnList
        OBVIOUS
      <4> HIDE DEF V
      <4>2. /\ Sum(size, OnList) <= size[p] + Sum(size', V)
            /\ Sum(size, OnList) \in Int /\ Sum(size', V) \in Int
        BY <1>0, <1>1, <1>5, <1>7, <1>13, <4>1, TakenSum
      <4> QED
        BY <4>2 DEF V
    <3>5. l.count + Sum(size, OnList) >= l.start
      BY <1>1, <1>14, <2>4, <3>2 DEF Searching, Looking
    <3>6. m.count + Sum(size', Untried(r, c)') >= m.start
      BY <1>4, <1>7, <1>12, <3>1, <3>3, <3>4, <3>5
    <3>7. Searching(r, c)'
      BY <1>1, <1>12, <1>13, <1>14, <2>4, <3>6 DEF Searching, Looking
    <3> QED
      BY <2>1, <3>7
  <2> QED
    BY <2>2, <2>3, <2>4
<1> QED
  BY <1>1, <1>3, <1>9, <1>13, <1>14, OneConsumer

LEMMA DequeueOthersListInv ==
  ASSUME Inv, Inv', ListInv, NEW c \in Consumers, DequeueOthers(c)
  PROVE  ListInv'
<1> DEFINE l == call[c]
           p == l.ptr
           b == token[c].current
<1>0. ConsumerType /\ ListTypeOK /\ Sizes
  BY DEF ListInv, Inv
<1>1. l.pc = "others" /\ UNCHANGED <<producers, owner, rotation>>
  BY DEF DequeueOthers
<1>2. l \in CallOn(OnList) /\ token[c] \in TokenOf(OnList) /\ OnList' = OnList
  BY <1>0, <1>1, CallIs, OnListStays
<1>3. globalExplicitConsumerOffset' \in Nat /\ nextExplicitConsumerId' = nextExplicitConsumerId
  BY <1>0, <1>1 DEF ConsumerType, rotation
<1>4. l.count \in Nat /\ l.left \in Nat /\ l.max \in Nat /\ l.start \in Nat
  BY <1>2 DEF CallOn
<1>5. p \in OnList /\ b \in OnList /\ l.tail \in OnList
  <2>1. PICK r0 : Standing(r0, c)
    BY DEF ListInv
  <2> QED
    BY <1>1, <1>2, <2>1 DEF Standing, CallOn, TokenOf
<1>6. CASE p = b
  <2> DEFINE m == [l EXCEPT !.pc = "return"]
  <2>1. call' = [call EXCEPT ![c] = m] /\ UNCHANGED <<size, token>>
    BY <1>6 DEF DequeueOthers
  <2>2. /\ m \in CallOn(OnList) /\ m.pc = "return" /\ m.count = l.count /\ m.left = l.left
        /\ m.max = l.max /\ m.start = l.start /\ m.alone = l.alone
        /\ m.best = l.best /\ m.nonEmpty = l.nonEmpty /\ m.bestSize = l.bestSize
    BY <1>2 DEF CallOn
  <2> HIDE DEF m
  <2>3. ASSUME NEW r, Linked(r), Standing(r, c), Searching(r, c), call'[c] = m,
               \A d \in Consumers \ {c} : call'[d] = call[d]
        PROVE  Standing(r, c)' /\ Searching(r, c)'
    <3>1. r[p] \in Nat /\ r[b] = r[p]
      BY <1>0, <1>5, <1>6, <2>3, RanksAre
    <3>2. Untried(r, c) = {} /\ Sum(size, {}) = 0
      BY <1>1, <3>1, SumEmpty DEF Untried, Waiting, Between
    <3>3. l.alone => l.count >= l.start
      BY <1>1, <1>4, <2>3, <3>2 DEF Searching, Looking
    <3>4. Standing(r, c)'
      BY <1>1, <2>1, <2>2, <2>3 DEF Standing
    <3>5. Searching(r, c)'
      BY <1>1, <2>2, <2>3, <3>3 DEF Searching, Looking
    <3> QED
      BY <3>4, <3>5
  <2> QED
    BY <1>1, <1>3, <2>1, <2>2, <2>3, OnlyCall
<1>7. CASE p # b
  <2> DEFINE a == Around(p, l.tail)
  <2>1. PICK n \in Available(c, p) :
          /\ Dequeue(c, p, n, [l EXCEPT !.pc = IF n = l.left THEN "return" ELSE "others", !.ptr = a])
          /\ token' = IF n > 0 THEN [token EXCEPT ![c].current = p, ![c].consumed = n] ELSE token
    BY <1>7 DEF DequeueOthers
  <2>2. /\ n \in Nat /\ n <= size[p] /\ n <= l.left
        /\ (\A d \in Consumers \ {c} : call[d].pc = "idle") => n = size[p] \/ n = l.left
    BY <1>0, <1>5, Amount
  <2>3. a \in OnList
    <3>1. PICK r : Linked(r)
      BY DEF ListInv
    <3> QED
      BY <1>0, <1>5, <3>1, AroundRank
  <2> DEFINE to == IF n = l.left THEN "return" ELSE "others"
             k == [l EXCEPT !.pc = to, !.ptr = a]
             q == IF n > 0 THEN p ELSE b
             t == IF n > 0 THEN [token[c] EXCEPT !.current = p, !.consumed = n] ELSE token[c]
  <2>4. Dequeue(c, p, n, k)
    BY <2>1
  <2>5. /\ t \in TokenOf(OnList) /\ t.current = q /\ t.desired = token[c].desired
        /\ t.initialOffset = token[c].initialOffset
    <3>1. CASE n > 0
      BY <1>2, <1>5, <2>2, <3>1 DEF TokenOf
    <3>2. CASE ~ (n > 0)
      BY <1>2, <3>2
    <3> QED
      BY <3>1, <3>2
  <2>6. token' = [token EXCEPT ![c] = t]
    <3>1. token \in [Consumers -> TokenOf(OnList)]
      BY <1>0 DEF ConsumerType
    <3> QED
      BY <2>1, <3>1
  <2>7. token'[c] = t
    <3> HIDE DEF t
    <3> QED
      BY <1>0, <2>6 DEF ConsumerType
  <2> HIDE DEF a, t
  <2>8. /\ k \in CallOn(OnList) /\ k.pc = to /\ k.ptr = a /\ k.tail = l.tail /\ k.best = l.best
        /\ k.bestSize = l.bestSize /\ k.nonEmpty = l.nonEmpty /\ k.count = l.count
        /\ k.left = l.left /\ k.max = l.max /\ k.start = l.start /\ k.alone = l.alone
    <3>1. to \in {"return", "others"}
      OBVIOUS
    <3> HIDE DEF to
    <3> QED
      BY <1>2, <2>3, <3>1 DEF CallOn
  <2> HIDE DEF k
  <2> DEFINE m == TookFrom(k, n)
  <2>9. /\ m.pc = to /\ m.ptr = a /\ m.tail = l.tail /\ m.best = l.best /\ m.bestSize = l.bestSize
        /\ m.nonEmpty = l.nonEmpty /\ m.count = l.count + n /\ m.left = l.left - n
        /\ m.max = l.max /\ m.start = l.start /\ m.alone = l.alone
    BY <2>2, <2>8, Counted
  <2> HIDE DEF m
  <2>10. /\ Sizes' /\ m \in CallOn(OnList) /\ call' = [call EXCEPT ![c] = m] /\ call'[c] = m
         /\ size' = [size EXCEPT ![p] = @ - n]
         /\ \A d \in Consumers \ {c} : call'[d] = call[d]
    BY <1>0, <1>1, <1>5, <2>4, <2>8, TakenCall DEF m
  <2>11. ASSUME NEW r, Linked(r), Standing(r, c), Searching(r, c)
         PROVE  Standing(r, c)' /\ Searching(r, c)'
    <3> DEFINE top == r[l.tail]
    <3>1. /\ \A x \in OnList : r[x] \in Nat /\ r[x] >= 1
          /\ \A x, y \in OnList : r[x] = r[y] => x = y
          /\ Null \notin OnList
      BY <1>0, <2>11, RanksAre
    <3>2. top \in Nat /\ r[p] \in 1 .. top /\ r[b] \in 1 .. top
      BY <1>1, <1>5, <2>11, <3>1 DEF Standing
    <3>3. r[a] = IF r[p] = 1 THEN top ELSE r[p] - 1
      BY <1>0, <1>5, <2>11, AroundRank DEF a
    <3>4. q \in OnList /\ r[q] \in 1 .. top /\ r[a] <= top
      BY <1>5, <3>2, <3>3
    <3>5. Standing(r, c)'
      BY <1>1, <1>4, <1>5, <2>2, <2>3, <2>5, <2>7, <2>9, <2>10, <2>11, <3>1, <3>4 DEF Standing
    <3>6. CASE ~ l.alone
      BY <2>9, <2>10, <3>5, <3>6 DEF Searching
    <3>7. CASE l.alone /\ n = l.left
      <4>1. m.count >= m.max /\ m.pc = "return"
        BY <1>4, <2>2, <2>9, <2>11, <3>7 DEF Standing
      <4>2. Searching(r, c)'
        BY <1>1, <2>9, <2>10, <2>11, <3>7, <4>1 DEF Searching, Looking
      <4> QED
        BY <3>5, <4>2
    <3>8. CASE l.alone /\ n # l.left
      <4>1. n = size[p] /\ m.pc = "others"
        BY <1>1, <2>2, <2>9, <2>11, <3>8 DEF Searching
      <4> DEFINE U == {x \in OnList : Between(r[x], r[p], r[b], top)}
                 V == {x \in OnList : Between(r[x], r[a], r[q], top)}
      <4>2. Untried(r, c) = U /\ Untried(r, c)' = V
        <5>1. Untried(r, c) = U
          BY <1>1 DEF Untried, Waiting
        <5>2. Untried(r, c)' = V
          BY <1>2, <2>5, <2>7, <2>9, <2>10, <4>1 DEF Untried, Waiting
        <5> QED
          BY <5>1, <5>2
      <4>3. p \in U
        BY <1>5, <1>7, <3>1, <3>2 DEF Between
      <4>4. p \notin V /\ U \ {p} \subseteq V
        <5>1. ASSUME NEW x \in OnList, Between(r[x], r[p], r[b], top)
              PROVE  r[x] \in 1 .. top
          BY <3>1, <3>2, <5>1 DEF Between
        <5>2. CASE n > 0
          <6>1. q = p
            BY <5>2
          <6>2. ASSUME NEW x \in OnList
                PROVE  Between(r[x], r[a], r[p], top) <=> r[x] <= top /\ x # p
            BY <1>5, <3>1, <3>2, <3>3, BetweenStart
          <6> QED
            BY <5>1, <6>1, <6>2
        <5>3. CASE ~ (n > 0)
          <6>1. q = b /\ r[p] # r[b]
            BY <1>5, <1>7, <3>1, <5>3
          <6>2. ASSUME NEW x \in OnList, r[x] \in 1 .. top
                PROVE  Between(r[x], r[a], r[b], top) <=> Between(r[x], r[p], r[b], top)
                         /\ r[x] # r[p]
            BY <3>2, <3>3, <6>1, <6>2, BetweenNext
          <6> QED
            BY <1>5, <3>1, <3>2, <5>1, <6>1, <6>2
        <5> QED
          BY <5>2, <5>3
      <4>5. U \in SUBSET OnList /\ V \in SUBSET OnList
        OBVIOUS
      <4> HIDE DEF U, V
      <4>6. Sum(size, U) <= size[p] + Sum(size', V) /\ Sum(size, U) \in Int /\ Sum(size', V) \in Int
        BY <1>0, <1>1, <1>5, <2>2, <2>10, <4>3, <4>4, <4>5, TakenSum
      <4>7. l.count + Sum(size, U) >= l.start
        BY <1>1, <2>11, <3>8, <4>2 DEF Searching, Looking
      <4>8. m.count + Sum(size', Untried(r, c)') >= m.start
        BY <1>4, <2>2, <2>9, <4>1, <4>2, <4>6, <4>7
      <4>9. Searching(r, c)'
        BY <1>1, <2>9, <2>10, <2>11, <3>8, <4>1, <4>8 DEF Searching, Looking
      <4> QED
        BY <3>5, <4>9
    <3> QED
      BY <3>6, <3>7, <3>8
  <2> QED
    BY <1>1, <1>3, <2>5, <2>6, <2>10, <2>11, OneConsumer
<1> QED
  BY <1>6, <1>7

\* Any element there is is in a producer of the list.
LEMMA TotalOnList == ListTypeOK /\ Sizes => Total = Sum(size, OnList) /\ Total \in Nat
<1> SUFFICES ASSUME ListTypeOK, Sizes PROVE Total = Sum(size, OnList) /\ Total \in Nat
  OBVIOUS
<1>1. /\ IsFiniteSet(Producers) /\ OnList \in SUBSET Producers
      /\ \A p \in Producers : size[p] \in Nat
  BY Places, SizesAdd DEF Summable
<1>2. \A p \in Producers \ OnList : size[p] = 0
  BY DEF Sizes
<1>3. Sum(size, OnList) = Sum(size, Producers)
  BY <1>1, <1>2, SumSubset
<1>4. Total = Sum(size, Producers)
  BY DEF Total, Sum
<1>5. Sum(size, {}) <= Sum(size, Producers) /\ Sum(size, {}) = 0
  BY <1>1, SumSubset, SumEmpty
<1>6. Sum(size, Producers) \in Int
  BY <1>1, SumInt
<1> QED
  BY <1>3, <1>4, <1>5, <1>6

\* A call begins: all there is is to be found, and nobody else is alone.
LEMMA BeginListInv ==
  ASSUME Inv, Inv', ListInv, UNCHANGED <<producers, owner, size, token, rotation>>,
         NEW c \in Consumers, NEW max \in Nat,
         NEW l \in CallOn(OnList), BeginCall(c, max, l), call[c].pc = "idle",
         l.count = 0, l.nonEmpty = 0, l.best = Null, l.bestSize = 0,
         \/ l.pc = "score" /\ l.ptr = producerListTail /\ max = 1
         \/ l.pc = "list" /\ l.ptr = producerListTail
         \/ l.pc = "rotate" /\ token[c].initialOffset # Null
         \/ l.pc = "current" /\ token[c].desired # Null
  PROVE  ListInv'
<1>0. ConsumerType /\ ListTypeOK /\ Sizes
  BY DEF ListInv, Inv
<1>1. PICK r : Linked(r) /\ \A d \in Consumers : Standing(r, d) /\ Searching(r, d)
  BY DEF ListInv
<1>2. OnList' = OnList /\ Linked(r)'
  BY <1>1, OnListStays
<1> DEFINE e == \A d \in Consumers \ {c} : ~ Busy(d)
           m == [l EXCEPT !.max = max, !.left = max, !.start = Total, !.alone = e]
           w(d) == [call[d] EXCEPT !.alone = FALSE]
<1>3. call' = [d \in Consumers |-> IF d = c THEN m ELSE w(d)]
  BY DEF BeginCall
<1>4. Total \in Nat /\ Total = Sum(size, OnList) /\ e \in BOOLEAN
  BY <1>0, TotalOnList
<1>5. /\ m \in CallOn(OnList) /\ m.pc = l.pc /\ m.ptr = l.ptr /\ m.best = Null /\ m.bestSize = 0
      /\ m.nonEmpty = 0 /\ m.count = 0 /\ m.left = max /\ m.max = max /\ m.start = Total
      /\ m.alone = e
  <2> HIDE DEF e
  <2> QED
    BY <1>4 DEF CallOn
<1>6. ASSUME NEW d \in Consumers
      PROVE  /\ w(d) \in CallOn(OnList) /\ w(d).pc = call[d].pc /\ w(d).ptr = call[d].ptr
             /\ w(d).tail = call[d].tail
             /\ w(d).best = call[d].best /\ w(d).bestSize = call[d].bestSize
             /\ w(d).nonEmpty = call[d].nonEmpty /\ w(d).count = call[d].count
             /\ w(d).left = call[d].left /\ w(d).max = call[d].max /\ w(d).alone = FALSE
  <2>1. call[d] \in CallOn(OnList)
    BY <1>0, CallIs
  <2> QED
    BY <2>1 DEF CallOn
<1> HIDE DEF m, w
<1>7. ConsumerType'
  <2>1. call' \in [Consumers -> CallOn(OnList)]
    BY <1>3, <1>5, <1>6
  <2> QED
    BY <1>0, <1>2, <2>1 DEF ConsumerType, producers, rotation
<1>8. Sizes'
  BY <1>0, OnListStays DEF Sizes, producers
<1>9. ASSUME NEW d \in Consumers, d # c PROVE Standing(r, d)' /\ Searching(r, d)'
  <2>1. call'[d] = w(d)
    BY <1>3, <1>9
  <2>2. LET k == call'[d] IN
          /\ k.pc = call[d].pc /\ k.ptr = call[d].ptr /\ k.tail = call[d].tail
          /\ k.best = call[d].best /\ k.bestSize = call[d].bestSize
          /\ k.nonEmpty = call[d].nonEmpty /\ k.count = call[d].count
          /\ k.left = call[d].left /\ k.max = call[d].max /\ k.alone = FALSE
    BY <1>6, <2>1
  <2>3. Standing(r, d)'
    <3>1. Standing(r, d) /\ token'[d] = token[d]
      BY <1>1
    <3> QED
      BY <2>2, <3>1 DEF Standing
  <2>4. Searching(r, d)'
    BY <2>2 DEF Searching
  <2> QED
    BY <2>3, <2>4
<1>10. Standing(r, c)' /\ Searching(r, c)'
  <2>1. call'[c] = m
    BY <1>3
  <2>2. Standing(r, c) /\ l.pc \in {"score", "list", "rotate", "current"}
    BY <1>1
  <2>3. Standing(r, c)'
    BY <1>5, <2>1, <2>2 DEF Standing
  <2>4. Untried(r, c)' = OnList
    <3>1. CASE l.pc \in {"score", "list"}
      <4>1. Untried(r, c)' = Down(r, producerListTail)
        BY <1>2, <1>5, <2>1, <3>1 DEF Untried, Waiting, Down
      <4> QED
        BY <1>0, <1>1, <4>1, DownTail
    <3>2. CASE l.pc \in {"rotate", "current"}
      BY <1>2, <1>5, <2>1, <3>2 DEF Untried, Waiting
    <3> QED
      BY <2>2, <3>1, <3>2
  <2>5. m.count + Sum(size', Untried(r, c)') >= m.start
    BY <1>4, <1>5, <2>4
  <2>6. e => \A d \in Consumers \ {c} : call'[d].pc = "idle"
    BY <1>3, <1>6 DEF Busy
  <2>7. Searching(r, c)'
    <3> HIDE DEF e
    <3> QED
      BY <1>5, <2>1, <2>2, <2>5, <2>6 DEF Searching, Looking
  <2> QED
    BY <2>3, <2>7
<1> QED
  BY <1>2, <1>7, <1>8, <1>9, <1>10 DEF ListInv

LEMMA StartListInv ==
  ASSUME Inv, Inv', ListInv, NEW c \in Consumers, NEW max \in 1 .. MaxBulk,
         StartBest(c) \/ StartList(c, max) \/ StartToken(c, max)
  PROVE  ListInv'
<1>0. ConsumerType /\ ListTypeOK /\ Sizes /\ max \in Nat
  BY ProducerListAssumption DEF ListInv, Inv
<1>1. producerListTail \in OnList \cup {Null}
  BY <1>0, DownTail DEF ListInv
<1>2. ASSUME NEW pc \in {"score", "list"}, NEW n \in Nat, pc = "score" => n = 1,
             BeginCall(c, n, [OutsideCall EXCEPT !.pc = pc, !.ptr = producerListTail]),
             UNCHANGED <<producers, owner, size, token, rotation>>, call[c].pc = "idle"
      PROVE  ListInv'
  <2> DEFINE l == [OutsideCall EXCEPT !.pc = pc, !.ptr = producerListTail]
  <2>1. /\ l \in CallOn(OnList) /\ l.pc = pc /\ l.ptr = producerListTail /\ l.count = 0
        /\ l.nonEmpty = 0 /\ l.best = Null /\ l.bestSize = 0
    BY <1>1 DEF OutsideCall, CallOn
  <2>2. BeginCall(c, n, l)
    BY <1>2
  <2> HIDE DEF l
  <2> QED
    BY <1>2, <2>1, <2>2, BeginListInv
<1>3. CASE StartBest(c)
  BY <1>2, <1>3 DEF StartBest, Busy
<1>4. CASE StartList(c, max)
  BY <1>0, <1>2, <1>4 DEF StartList, Busy
<1>5. CASE StartToken(c, max)
  <2> DEFINE to == IF token[c].desired = Null \/ token[c].last # globalExplicitConsumerOffset
                   THEN "rotate" ELSE "current"
             l == [OutsideCall EXCEPT !.pc = to]
  <2>1. /\ BeginCall(c, max, l) /\ call[c].pc = "idle" /\ token[c].initialOffset # Null
        /\ UNCHANGED <<producers, owner, size, token, rotation>>
    BY <1>5 DEF StartToken, Busy
  <2>2. to = "rotate" \/ (to = "current" /\ token[c].desired # Null)
    OBVIOUS
  <2> HIDE DEF to
  <2>3. /\ l \in CallOn(OnList) /\ l.pc = to /\ l.count = 0
        /\ l.nonEmpty = 0 /\ l.best = Null /\ l.bestSize = 0
    BY <2>2 DEF OutsideCall, CallOn
  <2> HIDE DEF l
  <2> QED
    BY <1>0, <2>1, <2>2, <2>3, BeginListInv
<1> QED
  BY <1>3, <1>4, <1>5

LEMMA MakeTokenListInv ==
  ASSUME Inv, Inv', ListInv, NEW c \in Consumers, MakeConsumerToken(c)
  PROVE  ListInv'
<1>0. ConsumerType /\ ListTypeOK /\ Sizes
  BY DEF ListInv, Inv
<1>1. PICK r : Linked(r) /\ \A d \in Consumers : Standing(r, d) /\ Searching(r, d)
  BY DEF ListInv
<1> DEFINE t == [token[c] EXCEPT !.initialOffset = nextExplicitConsumerId]
<1>2. /\ token' = [token EXCEPT ![c] = t] /\ nextExplicitConsumerId' = nextExplicitConsumerId + 1
      /\ UNCHANGED <<producers, size, owner, globalExplicitConsumerOffset, call>>
  BY DEF MakeConsumerToken
<1>3. OnList' = OnList /\ Linked(r)'
  BY <1>1, <1>2, OnListStays
<1>4. /\ t \in TokenOf(OnList) /\ t.current = token[c].current /\ t.desired = token[c].desired
      /\ t.initialOffset # Null /\ nextExplicitConsumerId \in Nat
  <2>1. token[c] \in TokenOf(OnList) /\ nextExplicitConsumerId \in Nat
    BY <1>0, CallIs DEF ConsumerType
  <2>2. t.initialOffset = nextExplicitConsumerId /\ nextExplicitConsumerId # Null
    BY <2>1, ProducerListAssumption DEF TokenOf
  <2> QED
    BY <2>1, <2>2 DEF TokenOf
<1> HIDE DEF t
<1>5. ConsumerType'
  <2>1. token' \in [Consumers -> TokenOf(OnList)] /\ nextExplicitConsumerId' \in Nat
    BY <1>0, <1>2, <1>4 DEF ConsumerType
  <2> QED
    BY <1>0, <1>2, <1>3, <2>1 DEF ConsumerType, producers
<1>6. \A d \in Consumers :
        /\ token'[d].current = token[d].current /\ token'[d].desired = token[d].desired
        /\ token[d].initialOffset # Null => token'[d].initialOffset # Null
  BY <1>0, <1>2, <1>4 DEF ConsumerType
<1>7. Sizes'
  BY <1>0, <1>2, OnListStays DEF Sizes, producers
<1>8. ASSUME NEW d \in Consumers PROVE Standing(r, d)' /\ Searching(r, d)'
  <2>1. Standing(r, d)'
    BY <1>1, <1>2, <1>6 DEF Standing
  <2>2. Untried(r, d)' = Untried(r, d)
    BY <1>2, <1>3, <1>6 DEF Untried, Waiting
  <2>3. Searching(r, d)'
    BY <1>1, <1>2, <2>2 DEF Searching, Looking
  <2> QED
    BY <2>1, <2>3
<1> QED
  BY <1>3, <1>5, <1>7, <1>8 DEF ListInv

LEMMA ListInvStep == Inv /\ Inv' /\ ListInv /\ [ListNext]_listVars => ListInv'
<1> SUFFICES ASSUME Inv, Inv', ListInv, [ListNext]_listVars PROVE ListInv'
  OBVIOUS
<1>1. ASSUME NEW o \in Owners, NEW explicit \in BOOLEAN, StartProducer(o, explicit) PROVE ListInv'
  BY <1>1, StartProducerListInv
<1>2. ASSUME NEW o \in Owners, OwnerStep(o) PROVE ListInv'
  BY <1>2, RecycleListInv, CreateListInv, LetGoListInv, AddListInv
     DEF OwnerStep, recycle_or_create_producer
<1>3. ASSUME NEW o \in Owners, DestroyToken(o) \/ Enqueue(o) PROVE ListInv'
  BY <1>3, LetGoListInv, EnqueueListInv
<1>4. ASSUME NEW c \in Consumers, MakeConsumerToken(c) PROVE ListInv'
  BY <1>4, MakeTokenListInv
<1>5. ASSUME NEW c \in Consumers, StartBest(c) PROVE ListInv'
  BY <1>5, StartListInv, ProducerListAssumption
<1>6. ASSUME NEW c \in Consumers, NEW max \in 1 .. MaxBulk, StartList(c, max) \/ StartToken(c, max)
      PROVE  ListInv'
  BY <1>6, StartListInv
<1>7. ASSUME NEW c \in Consumers, ConsumerStep(c) PROVE ListInv'
  BY <1>7, ScoreListInv, DequeueBestListInv, DequeueListListInv, RotateLoadTailListInv,
     PlaceListInv, DequeueCurrentListInv, TurnListInv, LoadTailAroundListInv,
     DequeueOthersListInv, ReturnListInv
     DEF ConsumerStep, try_dequeue, update_current_producer_after_rotation, token_dequeue
<1>8. ASSUME UNCHANGED listVars PROVE ListInv'
  <2>1. PICK r : Linked(r) /\ \A d \in Consumers : Standing(r, d) /\ Searching(r, d)
    BY DEF ListInv
  <2>2. UNCHANGED <<producers, owner, size, token, call, rotation>>
    BY <1>8 DEF listVars
  <2>3. OnList' = OnList /\ Linked(r)'
    BY <2>1, <2>2, OnListStays
  <2>4. Sizes' /\ ConsumerType'
    BY <2>2, <2>3, OnListStays DEF ListInv, Sizes, ConsumerType, producers, rotation
  <2>5. \A p \in OnList : size[p] <= size'[p]
    BY <2>2, Places, SizesAdd DEF Summable, Inv, ListInv
  <2>6. \A d \in Consumers : Standing(r, d)' /\ Searching(r, d)'
    BY <2>1, <2>2, <2>3, <2>4, <2>5, NobodyDequeues DEF Inv, ListInv
  <2> QED
    BY <2>3, <2>4, <2>6 DEF ListInv
<1> QED
  BY <1>1, <1>2, <1>3, <1>4, <1>5, <1>6, <1>7, <1>8 DEF ListNext

LEMMA ListInvAlways == ListSpec => []ListInv
<1>1. ListSpec => []Inv
  BY InvAlways
<1> QED
  BY <1>1, InitListInv, ListInvStep, PTL DEF ListSpec

\* `We need to make sure every queue's been tried': for any number of
\* producers, owners and consumers, a dequeue with no other beside it gets
\* what was in any of the queues when it began, or as much as it asked for.
THEOREM EveryQueueTried == ListSpec => []TriesEveryQueue
<1>1. ListInv => TriesEveryQueue
  <2> SUFFICES ASSUME ListInv, NEW c \in Consumers, call[c].pc = "return", call[c].alone
               PROVE  call[c].count >= Min({call[c].max, call[c].start})
    BY DEF TriesEveryQueue
  <2>1. PICK r : Searching(r, c)
    BY DEF ListInv
  <2>2. call[c].count \in Nat /\ call[c].max \in Nat /\ call[c].start \in Nat
    BY DEF ListInv, ConsumerType, CallOn
  <2>3. call[c].count >= call[c].max \/ call[c].count >= call[c].start
    BY <2>1 DEF Searching
  <2> QED
    BY <2>2, <2>3, MinOfTwo
<1> QED
  BY <1>1, ListInvAlways, PTL

=============================================================================
