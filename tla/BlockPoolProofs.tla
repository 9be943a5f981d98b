-------------------------- MODULE BlockPoolProofs --------------------------
(***************************************************************************)
(* Proofs about BlockPool, for any number of threads and blocks.           *)
(*                                                                         *)
(* The inductive invariant names three things the code does not store: the *)
(* list as a sequence, where each block is, and which thread has it there. *)
(***************************************************************************)
EXTENDS BlockPool, FiniteSetTheorems, WellFoundedInduction, TLAPS

Kinds == {"unused", "owned", "list", "take", "push", "flag"}
PCs == {"idle", "pool", "head", "refs", "ref", "next", "pop", "got", "unref",
        "top", "link", "push", "undo", "create"}
Locals == [head : Blocks \cup {Null}, refs : Nat, next : Blocks \cup {Null},
           node : Blocks \cup {Null}, top : Blocks \cup {Null}, back : {"idle", "create", "refs"}]

TypeInv ==
  /\ initialBlockPoolIndex \in Nat
  /\ freeListHead \in Blocks \cup {Null}
  /\ freeListRefs \in [Blocks -> Nat]
  /\ freeListNext \in [Blocks -> Blocks \cup {Null}]
  /\ heap \in SUBSET HeapBlocks
  /\ owned \in [Threads -> SUBSET Blocks]
  /\ pc \in [Threads -> PCs]
  /\ loc \in [Threads -> Locals]

\* What a thread's locals are good for at each point of its call: the nodes
\* it has hold of are blocks, the count it has read was not zero, and a `next'
\* it has read or written is still there.
LocalOf(t) ==
  /\ pc[t] \in {"refs", "ref", "next", "pop", "got"} => loc[t].head \in Blocks
  /\ pc[t] \in {"unref", "top", "link", "push", "undo"} => loc[t].node \in Blocks
  /\ pc[t] = "ref" => loc[t].refs % SHOULD_BE_ON_FREELIST # 0
  /\ pc[t] = "pop" => loc[t].next = freeListNext[loc[t].head]
  /\ pc[t] = "push" => loc[t].top = freeListNext[loc[t].node]
  /\ (pc[t] \in {"top", "link", "push", "undo"} /\ loc[t].back = "refs") => loc[t].head \in Blocks
LocalInv == \A t \in Threads : LocalOf(t)

Takes(t, b) == pc[t] = "got" /\ loc[t].head = b
Pushes(t, b) == pc[t] \in {"push", "undo"} /\ loc[t].node = b
Links(t, b) == pc[t] \in {"top", "link"} /\ loc[t].node = b
Holds(t, b) == (pc[t] \in {"next", "pop", "got"} /\ loc[t].head = b) \/ (pc[t] = "unref" /\ loc[t].node = b)
Holders(b) == {t \in Threads : Holds(t, b)}

At(s, i) == IF i <= Len(s) THEN s[i] ELSE Null

\* s is the free list, from its head to its end.
ListInv(s) ==
  /\ s \in Seq(Blocks)
  /\ \A i, j \in 1 .. Len(s) : s[i] = s[j] => i = j
  /\ freeListHead = At(s, 1)
  /\ \A i \in 1 .. Len(s) : freeListNext[s[i]] = At(s, i + 1)

\* Where each block is, and which thread has it there.
PlaceInv(s, k, by) ==
  /\ k \in [Blocks -> Kinds] /\ by \in [Blocks -> Threads \cup {Null}]
  /\ \A b \in Blocks : k[b] = "unused" <=> b \in Unused
  /\ \A b \in Blocks : k[b] = "list" <=> \E i \in 1 .. Len(s) : s[i] = b
  /\ \A b \in Blocks, t \in Threads :
       /\ b \in owned[t] <=> k[b] = "owned" /\ by[b] = t
       /\ Takes(t, b) <=> k[b] = "take" /\ by[b] = t
       /\ Pushes(t, b) <=> k[b] = "push" /\ by[b] = t
       /\ Links(t, b) <=> k[b] = "flag" /\ by[b] = t
  /\ \A b \in Blocks :
       /\ k[b] \in {"owned", "take", "push"} => by[b] \in Threads
       /\ k[b] = "flag" => (by[b] \in Threads <=> Holders(b) = {})

Weight(kind) == IF kind \in {"list", "take", "push"} THEN 1
                ELSE IF kind = "flag" THEN SHOULD_BE_ON_FREELIST ELSE 0
CountInv(k) == \A b \in Blocks : freeListRefs[b] = Cardinality(Holders(b)) + Weight(k[b])

Good(s, k, by) == ListInv(s) /\ PlaceInv(s, k, by) /\ CountInv(k)

Inv ==
  /\ TypeInv /\ LocalInv
  /\ \E s \in Seq(Blocks), k \in [Blocks -> Kinds], by \in [Blocks -> Threads \cup {Null}] :
       Good(s, k, by)

\* The state of a call lies in pc and loc, its own entries only.
LEMMA Moved ==
  ASSUME TypeInv, NEW t \in Threads, NEW to \in PCs, NEW l \in Locals, Go(t, to, l)
  PROVE  /\ pc' \in [Threads -> PCs] /\ loc' \in [Threads -> Locals]
         /\ pc'[t] = to /\ loc'[t] = l
         /\ \A u \in Threads \ {t} : pc'[u] = pc[u] /\ loc'[u] = loc[u]
BY DEF TypeInv, Go

\* So the roles of the other threads stay as they are.
LEMMA Others ==
  ASSUME TypeInv, NEW t \in Threads, NEW to \in PCs, NEW l \in Locals, Go(t, to, l),
         NEW u \in Threads \ {t}, NEW b \in Blocks
  PROVE  /\ Takes(u, b)' <=> Takes(u, b)
         /\ Pushes(u, b)' <=> Pushes(u, b)
         /\ Links(u, b)' <=> Links(u, b)
         /\ Holds(u, b)' <=> Holds(u, b)
BY Moved DEF Takes, Pushes, Links, Holds

\* Two sets of threads that differ in t at most.
LEMMA Differ ==
  ASSUME NEW t \in Threads, NEW H \in SUBSET Threads, NEW G \in SUBSET Threads,
         H \ {t} = G \ {t}
  PROVE  /\ Cardinality(H) \in Nat /\ Cardinality(G) \in Nat
         /\ Cardinality(H) <= Cardinality(Threads) /\ Cardinality(Threads) \in Nat
         /\ (t \in H <=> t \in G) => G = H
         /\ (t \in G /\ t \notin H) => Cardinality(G) = Cardinality(H) + 1
         /\ (t \in H /\ t \notin G) => Cardinality(G) = Cardinality(H) - 1
         /\ (H = {}) <=> (Cardinality(H) = 0)
         /\ (G = {}) <=> (Cardinality(G) = 0)
<1>1. IsFiniteSet(Threads)
  BY BlockPoolAssumption
<1>2. IsFiniteSet(H) /\ IsFiniteSet(G)
      /\ Cardinality(H) <= Cardinality(Threads)
  BY <1>1, FS_Subset
<1>3. Cardinality(H) \in Nat /\ Cardinality(G) \in Nat /\ Cardinality(Threads) \in Nat
  BY <1>1, <1>2, FS_CardinalityType
<1>4. ((H = {}) <=> (Cardinality(H) = 0)) /\ ((G = {}) <=> (Cardinality(G) = 0))
  BY <1>2, FS_EmptySet
<1>5. (t \in H <=> t \in G) => G = H
  OBVIOUS
<1>6. ASSUME t \in G, t \notin H PROVE Cardinality(G) = Cardinality(H) + 1
  <2>1. G = H \cup {t}
    BY <1>6
  <2> QED BY <1>2, <1>6, <2>1, FS_AddElement
<1>7. ASSUME t \in H, t \notin G PROVE Cardinality(G) = Cardinality(H) - 1
  <2>1. G = H \ {t}
    BY <1>7
  <2> QED BY <1>2, <1>7, <2>1, FS_RemoveElement
<1> QED BY <1>2, <1>3, <1>4, <1>5, <1>6, <1>7

\* The number of references the threads have to a block, before and after.
LEMMA Holding ==
  ASSUME TypeInv, NEW t \in Threads, NEW to \in PCs, NEW l \in Locals, Go(t, to, l),
         NEW b \in Blocks
  PROVE  /\ Cardinality(Holders(b)) \in Nat /\ Cardinality(Holders(b))' \in Nat
         /\ Cardinality(Holders(b)) <= Cardinality(Threads) /\ Cardinality(Threads) \in Nat
         /\ (Holds(t, b)' <=> Holds(t, b)) => Holders(b)' = Holders(b)
         /\ (Holds(t, b)' /\ ~ Holds(t, b)) => Cardinality(Holders(b))' = Cardinality(Holders(b)) + 1
         /\ (Holds(t, b) /\ ~ Holds(t, b)') => Cardinality(Holders(b))' = Cardinality(Holders(b)) - 1
         /\ (Holders(b) = {}) <=> (Cardinality(Holders(b)) = 0)
         /\ (Holders(b)' = {}) <=> (Cardinality(Holders(b))' = 0)
<1> DEFINE H == Holders(b)
           G == Holders(b)'
<1>1. \A u \in Threads \ {t} : Holds(u, b)' <=> Holds(u, b)
  BY Others
<1>2. H \in SUBSET Threads /\ G \in SUBSET Threads
  BY DEF Holders
<1>3. \A u \in Threads : (u \in H <=> Holds(u, b)) /\ (u \in G <=> Holds(u, b)')
  BY DEF Holders
<1>4. H \ {t} = G \ {t}
  <2> HIDE DEF H, G
  <2> QED BY <1>1, <1>2, <1>3
<1>5. (t \in H <=> Holds(t, b)) /\ (t \in G <=> Holds(t, b)')
  BY <1>3
<1> HIDE DEF H, G
<1>6. /\ Cardinality(H) \in Nat /\ Cardinality(G) \in Nat
      /\ Cardinality(H) <= Cardinality(Threads) /\ Cardinality(Threads) \in Nat
      /\ (t \in H <=> t \in G) => G = H
      /\ (t \in G /\ t \notin H) => Cardinality(G) = Cardinality(H) + 1
      /\ (t \in H /\ t \notin G) => Cardinality(G) = Cardinality(H) - 1
      /\ (H = {}) <=> (Cardinality(H) = 0)
      /\ (G = {}) <=> (Cardinality(G) = 0)
  BY <1>2, <1>4, Differ
<1>7. Cardinality(Holders(b))' = Cardinality(G)
  BY DEF G
<1> QED BY <1>5, <1>6, <1>7 DEF H, G

\* A step in which no block changes place, and no flagged one gets its first
\* or loses its last reference.
LEMMA PlaceSame ==
  ASSUME TypeInv, NEW s, NEW k, NEW by, PlaceInv(s, k, by),
         NEW t \in Threads, NEW to \in PCs, NEW l \in Locals, Go(t, to, l),
         owned' = owned, Unused' = Unused,
         \A b \in Blocks : /\ Takes(t, b)' <=> Takes(t, b)
                           /\ Pushes(t, b)' <=> Pushes(t, b)
                           /\ Links(t, b)' <=> Links(t, b)
                           /\ k[b] = "flag" => (Holders(b)' = {} <=> Holders(b) = {})
  PROVE  PlaceInv(s, k, by)'
<1>1. \A u \in Threads, b \in Blocks :
        /\ Takes(u, b)' <=> Takes(u, b)
        /\ Pushes(u, b)' <=> Pushes(u, b)
        /\ Links(u, b)' <=> Links(u, b)
  BY Others
<1>2. \A b \in Blocks, u \in Threads :
       /\ b \in owned'[u] <=> k[b] = "owned" /\ by[b] = u
       /\ Takes(u, b)' <=> k[b] = "take" /\ by[b] = u
       /\ Pushes(u, b)' <=> k[b] = "push" /\ by[b] = u
       /\ Links(u, b)' <=> k[b] = "flag" /\ by[b] = u
  BY <1>1 DEF PlaceInv
<1>3. \A b \in Blocks :
       /\ k[b] \in {"owned", "take", "push"} => by[b] \in Threads
       /\ k[b] = "flag" => (by[b] \in Threads <=> Holders(b)' = {})
  BY DEF PlaceInv
<1>4. /\ k \in [Blocks -> Kinds] /\ by \in [Blocks -> Threads \cup {Null}]
      /\ \A b \in Blocks : k[b] = "unused" <=> b \in Unused'
      /\ \A b \in Blocks : k[b] = "list" <=> \E i \in 1 .. Len(s) : s[i] = b
  BY DEF PlaceInv
<1> QED BY <1>2, <1>3, <1>4 DEF PlaceInv

\* A step of t in which c alone goes to another place, in the hands of t or
\* of nobody; what was s, k and by is then z, m and w.
Relocates(t, c, s, k, by, z, m, w) ==
  /\ m \in [Blocks -> Kinds] /\ w \in [Blocks -> Threads \cup {Null}]
  /\ \A b \in Blocks \ {c} : m[b] = k[b] /\ w[b] = by[b]
  /\ w[c] \in {t, Null}
  /\ by[c] = t \/ k[c] \in {"unused", "list"} \/ (k[c] = "flag" /\ by[c] = Null)
  /\ \A v \in Threads \ {t} : owned'[v] = owned[v]
  /\ \A b \in Blocks \ {c} :
       /\ b \in Unused' <=> b \in Unused
       /\ (\E i \in 1 .. Len(z) : z[i] = b) <=> (\E i \in 1 .. Len(s) : s[i] = b)
       /\ b \in owned'[t] <=> b \in owned[t]
       /\ Takes(t, b)' <=> Takes(t, b)
       /\ Pushes(t, b)' <=> Pushes(t, b)
       /\ Links(t, b)' <=> Links(t, b)
       /\ Holds(t, b)' <=> Holds(t, b)
  /\ c \in Unused' <=> m[c] = "unused"
  /\ (\E i \in 1 .. Len(z) : z[i] = c) <=> m[c] = "list"
  /\ c \in owned'[t] <=> (m[c] = "owned" /\ w[c] = t)
  /\ Takes(t, c)' <=> (m[c] = "take" /\ w[c] = t)
  /\ Pushes(t, c)' <=> (m[c] = "push" /\ w[c] = t)
  /\ Links(t, c)' <=> (m[c] = "flag" /\ w[c] = t)
  /\ m[c] \in {"owned", "take", "push"} => w[c] = t
  /\ m[c] = "flag" => (w[c] = t <=> Holders(c)' = {})

\* Then every block is again in one place.
LEMMA PlaceChange ==
  ASSUME TypeInv, NEW s, NEW k, NEW by, PlaceInv(s, k, by),
         NEW t \in Threads, NEW to \in PCs, NEW l \in Locals, Go(t, to, l),
         NEW z, NEW m, NEW w, NEW c \in Blocks, Relocates(t, c, s, k, by, z, m, w)
  PROVE  PlaceInv(z, m, w)'
<1>0. Null \notin Threads
  BY BlockPoolAssumption
<1>1. k \in [Blocks -> Kinds] /\ by \in [Blocks -> Threads \cup {Null}]
  BY DEF PlaceInv, Relocates
<1>2. \A v \in Threads \ {t}, b \in Blocks :
        /\ b \in owned'[v] <=> b \in owned[v]
        /\ Takes(v, b)' <=> Takes(v, b)
        /\ Pushes(v, b)' <=> Pushes(v, b)
        /\ Links(v, b)' <=> Links(v, b)
  BY Others DEF Relocates
<1>3. \A b \in Blocks \ {c} : Holders(b)' = Holders(b)
  BY Holding DEF Relocates
<1>4. \A v \in Threads \ {t} : c \notin owned[v] /\ ~ Takes(v, c) /\ ~ Pushes(v, c) /\ ~ Links(v, c)
  BY <1>0 DEF PlaceInv, Relocates
<1>5. \A b \in Blocks : m[b] = "unused" <=> b \in Unused'
  BY <1>1 DEF PlaceInv, Relocates
<1>6. \A b \in Blocks : m[b] = "list" <=> \E i \in 1 .. Len(z) : z[i] = b
  BY <1>1 DEF PlaceInv, Relocates
<1>7. ASSUME NEW b \in Blocks, NEW v \in Threads
      PROVE  /\ b \in owned'[v] <=> m[b] = "owned" /\ w[b] = v
             /\ Takes(v, b)' <=> m[b] = "take" /\ w[b] = v
             /\ Pushes(v, b)' <=> m[b] = "push" /\ w[b] = v
             /\ Links(v, b)' <=> m[b] = "flag" /\ w[b] = v
  <2>1. CASE b # c /\ v # t
    BY <1>1, <1>2, <2>1 DEF PlaceInv, Relocates
  <2>2. CASE b # c /\ v = t
    BY <1>1, <2>2 DEF PlaceInv, Relocates
  <2>3. CASE b = c /\ v # t
    BY <1>0, <1>1, <1>2, <1>4, <2>3 DEF Relocates
  <2>4. CASE b = c /\ v = t
    BY <1>1, <2>4 DEF Relocates
  <2> QED BY <2>1, <2>2, <2>3, <2>4
<1>8. ASSUME NEW b \in Blocks
      PROVE  /\ m[b] \in {"owned", "take", "push"} => w[b] \in Threads
             /\ m[b] = "flag" => (w[b] \in Threads <=> Holders(b)' = {})
  <2>1. CASE b # c
    BY <1>1, <1>3, <2>1 DEF PlaceInv, Relocates
  <2>2. CASE b = c
    BY <1>0, <1>1, <2>2 DEF Relocates
  <2> QED BY <2>1, <2>2
<1> QED BY <1>1, <1>5, <1>6, <1>7, <1>8 DEF PlaceInv, Relocates

\* The other threads' locals stay good while no next changes.
LEMMA LocalStep ==
  ASSUME TypeInv, LocalInv, NEW t \in Threads, NEW to \in PCs, NEW l \in Locals, Go(t, to, l),
         freeListNext' = freeListNext, LocalOf(t)'
  PROVE  LocalInv'
BY Moved DEF LocalInv, LocalOf

\* The list stays what it is as long as neither its head nor a next changes.
LEMMA ListSame ==
  ASSUME NEW s, ListInv(s), freeListHead' = freeListHead, freeListNext' = freeListNext
  PROVE  ListInv(s)'
BY DEF ListInv

\* The counts after a step that touches the count of c alone.
LEMMA CountStep ==
  ASSUME TypeInv, NEW k, CountInv(k),
         NEW t \in Threads, NEW to \in PCs, NEW l \in Locals, Go(t, to, l),
         NEW c \in Blocks, NEW m, \A b \in Blocks \ {c} : m[b] = k[b],
         freeListRefs' \in [Blocks -> Nat],
         freeListRefs'[c] = Cardinality(Holders(c))' + Weight(m[c]),
         \A b \in Blocks \ {c} : freeListRefs'[b] = freeListRefs[b],
         \A b \in Blocks \ {c} : Holds(t, b)' <=> Holds(t, b)
  PROVE  CountInv(m)'
<1>1. \A b \in Blocks \ {c} : Holders(b)' = Holders(b)
  BY Holding
<1>2. \A b \in Blocks : freeListRefs'[b] = Cardinality(Holders(b)') + Weight(m[b])
  <2> SUFFICES ASSUME NEW b \in Blocks
               PROVE  freeListRefs'[b] = Cardinality(Holders(b)') + Weight(m[b])
    OBVIOUS
  <2>1. CASE b = c
    BY <2>1
  <2>2. CASE b # c
    BY <1>1, <2>2 DEF CountInv
  <2> QED BY <2>1, <2>2
<1> QED BY <1>2 DEF CountInv

\* A step of one thread that touches neither a block nor the list.
LEMMA QuietStep ==
  ASSUME TypeInv, LocalInv, NEW s, NEW k, NEW by, Good(s, k, by),
         NEW t \in Threads, NEW to \in PCs, NEW l \in Locals, Go(t, to, l),
         UNCHANGED <<freeListHead, freeListRefs, freeListNext, heap, owned>>,
         initialBlockPoolIndex' \in Nat, Unused' = Unused, LocalOf(t)',
         \A b \in Blocks : /\ Takes(t, b)' <=> Takes(t, b)
                           /\ Pushes(t, b)' <=> Pushes(t, b)
                           /\ Links(t, b)' <=> Links(t, b)
                           /\ Holds(t, b)' <=> Holds(t, b)
  PROVE  Inv'
<1>1. TypeInv'
  BY Moved DEF TypeInv
<1>2. LocalInv'
  BY LocalStep
<1>3. \A b \in Blocks : Holders(b)' = Holders(b)
  BY Holding
<1>4. ListInv(s)'
  BY ListSame DEF Good
<1>5. PlaceInv(s, k, by)'
  BY <1>3, PlaceSame DEF Good
<1>6. CountInv(k)'
  BY <1>3 DEF Good, CountInv
<1>7. s \in Seq(Blocks) /\ k \in [Blocks -> Kinds] /\ by \in [Blocks -> Threads \cup {Null}]
  BY DEF Good, ListInv, PlaceInv
<1> QED BY <1>1, <1>2, <1>4, <1>5, <1>6, <1>7 DEF Inv, Good

\* The invariant from its parts after a step.
LEMMA Again ==
  ASSUME NEW s, NEW k, NEW by, TypeInv', LocalInv', ListInv(s)', PlaceInv(s, k, by)', CountInv(k)'
  PROVE  Inv'
<1>1. s \in Seq(Blocks) /\ k \in [Blocks -> Kinds] /\ by \in [Blocks -> Threads \cup {Null}]
  BY DEF ListInv, PlaceInv
<1> QED BY <1>1 DEF Inv, Good

(* The steps that only look.                                               *)

\* requisition_block begins.
LEMMA StepStart ==
  ASSUME TypeInv, LocalInv, NEW s, NEW k, NEW by, Good(s, k, by), NEW t \in Threads, StartRequisition(t)
  PROVE  Inv'
<1> DEFINE to == IF initialBlockPoolIndex >= initialBlockPoolSize THEN "head" ELSE "pool"
           l == NoLocals
<1>1. to \in PCs /\ l \in Locals /\ Go(t, to, l)
  BY DEF TypeInv, PCs, Locals, NoLocals, StartRequisition
<1>2. /\ UNCHANGED <<freeListHead, freeListRefs, freeListNext, heap, owned>>
      /\ initialBlockPoolIndex' \in Nat /\ Unused' = Unused
  BY DEF TypeInv, list, Unused, StartRequisition
<1>3. pc'[t] = to /\ loc'[t] = l
  BY <1>1, Moved 
<1>4. \A b \in Blocks : /\ Takes(t, b)' <=> Takes(t, b)
                        /\ Pushes(t, b)' <=> Pushes(t, b)
                        /\ Links(t, b)' <=> Links(t, b)
                        /\ Holds(t, b)' <=> Holds(t, b)
  BY <1>3 DEF Takes, Pushes, Links, Holds, NoLocals, StartRequisition
<1>5. LocalOf(t)'
  BY <1>2, <1>3 DEF TypeInv, LocalInv, LocalOf, NoLocals, StartRequisition
<1> QED BY <1>1, <1>2, <1>4, <1>5, QuietStep 

\* try_get loads the head ...
LEMMA StepLoadHead ==
  ASSUME TypeInv, LocalInv, NEW s, NEW k, NEW by, Good(s, k, by), NEW t \in Threads, LoadHead(t)
  PROVE  Inv'
<1> DEFINE to == Continue(freeListHead)
           l == [NoLocals EXCEPT !.head = freeListHead]
<1>1. to \in PCs /\ l \in Locals /\ Go(t, to, l)
  BY DEF TypeInv, PCs, Locals, NoLocals, Continue, LoadHead
<1>2. /\ UNCHANGED <<freeListHead, freeListRefs, freeListNext, heap, owned>>
      /\ initialBlockPoolIndex' \in Nat /\ Unused' = Unused
  BY DEF TypeInv, list, Unused, LoadHead
<1>3. pc'[t] = to /\ loc'[t] = l
  BY <1>1, Moved 
<1>4. \A b \in Blocks : /\ Takes(t, b)' <=> Takes(t, b)
                        /\ Pushes(t, b)' <=> Pushes(t, b)
                        /\ Links(t, b)' <=> Links(t, b)
                        /\ Holds(t, b)' <=> Holds(t, b)
  BY <1>3 DEF Takes, Pushes, Links, Holds, NoLocals, Continue, LoadHead
<1>5. LocalOf(t)'
  BY <1>2, <1>3 DEF TypeInv, LocalInv, LocalOf, NoLocals, Continue, LoadHead
<1> QED BY <1>1, <1>2, <1>4, <1>5, QuietStep 

\* ... and the count of that node, ...
LEMMA StepLoadRefs ==
  ASSUME TypeInv, LocalInv, NEW s, NEW k, NEW by, Good(s, k, by), NEW t \in Threads, LoadRefs(t)
  PROVE  Inv'
<1> DEFINE to == IF freeListRefs[loc[t].head] % SHOULD_BE_ON_FREELIST = 0 THEN "head" ELSE "ref"
           l == [loc[t] EXCEPT !.refs = freeListRefs[loc[t].head]]
<1>1. to \in PCs /\ l \in Locals /\ Go(t, to, l)
  BY DEF TypeInv, PCs, Locals, LocalInv, LocalOf, LoadRefs
<1>2. /\ UNCHANGED <<freeListHead, freeListRefs, freeListNext, heap, owned>>
      /\ initialBlockPoolIndex' \in Nat /\ Unused' = Unused
  BY DEF TypeInv, list, Unused, LoadRefs
<1>3. pc'[t] = to /\ loc'[t] = l
  BY <1>1, Moved 
<1>4. \A b \in Blocks : /\ Takes(t, b)' <=> Takes(t, b)
                        /\ Pushes(t, b)' <=> Pushes(t, b)
                        /\ Links(t, b)' <=> Links(t, b)
                        /\ Holds(t, b)' <=> Holds(t, b)
  BY <1>3 DEF Takes, Pushes, Links, Holds, LoadRefs
<1>5. LocalOf(t)'
  BY <1>2, <1>3 DEF TypeInv, LocalInv, LocalOf, LoadRefs
<1> QED BY <1>1, <1>2, <1>4, <1>5, QuietStep 

\* ... and, with a reference to it, its next.
LEMMA StepLoadNext ==
  ASSUME TypeInv, LocalInv, NEW s, NEW k, NEW by, Good(s, k, by), NEW t \in Threads, LoadNext(t)
  PROVE  Inv'
<1> DEFINE to == "pop"
           l == [loc[t] EXCEPT !.next = freeListNext[loc[t].head]]
<1>1. to \in PCs /\ l \in Locals /\ Go(t, to, l)
  BY DEF TypeInv, PCs, Locals, LocalInv, LocalOf, LoadNext
<1>2. /\ UNCHANGED <<freeListHead, freeListRefs, freeListNext, heap, owned>>
      /\ initialBlockPoolIndex' \in Nat /\ Unused' = Unused
  BY DEF TypeInv, list, Unused, LoadNext
<1>3. pc'[t] = to /\ loc'[t] = l
  BY <1>1, Moved 
<1>4. \A b \in Blocks : /\ Takes(t, b)' <=> Takes(t, b)
                        /\ Pushes(t, b)' <=> Pushes(t, b)
                        /\ Links(t, b)' <=> Links(t, b)
                        /\ Holds(t, b)' <=> Holds(t, b)
  BY <1>3 DEF Takes, Pushes, Links, Holds, LoadNext
<1>5. LocalOf(t)'
  BY <1>2, <1>3 DEF TypeInv, LocalInv, LocalOf, LoadNext
<1> QED BY <1>1, <1>2, <1>4, <1>5, QuietStep 

\* add_knowing_refcount_is_zero loads the head.
LEMMA StepLoadTop ==
  ASSUME TypeInv, LocalInv, NEW s, NEW k, NEW by, Good(s, k, by), NEW t \in Threads, LoadTop(t)
  PROVE  Inv'
<1> DEFINE to == "link"
           l == [loc[t] EXCEPT !.top = freeListHead]
<1>1. to \in PCs /\ l \in Locals /\ Go(t, to, l)
  BY DEF TypeInv, PCs, Locals, LoadTop
<1>2. /\ UNCHANGED <<freeListHead, freeListRefs, freeListNext, heap, owned>>
      /\ initialBlockPoolIndex' \in Nat /\ Unused' = Unused
  BY DEF TypeInv, list, Unused, LoadTop
<1>3. pc'[t] = to /\ loc'[t] = l
  BY <1>1, Moved 
<1>4. \A b \in Blocks : /\ Takes(t, b)' <=> Takes(t, b)
                        /\ Pushes(t, b)' <=> Pushes(t, b)
                        /\ Links(t, b)' <=> Links(t, b)
                        /\ Holds(t, b)' <=> Holds(t, b)
  BY <1>3 DEF Takes, Pushes, Links, Holds, LoadTop
<1>5. LocalOf(t)'
  BY <1>2, <1>3 DEF TypeInv, LocalInv, LocalOf, LoadTop
<1> QED BY <1>1, <1>2, <1>4, <1>5, QuietStep 

\* The count has changed since it was loaded.
LEMMA StepNoRef ==
  ASSUME TypeInv, LocalInv, NEW s, NEW k, NEW by, Good(s, k, by), NEW t \in Threads, AddRef(t),
         freeListRefs[loc[t].head] # loc[t].refs
  PROVE  Inv'
<1> DEFINE to == "head"
           l == NoLocals
<1>1. to \in PCs /\ l \in Locals /\ Go(t, to, l)
  BY DEF TypeInv, PCs, Locals, NoLocals, AddRef
<1>2. /\ UNCHANGED <<freeListHead, freeListRefs, freeListNext, heap, owned>>
      /\ initialBlockPoolIndex' \in Nat /\ Unused' = Unused
  BY DEF TypeInv, list, Unused, AddRef
<1>3. pc'[t] = to /\ loc'[t] = l
  BY <1>1, Moved 
<1>4. \A b \in Blocks : /\ Takes(t, b)' <=> Takes(t, b)
                        /\ Pushes(t, b)' <=> Pushes(t, b)
                        /\ Links(t, b)' <=> Links(t, b)
                        /\ Holds(t, b)' <=> Holds(t, b)
  BY <1>3 DEF Takes, Pushes, Links, Holds, NoLocals, AddRef
<1>5. LocalOf(t)'
  BY <1>2, <1>3 DEF TypeInv, LocalInv, LocalOf, NoLocals, AddRef
<1> QED BY <1>1, <1>2, <1>4, <1>5, QuietStep 

\* The head has changed since it was loaded: the reference is still there.
LEMMA StepNoPop ==
  ASSUME TypeInv, LocalInv, NEW s, NEW k, NEW by, Good(s, k, by), NEW t \in Threads, PopHead(t),
         freeListHead # loc[t].head
  PROVE  Inv'
<1> DEFINE to == "unref"
           l == [NoLocals EXCEPT !.head = freeListHead, !.node = loc[t].head]
<1>1. to \in PCs /\ l \in Locals /\ Go(t, to, l)
  BY DEF TypeInv, PCs, Locals, LocalInv, LocalOf, NoLocals, PopHead
<1>2. /\ UNCHANGED <<freeListHead, freeListRefs, freeListNext, heap, owned>>
      /\ initialBlockPoolIndex' \in Nat /\ Unused' = Unused
  BY DEF TypeInv, list, Unused, PopHead
<1>3. pc'[t] = to /\ loc'[t] = l
  BY <1>1, Moved 
<1>4. \A b \in Blocks : /\ Takes(t, b)' <=> Takes(t, b)
                        /\ Pushes(t, b)' <=> Pushes(t, b)
                        /\ Links(t, b)' <=> Links(t, b)
                        /\ Holds(t, b)' <=> Holds(t, b)
  BY <1>3 DEF Takes, Pushes, Links, Holds, NoLocals, PopHead
<1>5. LocalOf(t)'
  BY <1>2, <1>3 DEF TypeInv, LocalInv, LocalOf, NoLocals, PopHead
<1> QED BY <1>1, <1>2, <1>4, <1>5, QuietStep 

\* The head has changed since the node was linked to it.
LEMMA StepNoPush ==
  ASSUME TypeInv, LocalInv, NEW s, NEW k, NEW by, Good(s, k, by), NEW t \in Threads, PushNode(t),
         freeListHead # loc[t].top
  PROVE  Inv'
<1> DEFINE to == "undo"
           l == [loc[t] EXCEPT !.top = freeListHead]
<1>1. to \in PCs /\ l \in Locals /\ Go(t, to, l)
  BY DEF TypeInv, PCs, Locals, PushNode
<1>2. /\ UNCHANGED <<freeListHead, freeListRefs, freeListNext, heap, owned>>
      /\ initialBlockPoolIndex' \in Nat /\ Unused' = Unused
  BY DEF TypeInv, list, Unused, PushNode
<1>3. pc'[t] = to /\ loc'[t] = l
  BY <1>1, Moved 
<1>4. \A b \in Blocks : /\ Takes(t, b)' <=> Takes(t, b)
                        /\ Pushes(t, b)' <=> Pushes(t, b)
                        /\ Links(t, b)' <=> Links(t, b)
                        /\ Holds(t, b)' <=> Holds(t, b)
  BY <1>3 DEF Takes, Pushes, Links, Holds, PushNode
<1>5. LocalOf(t)'
  BY <1>2, <1>3 DEF TypeInv, LocalInv, LocalOf, PushNode
<1> QED BY <1>1, <1>2, <1>4, <1>5, QuietStep 

\* The array was used up since the first look.
LEMMA StepNoPool ==
  ASSUME TypeInv, LocalInv, NEW s, NEW k, NEW by, Good(s, k, by), NEW t \in Threads, try_get_block_from_initial_pool(t),
         initialBlockPoolIndex >= initialBlockPoolSize
  PROVE  Inv'
<1>a. /\ initialBlockPoolIndex \in Nat /\ initialBlockPoolSize \in Nat
      /\ DOMAIN initialBlockPool = 1 .. initialBlockPoolSize
  BY BlockPoolAssumption DEF TypeInv, initialBlockPoolSize
<1>b. ~ (initialBlockPoolIndex < initialBlockPoolSize)
  BY <1>a
<1>c. initialBlockPoolIndex' = initialBlockPoolIndex + 1 /\ heap' = heap
  BY DEF try_get_block_from_initial_pool
<1>d. /\ {j \in DOMAIN initialBlockPool : j > initialBlockPoolIndex} = {}
      /\ {j \in DOMAIN initialBlockPool : j > initialBlockPoolIndex + 1} = {}
  BY <1>a
<1> DEFINE to == "head"
           l == NoLocals
<1>1. to \in PCs /\ l \in Locals /\ Go(t, to, l)
  BY <1>b DEF TypeInv, PCs, Locals, NoLocals, try_get_block_from_initial_pool
<1>2. /\ UNCHANGED <<freeListHead, freeListRefs, freeListNext, heap, owned>>
      /\ initialBlockPoolIndex' \in Nat /\ Unused' = Unused
  BY <1>a, <1>b, <1>c, <1>d DEF list, Unused, try_get_block_from_initial_pool
<1>3. pc'[t] = to /\ loc'[t] = l
  BY <1>1, Moved 
<1>4. \A b \in Blocks : /\ Takes(t, b)' <=> Takes(t, b)
                        /\ Pushes(t, b)' <=> Pushes(t, b)
                        /\ Links(t, b)' <=> Links(t, b)
                        /\ Holds(t, b)' <=> Holds(t, b)
  BY <1>3 DEF Takes, Pushes, Links, Holds, NoLocals, try_get_block_from_initial_pool
<1>5. LocalOf(t)'
  BY <1>2, <1>3 DEF TypeInv, LocalInv, LocalOf, NoLocals, try_get_block_from_initial_pool
<1> QED BY <1>1, <1>2, <1>4, <1>5, QuietStep 

\* No block is made.
LEMMA StepNoCreate ==
  ASSUME TypeInv, LocalInv, NEW s, NEW k, NEW by, Good(s, k, by), NEW t \in Threads, pc[t] = "create",
         Go(t, "idle", NoLocals), UNCHANGED <<heap, owned, initialBlockPoolIndex, list>>
  PROVE  Inv'
<1> DEFINE to == "idle"
           l == NoLocals
<1>1. to \in PCs /\ l \in Locals /\ Go(t, to, l)
  BY DEF TypeInv, PCs, Locals, NoLocals
<1>2. /\ UNCHANGED <<freeListHead, freeListRefs, freeListNext, heap, owned>>
      /\ initialBlockPoolIndex' \in Nat /\ Unused' = Unused
  BY DEF TypeInv, list, Unused
<1>3. pc'[t] = to /\ loc'[t] = l
  BY <1>1, Moved 
<1>4. \A b \in Blocks : /\ Takes(t, b)' <=> Takes(t, b)
                        /\ Pushes(t, b)' <=> Pushes(t, b)
                        /\ Links(t, b)' <=> Links(t, b)
                        /\ Holds(t, b)' <=> Holds(t, b)
  BY <1>3 DEF Takes, Pushes, Links, Holds, NoLocals
<1>5. LocalOf(t)'
  BY <1>2, <1>3 DEF TypeInv, LocalInv, LocalOf, NoLocals
<1> QED BY <1>1, <1>2, <1>4, <1>5, QuietStep 

(* The steps that move a block.                                            *)

\* A block that was never handed out gets its first owner.
LEMMA FirstOwner ==
  ASSUME TypeInv, LocalInv, NEW s, NEW k, NEW by, Good(s, k, by), NEW t \in Threads,
         pc[t] \in {"pool", "create"}, NEW c \in Blocks, c \in Unused, Obtain(t, c),
         UNCHANGED list, initialBlockPoolIndex' \in Nat, heap' \subseteq heap,
         c \notin Unused', \A b \in Blocks \ {c} : b \in Unused' <=> b \in Unused
  PROVE  Inv'
<1>1. Go(t, "idle", NoLocals) /\ "idle" \in PCs /\ NoLocals \in Locals
  BY DEF Obtain, PCs, Locals, NoLocals
<1>2. pc'[t] = "idle" /\ loc'[t] = NoLocals
  BY <1>1, Moved
<1>3. \A b \in Blocks : /\ ~ Takes(t, b)' /\ ~ Pushes(t, b)' /\ ~ Links(t, b)' /\ ~ Holds(t, b)'
                        /\ ~ Takes(t, b) /\ ~ Pushes(t, b) /\ ~ Links(t, b) /\ ~ Holds(t, b)
  BY <1>2 DEF Takes, Pushes, Links, Holds
<1>4. /\ owned' \in [Threads -> SUBSET Blocks] /\ owned'[t] = owned[t] \cup {c}
      /\ \A v \in Threads \ {t} : owned'[v] = owned[v]
  BY DEF TypeInv, Obtain
<1>5. k \in [Blocks -> Kinds] /\ k[c] = "unused" /\ ~ \E i \in 1 .. Len(s) : s[i] = c
  BY DEF Good, PlaceInv
<1> DEFINE m == [k EXCEPT ![c] = "owned"]
           w == [by EXCEPT ![c] = t]
<1>6. /\ m \in [Blocks -> Kinds] /\ w \in [Blocks -> Threads \cup {Null}]
      /\ m[c] = "owned" /\ w[c] = t
      /\ \A b \in Blocks \ {c} : m[b] = k[b] /\ w[b] = by[b]
  BY <1>5 DEF Kinds, Good, PlaceInv
<1> HIDE DEF m, w
<1>7. PlaceInv(s, m, w)'
  <2>1. Relocates(t, c, s, k, by, s, m, w)
    BY <1>3, <1>4, <1>5, <1>6 DEF Relocates
  <2> QED BY <1>1, <2>1, PlaceChange DEF Good
<1>11. CountInv(m)'
  <2>1. Holders(c)' = Holders(c)
    BY <1>1, <1>3, Holding
  <2>2. /\ freeListRefs' \in [Blocks -> Nat] /\ freeListRefs' = freeListRefs
        /\ freeListRefs[c] = Cardinality(Holders(c))' + Weight("owned")
    BY <1>5, <2>1 DEF Good, CountInv, Weight, TypeInv, list
  <2> QED BY <1>1, <1>3, <1>6, <2>2, CountStep DEF Good
<1>8. TypeInv'
  BY <1>1, <1>4, Moved DEF TypeInv, list
<1>9. LocalInv'
  <2>1. LocalOf(t)'
    BY <1>2 DEF LocalOf
  <2> QED BY <1>1, <2>1, LocalStep DEF list
<1>10. ListInv(s)'
  BY ListSame DEF Good, list
<1> QED BY <1>7, <1>11, <1>8, <1>9, <1>10, Again

\* The next block of the array, if there is one left.
LEMMA StepPool ==
  ASSUME TypeInv, LocalInv, NEW s, NEW k, NEW by, Good(s, k, by), NEW t \in Threads,
         try_get_block_from_initial_pool(t)
  PROVE  Inv'
<1>1. /\ initialBlockPoolIndex \in Nat /\ initialBlockPoolSize \in Nat
      /\ DOMAIN initialBlockPool = 1 .. initialBlockPoolSize
  BY BlockPoolAssumption DEF TypeInv, initialBlockPoolSize
<1>2. CASE initialBlockPoolIndex >= initialBlockPoolSize
  BY <1>2, StepNoPool
<1>3. CASE initialBlockPoolIndex < initialBlockPoolSize
  <2> DEFINE n == initialBlockPoolIndex + 1
             c == initialBlockPool[n]
  <2>1. /\ pc[t] = "pool" /\ Obtain(t, c) /\ UNCHANGED list /\ heap' = heap
        /\ initialBlockPoolIndex' = n /\ n \in Nat
    BY <1>1, <1>3 DEF try_get_block_from_initial_pool
  <2>2. n \in DOMAIN initialBlockPool /\ c \in Blocks
    BY <1>1, <1>3 DEF Blocks
  <2>3. \A j \in DOMAIN initialBlockPool : j > initialBlockPoolIndex <=> j = n \/ j > n
    BY <1>1
  <2>4. \A b : (b \in Unused <=> (b \in heap \/ \E j \in DOMAIN initialBlockPool :
                                    j > initialBlockPoolIndex /\ b = initialBlockPool[j]))
    BY DEF Unused
  <2>5. \A b : (b \in Unused' <=> (b \in heap \/ \E j \in DOMAIN initialBlockPool :
                                    j > n /\ b = initialBlockPool[j]))
    BY <2>1 DEF Unused
  <2>6. c \notin heap
    BY <2>2, BlockPoolAssumption DEF TypeInv
  <2>7. n \in Nat /\ \A j \in DOMAIN initialBlockPool : j > n => j # n
    BY <1>1
  <2>8. \A j \in DOMAIN initialBlockPool : initialBlockPool[j] = c => j = n
    BY <2>2, BlockPoolAssumption
  <2> HIDE DEF n, c
  <2>9. c \in Unused /\ c \notin Unused'
    BY <2>2, <2>3, <2>4, <2>5, <2>6, <2>7, <2>8 DEF c
  <2>10. \A b \in Blocks \ {c} : b \in Unused' <=> b \in Unused
    BY <2>3, <2>4, <2>5 DEF c
  <2> QED BY <2>1, <2>2, <2>9, <2>10, FirstOwner
<1> QED BY <1>1, <1>2, <1>3

\* A block from the heap, or none.
LEMMA StepCreate ==
  ASSUME TypeInv, LocalInv, NEW s, NEW k, NEW by, Good(s, k, by), NEW t \in Threads, Create(t)
  PROVE  Inv'
<1>1. CASE Go(t, "idle", NoLocals) /\ UNCHANGED <<heap, owned>>
  <2>1. pc[t] = "create" /\ UNCHANGED <<heap, owned, initialBlockPoolIndex, list>>
    BY <1>1 DEF Create
  <2> QED BY <1>1, <2>1, StepNoCreate
<1>2. CASE heap # {} /\ \E b \in heap : heap' = heap \ {b} /\ Obtain(t, b)
  <2>1. PICK c \in heap : heap' = heap \ {c} /\ Obtain(t, c)
    BY <1>2
  <2>2. pc[t] = "create" /\ UNCHANGED <<initialBlockPoolIndex, list>>
    BY DEF Create
  <2>3. c \in Blocks /\ initialBlockPoolIndex' \in Nat
    BY <2>2 DEF Blocks, TypeInv
  <2>4. \A i \in DOMAIN initialBlockPool : initialBlockPool[i] # c
    BY BlockPoolAssumption DEF TypeInv
  <2>5. c \in Unused /\ c \notin Unused' /\ \A b \in Blocks \ {c} : b \in Unused' <=> b \in Unused
    BY <2>1, <2>2, <2>4 DEF Unused
  <2> QED BY <2>1, <2>2, <2>3, <2>5, FirstOwner
<1>3. (heap # {} /\ \E b \in heap : heap' = heap \ {b} /\ Obtain(t, b))
      \/ (Go(t, "idle", NoLocals) /\ UNCHANGED <<heap, owned>>)
  BY DEF Create
<1> QED BY <1>1, <1>2, <1>3

\* A reference is only added to a node that has one.
LEMMA StepAddRef ==
  ASSUME TypeInv, LocalInv, NEW s, NEW k, NEW by, Good(s, k, by), NEW t \in Threads, AddRef(t),
         NEW c, c = loc[t].head
  PROVE  Inv'
<1>1. CASE freeListRefs[c] # loc[t].refs
  BY <1>1, StepNoRef
<1>2. CASE freeListRefs[c] = loc[t].refs
  <2>1. /\ pc[t] = "ref" /\ Go(t, "next", loc[t]) /\ freeListRefs' = [freeListRefs EXCEPT ![c] = @ + 1]
        /\ UNCHANGED <<initialBlockPoolIndex, freeListHead, freeListNext, heap, owned>>
    BY <1>2 DEF AddRef
  <2>2. "next" \in PCs /\ loc[t] \in Locals /\ c \in Blocks /\ freeListRefs[c] \in Nat
    BY <2>1 DEF PCs, TypeInv, LocalInv, LocalOf
  <2>3. pc'[t] = "next" /\ loc'[t] = loc[t]
    BY <2>1, <2>2, Moved
  <2>4. freeListRefs[c] % SHOULD_BE_ON_FREELIST # 0
    BY <1>2, <2>1 DEF LocalInv, LocalOf
  <2>5. \A b \in Blocks : /\ ~ Takes(t, b)' /\ ~ Pushes(t, b)' /\ ~ Links(t, b)'
                          /\ ~ Takes(t, b) /\ ~ Pushes(t, b) /\ ~ Links(t, b) /\ ~ Holds(t, b)
                          /\ Holds(t, b)' <=> b = c
    BY <2>1, <2>3 DEF Takes, Pushes, Links, Holds
  <2>6. /\ \A b \in Blocks \ {c} : Holders(b)' = Holders(b)
        /\ Cardinality(Holders(c)) \in Nat
        /\ Cardinality(Holders(c))' = Cardinality(Holders(c)) + 1
        /\ (Holders(c) = {}) <=> (Cardinality(Holders(c)) = 0)
        /\ (Holders(c)' = {}) <=> (Cardinality(Holders(c))' = 0)
    BY <2>1, <2>2, <2>5, Holding
  <2>7. k \in [Blocks -> Kinds] /\ freeListRefs[c] = Cardinality(Holders(c)) + Weight(k[c])
    BY <2>2 DEF Good, PlaceInv, CountInv
  <2>8. k[c] = "flag" => Holders(c) # {} /\ Holders(c)' # {}
    <3> SUFFICES ASSUME k[c] = "flag" PROVE Cardinality(Holders(c)) # 0
      BY <2>6
    <3> SUFFICES ASSUME Cardinality(Holders(c)) = 0 PROVE FALSE
      OBVIOUS
    <3>1. freeListRefs[c] = SHOULD_BE_ON_FREELIST
      BY <2>7, BlockPoolAssumption DEF Weight
    <3>2. SHOULD_BE_ON_FREELIST % SHOULD_BE_ON_FREELIST = 0
      <4>1. SHOULD_BE_ON_FREELIST \in Nat /\ SHOULD_BE_ON_FREELIST > 0
        BY BlockPoolAssumption, FS_CardinalityType
      <4> QED BY <4>1
    <3> QED BY <2>4, <3>1, <3>2
  <2>9. PlaceInv(s, k, by)'
    <3>1. Unused' = Unused /\ owned' = owned
      BY <2>1 DEF Unused
    <3>2. \A b \in Blocks : k[b] = "flag" => (Holders(b)' = {} <=> Holders(b) = {})
      BY <2>6, <2>8
    <3> QED BY <2>1, <2>2, <2>5, <3>1, <3>2, PlaceSame DEF Good
  <2>10. freeListRefs' \in [Blocks -> Nat]
    BY <2>1, <2>2 DEF TypeInv
  <2>11. CountInv(k)'
    <3>1. Weight(k[c]) \in Nat
      BY BlockPoolAssumption DEF Weight
    <3>2. freeListRefs'[c] = freeListRefs[c] + 1 /\ \A b \in Blocks \ {c} : freeListRefs'[b] = freeListRefs[b]
      BY <2>1, <2>2 DEF TypeInv
    <3>3. freeListRefs'[c] = Cardinality(Holders(c))' + Weight(k[c])
      BY <2>6, <2>7, <3>1, <3>2
    <3>4. CountInv(k) /\ \A b \in Blocks \ {c} : Holds(t, b)' <=> Holds(t, b)
      BY <2>5 DEF Good
    <3> QED BY <2>1, <2>2, <2>10, <3>2, <3>3, <3>4, CountStep
  <2>12. TypeInv'
    BY <2>1, <2>2, <2>10, Moved DEF TypeInv
  <2>13. LocalInv'
    <3>1. LocalOf(t)'
      BY <2>2, <2>3 DEF LocalOf
    <3> QED BY <2>1, <2>2, <3>1, LocalStep
  <2>14. ListInv(s)'
    BY <2>1, ListSame DEF Good
  <2> QED BY <2>9, <2>11, <2>12, <2>13, <2>14, Again
<1> QED BY <1>1, <1>2

\* Taking a node off the list.
LEMMA StepPopHead ==
  ASSUME TypeInv, LocalInv, NEW s, NEW k, NEW by, Good(s, k, by), NEW t \in Threads, PopHead(t),
         NEW c, c = loc[t].head
  PROVE  Inv'
<1>1. CASE freeListHead # c
  BY <1>1, StepNoPop
<1>2. CASE freeListHead = c
  <2>1. /\ pc[t] = "pop" /\ Go(t, "got", loc[t]) /\ freeListHead' = loc[t].next
        /\ UNCHANGED <<initialBlockPoolIndex, freeListRefs, freeListNext, heap, owned>>
    BY <1>2 DEF PopHead
  <2>2. "got" \in PCs /\ loc[t] \in Locals /\ c \in Blocks /\ loc[t].next = freeListNext[c]
    BY <2>1 DEF PCs, TypeInv, LocalInv, LocalOf
  <2>3. pc'[t] = "got" /\ loc'[t] = loc[t]
    BY <2>1, <2>2, Moved
  <2>4. s \in Seq(Blocks) /\ Len(s) \in Nat /\ Len(s) > 0 /\ s[1] = c /\ s # <<>>
    <3>1. s \in Seq(Blocks) /\ Len(s) \in Nat /\ freeListHead = At(s, 1)
      BY DEF Good, ListInv
    <3>2. c # Null
      BY <2>2, BlockPoolAssumption
    <3>3. 1 <= Len(s)
      BY <1>2, <3>1, <3>2 DEF At
    <3> QED BY <1>2, <3>1, <3>3 DEF At
  <2> DEFINE z == Tail(s)
  <2>5. /\ z \in Seq(Blocks) /\ Len(z) = Len(s) - 1
        /\ \A i \in 1 .. Len(z) : z[i] = s[i + 1]
    BY <2>4
  <2> HIDE DEF z
  <2>6. ListInv(z)'
    <3>1. \A i, j \in 1 .. Len(s) : s[i] = s[j] => i = j
      BY DEF Good, ListInv
    <3>2. \A i, j \in 1 .. Len(z) : z[i] = z[j] => i = j
      <4> SUFFICES ASSUME NEW i \in 1 .. Len(z), NEW j \in 1 .. Len(z), z[i] = z[j] PROVE i = j
        OBVIOUS
      <4>1. i + 1 \in 1 .. Len(s) /\ j + 1 \in 1 .. Len(s) /\ s[i + 1] = s[j + 1]
        BY <2>4, <2>5
      <4>2. i + 1 = j + 1
        BY <3>1, <4>1
      <4> QED BY <4>2
    <3>3. \A i \in 1 .. Len(s) : freeListNext[s[i]] = At(s, i + 1)
      BY DEF Good, ListInv
    <3>4. \A i \in 1 .. Len(s) : At(s, i + 1) = At(z, i)
      BY <2>4, <2>5 DEF At
    <3>5. freeListNext[c] = At(z, 1)
      BY <2>4, <3>3, <3>4
    <3>6. \A i \in 1 .. Len(z) : freeListNext[z[i]] = At(z, i + 1)
      <4> SUFFICES ASSUME NEW i \in 1 .. Len(z) PROVE freeListNext[z[i]] = At(z, i + 1)
        OBVIOUS
      <4>1. i + 1 \in 1 .. Len(s) /\ z[i] = s[i + 1]
        BY <2>4, <2>5
      <4> QED BY <3>3, <3>4, <4>1
    <3>7. freeListHead' = At(z, 1)
      BY <2>1, <2>2, <3>5
    <3> QED BY <2>1, <2>5, <3>2, <3>6, <3>7 DEF ListInv
  <2>7. /\ ~ \E i \in 1 .. Len(z) : z[i] = c
        /\ \A b \in Blocks \ {c} : (\E i \in 1 .. Len(z) : z[i] = b) <=> (\E i \in 1 .. Len(s) : s[i] = b)
    <3>1. \A i \in 1 .. Len(s) : s[i] = c => i = 1
      BY <2>4 DEF Good, ListInv
    <3>2. \A i \in 1 .. Len(z) : i + 1 \in 1 .. Len(s) /\ i + 1 # 1 /\ z[i] = s[i + 1]
      BY <2>4, <2>5
    <3>3. \A i \in 1 .. Len(s) : i # 1 => i - 1 \in 1 .. Len(z) /\ z[i - 1] = s[i]
      BY <2>4, <2>5
    <3>4. ~ \E i \in 1 .. Len(z) : z[i] = c
      BY <3>1, <3>2
    <3>5. ASSUME NEW b \in Blocks \ {c}
          PROVE  (\E i \in 1 .. Len(z) : z[i] = b) <=> (\E i \in 1 .. Len(s) : s[i] = b)
      BY <2>4, <3>2, <3>3
    <3> QED BY <3>4, <3>5
  <2>8. k \in [Blocks -> Kinds] /\ k[c] = "list"
    BY <2>2, <2>4 DEF Good, PlaceInv
  <2>9. /\ \A b \in Blocks : /\ ~ Pushes(t, b)' /\ ~ Links(t, b)'
                             /\ ~ Takes(t, b) /\ ~ Pushes(t, b) /\ ~ Links(t, b)
                             /\ Holds(t, b)' <=> Holds(t, b)
                             /\ Takes(t, b)' <=> b = c
        /\ c \notin owned[t]
    <3>1. c \notin owned[t]
      BY <2>2, <2>8 DEF Good, PlaceInv
    <3> QED BY <2>1, <2>3, <3>1 DEF Takes, Pushes, Links, Holds
  <2> DEFINE m == [k EXCEPT ![c] = "take"]
             w == [by EXCEPT ![c] = t]
  <2>14. /\ m \in [Blocks -> Kinds] /\ w \in [Blocks -> Threads \cup {Null}]
         /\ m[c] = "take" /\ w[c] = t
         /\ \A b \in Blocks \ {c} : m[b] = k[b] /\ w[b] = by[b]
    BY <2>2, <2>8 DEF Kinds, Good, PlaceInv
  <2> HIDE DEF m, w
  <2>10. PlaceInv(z, m, w)'
    <3>1. Unused' = Unused /\ owned' = owned /\ c \notin Unused
      BY <2>1, <2>2, <2>8 DEF Unused, Good, PlaceInv
    <3>2. Relocates(t, c, s, k, by, z, m, w)
      BY <2>2, <2>7, <2>8, <2>9, <2>14, <3>1 DEF Relocates
    <3> QED BY <2>1, <2>2, <3>2, PlaceChange DEF Good
  <2>11. CountInv(m)'
    <3>1. Holders(c)' = Holders(c)
      BY <2>1, <2>2, <2>9, Holding
    <3>2. /\ freeListRefs' \in [Blocks -> Nat] /\ freeListRefs' = freeListRefs
          /\ freeListRefs[c] = Cardinality(Holders(c))' + Weight("take")
      BY <2>1, <2>2, <2>8, <3>1 DEF Good, CountInv, Weight, TypeInv
    <3> QED BY <2>1, <2>2, <2>9, <2>14, <3>2, CountStep DEF Good
  <2>12. TypeInv'
    <3>1. freeListHead' \in Blocks \cup {Null}
      BY <2>1, <2>2 DEF TypeInv
    <3> QED BY <2>1, <2>2, <3>1, Moved DEF TypeInv
  <2>13. LocalInv'
    <3>1. LocalOf(t)'
      BY <2>2, <2>3 DEF LocalOf
    <3> QED BY <2>1, <2>2, <3>1, LocalStep
  <2> QED BY <2>6, <2>10, <2>11, <2>12, <2>13, Again
<1> QED BY <1>1, <1>2

\* A step of t on block c, from what it does to the list and to the count of c.
LEMMA BlockStep ==
  ASSUME TypeInv, NEW s, NEW k, NEW by, Good(s, k, by),
         NEW t \in Threads, NEW to \in PCs, NEW l \in Locals, Go(t, to, l),
         NEW z, NEW m, NEW w, NEW c \in Blocks, Relocates(t, c, s, k, by, z, m, w),
         freeListRefs' \in [Blocks -> Nat],
         freeListRefs'[c] = Cardinality(Holders(c))' + Weight(m[c]),
         \A b \in Blocks \ {c} : freeListRefs'[b] = freeListRefs[b],
         TypeInv', LocalInv', ListInv(z)'
  PROVE  Inv'
<1>1. PlaceInv(z, m, w)'
  BY PlaceChange DEF Good
<1>2. CountInv(m)'
  <2>1. /\ \A b \in Blocks \ {c} : m[b] = k[b]
        /\ \A b \in Blocks \ {c} : Holds(t, b)' <=> Holds(t, b)
    BY DEF Relocates
  <2> QED BY <2>1, CountStep DEF Good
<1> QED BY <1>1, <1>2, Again

\* A taken node has the list's reference and the taker's.
LEMMA TakenCount ==
  ASSUME TypeInv, NEW s, NEW k, NEW by, Good(s, k, by), NEW t \in Threads, pc[t] = "got",
         NEW c \in Blocks, c = loc[t].head
  PROVE  /\ k[c] = "take" /\ by[c] = t
         /\ freeListRefs[c] = Cardinality(Holders(c)) + 1
         /\ Cardinality(Holders(c)) \in Nat /\ Cardinality(Holders(c)) >= 1
         /\ Cardinality(Holders(c)) <= Cardinality(Threads) /\ Cardinality(Threads) \in Nat
<1>1. Takes(t, c) /\ Holds(t, c)
  BY DEF Takes, Holds
<1>2. k[c] = "take" /\ by[c] = t
  BY <1>1 DEF Good, PlaceInv
<1>3. freeListRefs[c] = Cardinality(Holders(c)) + 1
  BY <1>2 DEF Good, CountInv, Weight
<1>4. t \in Holders(c) /\ Holders(c) \in SUBSET Threads
  BY <1>1 DEF Holders
<1>5. /\ Cardinality(Holders(c)) \in Nat /\ Cardinality(Threads) \in Nat
      /\ Cardinality(Holders(c)) <= Cardinality(Threads) /\ Cardinality(Holders(c)) # 0
  BY <1>4, Differ
<1> QED BY <1>2, <1>3, <1>5

\* The taker becomes the owner and drops both references.
LEMMA StepGot ==
  ASSUME TypeInv, LocalInv, NEW s, NEW k, NEW by, Good(s, k, by), NEW t \in Threads, Got(t),
         NEW c, c = loc[t].head
  PROVE  Inv'
<1>1. /\ pc[t] = "got" /\ Go(t, "idle", NoLocals) /\ freeListRefs' = [freeListRefs EXCEPT ![c] = @ - 2]
      /\ owned' = [owned EXCEPT ![t] = @ \cup {c}]
      /\ UNCHANGED <<initialBlockPoolIndex, freeListHead, freeListNext, heap>>
  BY DEF Got, Obtain
<1>2. "idle" \in PCs /\ NoLocals \in Locals /\ c \in Blocks
  BY <1>1 DEF PCs, Locals, NoLocals, LocalInv, LocalOf
<1>3. pc'[t] = "idle" /\ loc'[t] = NoLocals
  BY <1>1, <1>2, Moved
<1>4. /\ k[c] = "take" /\ by[c] = t
      /\ freeListRefs[c] = Cardinality(Holders(c)) + 1
      /\ Cardinality(Holders(c)) \in Nat /\ Cardinality(Holders(c)) >= 1
  BY <1>1, <1>2, TakenCount
<1>5. /\ \A b \in Blocks : ~ Takes(t, b)' /\ ~ Pushes(t, b)' /\ ~ Links(t, b)' /\ ~ Holds(t, b)'
      /\ \A b \in Blocks \ {c} : ~ Takes(t, b) /\ ~ Pushes(t, b) /\ ~ Links(t, b) /\ ~ Holds(t, b)
      /\ Holds(t, c)
  BY <1>1, <1>3 DEF Takes, Pushes, Links, Holds
<1>6. Cardinality(Holders(c))' = Cardinality(Holders(c)) - 1
  BY <1>1, <1>2, <1>5, Holding
<1> DEFINE m == [k EXCEPT ![c] = "owned"]
<1>7. /\ m \in [Blocks -> Kinds] /\ m[c] = "owned" /\ \A b \in Blocks \ {c} : m[b] = k[b]
      /\ by \in [Blocks -> Threads \cup {Null}]
  BY <1>2 DEF Kinds, Good, PlaceInv
<1> HIDE DEF m
<1>8. /\ owned' \in [Threads -> SUBSET Blocks] /\ owned'[t] = owned[t] \cup {c}
      /\ \A v \in Threads \ {t} : owned'[v] = owned[v]
  BY <1>1, <1>2 DEF TypeInv
<1>9. Relocates(t, c, s, k, by, s, m, by)
  <2>1. Unused' = Unused
    BY <1>1 DEF Unused
  <2>2. c \notin Unused /\ ~ \E i \in 1 .. Len(s) : s[i] = c
    BY <1>2, <1>4 DEF Good, PlaceInv
  <2> QED BY <1>4, <1>5, <1>7, <1>8, <2>1, <2>2 DEF Relocates
<1>10. /\ freeListRefs' \in [Blocks -> Nat]
       /\ freeListRefs'[c] = Cardinality(Holders(c))' + Weight(m[c])
       /\ \A b \in Blocks \ {c} : freeListRefs'[b] = freeListRefs[b]
  <2>1. freeListRefs[c] - 2 = Cardinality(Holders(c))' /\ freeListRefs[c] - 2 \in Nat
    BY <1>4, <1>6
  <2>2. Weight(m[c]) = 0
    BY <1>7 DEF Weight
  <2>3. /\ freeListRefs' \in [Blocks -> Nat] /\ freeListRefs'[c] = freeListRefs[c] - 2
        /\ \A b \in Blocks \ {c} : freeListRefs'[b] = freeListRefs[b]
    BY <1>1, <1>2, <2>1 DEF TypeInv
  <2> QED BY <2>1, <2>2, <2>3
<1>11. TypeInv'
  BY <1>1, <1>2, <1>8, <1>10, Moved DEF TypeInv
<1>12. LocalInv'
  <2>1. LocalOf(t)'
    BY <1>3 DEF LocalOf
  <2> QED BY <1>1, <1>2, <2>1, LocalStep
<1>13. ListInv(s)'
  BY <1>1, ListSame DEF Good
<1> QED BY <1>1, <1>2, <1>9, <1>10, <1>11, <1>12, <1>13, BlockStep

\* Giving a block back: with no reference left the caller links it itself.
LEMMA Stepadd ==
  ASSUME TypeInv, LocalInv, NEW s, NEW k, NEW by, Good(s, k, by), NEW t \in Threads,
         NEW c \in Blocks, add(t, c)
  PROVE  Inv'
<1> DEFINE to == IF freeListRefs[c] = 0 THEN "top" ELSE "idle"
           l == IF freeListRefs[c] = 0 THEN [NoLocals EXCEPT !.node = c] ELSE NoLocals
<1>1. /\ pc[t] = "idle" /\ c \in owned[t] /\ Go(t, to, l)
      /\ freeListRefs' = [freeListRefs EXCEPT ![c] = @ + SHOULD_BE_ON_FREELIST]
      /\ owned' = [owned EXCEPT ![t] = @ \ {c}]
      /\ UNCHANGED <<initialBlockPoolIndex, freeListHead, freeListNext, heap>>
  BY DEF add
<1>2. to \in PCs /\ l \in Locals
  BY DEF PCs, Locals, NoLocals
<1>3. pc'[t] = to /\ loc'[t] = l
  BY <1>1, <1>2, Moved
<1>4. k[c] = "owned" /\ by[c] = t
  BY <1>1 DEF Good, PlaceInv
<1>5. \A b \in Blocks : /\ ~ Takes(t, b)' /\ ~ Pushes(t, b)' /\ ~ Holds(t, b)'
                        /\ ~ Takes(t, b) /\ ~ Pushes(t, b) /\ ~ Holds(t, b) /\ ~ Links(t, b)
                        /\ Links(t, b)' <=> (b = c /\ freeListRefs[c] = 0)
  BY <1>1, <1>3 DEF Takes, Pushes, Links, Holds, NoLocals
<1>6. Holders(c)' = Holders(c) /\ (Holders(c) = {} <=> Cardinality(Holders(c)) = 0)
      /\ Cardinality(Holders(c)) \in Nat
  BY <1>1, <1>2, <1>5, Holding
<1>7. freeListRefs[c] = Cardinality(Holders(c))
  BY <1>4, <1>6 DEF Good, CountInv, Weight
<1> DEFINE m == [k EXCEPT ![c] = "flag"]
<1>8. PICK u \in {t, Null} : u = t <=> freeListRefs[c] = 0
  <2>1. t # Null
    BY BlockPoolAssumption
  <2> QED BY <2>1
<1> DEFINE w == [by EXCEPT ![c] = u]
<1>9. /\ m \in [Blocks -> Kinds] /\ w \in [Blocks -> Threads \cup {Null}]
      /\ m[c] = "flag" /\ w[c] = u
      /\ \A b \in Blocks \ {c} : m[b] = k[b] /\ w[b] = by[b]
  BY DEF Kinds, Good, PlaceInv
<1> HIDE DEF m, w
<1>10. /\ owned' \in [Threads -> SUBSET Blocks] /\ owned'[t] = owned[t] \ {c}
       /\ \A v \in Threads \ {t} : owned'[v] = owned[v]
  BY <1>1 DEF TypeInv
<1>11. Relocates(t, c, s, k, by, s, m, w)
  <2>1. Unused' = Unused
    BY <1>1 DEF Unused
  <2>2. c \notin Unused /\ ~ \E i \in 1 .. Len(s) : s[i] = c
    BY <1>4 DEF Good, PlaceInv
  <2>3. u = t <=> Holders(c)' = {}
    BY <1>6, <1>7, <1>8
  <2> QED BY <1>4, <1>5, <1>8, <1>9, <1>10, <2>1, <2>2, <2>3 DEF Relocates
<1>12. /\ freeListRefs' \in [Blocks -> Nat]
       /\ freeListRefs'[c] = Cardinality(Holders(c))' + Weight(m[c])
       /\ \A b \in Blocks \ {c} : freeListRefs'[b] = freeListRefs[b]
  BY <1>1, <1>6, <1>7, <1>9, BlockPoolAssumption DEF TypeInv, Weight
<1>13. TypeInv'
  BY <1>1, <1>2, <1>10, <1>12, Moved DEF TypeInv
<1>14. LocalInv'
  <2>1. LocalOf(t)'
    BY <1>3 DEF LocalOf, NoLocals
  <2> QED BY <1>1, <1>2, <2>1, LocalStep
<1>15. ListInv(s)'
  BY <1>1, ListSame DEF Good
<1> HIDE DEF to, l
<1> QED BY <1>1, <1>2, <1>11, <1>12, <1>13, <1>14, <1>15, BlockStep

\* Dropping a reference: whoever drops the last one to a flagged node links it.
LEMMA StepDropRef ==
  ASSUME TypeInv, LocalInv, NEW s, NEW k, NEW by, Good(s, k, by), NEW t \in Threads, DropRef(t),
         NEW c, c = loc[t].node
  PROVE  Inv'
<1>1. /\ pc[t] = "unref" /\ freeListRefs' = [freeListRefs EXCEPT ![c] = @ - 1]
      /\ UNCHANGED <<initialBlockPoolIndex, freeListHead, freeListNext, heap, owned>>
  BY DEF DropRef
<1>2. c \in Blocks /\ loc[t] \in Locals /\ k \in [Blocks -> Kinds] /\ by \in [Blocks -> Threads \cup {Null}]
  BY <1>1 DEF LocalInv, LocalOf, TypeInv, Good, PlaceInv
<1>3. Holds(t, c) /\ t \in Holders(c) /\ Holders(c) \in SUBSET Threads
  BY <1>1 DEF Holds, Holders
<1>4. /\ Cardinality(Holders(c)) \in Nat /\ Cardinality(Holders(c)) >= 1
      /\ Cardinality(Holders(c)) <= Cardinality(Threads) /\ Cardinality(Threads) \in Nat
  <2>1. /\ Cardinality(Holders(c)) \in Nat /\ Cardinality(Threads) \in Nat
        /\ Cardinality(Holders(c)) <= Cardinality(Threads) /\ Cardinality(Holders(c)) # 0
    BY <1>3, Differ
  <2> QED BY <2>1
<1>5. /\ SHOULD_BE_ON_FREELIST \in Nat /\ SHOULD_BE_ON_FREELIST > Cardinality(Threads) + 1
      /\ Weight(k[c]) \in Nat
      /\ freeListRefs[c] = Cardinality(Holders(c)) + Weight(k[c])
  BY <1>2, BlockPoolAssumption DEF Good, CountInv, Weight
<1>6. /\ freeListRefs' \in [Blocks -> Nat] /\ freeListRefs'[c] = freeListRefs[c] - 1
      /\ \A b \in Blocks \ {c} : freeListRefs'[b] = freeListRefs[b]
  <2>1. freeListRefs[c] - 1 \in Nat
    BY <1>4, <1>5
  <2> QED BY <1>1, <1>2, <2>1 DEF TypeInv
<1>7. Unused' = Unused /\ ListInv(s)'
  BY <1>1, ListSame DEF Unused, Good
<1>8. k[c] = "flag" => by[c] = Null
  BY <1>2, <1>3 DEF Good, PlaceInv
<1>9. CASE freeListRefs[c] = SHOULD_BE_ON_FREELIST + 1
  <2> DEFINE l == [loc[t] EXCEPT !.back = Continue(loc[t].head)]
             w == [by EXCEPT ![c] = t]
  <2>1. Go(t, "top", l) /\ "top" \in PCs /\ l \in Locals
    BY <1>2, <1>9 DEF DropRef, PCs, Locals, Continue
  <2>2. pc'[t] = "top" /\ loc'[t] = l
    BY <2>1, Moved
  <2>3. k[c] = "flag" /\ Cardinality(Holders(c)) = 1
    BY <1>4, <1>5, <1>9 DEF Weight
  <2>4. \A b \in Blocks : /\ ~ Takes(t, b)' /\ ~ Pushes(t, b)' /\ ~ Holds(t, b)'
                          /\ ~ Takes(t, b) /\ ~ Pushes(t, b) /\ ~ Links(t, b)
                          /\ Holds(t, b) <=> b = c
                          /\ Links(t, b)' <=> b = c
    BY <1>1, <1>2, <2>2 DEF Takes, Pushes, Links, Holds, Locals
  <2>5. Cardinality(Holders(c))' = 0 /\ Holders(c)' = {}
    BY <1>2, <2>1, <2>3, <2>4, Holding
  <2>6. /\ w \in [Blocks -> Threads \cup {Null}] /\ w[c] = t
        /\ \A b \in Blocks \ {c} : w[b] = by[b]
    BY <1>2
  <2>9. LocalInv'
    <3>1. LocalOf(t)'
      BY <1>2, <2>2 DEF LocalOf, Continue, Locals
    <3> QED BY <1>1, <2>1, <3>1, LocalStep
  <2> HIDE DEF w, l
  <2>7. Relocates(t, c, s, k, by, s, k, w)
    <3>1. c \notin Unused /\ (~ \E i \in 1 .. Len(s) : s[i] = c) /\ c \notin owned[t]
      BY <1>2, <2>3 DEF Good, PlaceInv
    <3> QED BY <1>1, <1>2, <1>7, <1>8, <2>3, <2>4, <2>5, <2>6, <3>1 DEF Relocates
  <2>8. freeListRefs'[c] = Cardinality(Holders(c))' + Weight(k[c])
    BY <1>5, <1>6, <2>3, <2>5
  <2>10. TypeInv'
    BY <1>1, <1>6, <2>1, Moved DEF TypeInv
  <2> QED BY <1>2, <1>6, <1>7, <2>1, <2>7, <2>8, <2>9, <2>10, BlockStep
<1>10. CASE freeListRefs[c] # SHOULD_BE_ON_FREELIST + 1
  <2> DEFINE l == [loc[t] EXCEPT !.node = Null]
             to == Continue(loc[t].head)
  <2>1. Go(t, to, l) /\ to \in PCs /\ l \in Locals
    BY <1>2, <1>10 DEF DropRef, PCs, Locals, Continue
  <2>2. pc'[t] = to /\ loc'[t] = l
    BY <2>1, Moved
  <2>3. \A b \in Blocks : /\ ~ Takes(t, b)' /\ ~ Pushes(t, b)' /\ ~ Links(t, b)' /\ ~ Holds(t, b)'
                          /\ ~ Takes(t, b) /\ ~ Pushes(t, b) /\ ~ Links(t, b)
                          /\ Holds(t, b) <=> b = c
    BY <1>1, <2>2 DEF Takes, Pushes, Links, Holds, Continue
  <2>4. LocalInv'
    <3>1. LocalOf(t)'
      BY <1>2, <2>2 DEF LocalOf, Continue, Locals
    <3> QED BY <1>1, <2>1, <3>1, LocalStep
  <2> HIDE DEF to, l
  <2>5. /\ Cardinality(Holders(c))' = Cardinality(Holders(c)) - 1
        /\ Holders(c)' = {} <=> Cardinality(Holders(c))' = 0
        /\ \A b \in Blocks \ {c} : Holders(b)' = Holders(b)
    BY <1>2, <2>1, <2>3, Holding
  <2>6. k[c] = "flag" => Holders(c)' # {} /\ Holders(c) # {}
    <3>1. k[c] = "flag" => Cardinality(Holders(c)) # 1
      BY <1>4, <1>5, <1>10 DEF Weight
    <3> QED BY <1>3, <1>4, <2>5, <3>1
  <2>7. PlaceInv(s, k, by)'
    <3>1. \A b \in Blocks : k[b] = "flag" => (Holders(b)' = {} <=> Holders(b) = {})
      BY <2>5, <2>6
    <3>2. owned' = owned /\ PlaceInv(s, k, by)
      BY <1>1 DEF Good
    <3> QED BY <1>7, <2>1, <2>3, <3>1, <3>2, PlaceSame
  <2>8. CountInv(k)'
    <3>1. freeListRefs'[c] = Cardinality(Holders(c))' + Weight(k[c])
      BY <1>4, <1>5, <1>6, <2>5
    <3>2. CountInv(k) /\ \A b \in Blocks \ {c} : Holds(t, b)' <=> Holds(t, b)
      BY <2>3 DEF Good
    <3> QED BY <1>2, <1>6, <2>1, <3>1, <3>2, CountStep
  <2>9. TypeInv'
    BY <1>1, <1>6, <2>1, Moved DEF TypeInv
  <2> QED BY <1>7, <2>4, <2>7, <2>8, <2>9, Again
<1> QED BY <1>9, <1>10

\* A node about to be linked is nobody's but the linker's: its next is free
\* to be written.
LEMMA StepLink ==
  ASSUME TypeInv, LocalInv, NEW s, NEW k, NEW by, Good(s, k, by), NEW t \in Threads, Link(t),
         NEW c, c = loc[t].node
  PROVE  Inv'
<1>1. /\ pc[t] = "link" /\ Go(t, "push", loc[t])
      /\ freeListNext' = [freeListNext EXCEPT ![c] = loc[t].top]
      /\ freeListRefs' = [freeListRefs EXCEPT ![c] = 1]
      /\ UNCHANGED <<initialBlockPoolIndex, freeListHead, heap, owned>>
  BY DEF Link
<1>2. c \in Blocks /\ loc[t] \in Locals /\ "push" \in PCs /\ loc[t].top \in Blocks \cup {Null}
  BY <1>1 DEF LocalInv, LocalOf, TypeInv, PCs, Locals
<1>3. pc'[t] = "push" /\ loc'[t] = loc[t]
  BY <1>1, <1>2, Moved
<1>4. k[c] = "flag" /\ by[c] = t /\ Holders(c) = {}
  <2>1. Links(t, c)
    BY <1>1 DEF Links
  <2> QED BY <1>2, <2>1 DEF Good, PlaceInv
<1>5. \A b \in Blocks : /\ ~ Takes(t, b)' /\ ~ Links(t, b)' /\ ~ Holds(t, b)'
                        /\ ~ Takes(t, b) /\ ~ Pushes(t, b) /\ ~ Holds(t, b)
                        /\ Links(t, b) <=> b = c
                        /\ Pushes(t, b)' <=> b = c
  BY <1>1, <1>3 DEF Takes, Pushes, Links, Holds
<1>6. Holders(c)' = {} /\ Cardinality(Holders(c))' = 0
  BY <1>1, <1>2, <1>4, <1>5, Holding
<1> DEFINE m == [k EXCEPT ![c] = "push"]
<1>7. /\ m \in [Blocks -> Kinds] /\ m[c] = "push" /\ \A b \in Blocks \ {c} : m[b] = k[b]
      /\ by \in [Blocks -> Threads \cup {Null}]
  BY <1>2 DEF Kinds, Good, PlaceInv
<1> HIDE DEF m
<1>8. c \notin Unused /\ (~ \E i \in 1 .. Len(s) : s[i] = c) /\ c \notin owned[t]
  BY <1>2, <1>4 DEF Good, PlaceInv
<1>9. Relocates(t, c, s, k, by, s, m, by)
  <2>1. Unused' = Unused /\ owned' = owned
    BY <1>1 DEF Unused
  <2> QED BY <1>2, <1>4, <1>5, <1>7, <1>8, <2>1 DEF Relocates
<1>10. /\ freeListRefs' \in [Blocks -> Nat]
       /\ freeListRefs'[c] = Cardinality(Holders(c))' + Weight(m[c])
       /\ \A b \in Blocks \ {c} : freeListRefs'[b] = freeListRefs[b]
  BY <1>1, <1>2, <1>6, <1>7 DEF TypeInv, Weight
<1>11. /\ freeListNext' \in [Blocks -> Blocks \cup {Null}] /\ freeListNext'[c] = loc[t].top
       /\ \A b \in Blocks \ {c} : freeListNext'[b] = freeListNext[b]
  BY <1>1, <1>2 DEF TypeInv
<1>12. TypeInv'
  BY <1>1, <1>2, <1>10, <1>11, Moved DEF TypeInv
<1>13. ListInv(s)'
  <2>1. \A i \in 1 .. Len(s) : s[i] \in Blocks \ {c}
    BY <1>8 DEF Good, ListInv
  <2>2. \A i \in 1 .. Len(s) : freeListNext'[s[i]] = At(s, i + 1)
    BY <1>11, <2>1 DEF Good, ListInv
  <2> QED BY <1>1, <2>2 DEF Good, ListInv
<1>14. LocalInv'
  <2>1. LocalOf(t)'
    BY <1>1, <1>2, <1>3, <1>11 DEF LocalInv, LocalOf
  <2>2. ASSUME NEW u \in Threads \ {t} PROVE LocalOf(u)'
    <3>1. pc'[u] = pc[u] /\ loc'[u] = loc[u]
      BY <1>1, <1>2, Moved
    <3>2. pc[u] = "pop" => loc[u].head # c
      BY <1>4 DEF Holders, Holds
    <3>3. pc[u] = "push" => loc[u].node # c
      BY <1>2, <1>4 DEF Good, PlaceInv, Pushes
    <3> QED BY <1>11, <3>1, <3>2, <3>3 DEF LocalInv, LocalOf
  <2> QED BY <2>1, <2>2 DEF LocalInv
<1> QED BY <1>1, <1>2, <1>9, <1>10, <1>12, <1>13, <1>14, BlockStep

\* Putting the node at the head of the list it was linked to.
LEMMA StepPushNode ==
  ASSUME TypeInv, LocalInv, NEW s, NEW k, NEW by, Good(s, k, by), NEW t \in Threads, PushNode(t),
         NEW c, c = loc[t].node
  PROVE  Inv'
<1>1. CASE freeListHead # loc[t].top
  BY <1>1, StepNoPush
<1>2. CASE freeListHead = loc[t].top
  <2> DEFINE l == [NoLocals EXCEPT !.head = loc[t].head]
             to == loc[t].back
  <2>1. /\ pc[t] = "push" /\ Go(t, to, l) /\ freeListHead' = c
        /\ UNCHANGED <<initialBlockPoolIndex, freeListRefs, freeListNext, heap, owned>>
    BY <1>2 DEF PushNode, Done
  <2>2. to \in {"idle", "create", "refs"} /\ to \in PCs /\ l \in Locals
    BY DEF TypeInv, PCs, Locals, NoLocals
  <2>3. c \in Blocks /\ freeListNext[c] = freeListHead
    BY <1>2, <2>1 DEF LocalInv, LocalOf
  <2>4. pc'[t] = to /\ loc'[t] = l
    BY <2>1, <2>2, Moved
  <2>5. k[c] = "push" /\ by[c] = t
    <3>1. Pushes(t, c)
      BY <2>1 DEF Pushes
    <3> QED BY <2>3, <3>1 DEF Good, PlaceInv
  <2>6. \A b \in Blocks : /\ ~ Takes(t, b)' /\ ~ Pushes(t, b)' /\ ~ Links(t, b)' /\ ~ Holds(t, b)'
                          /\ ~ Takes(t, b) /\ ~ Links(t, b) /\ ~ Holds(t, b)
                          /\ Pushes(t, b) <=> b = c
    BY <2>1, <2>2, <2>4 DEF Takes, Pushes, Links, Holds
  <2>7. LocalInv'
    <3>1. LocalOf(t)'
      BY <2>1, <2>2, <2>4 DEF LocalInv, LocalOf, NoLocals
    <3> QED BY <2>1, <2>2, <3>1, LocalStep
  <2> HIDE DEF to, l
  <2>8. Holders(c)' = Holders(c)
    BY <2>1, <2>2, <2>3, <2>6, Holding
  <2> DEFINE m == [k EXCEPT ![c] = "list"]
             z == <<c>> \o s
  <2>9. /\ m \in [Blocks -> Kinds] /\ m[c] = "list" /\ \A b \in Blocks \ {c} : m[b] = k[b]
        /\ by \in [Blocks -> Threads \cup {Null}]
    BY <2>3 DEF Kinds, Good, PlaceInv
  <2>10. /\ s \in Seq(Blocks) /\ Len(s) \in Nat /\ z \in Seq(Blocks) /\ Len(z) = Len(s) + 1
         /\ z[1] = c /\ \A i \in 1 .. Len(s) : z[i + 1] = s[i]
    BY <2>3 DEF Good, ListInv
  <2>11. \A i \in 2 .. Len(z) : i - 1 \in 1 .. Len(s) /\ z[i] = s[i - 1]
    <3> SUFFICES ASSUME NEW i \in 2 .. Len(z) PROVE i - 1 \in 1 .. Len(s) /\ z[i] = s[i - 1]
      OBVIOUS
    <3>1. i - 1 \in 1 .. Len(s) /\ (i - 1) + 1 = i
      BY <2>10
    <3> QED BY <2>10, <3>1
  <2> HIDE DEF m, z
  <2>12. c \notin Unused /\ (~ \E i \in 1 .. Len(s) : s[i] = c) /\ c \notin owned[t]
    BY <2>3, <2>5 DEF Good, PlaceInv
  <2>13. /\ \E i \in 1 .. Len(z) : z[i] = c
         /\ \A b \in Blocks \ {c} : (\E i \in 1 .. Len(z) : z[i] = b) <=> (\E i \in 1 .. Len(s) : s[i] = b)
    <3>1. 1 \in 1 .. Len(z) /\ \A i \in 1 .. Len(z) : i = 1 \/ i \in 2 .. Len(z)
      BY <2>10
    <3>2. \A i \in 1 .. Len(s) : i + 1 \in 1 .. Len(z)
      BY <2>10
    <3> QED BY <2>10, <2>11, <3>1, <3>2
  <2>14. Relocates(t, c, s, k, by, z, m, by)
    <3>1. Unused' = Unused /\ owned' = owned
      BY <2>1 DEF Unused
    <3> QED BY <2>3, <2>5, <2>6, <2>9, <2>12, <2>13, <3>1 DEF Relocates
  <2>15. ListInv(z)'
    <3>1. /\ \A i, j \in 1 .. Len(s) : s[i] = s[j] => i = j
          /\ freeListHead = At(s, 1)
          /\ \A i \in 1 .. Len(s) : freeListNext[s[i]] = At(s, i + 1)
      BY DEF Good, ListInv
    <3>2. \A i, j \in 1 .. Len(z) : z[i] = z[j] => i = j
      <4> SUFFICES ASSUME NEW i \in 1 .. Len(z), NEW j \in 1 .. Len(z), z[i] = z[j] PROVE i = j
        OBVIOUS
      <4>1. (i = 1 \/ i \in 2 .. Len(z)) /\ (j = 1 \/ j \in 2 .. Len(z))
        BY <2>10
      <4>2. i \in 2 .. Len(z) => i - 1 \in 1 .. Len(s) /\ z[i] = s[i - 1] /\ z[i] # c
        BY <2>11, <2>12
      <4>3. j \in 2 .. Len(z) => j - 1 \in 1 .. Len(s) /\ z[j] = s[j - 1] /\ z[j] # c
        BY <2>11, <2>12
      <4>4. CASE i = 1
        BY <2>10, <4>1, <4>3, <4>4
      <4>5. CASE i # 1
        <5>1. i - 1 = j - 1
          BY <2>10, <3>1, <4>1, <4>2, <4>3, <4>5
        <5> QED BY <5>1
      <4> QED BY <4>4, <4>5
    <3>3. \A i \in 1 .. Len(z) : At(z, i + 1) = At(s, i)
      <4> SUFFICES ASSUME NEW i \in 1 .. Len(z) PROVE At(z, i + 1) = At(s, i)
        OBVIOUS
      <4>1. CASE i <= Len(s)
        BY <2>10, <4>1 DEF At
      <4>2. CASE ~ (i <= Len(s))
        BY <2>10, <4>2 DEF At
      <4> QED BY <4>1, <4>2
    <3>4. \A i \in 1 .. Len(z) : freeListNext[z[i]] = At(z, i + 1)
      <4> SUFFICES ASSUME NEW i \in 1 .. Len(z) PROVE freeListNext[z[i]] = At(s, i)
        BY <3>3
      <4>1. CASE i = 1
        BY <2>3, <2>10, <3>1, <4>1
      <4>2. CASE i # 1
        <5>1. i - 1 \in 1 .. Len(s) /\ z[i] = s[i - 1] /\ (i - 1) + 1 = i
          BY <2>10, <2>11, <4>2
        <5> QED BY <3>1, <5>1
      <4> QED BY <4>1, <4>2
    <3>5. c = At(z, 1)
      BY <2>10 DEF At
    <3> QED BY <2>1, <2>10, <3>2, <3>4, <3>5 DEF ListInv
  <2>16. /\ freeListRefs' \in [Blocks -> Nat]
         /\ freeListRefs'[c] = Cardinality(Holders(c))' + Weight(m[c])
         /\ \A b \in Blocks \ {c} : freeListRefs'[b] = freeListRefs[b]
    BY <2>1, <2>3, <2>5, <2>8, <2>9 DEF TypeInv, Weight, Good, CountInv
  <2>17. TypeInv'
    BY <2>1, <2>2, <2>3, Moved DEF TypeInv
  <2> QED BY <2>1, <2>2, <2>3, <2>7, <2>14, <2>15, <2>16, <2>17, BlockStep
<1> QED BY <1>1, <1>2

\* The head changed under the pusher: the node is flagged, and left to the
\* others if they have references to it.
LEMMA StepUndo ==
  ASSUME TypeInv, LocalInv, NEW s, NEW k, NEW by, Good(s, k, by), NEW t \in Threads, Undo(t),
         NEW c, c = loc[t].node
  PROVE  Inv'
<1> DEFINE to == IF freeListRefs[c] = 1 THEN "link" ELSE loc[t].back
           l == IF freeListRefs[c] = 1 THEN loc[t] ELSE [NoLocals EXCEPT !.head = loc[t].head]
<1>1. /\ pc[t] = "undo" /\ Go(t, to, l)
      /\ freeListRefs' = [freeListRefs EXCEPT ![c] = @ + (SHOULD_BE_ON_FREELIST - 1)]
      /\ UNCHANGED <<initialBlockPoolIndex, freeListHead, freeListNext, heap, owned>>
  BY DEF Undo, Done
<1>2. /\ to \in PCs /\ l \in Locals /\ c \in Blocks /\ loc[t] \in Locals
      /\ loc[t].back \in {"idle", "create", "refs"}
  BY <1>1 DEF TypeInv, PCs, Locals, NoLocals, LocalInv, LocalOf
<1>3. pc'[t] = to /\ loc'[t] = l
  BY <1>1, <1>2, Moved
<1>4. k[c] = "push" /\ by[c] = t
  <2>1. Pushes(t, c)
    BY <1>1 DEF Pushes
  <2> QED BY <1>2, <2>1 DEF Good, PlaceInv
<1>5. \A b \in Blocks : /\ ~ Takes(t, b)' /\ ~ Pushes(t, b)' /\ ~ Holds(t, b)'
                        /\ ~ Takes(t, b) /\ ~ Holds(t, b) /\ ~ Links(t, b)
                        /\ Pushes(t, b) <=> b = c
                        /\ Links(t, b)' <=> (b = c /\ freeListRefs[c] = 1)
  BY <1>1, <1>2, <1>3 DEF Takes, Pushes, Links, Holds
<1>6. LocalInv'
  <2>1. LocalOf(t)'
    BY <1>1, <1>2, <1>3 DEF LocalInv, LocalOf, NoLocals
  <2> QED BY <1>1, <1>2, <2>1, LocalStep
<1> HIDE DEF to, l
<1>7. Holders(c)' = Holders(c) /\ (Holders(c) = {} <=> Cardinality(Holders(c)) = 0)
      /\ Cardinality(Holders(c)) \in Nat
  BY <1>1, <1>2, <1>5, Holding
<1>8. freeListRefs[c] = Cardinality(Holders(c)) + 1
  BY <1>2, <1>4 DEF Good, CountInv, Weight
<1> DEFINE m == [k EXCEPT ![c] = "flag"]
<1>9. PICK u \in {t, Null} : u = t <=> freeListRefs[c] = 1
  <2>1. t # Null
    BY BlockPoolAssumption
  <2> QED BY <2>1
<1> DEFINE w == [by EXCEPT ![c] = u]
<1>10. /\ m \in [Blocks -> Kinds] /\ w \in [Blocks -> Threads \cup {Null}]
       /\ m[c] = "flag" /\ w[c] = u
       /\ \A b \in Blocks \ {c} : m[b] = k[b] /\ w[b] = by[b]
  BY <1>2 DEF Kinds, Good, PlaceInv
<1> HIDE DEF m, w
<1>11. Relocates(t, c, s, k, by, s, m, w)
  <2>1. Unused' = Unused /\ owned' = owned
    BY <1>1 DEF Unused
  <2>2. c \notin Unused /\ (~ \E i \in 1 .. Len(s) : s[i] = c) /\ c \notin owned[t]
    BY <1>2, <1>4 DEF Good, PlaceInv
  <2>3. u = t <=> Holders(c)' = {}
    BY <1>7, <1>8, <1>9
  <2> QED BY <1>2, <1>4, <1>5, <1>9, <1>10, <2>1, <2>2, <2>3 DEF Relocates
<1>12. /\ freeListRefs' \in [Blocks -> Nat]
       /\ freeListRefs'[c] = Cardinality(Holders(c))' + Weight(m[c])
       /\ \A b \in Blocks \ {c} : freeListRefs'[b] = freeListRefs[b]
  <2>1. /\ freeListRefs[c] + (SHOULD_BE_ON_FREELIST - 1) = Cardinality(Holders(c)) + SHOULD_BE_ON_FREELIST
        /\ freeListRefs[c] + (SHOULD_BE_ON_FREELIST - 1) \in Nat
    <3>1. SHOULD_BE_ON_FREELIST \in Nat
      BY BlockPoolAssumption
    <3> QED BY <1>7, <1>8, <3>1
  <2>2. Weight(m[c]) = SHOULD_BE_ON_FREELIST
    BY <1>10 DEF Weight
  <2>3. /\ freeListRefs' \in [Blocks -> Nat]
        /\ freeListRefs'[c] = freeListRefs[c] + (SHOULD_BE_ON_FREELIST - 1)
        /\ \A b \in Blocks \ {c} : freeListRefs'[b] = freeListRefs[b]
    BY <1>1, <1>2, <2>1 DEF TypeInv
  <2> QED BY <1>7, <2>1, <2>2, <2>3
<1>13. TypeInv'
  BY <1>1, <1>2, <1>12, Moved DEF TypeInv
<1>14. ListInv(s)'
  BY <1>1, ListSame DEF Good
<1> QED BY <1>1, <1>2, <1>6, <1>11, <1>12, <1>13, <1>14, BlockStep

-----------------------------------------------------------------------------
(* The invariant.                                                          *)

\* At first no block is handed out.
LEMMA InvInit == Init => Inv
<1> SUFFICES ASSUME Init PROVE Inv
  OBVIOUS
<1>1. TypeInv
  BY DEF Init, TypeInv, PCs, Locals, NoLocals
<1>2. LocalInv
  BY DEF Init, LocalInv, LocalOf
<1> DEFINE s == <<>>
           k == [b \in Blocks |-> "unused"]
           by == [b \in Blocks |-> Null]
<1>3. s \in Seq(Blocks) /\ k \in [Blocks -> Kinds] /\ by \in [Blocks -> Threads \cup {Null}] /\ Len(s) = 0
  BY DEF Kinds
<1>4. ListInv(s)
  BY <1>3 DEF Init, ListInv, At
<1>5. \A b \in Blocks : Holders(b) = {}
  BY DEF Init, Holders, Holds
<1>6. PlaceInv(s, k, by)
  <2>1. Unused = Blocks
    <3>1. \A j \in DOMAIN initialBlockPool : j > 0
      BY BlockPoolAssumption
    <3> QED BY <3>1 DEF Init, Unused, Blocks
  <2>2. \A t \in Threads, b \in Blocks :
          b \notin owned[t] /\ ~ Takes(t, b) /\ ~ Pushes(t, b) /\ ~ Links(t, b)
    BY DEF Init, Takes, Pushes, Links
  <2>3. \A b \in Blocks : k[b] = "unused" /\ by[b] = Null
    OBVIOUS
  <2> HIDE DEF k, by
  <2>4. ~ \E i \in 1 .. Len(s) : TRUE
    BY <1>3
  <2> HIDE DEF s
  <2> QED BY <1>3, <2>1, <2>2, <2>3, <2>4 DEF PlaceInv
<1>7. CountInv(k)
  <2>1. Cardinality({}) = 0
    BY FS_EmptySet
  <2> QED BY <1>5, <2>1 DEF Init, CountInv, Weight
<1> HIDE DEF s, k, by
<1> QED BY <1>1, <1>2, <1>3, <1>4, <1>6, <1>7 DEF Inv, Good

\* One case for each step of the code.
LEMMA InvStep == Inv /\ [Next]_vars => Inv'
<1> SUFFICES ASSUME Inv, [Next]_vars PROVE Inv'
  OBVIOUS
<1>1. TypeInv /\ LocalInv
  BY DEF Inv
<1>2. PICK s, k, by : Good(s, k, by)
  BY DEF Inv
<1>3. CASE UNCHANGED vars
  <2>1. UNCHANGED <<initialBlockPoolIndex, freeListHead, freeListRefs, freeListNext, heap, owned, pc, loc>>
    BY <1>3 DEF vars, list
  <2>2. TypeInv' /\ LocalInv' /\ Unused' = Unused
    BY <1>1, <2>1 DEF TypeInv, LocalInv, LocalOf, Unused
  <2>3. \A b \in Blocks : Holders(b)' = Holders(b)
    BY <2>1 DEF Holders, Holds
  <2>4. \A b \in Blocks, t \in Threads :
          /\ Takes(t, b)' <=> Takes(t, b)
          /\ Pushes(t, b)' <=> Pushes(t, b)
          /\ Links(t, b)' <=> Links(t, b)
    BY <2>1 DEF Takes, Pushes, Links
  <2>5. ListInv(s)' /\ CountInv(k)'
    BY <1>2, <2>1, <2>3, ListSame DEF Good, CountInv
  <2>6. PlaceInv(s, k, by)'
    BY <1>2, <2>1, <2>2, <2>3, <2>4 DEF Good, PlaceInv
  <2> QED BY <2>2, <2>5, <2>6, Again
<1>4. ASSUME NEW t \in Threads, StartRequisition(t) PROVE Inv'
  BY <1>1, <1>2, <1>4, StepStart
<1>5. ASSUME NEW t \in Threads, NEW b \in Blocks, add(t, b) PROVE Inv'
  BY <1>1, <1>2, <1>5, Stepadd
<1>6. ASSUME NEW t \in Threads, try_get(t) PROVE Inv'
  <2>1. CASE LoadHead(t)
    BY <1>1, <1>2, <2>1, StepLoadHead
  <2>2. CASE LoadRefs(t)
    BY <1>1, <1>2, <2>2, StepLoadRefs
  <2>3. CASE AddRef(t)
    BY <1>1, <1>2, <2>3, StepAddRef
  <2>4. CASE LoadNext(t)
    BY <1>1, <1>2, <2>4, StepLoadNext
  <2>5. CASE PopHead(t)
    BY <1>1, <1>2, <2>5, StepPopHead
  <2>6. CASE Got(t)
    BY <1>1, <1>2, <2>6, StepGot
  <2>7. CASE DropRef(t)
    BY <1>1, <1>2, <2>7, StepDropRef
  <2> QED BY <1>6, <2>1, <2>2, <2>3, <2>4, <2>5, <2>6, <2>7 DEF try_get
<1>7. ASSUME NEW t \in Threads, add_knowing_refcount_is_zero(t) PROVE Inv'
  <2>1. CASE LoadTop(t)
    BY <1>1, <1>2, <2>1, StepLoadTop
  <2>2. CASE Link(t)
    BY <1>1, <1>2, <2>2, StepLink
  <2>3. CASE PushNode(t)
    BY <1>1, <1>2, <2>3, StepPushNode
  <2>4. CASE Undo(t)
    BY <1>1, <1>2, <2>4, StepUndo
  <2> QED BY <1>7, <2>1, <2>2, <2>3, <2>4 DEF add_knowing_refcount_is_zero
<1>8. ASSUME NEW t \in Threads, try_get_block_from_initial_pool(t) PROVE Inv'
  BY <1>1, <1>2, <1>8, StepPool
<1>9. ASSUME NEW t \in Threads, Create(t) PROVE Inv'
  BY <1>1, <1>2, <1>9, StepCreate
<1> QED BY <1>3, <1>4, <1>5, <1>6, <1>7, <1>8, <1>9 DEF Next, Step

\* The invariant holds throughout.
LEMMA InvAlways == Spec => []Inv
BY InvInit, InvStep, PTL DEF Spec

-----------------------------------------------------------------------------
(* What the model calls OnList is the list.                                *)

\* Induction, for a set of natural numbers.
LEMMA Inductive ==
  ASSUME NEW S, 0 \in S, \A n \in Nat : n \in S => n + 1 \in S
  PROVE  Nat \subseteq S
<1> SUFFICES ASSUME NEW n \in Nat, n \notin S PROVE FALSE
  OBVIOUS
<1> DEFINE T == Nat \ S
<1>1. T \subseteq Nat /\ T # {}
  OBVIOUS
<1>2. \E x \in T : \A y \in T : ~ (<<y, x>> \in OpToRel(<, Nat))
  BY <1>1, NatLessThanWellFounded, WFMin
<1>3. PICK x \in T : \A y \in T : ~ (y < x)
  BY <1>2 DEF OpToRel
<1>4. x # 0 /\ x - 1 \in Nat /\ (x - 1) + 1 = x /\ x - 1 < x
  OBVIOUS
<1>5. x - 1 \in S
  BY <1>3, <1>4
<1> QED BY <1>4, <1>5

\* There are finitely many blocks.
LEMMA BlocksFinite == IsFiniteSet(Blocks) /\ Cardinality(Blocks) \in Nat
<1> DEFINE D == 1 .. Len(initialBlockPool)
<1>1. D = DOMAIN initialBlockPool /\ Len(initialBlockPool) \in Nat
  BY BlockPoolAssumption
<1>2. IsFiniteSet(D)
  BY <1>1, FS_Interval
<1> DEFINE T == {initialBlockPool[i] : i \in D}
<1>3. initialBlockPool \in Surjection(D, T)
  <2>1. initialBlockPool \in [D -> T]
    BY <1>1, BlockPoolAssumption
  <2> QED BY <2>1 DEF Surjection
<1>4. IsFiniteSet(T)
  <2> HIDE DEF D, T
  <2> QED BY <1>2, <1>3, FS_Surjection
<1>5. Blocks = T \cup HeapBlocks
  BY <1>1 DEF Blocks
<1> HIDE DEF T
<1> QED BY <1>4, <1>5, BlockPoolAssumption, FS_Union, FS_CardinalityType

\* The list has no more nodes than there are blocks.
LEMMA ListLength ==
  ASSUME NEW s, ListInv(s)
  PROVE  Len(s) \in Nat /\ Len(s) <= Cardinality(Blocks)
<1>1. s \in Seq(Blocks) /\ Len(s) \in Nat
  BY DEF ListInv
<1>2. s \in Injection(1 .. Len(s), Blocks)
  <2>1. s \in [1 .. Len(s) -> Blocks]
    BY <1>1
  <2>2. \A i, j \in 1 .. Len(s) : s[i] = s[j] => i = j
    BY DEF ListInv
  <2> QED BY <2>1, <2>2 DEF Injection, IsInjective
<1>3. Cardinality(1 .. Len(s)) <= Cardinality(Blocks)
  BY <1>2, BlocksFinite, FS_Injection
<1>4. Cardinality(1 .. Len(s)) = Len(s)
  <2>1. 1 \in Int /\ Len(s) \in Int
    BY <1>1
  <2>2. Cardinality(1 .. Len(s)) = IF 1 > Len(s) THEN 0 ELSE Len(s) - 1 + 1
    BY <2>1, FS_Interval, Zenon
  <2> QED BY <1>1, <2>2
<1> QED BY <1>1, <1>3, <1>4

\* The equation of the recursive function in Nodes.  It has the value the
\* equation gives, because a function with that equation exists.
Follows(g) ==
  g = [k \in 0 .. Cardinality(Blocks) |->
         IF k = 0 THEN freeListHead
         ELSE IF g[k - 1] = Null THEN Null ELSE freeListNext[g[k - 1]]]

\* So has Nodes.
LEMMA NodesEquation ==
  ASSUME NEW g, Follows(g)
  PROVE  Follows(Nodes)
<1> DEFINE at[k \in 0 .. Cardinality(Blocks)] ==
             IF k = 0 THEN freeListHead
             ELSE IF at[k - 1] = Null THEN Null ELSE freeListNext[at[k - 1]]
<1>1. at = [k \in 0 .. Cardinality(Blocks) |->
              IF k = 0 THEN freeListHead
              ELSE IF at[k - 1] = Null THEN Null ELSE freeListNext[at[k - 1]]]
  BY Zenon DEF Follows
<1>2. Nodes = at
  <2>1. Nodes = [k \in 0 .. Cardinality(Blocks) |-> at[k]]
    BY Zenon DEF Nodes
  <2> HIDE DEF at
  <2> QED BY <1>1, <2>1
<1> HIDE DEF at
<1> QED BY <1>1, <1>2 DEF Follows

\* Nodes is the list, and Null from its end on.
LEMMA NodesAre ==
  ASSUME NEW s, ListInv(s)
  PROVE  /\ DOMAIN Nodes = 0 .. Cardinality(Blocks)
         /\ \A n \in 0 .. Cardinality(Blocks) : Nodes[n] = At(s, n + 1)
<1> DEFINE N == Cardinality(Blocks)
           g == [n \in 0 .. N |-> At(s, n + 1)]
<1>1. N \in Nat /\ Len(s) \in Nat /\ Null \notin Blocks
  BY BlocksFinite, ListLength, BlockPoolAssumption
<1>2. /\ s \in Seq(Blocks) /\ freeListHead = At(s, 1)
      /\ \A i \in 1 .. Len(s) : freeListNext[s[i]] = At(s, i + 1)
  BY DEF ListInv
<1>3. \A n \in Nat \ {0} : At(s, n + 1) = IF At(s, n) = Null THEN Null ELSE freeListNext[At(s, n)]
  <2> SUFFICES ASSUME NEW n \in Nat \ {0}
               PROVE  At(s, n + 1) = IF At(s, n) = Null THEN Null ELSE freeListNext[At(s, n)]
    OBVIOUS
  <2>1. CASE n <= Len(s)
    <3>1. n \in 1 .. Len(s) /\ At(s, n) = s[n] /\ s[n] \in Blocks
      BY <1>1, <1>2, <2>1 DEF At
    <3> QED BY <1>1, <1>2, <3>1
  <2>2. CASE ~ (n <= Len(s))
    BY <1>1, <2>2 DEF At
  <2> QED BY <2>1, <2>2
<1>4. Follows(g)
  <2>1. \A k \in 0 .. N : g[k] = IF k = 0 THEN freeListHead
                                  ELSE IF g[k - 1] = Null THEN Null ELSE freeListNext[g[k - 1]]
    <3> SUFFICES ASSUME NEW k \in 0 .. N
                 PROVE  g[k] = IF k = 0 THEN freeListHead
                               ELSE IF g[k - 1] = Null THEN Null ELSE freeListNext[g[k - 1]]
      OBVIOUS
    <3>1. CASE k = 0
      BY <1>1, <1>2, <3>1
    <3>2. CASE k # 0
      <4>1. k \in Nat \ {0} /\ k - 1 \in 0 .. N /\ (k - 1) + 1 = k
        BY <1>1, <3>2
      <4>2. g[k] = At(s, k + 1) /\ g[k - 1] = At(s, k)
        BY <4>1
      <4> QED BY <1>3, <3>2, <4>1, <4>2
    <3> QED BY <3>1, <3>2
  <2>2. g = [k \in 0 .. N |-> g[k]]
    OBVIOUS
  <2> HIDE DEF g
  <2> QED BY <2>1, <2>2 DEF Follows
<1> HIDE DEF g
<1>5. Nodes = [k \in 0 .. N |-> IF k = 0 THEN freeListHead
                                ELSE IF Nodes[k - 1] = Null THEN Null ELSE freeListNext[Nodes[k - 1]]]
  <2>1. Follows(Nodes)
    BY <1>4, NodesEquation
  <2> QED BY <2>1 DEF Follows
<1> DEFINE S == {n \in Nat : n <= N => Nodes[n] = At(s, n + 1)}
<1> HIDE DEF N
<1>6. 0 \in S
  BY <1>1, <1>2, <1>5
<1>7. \A n \in Nat : n \in S => n + 1 \in S
  <2> SUFFICES ASSUME NEW n \in Nat, n \in S, n + 1 <= N
               PROVE  Nodes[n + 1] = At(s, (n + 1) + 1)
    OBVIOUS
  <2>1. n + 1 \in 0 .. N /\ n + 1 # 0 /\ (n + 1) - 1 = n /\ n <= N /\ n + 1 \in Nat \ {0}
    BY <1>1
  <2>2. Nodes[n] = At(s, n + 1)
    BY <2>1
  <2>3. Nodes[n + 1] = IF Nodes[n] = Null THEN Null ELSE freeListNext[Nodes[n]]
    BY <1>5, <2>1
  <2> QED BY <1>3, <2>1, <2>2, <2>3
<1>8. Nat \subseteq S
  <2> HIDE DEF S
  <2> QED BY <1>6, <1>7, Inductive
<1>9. DOMAIN Nodes = 0 .. N
  BY <1>5
<1> QED BY <1>1, <1>8, <1>9 DEF N

\* It ends within as many nodes as there are blocks.
LEMMA OnListIs ==
  ASSUME NEW s, ListInv(s)
  PROVE  /\ Nodes[Cardinality(Blocks)] = Null
         /\ \A b : b \in OnList <=> \E i \in 1 .. Len(s) : s[i] = b
<1> DEFINE N == Cardinality(Blocks)
<1>1. N \in Nat /\ Len(s) \in Nat /\ Len(s) <= N /\ Null \notin Blocks /\ s \in Seq(Blocks)
  BY BlocksFinite, ListLength, BlockPoolAssumption DEF ListInv
<1>2. DOMAIN Nodes = 0 .. N /\ \A n \in 0 .. N : Nodes[n] = At(s, n + 1)
  BY NodesAre
<1> HIDE DEF N
<1>3. Nodes[N] = Null
  BY <1>1, <1>2 DEF At
<1>4. ASSUME NEW b, b \in OnList PROVE \E i \in 1 .. Len(s) : s[i] = b
  <2>1. PICK n \in 0 .. N : Nodes[n] = b /\ b # Null
    BY <1>2, <1>4 DEF OnList
  <2>2. n + 1 \in 1 .. Len(s) /\ s[n + 1] = b
    BY <1>1, <1>2, <2>1 DEF At
  <2> QED BY <2>2
<1>5. ASSUME NEW i \in 1 .. Len(s) PROVE s[i] \in OnList
  <2>1. i - 1 \in 0 .. N /\ (i - 1) + 1 = i /\ s[i] \in Blocks /\ At(s, i) = s[i]
    BY <1>1 DEF At
  <2>2. Nodes[i - 1] = s[i] /\ s[i] # Null
    BY <1>1, <1>2, <2>1
  <2> QED BY <1>2, <2>1, <2>2 DEF OnList
<1> QED BY <1>3, <1>4, <1>5 DEF N

-----------------------------------------------------------------------------
(* The theorems.                                                           *)

\* However the calls of any number of threads interleave, the free list ends
\* and has no cycle, and a block that a thread has got is on no list, not
\* handed out again and no other thread's.
THEOREM OneOwnerAlways == Spec => []OneOwner
<1>1. Inv => OneOwner
  <2> SUFFICES ASSUME Inv PROVE OneOwner
    OBVIOUS
  <2>1. PICK s, k, by : Good(s, k, by)
    BY DEF Inv
  <2>2. ListInv(s) /\ PlaceInv(s, k, by) /\ owned \in [Threads -> SUBSET Blocks]
    BY <2>1 DEF Good, Inv, TypeInv
  <2>3. /\ Nodes[Cardinality(Blocks)] = Null
        /\ \A b : b \in OnList <=> \E i \in 1 .. Len(s) : s[i] = b
    BY <2>2, OnListIs
  <2>4. \A t \in Threads : \A b \in owned[t] :
          /\ b \notin OnList /\ b \notin Unused
          /\ \A u \in Threads \ {t} : b \notin owned[u]
    BY <2>2, <2>3 DEF PlaceInv
  <2> QED BY <2>3, <2>4 DEF OneOwner
<1> QED BY <1>1, InvAlways, PTL

\* The assertion of try_get never fails: the node just taken off the list is
\* not flagged, and has the list's reference and the thread's.
THEOREM TakenWasOnListAlways == Spec => []TakenWasOnList
<1>1. Inv => TakenWasOnList
  <2> SUFFICES ASSUME Inv, NEW t \in Threads, pc[t] = "got"
               PROVE  /\ freeListRefs[loc[t].head] < SHOULD_BE_ON_FREELIST
                      /\ freeListRefs[loc[t].head] >= 2
    BY DEF TakenWasOnList
  <2>1. PICK s, k, by : Good(s, k, by)
    BY DEF Inv
  <2>2. TypeInv /\ LocalInv /\ loc[t].head \in Blocks
    BY DEF Inv, LocalInv, LocalOf
  <2>3. PICK c \in Blocks : c = loc[t].head
    BY <2>2
  <2>4. /\ freeListRefs[c] = Cardinality(Holders(c)) + 1
        /\ Cardinality(Holders(c)) \in Nat /\ Cardinality(Holders(c)) >= 1
        /\ Cardinality(Holders(c)) <= Cardinality(Threads) /\ Cardinality(Threads) \in Nat
    BY <2>1, <2>2, <2>3, TakenCount
  <2>5. freeListRefs[c] < SHOULD_BE_ON_FREELIST /\ freeListRefs[c] >= 2
    BY <2>4, BlockPoolAssumption
  <2> QED BY <2>3, <2>5
<1> QED BY <1>1, InvAlways, PTL

\* Whenever all calls have returned, each block is owned, on the list or
\* never handed out, with the count that goes with it: no race of adds and
\* gets makes the queue forget one.
THEOREM NothingLostAlways == Spec => []NothingLost
<1>1. Inv => NothingLost
  <2> SUFFICES ASSUME Inv, \A t \in Threads : pc[t] = "idle"
               PROVE  /\ Blocks = OnList \cup Unused \cup UNION {owned[t] : t \in Threads}
                      /\ \A b \in Blocks : freeListRefs[b] = IF b \in OnList THEN 1 ELSE 0
    BY DEF NothingLost
  <2>1. PICK s, k, by : Good(s, k, by)
    BY DEF Inv
  <2>2. ListInv(s) /\ PlaceInv(s, k, by) /\ CountInv(k) /\ TypeInv
    BY <2>1 DEF Good, Inv
  <2>3. \A b : b \in OnList <=> \E i \in 1 .. Len(s) : s[i] = b
    BY <2>2, OnListIs
  <2>4. \A b \in Blocks : Holders(b) = {} /\ \A t \in Threads : ~ Takes(t, b) /\ ~ Pushes(t, b) /\ ~ Links(t, b)
    BY DEF Holders, Holds, Takes, Pushes, Links
  <2>5. \A b \in Blocks : k[b] \in {"unused", "owned", "list"}
    BY <2>2, <2>4 DEF PlaceInv, Kinds
  <2>6. \A b \in Blocks :
          /\ k[b] = "unused" <=> b \in Unused
          /\ k[b] = "list" <=> b \in OnList
          /\ k[b] = "owned" => \E t \in Threads : b \in owned[t]
    BY <2>2, <2>3 DEF PlaceInv
  <2>7. \A b \in Blocks : freeListRefs[b] = IF b \in OnList THEN 1 ELSE 0
    <3>1. Cardinality({}) = 0
      BY FS_EmptySet
    <3> SUFFICES ASSUME NEW b \in Blocks PROVE freeListRefs[b] = IF b \in OnList THEN 1 ELSE 0
      OBVIOUS
    <3>2. freeListRefs[b] = 0 + Weight(k[b])
      BY <2>2, <2>4, <3>1 DEF CountInv
    <3>3. Weight(k[b]) = IF b \in OnList THEN 1 ELSE 0
      BY <2>5, <2>6 DEF Weight
    <3> QED BY <3>2, <3>3
  <2>8. OnList \subseteq Blocks /\ Unused \subseteq Blocks /\ \A t \in Threads : owned[t] \subseteq Blocks
    <3>1. OnList \subseteq Blocks
      BY <2>2, <2>3 DEF ListInv
    <3> QED BY <2>2, <3>1 DEF TypeInv, Unused, Blocks
  <2> QED BY <2>5, <2>6, <2>7, <2>8
<1> QED BY <1>1, InvAlways, PTL
=============================================================================
