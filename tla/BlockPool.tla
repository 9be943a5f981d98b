----------------------------- MODULE BlockPool -----------------------------
(***************************************************************************)
(* utils/concurrentqueue.h: where the producers of a queue get their       *)
(* blocks.  requisition_block takes one from the array made with the       *)
(* queue, else from the lock-free free list, else from the heap;           *)
(* add_block_to_free_list gives one back.  Every access to an atomic that  *)
(* another thread may use at that time is a step of its own.               *)
(*                                                                         *)
(* freeListRefs counts the references to a node, the one of the list       *)
(* included; its top bit says that whoever drops the last reference has to *)
(* put the node on the list.                                               *)
(***************************************************************************)
EXTENDS Integers, FiniteSets, Sequences

CONSTANTS
  Threads,
  initialBlockPool,        \* sequence of the blocks made with the queue
  HeapBlocks,              \* bound: blocks create<Block> can still make
  MaxOwned,                \* bound: blocks a thread has at a time
  SHOULD_BE_ON_FREELIST,   \* the top bit: more than there can be references
  Null

Blocks == {initialBlockPool[i] : i \in DOMAIN initialBlockPool} \cup HeapBlocks
initialBlockPoolSize == Len(initialBlockPool)

\* The blocks of an array are different blocks, and none of them is on the heap.
ASSUME BlockPoolAssumption ==
  /\ Null \notin Blocks /\ Null \notin Threads
  /\ IsFiniteSet(Threads) /\ IsFiniteSet(HeapBlocks)
  /\ initialBlockPool \in Seq(Blocks)
  /\ \A i, j \in DOMAIN initialBlockPool :
       initialBlockPool[i] = initialBlockPool[j] => i = j
  /\ \A i \in DOMAIN initialBlockPool : initialBlockPool[i] \notin HeapBlocks
  /\ SHOULD_BE_ON_FREELIST \in Nat
  /\ SHOULD_BE_ON_FREELIST > Cardinality(Threads) + 1

VARIABLES
  initialBlockPoolIndex, freeListHead, freeListRefs, freeListNext,
  heap,            \* blocks not created yet
  owned,           \* the blocks each thread has
  pc, loc          \* position and locals of each thread

list == <<freeListHead, freeListRefs, freeListNext>>
vars == <<initialBlockPoolIndex, list, heap, owned, pc, loc>>

\* head, refs and next of try_get; node and top (its own `head') of
\* add_knowing_refcount_is_zero, and where to go from there.
NoLocals == [head |-> Null, refs |-> 0, next |-> Null,
             node |-> Null, top |-> Null, back |-> "idle"]

Go(t, to, l) == pc' = [pc EXCEPT ![t] = to] /\ loc' = [loc EXCEPT ![t] = l]

Init ==
  /\ initialBlockPoolIndex = 0 /\ freeListHead = Null
  /\ freeListRefs = [b \in Blocks |-> 0] /\ freeListNext = [b \in Blocks |-> Null]
  /\ heap = HeapBlocks
  /\ owned = [t \in Threads |-> {}]
  /\ pc = [t \in Threads |-> "idle"] /\ loc = [t \in Threads |-> NoLocals]

-----------------------------------------------------------------------------
(* try_get_block_from_initial_pool.                                        *)

Obtain(t, b) ==
  /\ owned' = [owned EXCEPT ![t] = @ \cup {b}]
  /\ Go(t, "idle", NoLocals)

StartRequisition(t) ==
  /\ pc[t] = "idle" /\ Cardinality(owned[t]) < MaxOwned
  /\ Go(t, IF initialBlockPoolIndex >= initialBlockPoolSize THEN "head" ELSE "pool", NoLocals)
  /\ UNCHANGED <<initialBlockPoolIndex, list, heap, owned>>

\* Mutant of try_get_block_from_initial_pool: trusts the first look.
TakeUnchecked(t) ==
  /\ pc[t] = "pool"
  /\ initialBlockPoolIndex' = initialBlockPoolIndex + 1
  /\ Obtain(t, initialBlockPool[IF initialBlockPoolIndex < initialBlockPoolSize
                                THEN initialBlockPoolIndex + 1 ELSE initialBlockPoolSize])
  /\ UNCHANGED <<list, heap>>

\* Others may have used up the array since the first look.
try_get_block_from_initial_pool(t) ==
  /\ pc[t] = "pool"
  /\ initialBlockPoolIndex' = initialBlockPoolIndex + 1
  /\ IF initialBlockPoolIndex < initialBlockPoolSize
     THEN Obtain(t, initialBlockPool[initialBlockPoolIndex + 1])
     ELSE Go(t, "head", NoLocals) /\ owned' = owned
  /\ UNCHANGED <<list, heap>>

-----------------------------------------------------------------------------
(* FreeList::try_get.                                                      *)

\* The loop ends with nullptr when the list is empty.
Continue(head) == IF head = Null THEN "create" ELSE "refs"

LoadHead(t) ==
  /\ pc[t] = "head"
  /\ Go(t, Continue(freeListHead), [NoLocals EXCEPT !.head = freeListHead])
  /\ UNCHANGED <<initialBlockPoolIndex, list, heap, owned>>

LoadRefs(t) ==
  /\ pc[t] = "refs"
  /\ LET r == freeListRefs[loc[t].head]
     IN  Go(t, IF r % SHOULD_BE_ON_FREELIST = 0 THEN "head" ELSE "ref",
            [loc[t] EXCEPT !.refs = r])
  /\ UNCHANGED <<initialBlockPoolIndex, list, heap, owned>>

\* Mutant of AddRef: the reference count is not looked at again.
AddRefBlindly(t) ==
  /\ pc[t] = "ref"
  /\ freeListRefs' = [freeListRefs EXCEPT ![loc[t].head] = @ + 1]
  /\ Go(t, "next", loc[t])
  /\ UNCHANGED <<initialBlockPoolIndex, freeListHead, freeListNext, heap, owned>>

\* compare_exchange on the reference count.
AddRef(t) ==
  /\ pc[t] = "ref"
  /\ LET h == loc[t].head
     IN  IF freeListRefs[h] = loc[t].refs
         THEN Go(t, "next", loc[t]) /\ freeListRefs' = [freeListRefs EXCEPT ![h] = @ + 1]
         ELSE Go(t, "head", NoLocals) /\ UNCHANGED freeListRefs
  /\ UNCHANGED <<initialBlockPoolIndex, freeListHead, freeListNext, heap, owned>>

LoadNext(t) ==
  /\ pc[t] = "next"
  /\ Go(t, "pop", [loc[t] EXCEPT !.next = freeListNext[loc[t].head]])
  /\ UNCHANGED <<initialBlockPoolIndex, list, heap, owned>>

\* compare_exchange on the head, which loads it again when it fails; the
\* node is then kept in `node'.
PopHead(t) ==
  /\ pc[t] = "pop"
  /\ IF freeListHead = loc[t].head
     THEN Go(t, "got", loc[t]) /\ freeListHead' = loc[t].next
     ELSE /\ Go(t, "unref", [NoLocals EXCEPT !.head = freeListHead, !.node = loc[t].head])
          /\ UNCHANGED freeListHead
  /\ UNCHANGED <<initialBlockPoolIndex, freeListRefs, freeListNext, heap, owned>>

\* One reference of the thread, one of the list.
Got(t) ==
  /\ pc[t] = "got"
  /\ freeListRefs' = [freeListRefs EXCEPT ![loc[t].head] = @ - 2]
  /\ Obtain(t, loc[t].head)
  /\ UNCHANGED <<initialBlockPoolIndex, freeListHead, freeListNext, heap>>

\* Mutant of DropRef: leaves the node to somebody else.
DropRefOnly(t) ==
  /\ pc[t] = "unref"
  /\ freeListRefs' = [freeListRefs EXCEPT ![loc[t].node] = @ - 1]
  /\ Go(t, Continue(loc[t].head), [loc[t] EXCEPT !.node = Null])
  /\ UNCHANGED <<initialBlockPoolIndex, freeListHead, freeListNext, heap, owned>>

\* The last reference to a node that should be on the list: put it there,
\* then go on.
DropRef(t) ==
  /\ pc[t] = "unref"
  /\ LET n == loc[t].node
     IN  /\ freeListRefs' = [freeListRefs EXCEPT ![n] = @ - 1]
         /\ IF freeListRefs[n] = SHOULD_BE_ON_FREELIST + 1
            THEN Go(t, "top", [loc[t] EXCEPT !.back = Continue(loc[t].head)])
            ELSE Go(t, Continue(loc[t].head), [loc[t] EXCEPT !.node = Null])
  /\ UNCHANGED <<initialBlockPoolIndex, freeListHead, freeListNext, heap, owned>>

try_get(t) == LoadHead(t) \/ LoadRefs(t) \/ AddRef(t) \/ LoadNext(t) \/ PopHead(t) \/ Got(t) \/ DropRef(t)

-----------------------------------------------------------------------------
(* FreeList::add and add_knowing_refcount_is_zero.                         *)

add(t, b) ==
  /\ pc[t] = "idle" /\ b \in owned[t]
  /\ owned' = [owned EXCEPT ![t] = @ \ {b}]
  /\ freeListRefs' = [freeListRefs EXCEPT ![b] = @ + SHOULD_BE_ON_FREELIST]
  /\ IF freeListRefs[b] = 0 THEN Go(t, "top", [NoLocals EXCEPT !.node = b])
     ELSE Go(t, "idle", NoLocals)
  /\ UNCHANGED <<initialBlockPoolIndex, freeListHead, freeListNext, heap>>

LoadTop(t) ==
  /\ pc[t] = "top"
  /\ Go(t, "link", [loc[t] EXCEPT !.top = freeListHead])
  /\ UNCHANGED <<initialBlockPoolIndex, list, heap, owned>>

\* freeListNext is stored before the count, and while the count is 0 nobody
\* reads it: one step.
Link(t) ==
  /\ pc[t] = "link"
  /\ freeListNext' = [freeListNext EXCEPT ![loc[t].node] = loc[t].top]
  /\ freeListRefs' = [freeListRefs EXCEPT ![loc[t].node] = 1]
  /\ Go(t, "push", loc[t])
  /\ UNCHANGED <<initialBlockPoolIndex, freeListHead, heap, owned>>

\* Back in try_get the head is the one loaded there.
Done(t) == Go(t, loc[t].back, [NoLocals EXCEPT !.head = loc[t].head])

PushNode(t) ==
  /\ pc[t] = "push"
  /\ IF freeListHead = loc[t].top
     THEN freeListHead' = loc[t].node /\ Done(t)
     ELSE Go(t, "undo", [loc[t] EXCEPT !.top = freeListHead]) /\ UNCHANGED freeListHead
  /\ UNCHANGED <<initialBlockPoolIndex, freeListRefs, freeListNext, heap, owned>>

\* The head has changed: try again if nobody else holds a reference, else
\* leave it to the one who drops the last.
Undo(t) ==
  /\ pc[t] = "undo"
  /\ LET n == loc[t].node
     IN  /\ freeListRefs' = [freeListRefs EXCEPT ![n] = @ + (SHOULD_BE_ON_FREELIST - 1)]
         /\ IF freeListRefs[n] = 1 THEN Go(t, "link", loc[t]) ELSE Done(t)
  /\ UNCHANGED <<initialBlockPoolIndex, freeListHead, freeListNext, heap, owned>>

add_knowing_refcount_is_zero(t) == LoadTop(t) \/ Link(t) \/ PushNode(t) \/ Undo(t)

-----------------------------------------------------------------------------
\* requisition_block allocates, or returns nullptr: not allowed or no memory.
Create(t) ==
  /\ pc[t] = "create"
  /\ \/ /\ heap # {}
        /\ LET b == CHOOSE b \in heap : TRUE
           IN  heap' = heap \ {b} /\ Obtain(t, b)
     \/ Go(t, "idle", NoLocals) /\ UNCHANGED <<heap, owned>>
  /\ UNCHANGED <<initialBlockPoolIndex, list>>

Step(t) ==
  try_get_block_from_initial_pool(t) \/ try_get(t) \/ add_knowing_refcount_is_zero(t) \/ Create(t)

Next ==
  \E t \in Threads : StartRequisition(t) \/ (\E b \in Blocks : add(t, b)) \/ Step(t)

Spec == Init /\ [][Next]_vars

-----------------------------------------------------------------------------
(* Correctness.                                                            *)

\* The list, followed for as many nodes as there are blocks.
Nodes ==
  LET at[k \in 0 .. Cardinality(Blocks)] ==
        IF k = 0 THEN freeListHead
        ELSE IF at[k - 1] = Null THEN Null ELSE freeListNext[at[k - 1]]
  IN  [k \in 0 .. Cardinality(Blocks) |-> at[k]]
OnList == {Nodes[k] : k \in DOMAIN Nodes} \ {Null}

Unused == {initialBlockPool[i] : i \in {j \in DOMAIN initialBlockPool : j > initialBlockPoolIndex}} \cup heap

\* No block is handed out twice: it has one owner, and while it has one it
\* is not on the free list, which ends and has no cycle.
OneOwner ==
  /\ Nodes[Cardinality(Blocks)] = Null
  /\ \A t \in Threads :
       /\ owned[t] \cap (OnList \cup Unused) = {}
       /\ \A u \in Threads \ {t} : owned[t] \cap owned[u] = {}

\* The assertion of try_get, and what makes it true: a node just taken off
\* the list was there for good, with the list's reference and this thread's.
TakenWasOnList ==
  \A t \in Threads : pc[t] = "got" =>
    /\ freeListRefs[loc[t].head] < SHOULD_BE_ON_FREELIST
    /\ freeListRefs[loc[t].head] >= 2

\* However adds and gets have raced, once all calls have returned no block is
\* lost: each is owned, on the list, or was never handed out, and its count
\* is that of the list's reference.
NothingLost ==
  (\A t \in Threads : pc[t] = "idle") =>
    /\ Blocks = OnList \cup Unused \cup UNION {owned[t] : t \in Threads}
    /\ \A b \in Blocks : freeListRefs[b] = IF b \in OnList THEN 1 ELSE 0
=============================================================================
