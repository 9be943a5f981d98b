--------------------------- MODULE ProducerQueue ---------------------------
(***************************************************************************)
(* utils/concurrentqueue.h: the sub-queue of one producer inside the       *)
(* lock-free queue, in its two forms: ExplicitProducer (used through a     *)
(* ProducerToken; a ring of blocks it keeps for ever) and ImplicitProducer *)
(* (one per enqueuing thread; blocks come from the common pool and go back *)
(* to it).  One thread enqueues, singly or in bulk, any number of threads  *)
(* dequeue.  Every access to memory that another thread writes is a step   *)
(* of its own.  index_t wraps around at IndexMod.                          *)
(*                                                                         *)
(* The element constructed for index i is represented by i itself, so that *)
(* what a consumer finds in a slot shows whose element it is.  dequeue(x)  *)
(* takes the steps of dequeue_bulk(x, 1), and enqueue those of             *)
(* enqueue_bulk with a count of 1.                                         *)
(***************************************************************************)
EXTENDS ConcurrentQueueConstants, Integers, FiniteSets, Sequences, FiniteSetsExt

CONSTANTS
  Blocks,              \* every block there is memory for
  PoolBlocks,          \* those of the initial block pool
  BLOCK_SIZE,
  INITIAL_INDEX_SIZE,  \* EXPLICIT_ and IMPLICIT_INITIAL_INDEX_SIZE
  MaxIndexSize,        \* bound: allocating a larger block index fails
  IndexMod,            \* bound: number of values of index_t
  StartIndex,          \* where the indices start, see Init
  MaxOvercommit        \* bound: no new dequeue once overcommit reaches it

ASSUME ProducerQueueAssumption ==
  /\ IsFiniteSet(Consumers) /\ IsFiniteSet(Blocks)
  /\ PoolBlocks \subseteq Blocks /\ Null \notin Blocks
  /\ BLOCK_SIZE \in Nat /\ BLOCK_SIZE > 1
  /\ IndexMod \in Nat /\ IndexMod % (2 * BLOCK_SIZE) = 0
  /\ IndexMod > 2 * BLOCK_SIZE * Cardinality(Blocks)
  /\ StartIndex \in 0 .. IndexMod - 1 /\ StartIndex % BLOCK_SIZE = 0
  /\ MaxItems \in Nat /\ MaxItems < IndexMod \div 2
  /\ MaxBulk \in Nat /\ MaxOvercommit \in Nat
  /\ MaxOvercommit + Cardinality(Consumers) * MaxBulk <= IndexMod \div 2

VARIABLES
  isExplicit,              \* which of the two forms
  tailIndex, headIndex, dequeueOptimisticCount, dequeueOvercommit,
  slots,                   \* the elements in each block
  emptyFlags,              \* per block, the offsets flagged (explicit)
  completelyDequeued,      \* per block, elementsCompletelyDequeued (implicit)
  tailBlock, next,         \* next: the ring of an explicit producer
  index,                   \* block index headers, the last one is current
  entry,                   \* BlockIndexEntry objects (implicit)
  pr_front, pr_used,       \* pr_blockIndexFront, pr_blockIndexSlotsUsed
  pool, heap,              \* blocks requisition_block can get, or allocate
  ppc, op,                 \* the enqueuing thread: position and locals
  cpc, loc,                \* the dequeuing threads: position and locals
  undone                   \* history: has an explicit enqueue_bulk failed after
                           \* it had added blocks?

counters == <<tailIndex, headIndex, dequeueOptimisticCount, dequeueOvercommit>>
storage  == <<slots, emptyFlags, completelyDequeued, pool, heap>>
lookup   == <<index, entry>>
ring     == <<tailBlock, next, pr_front, pr_used>>
producer == <<ppc, op>>
consumer == <<cpc, loc>>
vars == <<isExplicit, counters, storage, lookup, ring, producer, consumer, undone>>

-----------------------------------------------------------------------------
(* Arithmetic of index_t.                                                  *)

Add(a, b) == (a + b) % IndexMod
Sub(a, b) == (a - b) % IndexMod
circular_less_than(a, b) == Sub(a, b) > IndexMod \div 2
BaseOf(i) == i - (i % BLOCK_SIZE)
Signed(d) == IF d < IndexMod \div 2 THEN d ELSE d - IndexMod

Indices == 0 .. IndexMod - 1
Offsets == 0 .. BLOCK_SIZE - 1
INVALID_BLOCK_BASE == 1
Gone == -1      \* a slot without a live element
Least(a, b) == IF a < b THEN a ELSE b

\* blockIndex.  There is none (pr_blockIndexRaw is null) as long as the one the
\* explicit constructor asks for could not be allocated; then pr_blockIndexSize
\* is half of what that one would have been.
NoIndex == index = << >>
Header  == IF NoIndex THEN [size |-> INITIAL_INDEX_SIZE \div 2, front |-> -1, entries |-> << >>]
           ELSE index[Len(index)]
NoOp   == [n |-> 0, left |-> 0, base |-> 0, fresh |-> FALSE,
           got |-> << >>, start |-> Null, front |-> 0, used |-> 0]
NoCall == [n |-> 0, over |-> 0, my |-> 0, idx |-> 0, end |-> 0,
           header |-> 0, pos |-> 0, block |-> Null]

TypeOK ==
  /\ \A i \in {tailIndex, headIndex, dequeueOptimisticCount, dequeueOvercommit} : i \in Indices
  /\ \A b \in Blocks :
       /\ \A o \in Offsets : slots[b][o] \in Indices \cup {Gone}
       /\ emptyFlags[b] \subseteq Offsets
       /\ completelyDequeued[b] \in 0 .. BLOCK_SIZE
       /\ next[b] \in Blocks \cup {Null}
  /\ tailBlock \in Blocks \cup {Null}
  /\ pool \subseteq Blocks /\ heap \subseteq Blocks
  /\ Header.size <= MaxIndexSize
  /\ pr_front \in 0 .. Header.size - 1
  /\ isExplicit => pr_used <= Header.size
  /\ \A c \in Consumers : loc[c].n <= MaxBulk

\* The constructors start every index at 0.  Indices are only compared around
\* the circle and with block boundaries, so that StartIndex merely says how
\* far off the wrap-around of index_t is: near enough to happen.
Init ==
  /\ isExplicit \in BOOLEAN
  /\ tailIndex = StartIndex /\ headIndex = StartIndex
  /\ dequeueOptimisticCount = StartIndex /\ dequeueOvercommit = 0
  /\ slots = [b \in Blocks |-> [o \in Offsets |-> Gone]]
  /\ emptyFlags = [b \in Blocks |-> {}]
  /\ completelyDequeued = [b \in Blocks |-> 0]
  /\ tailBlock = Null /\ next = [b \in Blocks |-> Null]
  /\ \/ index = <<[size    |-> INITIAL_INDEX_SIZE,
                   front   |-> IF isExplicit THEN -1 ELSE INITIAL_INDEX_SIZE - 1,
                   entries |-> [p \in 0 .. INITIAL_INDEX_SIZE - 1 |->
                                  IF isExplicit THEN [base |-> 0, block |-> Null] ELSE p]]>>
     \/ isExplicit /\ NoIndex
  /\ entry = [e \in 0 .. MaxIndexSize - 1 |-> [key |-> INVALID_BLOCK_BASE, value |-> Null]]
  /\ pr_front = 0 /\ pr_used = 0
  /\ pool = PoolBlocks /\ heap = Blocks \ PoolBlocks
  /\ ppc = "idle" /\ op = NoOp
  /\ cpc = [c \in Consumers |-> "idle"] /\ loc = [c \in Consumers |-> NoCall]
  /\ undone = FALSE

-----------------------------------------------------------------------------
(* Enqueueing, common to both forms.  The thread is at "alloc" while it    *)
(* needs more blocks, at "block" with an index entry and no block for it   *)
(* (implicit), at "front" before publishing the index (explicit), at       *)
(* "fill" before constructing the elements and at "publish" after.         *)

\* enqueue or enqueue_bulk of n elements is called; BaseOf(tail - 1) is the
\* base of the block the previous element went to.
Begin(n) ==
  /\ ppc = "idle"
  /\ Sub(tailIndex, StartIndex) + n <= MaxItems
  /\ LET last == BaseOf(Sub(tailIndex, 1))
         need == Sub(BaseOf(Add(tailIndex, n - 1)), last) \div BLOCK_SIZE
     IN  /\ op' = [n |-> n, left |-> need, base |-> Add(last, BLOCK_SIZE),
                   fresh |-> FALSE, got |-> << >>, start |-> tailBlock,
                   front |-> pr_front, used |-> pr_used]
         /\ ppc' = IF need = 0 THEN "fill" ELSE "alloc"
  /\ UNCHANGED <<isExplicit, counters, storage, lookup, ring, consumer, undone>>

\* There must be leeway for a whole block below half the range of index_t.
NoLeeway == ~ circular_less_than(headIndex, Add(op.base, BLOCK_SIZE))

\* requisition_block: from the pool or the free list, else from the heap,
\* unless the caller passed CannotAlloc or malloc fails: when the pool is
\* empty it may return nullptr.
requisition_block == IF pool # {} THEN pool ELSE heap

\* One more block obtained for the operation.
Got(b) == [op EXCEPT !.got = Append(@, b), !.left = @ - 1, !.base = Add(@, BLOCK_SIZE)]

\* The elements are constructed one block after the other, from the block
\* the tail is in, or the first new one if the tail is on a boundary.
Fill ==
  /\ ppc = "fill"
  /\ LET chain == IF tailIndex % BLOCK_SIZE = 0 THEN op.got ELSE <<op.start>> \o op.got
         At(k) == <<chain[((tailIndex % BLOCK_SIZE) + k) \div BLOCK_SIZE + 1],
                    Add(tailIndex, k) % BLOCK_SIZE>>
     IN  slots' = [b \in Blocks |-> [o \in Offsets |->
                     IF \E k \in 0 .. op.n - 1 : At(k) = <<b, o>>
                     THEN Add(tailIndex, CHOOSE k \in 0 .. op.n - 1 : At(k) = <<b, o>>)
                     ELSE slots[b][o]]]
  /\ ppc' = "publish"
  /\ UNCHANGED <<isExplicit, counters, emptyFlags, completelyDequeued, pool, heap,
                 lookup, ring, op, consumer, undone>>

Publish ==
  /\ ppc = "publish"
  /\ tailIndex' = Add(tailIndex, op.n)
  /\ ppc' = "idle" /\ op' = NoOp
  /\ UNCHANGED <<isExplicit, headIndex, dequeueOptimisticCount, dequeueOvercommit,
                 storage, lookup, ring, consumer, undone>>

-----------------------------------------------------------------------------
(* ExplicitProducer: the blocks it needs.                                  *)

\* A block is re-used if it is flagged empty throughout, and not one that
\* this very operation has already taken.
AheadIsFree ==
  /\ ~ op.fresh
  /\ tailBlock # Null
  /\ op.got # << >> => next[tailBlock] # op.got[1]
  /\ emptyFlags[next[tailBlock]] = Offsets

\* The entry for the block is written before the index front is published.
AddEntry(b, fresh) ==
  /\ index' = [index EXCEPT ![Len(index)].entries[pr_front] = [base |-> op.base, block |-> b]]
  /\ pr_front' = (pr_front + 1) % Header.size
  /\ op' = [Got(b) EXCEPT !.fresh = fresh]
  /\ ppc' = IF op.left = 1 THEN "front" ELSE "alloc"

\* The block ahead in the ring is empty: its entry takes the place of the
\* oldest one, and pr_blockIndexSlotsUsed stays.
ReuseAhead ==
  /\ ppc = "alloc" /\ AheadIsFree
  /\ tailBlock' = next[tailBlock]
  /\ AddEntry(next[tailBlock], FALSE)
  /\ UNCHANGED <<isExplicit, counters, storage, entry, next, pr_used, consumer, undone>>

\* Mutant of IndexFull: off by one.
IndexFullLate == NoIndex \/ pr_used > Header.size

IndexFull == NoIndex \/ pr_used = Header.size
CanGrow   == 2 * Header.size <= MaxIndexSize

\* new_block_index: twice the size, the entries in use copied to its start.
GrowExplicit ==
  /\ ppc = "alloc" /\ ~ AheadIsFree /\ ~ NoLeeway /\ IndexFull /\ CanGrow
  /\ index' = Append(index,
       [size    |-> 2 * Header.size,
        front   |-> op.used - 1,
        entries |-> [p \in 0 .. 2 * Header.size - 1 |->
                       IF p < pr_used
                       THEN Header.entries[(pr_front - pr_used + p) % Header.size]
                       ELSE [base |-> 0, block |-> Null]]])
  /\ pr_front' = pr_used
  /\ op' = [op EXCEPT !.fresh = TRUE, !.front = op.used]
  /\ UNCHANGED <<isExplicit, counters, storage, entry, tailBlock, next, pr_used, ppc,
                 consumer, undone>>

\* A block from the pool or the heap goes into the ring after the tail block.
NewBlock(b) ==
  /\ ppc = "alloc" /\ ~ AheadIsFree /\ ~ NoLeeway /\ ~ IndexFull
  /\ b \in requisition_block
  /\ pool' = pool \ {b} /\ heap' = heap \ {b}
  /\ emptyFlags' = [emptyFlags EXCEPT ![b] = Offsets]
  /\ next' = IF tailBlock = Null THEN [next EXCEPT ![b] = b]
             ELSE [next EXCEPT ![b] = next[tailBlock], ![tailBlock] = b]
  /\ tailBlock' = b
  /\ pr_used' = pr_used + 1
  /\ AddEntry(b, TRUE)
  /\ UNCHANGED <<isExplicit, counters, slots, completelyDequeued, entry, consumer, undone>>

\* No leeway, no index or no block: the operation is undone and returns
\* false, but blocks already put into the ring stay there, and index entries
\* already overwritten are not restored.
FailExplicit ==
  /\ ppc = "alloc" /\ ~ AheadIsFree
  /\ NoLeeway \/ IndexFull \/ pool = {}
  /\ pr_front' = op.front /\ pr_used' = op.used
  /\ tailBlock' = IF op.start # Null THEN op.start
                  ELSE IF op.got # << >> THEN op.got[1] ELSE Null
  /\ undone' = (undone \/ op.got # << >>)
  /\ ppc' = "idle" /\ op' = NoOp
  /\ UNCHANGED <<isExplicit, counters, storage, lookup, next, consumer>>

\* Mutant of PublishFront: the flags of re-used blocks are not reset.
PublishFrontNoReset ==
  /\ ppc = "front"
  /\ index' = [index EXCEPT ![Len(index)].front = (pr_front - 1) % Header.size]
  /\ ppc' = "fill"
  /\ UNCHANGED <<isExplicit, counters, storage, entry, ring, op, consumer, undone>>

\* reset_empty for every block obtained, then the new front is stored.
PublishFront ==
  /\ ppc = "front"
  /\ emptyFlags' = [b \in Blocks |->
       IF \E k \in 1 .. Len(op.got) : op.got[k] = b THEN {} ELSE emptyFlags[b]]
  /\ index' = [index EXCEPT ![Len(index)].front = (pr_front - 1) % Header.size]
  /\ ppc' = "fill"
  /\ UNCHANGED <<isExplicit, counters, slots, completelyDequeued, pool, heap, entry, ring,
                 op, consumer, undone>>

ExplicitEnqueue ==
  /\ isExplicit
  /\ ReuseAhead \/ GrowExplicit \/ (\E b \in Blocks : NewBlock(b)) \/ FailExplicit \/ PublishFront

-----------------------------------------------------------------------------
(* ImplicitProducer: the blocks it needs.                                  *)

NextPos == (Header.front + 1) % Header.size
EntryIsFree ==
  LET e == entry[Header.entries[NextPos]]
  IN  e.key = INVALID_BLOCK_BASE \/ e.value = Null

\* insert_block_index_entry: key first, then the index tail.
InsertEntry ==
  /\ ppc = "alloc" /\ ~ NoLeeway /\ EntryIsFree
  /\ entry' = [entry EXCEPT ![Header.entries[NextPos]].key = op.base]
  /\ index' = [index EXCEPT ![Len(index)].front = NextPos]
  /\ ppc' = "block"
  /\ UNCHANGED <<isExplicit, counters, storage, ring, op, consumer, undone>>

\* new_block_index: twice the capacity; the old entries, oldest first, are
\* shared with the previous index, the new ones are invalid.
GrowImplicit ==
  /\ ppc = "alloc" /\ ~ NoLeeway /\ ~ EntryIsFree /\ CanGrow
  /\ index' = Append(index,
       [size    |-> 2 * Header.size,
        front   |-> Header.size - 1,
        entries |-> [p \in 0 .. 2 * Header.size - 1 |->
                       IF p < Header.size
                       THEN Header.entries[(NextPos + p) % Header.size] ELSE p]])
  /\ UNCHANGED <<isExplicit, counters, storage, entry, ring, producer, consumer, undone>>

ImplicitBlock(b) ==
  /\ ppc = "block"
  /\ b \in requisition_block
  /\ pool' = pool \ {b} /\ heap' = heap \ {b}
  /\ completelyDequeued' = [completelyDequeued EXCEPT ![b] = 0]
  /\ entry' = [entry EXCEPT ![Header.entries[Header.front]].value = b]
  /\ tailBlock' = b
  /\ op' = Got(b)
  /\ ppc' = IF op.left = 1 THEN "fill" ELSE "alloc"
  /\ UNCHANGED <<isExplicit, counters, slots, emptyFlags, index, next, pr_front, pr_used,
                 consumer, undone>>

\* Mutant of FailImplicit: the index tail is not wound back.
FailImplicitNoRewind ==
  /\ \/ ppc = "alloc" /\ (NoLeeway \/ ~ EntryIsFree)
     \/ ppc = "block" /\ pool = {}
  /\ LET made == Len(op.got) + (IF ppc = "block" THEN 1 ELSE 0)
         freed == {op.got[k] : k \in 1 .. Len(op.got)}
     IN  /\ entry' = [e \in DOMAIN entry |->
                        IF \E k \in 0 .. made - 1 :
                             Header.entries[(Header.front - k) % Header.size] = e
                        THEN [entry[e] EXCEPT !.value = Null] ELSE entry[e]]
         /\ pool' = pool \cup freed
  /\ tailBlock' = op.start
  /\ ppc' = "idle" /\ op' = NoOp
  /\ UNCHANGED <<isExplicit, counters, slots, emptyFlags, completelyDequeued, heap, index,
                 next, pr_front, pr_used, consumer, undone>>

\* No leeway, no index entry or no block: entries made by this operation are
\* cleared, the index tail is wound back and the blocks go to the free list.
FailImplicit ==
  /\ \/ ppc = "alloc" /\ (NoLeeway \/ ~ EntryIsFree)
     \/ ppc = "block" /\ pool = {}
  /\ LET made == Len(op.got) + (IF ppc = "block" THEN 1 ELSE 0)
         freed == {op.got[k] : k \in 1 .. Len(op.got)}
     IN  /\ entry' = [e \in DOMAIN entry |->
                        IF \E k \in 0 .. made - 1 :
                             Header.entries[(Header.front - k) % Header.size] = e
                        THEN [entry[e] EXCEPT !.value = Null] ELSE entry[e]]
         /\ index' = [index EXCEPT ![Len(index)].front = (@ - made) % Header.size]
         /\ pool' = pool \cup freed
  /\ tailBlock' = op.start
  /\ ppc' = "idle" /\ op' = NoOp
  /\ UNCHANGED <<isExplicit, counters, slots, emptyFlags, completelyDequeued, heap,
                 next, pr_front, pr_used, consumer, undone>>

ImplicitEnqueue ==
  /\ ~ isExplicit
  /\ InsertEntry \/ GrowImplicit \/ (\E b \in Blocks : ImplicitBlock(b)) \/ FailImplicit

-----------------------------------------------------------------------------
(* Dequeueing: the reservation protocol, the same in both forms.           *)

Local(c, pc, l) ==
  /\ cpc' = [cpc EXCEPT ![c] = pc]
  /\ loc' = [loc EXCEPT ![c] = l]

\* The loads of tailIndex, dequeueOvercommit and dequeueOptimisticCount; a
\* call that sees nothing returns.  Loading them one after the other can only
\* make `desired' smaller, as for a call with a smaller max, so the three are
\* one step.
Load(c, max) ==
  /\ cpc[c] = "idle"
  /\ dequeueOvercommit < MaxOvercommit
  /\ LET desired == Sub(tailIndex, Sub(dequeueOptimisticCount, dequeueOvercommit))
     IN  /\ circular_less_than(0, desired)
         /\ Local(c, "count", [NoCall EXCEPT !.n = Least(max, desired), !.over = dequeueOvercommit])
  /\ UNCHANGED <<isExplicit, counters, storage, lookup, ring, producer, undone>>

Count(c) ==
  /\ cpc[c] = "count"
  /\ dequeueOptimisticCount' = Add(dequeueOptimisticCount, loc[c].n)
  /\ Local(c, "decide", [loc[c] EXCEPT !.my = dequeueOptimisticCount])
  /\ UNCHANGED <<isExplicit, tailIndex, headIndex, dequeueOvercommit, storage, lookup, ring,
                 producer, undone>>

\* Mutant of Decide: takes the present overcommit instead of the value loaded
\* before the count was raised.
DecideFresh(c) ==
  /\ cpc[c] = "decide"
  /\ LET l == loc[c]
         actual == Sub(tailIndex, Sub(l.my, dequeueOvercommit))
         n == IF circular_less_than(0, actual) THEN Least(l.n, actual) ELSE 0
     IN  Local(c, IF n < l.n THEN "surplus" ELSE "claim",
               [NoCall EXCEPT !.n = n, !.my = l.n - n])
  /\ UNCHANGED <<isExplicit, counters, storage, lookup, ring, producer, undone>>

\* The tail is loaded again; it decides how many elements are really there.
\* From here on `my' is the surplus to be given back.
Decide(c) ==
  /\ cpc[c] = "decide"
  /\ LET l == loc[c]
         actual == Sub(tailIndex, Sub(l.my, l.over))
         n == IF circular_less_than(0, actual) THEN Least(l.n, actual) ELSE 0
     IN  Local(c, IF n < l.n THEN "surplus" ELSE "claim",
               [NoCall EXCEPT !.n = n, !.my = l.n - n])
  /\ UNCHANGED <<isExplicit, counters, storage, lookup, ring, producer, undone>>

\* Mutant of Surplus: gives back what was not kept only when nothing was.
SurplusAllOrNothing(c) ==
  /\ cpc[c] = "surplus"
  /\ dequeueOvercommit' = Add(dequeueOvercommit, IF loc[c].n = 0 THEN loc[c].my ELSE 0)
  /\ IF loc[c].n = 0 THEN Local(c, "idle", NoCall)
     ELSE Local(c, "claim", [loc[c] EXCEPT !.my = 0])
  /\ UNCHANGED <<isExplicit, tailIndex, headIndex, dequeueOptimisticCount, storage, lookup, ring,
                 producer, undone>>

\* What was counted and is not there goes to dequeueOvercommit.
Surplus(c) ==
  /\ cpc[c] = "surplus"
  /\ dequeueOvercommit' = Add(dequeueOvercommit, loc[c].my)
  /\ IF loc[c].n = 0 THEN Local(c, "idle", NoCall)
     ELSE Local(c, "claim", [loc[c] EXCEPT !.my = 0])
  /\ UNCHANGED <<isExplicit, tailIndex, headIndex, dequeueOptimisticCount, storage, lookup, ring,
                 producer, undone>>

Claim(c) ==
  /\ cpc[c] = "claim"
  /\ headIndex' = Add(headIndex, loc[c].n)
  /\ Local(c, "locate", [NoCall EXCEPT !.idx = headIndex, !.end = Add(headIndex, loc[c].n)])
  /\ UNCHANGED <<isExplicit, tailIndex, dequeueOptimisticCount, dequeueOvercommit, storage, lookup,
                 ring, producer, undone>>

Reserve(c) == Count(c) \/ Decide(c) \/ Surplus(c) \/ Claim(c)

-----------------------------------------------------------------------------
(* Dequeueing: finding the element, taking it, giving the slot back.       *)

\* The current header and its front (the implicit index calls it tail).
Locate(c) ==
  /\ cpc[c] = "locate"
  /\ Local(c, "find", [loc[c] EXCEPT !.header = Len(index), !.pos = Header.front])
  /\ UNCHANGED <<isExplicit, counters, storage, lookup, ring, producer, undone>>

\* From the base at the front, the signed distance in blocks.
Find(c) ==
  /\ cpc[c] = "find"
  /\ LET h == index[loc[c].header]
         p == loc[c].pos
         base == IF isExplicit THEN h.entries[p].base ELSE entry[h.entries[p]].key
         offset == Signed(Sub(BaseOf(loc[c].idx), base)) \div BLOCK_SIZE
     IN  Local(c, "take", [loc[c] EXCEPT !.pos = (p + offset) % h.size])
  /\ UNCHANGED <<isExplicit, counters, storage, lookup, ring, producer, undone>>

\* The block the entry at the consumer's position names.
BlockOf(c) ==
  LET e == index[loc[c].header].entries[loc[c].pos]
  IN  IF isExplicit THEN e.block ELSE entry[e].value

\* The elements of one block that the consumer has claimed.
InBlock(c) ==
  LET i == loc[c].idx
  IN  Least(Sub(loc[c].end, i), BLOCK_SIZE - (i % BLOCK_SIZE))

\* They are moved out and destroyed.
Take(c) ==
  /\ cpc[c] = "take"
  /\ slots' = [slots EXCEPT ![BlockOf(c)] = [o \in Offsets |->
                 IF o \in (loc[c].idx % BLOCK_SIZE) .. ((loc[c].idx % BLOCK_SIZE) + InBlock(c) - 1)
                 THEN Gone ELSE @[o]]]
  /\ Local(c, "empty", [loc[c] EXCEPT !.block = BlockOf(c)])
  /\ UNCHANGED <<isExplicit, counters, emptyFlags, completelyDequeued, pool, heap, lookup, ring,
                 producer, undone>>

\* On to the claimed elements in the next block, if any.
NextBlock(c) ==
  LET l == loc[c]
      i == Add(l.idx, InBlock(c))
  IN  IF i = l.end THEN Local(c, "idle", NoCall)
      ELSE Local(c, "take", [l EXCEPT !.idx = i, !.block = Null,
                                      !.pos = (@ + 1) % index[l.header].size])

\* set_empty, set_many_empty of the explicit form: the flags.
ExplicitEmpty(c) ==
  /\ cpc[c] = "empty"
  /\ emptyFlags' = [emptyFlags EXCEPT ![loc[c].block] = @ \cup
        (loc[c].idx % BLOCK_SIZE) .. ((loc[c].idx % BLOCK_SIZE) + InBlock(c) - 1)]
  /\ NextBlock(c)
  /\ UNCHANGED <<isExplicit, counters, slots, completelyDequeued, pool, heap, lookup, ring,
                 producer, undone>>

\* Those of the implicit form: the counter; whoever fills it up must return
\* the block.
ImplicitEmpty(c) ==
  /\ cpc[c] = "empty"
  /\ LET b == loc[c].block
     IN  /\ completelyDequeued' = [completelyDequeued EXCEPT ![b] = @ + InBlock(c)]
         /\ IF completelyDequeued[b] + InBlock(c) = BLOCK_SIZE
            THEN Local(c, "clear", loc[c]) ELSE NextBlock(c)
  /\ UNCHANGED <<isExplicit, counters, slots, emptyFlags, pool, heap, lookup, ring,
                 producer, undone>>

\* Mutant of Clear: the entry keeps naming the block.
ClearNothing(c) ==
  /\ cpc[c] = "clear"
  /\ Local(c, "free", loc[c])
  /\ UNCHANGED <<isExplicit, counters, storage, lookup, ring, producer, undone>>

\* The block leaves the index ...
Clear(c) ==
  /\ cpc[c] = "clear"
  /\ entry' = [entry EXCEPT ![index[loc[c].header].entries[loc[c].pos]].value = Null]
  /\ Local(c, "free", loc[c])
  /\ UNCHANGED <<isExplicit, counters, storage, index, ring, producer, undone>>

\* ... and goes to the free list.
Free(c) ==
  /\ cpc[c] = "free"
  /\ pool' = pool \cup {loc[c].block}
  /\ NextBlock(c)
  /\ UNCHANGED <<isExplicit, counters, slots, emptyFlags, completelyDequeued, heap, lookup, ring,
                 producer, undone>>

ExplicitDequeue(c) ==
  /\ isExplicit
  /\ Reserve(c) \/ Locate(c) \/ Find(c) \/ Take(c) \/ ExplicitEmpty(c)

ImplicitDequeue(c) ==
  /\ ~ isExplicit
  /\ \/ Reserve(c) \/ Locate(c) \/ Find(c) \/ Take(c)
     \/ ImplicitEmpty(c) \/ Clear(c) \/ Free(c)

-----------------------------------------------------------------------------
Producing == ExplicitEnqueue \/ ImplicitEnqueue \/ Fill \/ Publish

Dequeuing(c) == ExplicitDequeue(c) \/ ImplicitDequeue(c)

Next ==
  \/ \E n \in 1 .. MaxBulk : Begin(n)
  \/ Producing
  \/ \E c \in Consumers :
       \/ \E max \in 1 .. MaxBulk : Load(c, max)
       \/ Dequeuing(c)

Spec == Init /\ [][Next]_vars

-----------------------------------------------------------------------------
(* Correctness.                                                            *)

Quiescent == ppc = "idle" /\ \A c \in Consumers : cpc[c] = "idle"

\* What a call in progress has counted and not yet claimed or given back, and
\* what it is about to claim.
Held(c) == IF cpc[c] \in {"decide", "claim"} THEN loc[c].n
           ELSE IF cpc[c] = "surplus" THEN loc[c].n + loc[c].my ELSE 0
Due(c)  == IF cpc[c] \in {"surplus", "claim"} THEN loc[c].n ELSE 0

\* The optimistic protocol neither loses nor invents an element: what has
\* been counted, less what was given back, is what has been claimed plus what
\* calls in progress still hold.  With no call in progress a consumer
\* therefore sees an element if and only if there is one.
ReservationsBalance ==
  Sub(dequeueOptimisticCount, dequeueOvercommit) = Add(headIndex, MapThenSumSet(Held, Consumers))

\* `Guaranteed to be at least one element to dequeue!': the consumers that
\* are about to raise headIndex never claim more than has been published.
NoOverrun == MapThenSumSet(Due, Consumers) <= Signed(Sub(tailIndex, headIndex))

\* The block index leads every consumer to the block that holds the element
\* it has claimed, and that element is still there, however the producer has
\* re-used blocks, overwritten entries or grown the index in the meantime.
ClaimsAreFound ==
  \A c \in Consumers :
    cpc[c] = "take" =>
      /\ BlockOf(c) \in Blocks
      /\ \A k \in 0 .. InBlock(c) - 1 :
           LET i == Add(loc[c].idx, k) IN slots[BlockOf(c)][i % BLOCK_SIZE] = i

\* It does so as long as no explicit enqueue_bulk has failed half way: for the
\* implicit form always, whatever fails, and for the explicit form with failed
\* single enqueues and failures before the first block was added.
ReadsItsElement == undone \/ ClaimsAreFound

\* No element is constructed on top of one that has not been taken, in the
\* same histories.
NeverOverwritten ==
  [][undone \/ \A b \in Blocks, o \in Offsets :
       slots'[b][o] # slots[b][o] => Gone \in {slots[b][o], slots'[b][o]}]_vars

\* A block that requisition_block may hand out is out of use: it holds no
\* element, no index entry names it and no thread is working on it.
FreeIsUnused ==
  \A b \in pool \cup heap :
    /\ \A o \in Offsets : slots[b][o] = Gone
    /\ \A e \in DOMAIN entry : entry[e].value # b
    /\ \A c \in Consumers : loc[c].block # b
    /\ \A k \in 1 .. Len(op.got) : op.got[k] # b

\* Live elements, and what the two destructors destroy.
Live == {x \in Blocks \X Offsets : slots[x[1]][x[2]] # Gone}

\* The first entry, from the oldest in use, whose block ends at or after the
\* head: the one the explicit destructor takes for half dequeued.
HalfDequeuedEntry ==
  LET At(k) == Header.entries[(pr_front - pr_used + k) % Header.size]
      Before(k) == circular_less_than(Add(At(k).base, BLOCK_SIZE), headIndex)
  IN  At(CHOOSE k \in 0 .. Header.size - 1 : ~ Before(k) /\ \A j \in 0 .. k - 1 : Before(j))

\* Mutant of lastValidIndex: a tail on a block boundary is not special.
TailOffset == tailIndex % BLOCK_SIZE

lastValidIndex == IF tailIndex % BLOCK_SIZE = 0 THEN BLOCK_SIZE ELSE tailIndex % BLOCK_SIZE

ExplicitDestroyed ==
  {x \in Blocks \X Offsets :
     /\ next[x[1]] # Null
     /\ emptyFlags[x[1]] # Offsets
     /\ headIndex % BLOCK_SIZE # 0 /\ x[1] = HalfDequeuedEntry.block
          => x[2] >= headIndex % BLOCK_SIZE
     /\ x[1] = tailBlock => x[2] < lastValidIndex}

ImplicitBlockOf(i) ==
  LET base == entry[Header.entries[Header.front]].key
      offset == Signed(Sub(BaseOf(i), base)) \div BLOCK_SIZE
  IN  entry[Header.entries[(Header.front + offset) % Header.size]].value

Undequeued == {Add(headIndex, k) : k \in 0 .. Sub(tailIndex, headIndex) - 1}

ImplicitDestroyed == {<<ImplicitBlockOf(i), i % BLOCK_SIZE>> : i \in Undequeued}

ImplicitFreed ==
  {ImplicitBlockOf(i) : i \in {j \in Undequeued :
                                 BaseOf(j) # BaseOf(Sub(tailIndex, 1))}}
    \cup (IF tailBlock # Null /\ (Undequeued # {} \/ tailIndex % BLOCK_SIZE # 0)
         THEN {tailBlock} ELSE {})

\* Whatever has happened to the sub-queue, except for an explicit enqueue_bulk
\* that failed half way, its destructor destroys exactly the elements that are
\* left, and the implicit one returns every block it owns.
DestructorExact ==
  Quiescent /\ ~ undone =>
    IF isExplicit THEN ExplicitDestroyed = Live
    ELSE ImplicitDestroyed = Live /\ ImplicitFreed = Blocks \ (pool \cup heap)

\* The assertion of ~ExplicitProducer: the block taken for half dequeued does
\* start before the head.
DestructorAssertion ==
  Quiescent /\ isExplicit /\ tailBlock # Null /\ headIndex % BLOCK_SIZE # 0 =>
    circular_less_than(HalfDequeuedEntry.base, headIndex)
=============================================================================
