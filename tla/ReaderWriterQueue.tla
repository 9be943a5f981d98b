------------------------- MODULE ReaderWriterQueue -------------------------
(***************************************************************************)
(* utils/readerwriterqueue.h: the wait-free queue of one producer and one  *)
(* consumer thread, and BlockingReaderWriterQueue, which puts a semaphore  *)
(* before it.  The queue is a ring of circular blocks; each thread keeps   *)
(* stale copies of the other's positions.  Every load or store of a        *)
(* variable that the other thread uses is a step of its own, in the order  *)
(* the fences of the code establish.                                       *)
(*                                                                         *)
(* The k-th element accepted is represented by the number k.               *)
(***************************************************************************)
EXTENDS Integers, Sequences

CONSTANTS
  MAX_BLOCK_SIZE,
  MaxSizes,        \* arguments the constructor may be given
  MaxBlocks,       \* bound: make_block fails once there are so many
  MaxItems         \* bound: elements ever accepted

\* No odd divisor but 1.
PowerOf2(p) == \A q \in 2 .. p : p % q = 0 => q % 2 = 0

\* The constructor asserts as much of its argument and of MAX_BLOCK_SIZE.
ASSUME ReaderWriterQueueAssumption ==
  /\ MAX_BLOCK_SIZE \in Nat /\ MAX_BLOCK_SIZE >= 2 /\ PowerOf2(MAX_BLOCK_SIZE)
  /\ MaxSizes \subseteq Nat \ {0}
  /\ MaxBlocks \in Nat /\ MaxItems \in Nat

VARIABLES
  maxSize, blocking,          \* constructor argument; which of the classes
  block,                      \* the blocks, in the order of their creation
  frontBlock, tailBlock, largestBlockSize,
  sema,                       \* permits of the semaphore
  pro, con,                   \* the two threads: position and locals
  enq, deq                    \* history: elements accepted, and removed

fixed == <<maxSize, blocking>>
vars  == <<fixed, block, frontBlock, tailBlock, largestBlockSize, sema, pro, con, enq, deq>>

-----------------------------------------------------------------------------
Nothing == 0     \* a slot without a live element

\* The least power of two that is not less than x.
ceilToPow2(x) ==
  LET Powers == {p \in x .. 2 * x : PowerOf2(p)}
  IN  CHOOSE p \in Powers : \A q \in Powers : p <= q

make_block(size, next) ==
  [size |-> size, front |-> 0, localTail |-> 0, tail |-> 0, localFront |-> 0,
   next |-> next, data |-> [i \in 0 .. size - 1 |-> Nothing]]

\* Mutant of initialBlockCount: no spare block for the consumer.
NoSpareBlock(m) ==
  IF ceilToPow2(m + 1) > 2 * MAX_BLOCK_SIZE
  THEN (m + MAX_BLOCK_SIZE - 2) \div (MAX_BLOCK_SIZE - 1) ELSE 1

initialBlockCount(m) ==
  IF ceilToPow2(m + 1) > 2 * MAX_BLOCK_SIZE
  THEN (m + 2 * MAX_BLOCK_SIZE - 3) \div (MAX_BLOCK_SIZE - 1) ELSE 1

initialBlockSize(m) ==
  IF ceilToPow2(m + 1) > 2 * MAX_BLOCK_SIZE THEN MAX_BLOCK_SIZE ELSE ceilToPow2(m + 1)

Size == enq - deq
Idle == [pc |-> "idle", kind |-> "none", start |-> 0, b |-> 0, first |-> 0, sum |-> 0]

Init ==
  /\ maxSize \in MaxSizes /\ blocking \in BOOLEAN
  /\ LET n == initialBlockCount(maxSize)
     IN  block = [b \in 1 .. n |-> make_block(initialBlockSize(maxSize), (b % n) + 1)]
  /\ frontBlock = 1 /\ tailBlock = 1
  /\ largestBlockSize = initialBlockSize(maxSize)
  /\ sema = 0 /\ enq = 0 /\ deq = 0
  /\ pro = Idle /\ con = Idle

-----------------------------------------------------------------------------
(* inner_enqueue.                                                          *)

NextTail(b) == (block[b].tail + 1) % block[b].size

\* try_enqueue passes CannotAlloc, enqueue CanAlloc.  The producer's own
\* tailBlock, tail and localFront are enough if they show room.
StartEnqueue(mode) ==
  /\ pro.pc = "idle" /\ enq < MaxItems
  /\ pro' = [Idle EXCEPT !.kind = mode, !.start = Size, !.b = tailBlock,
               !.pc = IF NextTail(tailBlock) # block[tailBlock].localFront
                      THEN "construct" ELSE "room"]
  /\ UNCHANGED <<fixed, block, frontBlock, tailBlock, largestBlockSize, sema, con, enq, deq>>

\* The consumer's front is loaded.
LoadFront ==
  /\ pro.pc = "room"
  /\ block' = [block EXCEPT ![tailBlock].localFront = block[tailBlock].front]
  /\ pro' = [pro EXCEPT !.pc = IF NextTail(tailBlock) # block[tailBlock].front
                               THEN "construct" ELSE "ahead"]
  /\ UNCHANGED <<fixed, frontBlock, tailBlock, largestBlockSize, sema, con, enq, deq>>

\* Mutant of LoadFrontBlock: advances into the block the consumer is in.
LoadFrontBlockAlways ==
  /\ pro.pc = "ahead"
  /\ pro' = [pro EXCEPT !.pc = "next", !.b = block[tailBlock].next]
  /\ UNCHANGED <<fixed, block, frontBlock, tailBlock, largestBlockSize, sema, con, enq, deq>>

\* The tail block is full: is the block ahead free, that is, not the one the
\* consumer is in?
LoadFrontBlock ==
  /\ pro.pc = "ahead"
  /\ pro' = IF block[tailBlock].next # frontBlock
            THEN [pro EXCEPT !.pc = "next", !.b = block[tailBlock].next]
            ELSE [pro EXCEPT !.pc = IF pro.kind = "CanAlloc" THEN "alloc" ELSE "refused"]
  /\ UNCHANGED <<fixed, block, frontBlock, tailBlock, largestBlockSize, sema, con, enq, deq>>

UseNextBlock ==
  /\ pro.pc = "next"
  /\ block' = [block EXCEPT ![pro.b].localFront = block[pro.b].front]
  /\ pro' = [pro EXCEPT !.pc = "construct"]
  /\ UNCHANGED <<fixed, frontBlock, tailBlock, largestBlockSize, sema, con, enq, deq>>

Construct ==
  /\ pro.pc = "construct"
  /\ block' = [block EXCEPT ![pro.b].data[block[pro.b].tail] = enq + 1]
  /\ pro' = [pro EXCEPT !.pc = "tail"]
  /\ UNCHANGED <<fixed, frontBlock, tailBlock, largestBlockSize, sema, con, enq, deq>>

\* The call has put its element in: BlockingReaderWriterQueue then signals.
Accepted ==
  /\ enq' = enq + 1
  /\ pro' = IF blocking THEN [Idle EXCEPT !.pc = "signal"] ELSE Idle

StoreTail ==
  /\ pro.pc = "tail"
  /\ block' = [block EXCEPT ![pro.b].tail = NextTail(pro.b)]
  /\ IF pro.b = tailBlock THEN Accepted
     ELSE pro' = [pro EXCEPT !.pc = "tailBlock"] /\ enq' = enq
  /\ UNCHANGED <<fixed, frontBlock, tailBlock, largestBlockSize, sema, con, deq>>

\* A new block, twice as large unless that is too large, with the element in
\* it, is linked in behind the tail block.
AddBlock ==
  /\ pro.pc = "alloc" /\ Len(block) < MaxBlocks
  /\ largestBlockSize' = IF largestBlockSize >= MAX_BLOCK_SIZE THEN largestBlockSize
                         ELSE 2 * largestBlockSize
  /\ LET new == [make_block(largestBlockSize', block[tailBlock].next) EXCEPT
                   !.data[0] = enq + 1, !.tail = 1, !.localTail = 1]
     IN  block' = Append([block EXCEPT ![tailBlock].next = Len(block) + 1], new)
  /\ pro' = [pro EXCEPT !.pc = "tailBlock", !.b = Len(block) + 1]
  /\ UNCHANGED <<fixed, frontBlock, tailBlock, sema, con, enq, deq>>

StoreTailBlock ==
  /\ pro.pc = "tailBlock"
  /\ tailBlock' = pro.b
  /\ Accepted
  /\ UNCHANGED <<fixed, block, frontBlock, largestBlockSize, sema, con, deq>>

\* Not allowed to allocate, or make_block failed: false.
ReturnFalse ==
  /\ pro.pc = "refused" \/ (pro.pc = "alloc" /\ Len(block) = MaxBlocks)
  /\ pro' = Idle
  /\ UNCHANGED <<fixed, block, frontBlock, tailBlock, largestBlockSize, sema, con, enq, deq>>

inner_enqueue ==
  \/ LoadFront \/ LoadFrontBlock \/ UseNextBlock \/ Construct \/ StoreTail
  \/ AddBlock \/ StoreTailBlock \/ ReturnFalse

signal ==
  /\ pro.pc = "signal"
  /\ sema' = sema + 1
  /\ pro' = Idle
  /\ UNCHANGED <<fixed, block, frontBlock, tailBlock, largestBlockSize, con, enq, deq>>

-----------------------------------------------------------------------------
(* try_dequeue, pop and peek.                                              *)

\* BlockingReaderWriterQueue takes a permit before it dequeues; without one
\* tryWait returns false and wait blocks.  The consumer's own frontBlock,
\* front and localTail are enough if they show an element.
StartDequeue(kind) ==
  /\ con.pc = "idle"
  /\ IF blocking /\ kind # "peek" THEN sema > 0 /\ sema' = sema - 1 ELSE sema' = sema
  /\ con' = [Idle EXCEPT !.kind = kind, !.start = Size, !.b = frontBlock,
               !.pc = IF block[frontBlock].front # block[frontBlock].localTail
                      THEN "found" ELSE "tail"]
  /\ UNCHANGED <<fixed, block, frontBlock, tailBlock, largestBlockSize, pro, enq, deq>>

\* The producer's tail is loaded: the first time, and once more after the
\* tail block is known to be another one.
LoadTail ==
  /\ con.pc \in {"tail", "again"}
  /\ block' = [block EXCEPT ![frontBlock].localTail = block[frontBlock].tail]
  /\ con' = [con EXCEPT !.pc = IF block[frontBlock].front # block[frontBlock].tail THEN "found"
                               ELSE IF @ = "tail" THEN "tailBlock" ELSE "advance"]
  /\ UNCHANGED <<fixed, frontBlock, tailBlock, largestBlockSize, sema, pro, enq, deq>>

\* Mutant of LoadTailBlock: does not look at the front block again.
LoadTailBlockOnce ==
  /\ con.pc = "tailBlock"
  /\ con' = [con EXCEPT !.pc = IF frontBlock # tailBlock THEN "advance" ELSE "none"]
  /\ UNCHANGED <<fixed, block, frontBlock, tailBlock, largestBlockSize, sema, pro, enq, deq>>

LoadTailBlock ==
  /\ con.pc = "tailBlock"
  /\ con' = [con EXCEPT !.pc = IF frontBlock # tailBlock THEN "again" ELSE "none"]
  /\ UNCHANGED <<fixed, block, frontBlock, tailBlock, largestBlockSize, sema, pro, enq, deq>>

\* The front block is used up; peek only looks into the next one.
LookAhead ==
  /\ con.pc = "advance"
  /\ LET next == block[frontBlock].next
     IN  /\ con' = [con EXCEPT !.pc = IF con.kind = "peek" THEN "found" ELSE "enter", !.b = next]
         /\ block' = IF con.kind = "peek" THEN block
                     ELSE [block EXCEPT ![next].localTail = block[next].tail]
  /\ UNCHANGED <<fixed, frontBlock, tailBlock, largestBlockSize, sema, pro, enq, deq>>

StoreFrontBlock ==
  /\ con.pc = "enter"
  /\ frontBlock' = con.b
  /\ con' = [con EXCEPT !.pc = "found"]
  /\ UNCHANGED <<fixed, block, tailBlock, largestBlockSize, sema, pro, enq, deq>>

Locate == LoadTail \/ LoadTailBlock \/ LookAhead

\* The element is moved out (pop: not even that) and destroyed.
Take ==
  /\ con.pc = "found"
  /\ block' = [block EXCEPT ![con.b].data[block[con.b].front] = Nothing]
  /\ con' = [con EXCEPT !.pc = "front"]
  /\ UNCHANGED <<fixed, frontBlock, tailBlock, largestBlockSize, sema, pro, enq, deq>>

StoreFront ==
  /\ con.pc = "front"
  /\ block' = [block EXCEPT ![con.b].front = (@ + 1) % block[con.b].size]
  /\ deq' = deq + 1
  /\ con' = Idle
  /\ UNCHANGED <<fixed, frontBlock, tailBlock, largestBlockSize, sema, pro, enq>>

\* The call is over without changing anything: false, nullptr or a pointer.
Return ==
  /\ con.pc = "none" \/ (con.kind = "peek" /\ con.pc = "found")
  /\ con' = Idle
  /\ UNCHANGED <<fixed, block, frontBlock, tailBlock, largestBlockSize, sema, pro, enq, deq>>

Remove == Locate \/ StoreFrontBlock \/ Take \/ StoreFront \/ Return

try_dequeue == con.kind = "try_dequeue" /\ Remove
pop         == con.kind = "pop" /\ Remove
peek        == con.kind = "peek" /\ (Locate \/ Return)

-----------------------------------------------------------------------------
(* size_approx, called by either thread: one block after the other.  That  *)
(* of the blocking class is availableApprox.                               *)

\* Mutant of InBlock: without the mask.
InBlockUnmasked(b) == block[b].tail - block[b].front

InBlock(b) == (block[b].tail - block[b].front) % block[b].size

SizeStep(l) ==
  CASE l.pc = "idle"     -> [Idle EXCEPT !.pc = "size", !.kind = "size_approx", !.start = Size,
                                         !.b = frontBlock, !.first = frontBlock]
    [] l.pc = "size"     -> [l EXCEPT !.pc = "sizeNext", !.sum = @ + InBlock(l.b)]
    [] l.pc = "sizeNext" -> [l EXCEPT !.b = block[l.b].next,
                               !.pc = IF block[l.b].next = l.first THEN "sized" ELSE "size"]
    [] l.pc = "sized"    -> Idle

size_approx ==
  /\ ~ blocking
  /\ \/ pro.pc \in {"idle", "size", "sizeNext", "sized"} /\ pro' = SizeStep(pro) /\ con' = con
     \/ con.pc \in {"idle", "size", "sizeNext", "sized"} /\ con' = SizeStep(con) /\ pro' = pro
  /\ UNCHANGED <<fixed, block, frontBlock, tailBlock, largestBlockSize, sema, enq, deq>>

\* BlockingReaderWriterQueue's size_approx: one load of the semaphore's count.
availableApprox == sema

Next ==
  \/ \E mode \in {"CanAlloc", "CannotAlloc"} : StartEnqueue(mode)
  \/ inner_enqueue \/ signal
  \/ \E kind \in {"try_dequeue", "pop", "peek"} : StartDequeue(kind)
  \/ try_dequeue \/ pop \/ peek
  \/ size_approx

Spec == Init /\ [][Next]_vars

-----------------------------------------------------------------------------
(* Correctness.                                                            *)

\* First in, first out: what a call is about to remove, or points at, is the
\* oldest element accepted and not removed, fully constructed, however stale
\* the positions were that led to it.
TakesOldest ==
  con.pc = "found" => deq < enq /\ block[con.b].data[block[con.b].front] = deq + 1

\* A call that finds nothing began when the queue was empty, which one made
\* by BlockingReaderWriterQueue with a permit never does; try_enqueue refuses
\* only if the queue held the maxSize elements it was constructed for.
RefusesRightly ==
  /\ con.pc = "none" => con.start = 0 /\ ~ (blocking /\ con.kind # "peek")
  /\ pro.pc = "refused" => pro.start >= maxSize

\* size_approx, with the other thread at work all the while, is between the
\* sizes at its beginning and at its end; an element whose block is not yet
\* the tail block may already count.  BlockingReaderWriterQueue's is short of
\* at most the element about to be signalled and the one about to be removed.
SizeIsBetween ==
  /\ con.pc = "sized" =>
       con.start <= con.sum /\ con.sum <= Size + (IF pro.pc = "tailBlock" THEN 1 ELSE 0)
  /\ pro.pc = "sized" => Size <= pro.sum /\ pro.sum <= pro.start
  /\ blocking => /\ availableApprox <= Size
                 /\ Size <= availableApprox + (IF pro.pc = "signal" THEN 1 ELSE 0)
                                            + (IF con.kind \in {"try_dequeue", "pop"} THEN 1 ELSE 0)

\* The blocks the destructor frees, walking from the front block, and the
\* elements it destroys.
Walked[k \in 0 .. Len(block)] == IF k = 0 THEN frontBlock ELSE block[Walked[k - 1]].next

Walk == {Walked[k] : k \in 0 .. Len(block)}

Destroyed ==
  UNION {{block[b].data[(block[b].front + k) % block[b].size] : k \in 0 .. InBlock(b) - 1} :
           b \in Walk}

\* With no call in progress the destructor frees every block and destroys
\* exactly the elements accepted and not removed.
DestructorExact ==
  pro.pc = "idle" /\ con.pc = "idle" =>
    Walk = DOMAIN block /\ Destroyed = (deq + 1) .. enq
=============================================================================
