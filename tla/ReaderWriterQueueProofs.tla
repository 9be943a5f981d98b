-------------------- MODULE ReaderWriterQueueProofs ---------------------
(***************************************************************************)
(* Proofs about ReaderWriterQueue, for every size the constructor may be   *)
(* given, any number of blocks and elements.                               *)
(*                                                                         *)
(* The inductive invariant names what no variable holds: the ring of       *)
(* blocks from the front block on, how far in it the tail block is, and    *)
(* for each block how many elements went before its own.  Each thread's    *)
(* part says what a copy it has taken of the other's positions is good     *)
(* for while the other moves on.                                           *)
(***************************************************************************)
EXTENDS ReaderWriterQueue, WellFoundedInduction, TLAPS

-----------------------------------------------------------------------------
(* One block.                                                              *)

\* The slots from x round to y in a circle of c.
Dist(x, y, c) == IF x <= y THEN y - x ELSE y - x + c
Plus(x, k, c) == IF x + k < c THEN x + k ELSE x + k - c

\* The elements in block b, those the consumer knows of, and those the
\* producer thinks are there.
In(b)      == Dist(block[b].front, block[b].tail, block[b].size)
Seen(b)    == Dist(block[b].front, block[b].localTail, block[b].size)
Thought(b) == Dist(block[b].localFront, block[b].tail, block[b].size)

At(b, k) == Plus(block[b].front, k, block[b].size)
Full(b)  == In(b) = block[b].size - 1

S == initialBlockSize(maxSize)

-----------------------------------------------------------------------------
(* The inductive invariant.                                                *)

BlockType ==
  [size : Nat, front : Nat, localTail : Nat, tail : Nat, localFront : Nat, next : Nat,
   data : UNION {[0 .. c - 1 -> Nat] : c \in Nat}]

ProPCs == {"idle", "construct", "room", "ahead", "next", "tail", "alloc", "refused",
           "tailBlock", "signal", "size", "sizeNext", "sized"}
ConPCs == {"idle", "found", "tail", "again", "tailBlock", "none", "advance", "enter",
           "front", "size", "sizeNext", "sized"}
Sizing   == {"size", "sizeNext", "sized"}
Removing == {"try_dequeue", "pop"}
Kinds    == Removing \cup {"peek", "CanAlloc", "CannotAlloc", "size_approx", "none"}
Locals(pcs) == [pc : pcs, kind : Kinds, start : Nat, b : Nat, first : Nat, sum : Nat]

TypeInv ==
  /\ maxSize \in MaxSizes /\ blocking \in BOOLEAN
  /\ block \in Seq(BlockType) /\ largestBlockSize \in Nat
  /\ sema \in Nat /\ enq \in Nat /\ deq \in Nat
  /\ pro \in Locals(ProPCs) /\ con \in Locals(ConPCs)

\* Positions are slots; what the threads remember errs on the safe side.
BlockOK(b) ==
  /\ S <= block[b].size /\ block[b].size <= largestBlockSize
  /\ block[b].front < block[b].size /\ block[b].tail < block[b].size
  /\ block[b].localTail < block[b].size /\ block[b].localFront < block[b].size
  /\ block[b].data \in [0 .. block[b].size - 1 -> Nat]
  /\ Seen(b) <= In(b) /\ In(b) <= Thought(b)
BlocksInv == \A b \in DOMAIN block : BlockOK(b)

\* All blocks but one, or the only one, hold maxSize elements.
CapacityInv ==
  IF Len(block) = 1 THEN maxSize <= S - 1 ELSE maxSize <= (Len(block) - 1) * (S - 1)

\* A permit, or a signal to come, for each element but the one being removed.
SemaInv ==
  blocking => /\ sema + (IF pro.pc = "signal" THEN 1 ELSE 0)
                   + (IF con.kind \in Removing THEN 1 ELSE 0) = Size
              /\ pro.pc \notin Sizing /\ con.pc \notin Sizing
              /\ con.kind \in Removing => con.start >= 1

\* r is the ring from the front block on; its first p blocks, up to the tail
\* block, are in use.
RingInv(r, p) ==
  /\ r \in [1 .. Len(block) -> DOMAIN block] /\ p \in 1 .. Len(block)
  /\ \A i, j \in 1 .. Len(block) : r[i] = r[j] => i = j
  /\ \A b \in DOMAIN block : \E i \in 1 .. Len(block) : r[i] = b
  /\ frontBlock = r[1] /\ tailBlock = r[p]
  /\ \A i \in 1 .. Len(block) : block[r[i]].next = IF i = Len(block) THEN r[1] ELSE r[i + 1]

\* o[b] elements went before those of block b.
OffsetInv(r, p, o) ==
  /\ o \in [DOMAIN block -> Nat]
  /\ o[r[1]] = deq /\ enq = o[r[p]] + In(r[p])
  /\ \A i \in 1 .. p - 1 : o[r[i + 1]] = o[r[i]] + In(r[i])
  /\ \A i, j \in 1 .. p : i <= j => o[r[i]] <= o[r[j]]
  /\ \A i, j \in 2 .. p : i <= j => o[r[i]] + (j - i) * (S - 1) <= o[r[j]]

\* hole: the oldest element has been destroyed.
DataInv(r, p, o, hole) ==
  \A i \in 1 .. p : \A k \in 0 .. In(r[i]) - 1 :
    (hole /\ i = 1 /\ k = 0) \/ block[r[i]].data[At(r[i], k)] = o[r[i]] + k + 1

\* Only the front block may be used up, only the front and the tail block not
\* be full; those that are not in use are empty, but for the first of them if
\* the next element is in there already.
FillInv(r, p, extra) ==
  /\ \A i \in 2 .. p : In(r[i]) >= 1
  /\ \A i \in 2 .. p - 1 : Full(r[i])
  /\ \A i \in p + 1 .. Len(block) :
       IF extra /\ i = p + 1 THEN In(r[i]) = 1 /\ block[r[i]].data[block[r[i]].front] = enq + 1
       ELSE In(r[i]) = 0

\* The producer uses the block ahead.
Ahead(r, p) == p < Len(block) /\ pro.b = r[p + 1]

Enqueuing == ProPCs \ ({"idle", "signal"} \cup Sizing)

ProInv(r, p) ==
  /\ pro.pc \in Enqueuing => pro.start >= Size
  /\ pro.pc = "room" => pro.b = tailBlock
  /\ pro.pc \in {"next", "tailBlock"} => Ahead(r, p)
  /\ pro.pc \in {"construct", "tail"} =>
       /\ pro.b = tailBlock \/ Ahead(r, p)
       /\ Thought(pro.b) < block[pro.b].size - 1
  /\ pro.pc = "tail" => block[pro.b].data[block[pro.b].tail] = enq + 1
  /\ (\/ pro.pc \in {"ahead", "next", "alloc", "tailBlock"}
      \/ pro.pc \in {"construct", "tail"} /\ pro.b # tailBlock)
       => tailBlock = frontBlock \/ Full(tailBlock)
  /\ pro.pc = "ahead" => pro.start >= block[tailBlock].size - 1
  /\ pro.pc = "refused" => pro.start >= maxSize

ConInv(r, p) ==
  /\ con.kind \in Removing \cup {"peek"} <=> con.pc \notin {"idle"} \cup Sizing
  /\ con.pc # "idle" => con.start <= Size
  /\ con.pc \in {"tail", "tailBlock", "again"} => con.b = frontBlock
  /\ con.pc = "tailBlock" => p > 1 \/ con.start = 0
  /\ con.pc = "none" => con.start = 0
  /\ con.pc \in {"again", "advance", "enter"} => p > 1
  /\ con.pc \in {"advance", "enter"} => In(frontBlock) = 0
  /\ con.pc = "enter" => con.b = r[2] /\ Seen(con.b) >= 1
  /\ con.pc = "found" => \/ con.b = frontBlock /\ Seen(con.b) >= 1
                         \/ con.kind = "peek" /\ p > 1 /\ con.b = r[2] /\ In(frontBlock) = 0
  /\ con.pc = "front" => con.b = frontBlock /\ Seen(con.b) >= 1
  /\ con.pc \in {"enter", "front"} => con.kind \in Removing

\* size_approx of the consumer, before it reads the j-th block: it has seen
\* all before, or more than there were.
ConSum(r, p, o, j) ==
  IF j <= p THEN /\ con.sum <= o[r[j]] - deq
                 /\ con.sum = o[r[j]] - deq \/ con.sum >= con.start
  ELSE /\ con.start <= con.sum
       /\ con.sum <= Size + (IF pro.pc = "tailBlock" /\ j > p + 1 THEN 1 ELSE 0)

ConSizeInv(r, p, o) ==
  con.pc \in Sizing =>
    /\ con.first = frontBlock
    /\ IF con.pc = "sized" THEN ConSum(r, p, o, Len(block) + 1)
       ELSE \E i \in 1 .. Len(block) :
              con.b = r[i] /\ ConSum(r, p, o, IF con.pc = "size" THEN i ELSE i + 1)

\* size_approx of the producer, which began at the f-th block, before it reads
\* the j-th: that may have been left by the consumer meanwhile.
ProSum(r, p, o, f, j) ==
  IF f > 1 /\ j >= f THEN pro.sum + Size <= pro.start
  ELSE IF j <= p THEN o[r[j]] - deq <= pro.sum /\ pro.sum + (enq - o[r[j]]) <= pro.start
  ELSE Size <= pro.sum /\ pro.sum <= pro.start

Follows(j) == IF j = Len(block) THEN 1 ELSE j + 1

ProSized == Size <= pro.sum /\ pro.sum <= pro.start

ProSizeInv(r, p, o) ==
  pro.pc \in Sizing =>
    \E f \in 1 .. Len(block) :
      /\ pro.first = r[f] /\ (f = 1 \/ f > p)
      /\ CASE pro.pc = "sized" -> ProSized
           [] pro.pc = "size" -> \E i \in 1 .. Len(block) : pro.b = r[i] /\ ProSum(r, p, o, f, i)
           [] OTHER -> \E i \in 1 .. Len(block) :
                         /\ pro.b = r[i]
                         /\ IF Follows(i) = f THEN ProSized ELSE ProSum(r, p, o, f, Follows(i))

Good(r, p, o) ==
  /\ RingInv(r, p) /\ OffsetInv(r, p, o)
  /\ DataInv(r, p, o, con.pc = "front") /\ FillInv(r, p, pro.pc = "tailBlock")
  /\ ProInv(r, p) /\ ConInv(r, p) /\ ConSizeInv(r, p, o) /\ ProSizeInv(r, p, o)

Inv ==
  /\ TypeInv /\ BlocksInv /\ CapacityInv /\ SemaInv
  /\ \E r \in [1 .. Len(block) -> DOMAIN block], p \in 1 .. Len(block),
        o \in [DOMAIN block -> Nat] : Good(r, p, o)

-----------------------------------------------------------------------------
(* Arithmetic.                                                             *)

\* A distance is less than the circle, and nothing only to oneself.
LEMMA DistType ==
  ASSUME NEW c \in Nat, NEW x \in 0 .. c - 1, NEW y \in 0 .. c - 1
  PROVE  Dist(x, y, c) \in 0 .. c - 1 /\ (Dist(x, y, c) = 0 <=> x = y)
  BY DEF Dist

\* Going k slots on is a slot, k away.
LEMMA PlusType ==
  ASSUME NEW c \in Nat, NEW x \in 0 .. c - 1, NEW k \in 0 .. c - 1
  PROVE  Plus(x, k, c) \in 0 .. c - 1 /\ Dist(x, Plus(x, k, c), c) = k
  BY DEF Plus, Dist

\* What size_approx computes with the mask is the distance.
LEMMA Masked ==
  ASSUME NEW c \in Nat \ {0}, NEW x \in 0 .. c - 1, NEW y \in 0 .. c - 1
  PROVE  (y - x) % c = Dist(x, y, c)
  BY DEF Dist

\* The mask brings a position back into the block.
LEMMA MaskedPlus ==
  ASSUME NEW c \in Nat \ {0}, NEW x \in 0 .. c - 1, NEW k \in 0 .. c - 1
  PROVE  (x + k) % c = Plus(x, k, c)
  BY DEF Plus

\* A slot is left between the tail and the front of a full block.
LEMMA TailRoom ==
  ASSUME NEW c \in Nat, c >= 2, NEW f \in 0 .. c - 1, NEW t \in 0 .. c - 1
  PROVE  Plus(t, 1, c) = f <=> Dist(f, t, c) = c - 1
  BY DEF Plus, Dist

\* The slot the tail points at is behind the last element.
LEMMA TailMoves ==
  ASSUME NEW c \in Nat, c >= 2, NEW f \in 0 .. c - 1, NEW t \in 0 .. c - 1,
         Dist(f, t, c) < c - 1
  PROVE  /\ Plus(t, 1, c) \in 0 .. c - 1
         /\ Dist(f, Plus(t, 1, c), c) = Dist(f, t, c) + 1
         /\ Plus(f, Dist(f, t, c), c) = t
  BY DEF Plus, Dist

\* When the front moves, every element is one slot nearer.
LEMMA FrontMoves ==
  ASSUME NEW c \in Nat, c >= 2, NEW f \in 0 .. c - 1, NEW t \in 0 .. c - 1,
         Dist(f, t, c) >= 1
  PROVE  /\ Plus(f, 1, c) \in 0 .. c - 1
         /\ Dist(Plus(f, 1, c), t, c) = Dist(f, t, c) - 1
         /\ \A k \in 0 .. c - 2 : Plus(Plus(f, 1, c), k, c) = Plus(f, k + 1, c)
  BY DEF Plus, Dist

\* Different elements are in different slots.
LEMMA PlusOnce ==
  ASSUME NEW c \in Nat, NEW f \in 0 .. c - 1, NEW j \in 0 .. c - 1, NEW k \in 0 .. c - 1
  PROVE  /\ Plus(f, 0, c) = f
         /\ Plus(f, j, c) = Plus(f, k, c) => j = k
  BY DEF Plus

\* A set of natural numbers has a least one.
LEMMA LeastExists ==
  ASSUME NEW T, T \subseteq Nat, T # {}
  PROVE  \E x \in T : \A y \in T : x <= y
<1> DEFINE R == {ss \in Nat \X Nat : ss[1] < ss[2]}
<1>1. IsWellFoundedOn(R, Nat)
  BY NatLessThanWellFounded DEF OpToRel
<1> HIDE DEF R
<1>2. PICK x \in T : \A y \in T : ~ (<<y, x>> \in R)
  BY <1>1, WFMin
<1>3. \A y \in T : ~ (y < x)
  BY <1>2 DEF R
<1> QED
  BY <1>3

\* An odd divisor of twice a number divides the number.
LEMMA Doubled ==
  ASSUME NEW p \in Nat \ {0}, PowerOf2(p)
  PROVE  PowerOf2(2 * p)
<1>1. SUFFICES ASSUME NEW q \in 2 .. 2 * p, (2 * p) % q = 0, q % 2 # 0
               PROVE  FALSE
  BY DEF PowerOf2
<1>2. PICK k \in Nat : 2 * p = k * q
  BY <1>1
<1>3. PICK h \in Nat : q = 2 * h + 1
  BY <1>1
<1>4. PICK j \in Nat : j = k \div 2 /\ (k = 2 * j \/ k = 2 * j + 1)
  <2>1. k \div 2 \in Nat /\ (k = 2 * (k \div 2) \/ k = 2 * (k \div 2) + 1)
    OBVIOUS
  <2> QED
    BY <2>1
<1>5. k = 2 * j
  BY <1>2, <1>3, <1>4
<1>6. p = j * q
  BY <1>2, <1>5
<1>7. \A d \in Nat, c \in Nat : (d * c) % c = 0 \/ c = 0
  OBVIOUS
<1>8. p % q = 0
  <2>1. q \in Nat /\ q # 0
    BY <1>1
  <2> QED
    BY <1>6, <1>7, <2>1
<1>9. q <= p
  <2>1. CASE j = 0
    BY <1>1, <1>6, <2>1
  <2>2. CASE j >= 1
    <3>1. \A d \in Nat, c \in Nat : d >= 1 => c <= d * c
      OBVIOUS
    <3> QED
      BY <1>1, <1>6, <2>2, <3>1
  <2> QED
    BY <2>1, <2>2
<1> QED
  BY <1>1, <1>8, <1>9 DEF PowerOf2

\* The least number without one would be more than its half's double.
LEMMA PowerAbove ==
  ASSUME NEW x \in Nat \ {0}
  PROVE  \E p \in x .. 2 * x : PowerOf2(p)
<1> DEFINE Between(y) == \E p \in y .. 2 * y - 1 : PowerOf2(p)
           Bad == {y \in Nat \ {0} : ~ Between(y)}
<1>1. SUFFICES ASSUME x \in Bad PROVE FALSE
  OBVIOUS
<1>2. PICK y \in Bad : \A z \in Bad : y <= z
  BY <1>1, LeastExists
<1>3. CASE y = 1
  <2>1. PowerOf2(1)
    BY DEF PowerOf2
  <2> QED
    BY <1>2, <1>3, <2>1
<1>4. CASE y # 1
  <2>1. PICK h \in Nat \ {0} : h < y /\ y <= 2 * h /\ 2 * h <= y + 1
    <3>1. (y + 1) \div 2 \in Nat \ {0} /\ (y + 1) \div 2 < y
          /\ y <= 2 * ((y + 1) \div 2) /\ 2 * ((y + 1) \div 2) <= y + 1
      BY <1>2, <1>4
    <3> QED
      BY <3>1
  <2>2. PICK p \in h .. 2 * h - 1 : PowerOf2(p)
    BY <1>2, <2>1
  <2>3. PowerOf2(2 * p)
    BY <2>2, Doubled
  <2>4. CASE 2 * p <= 2 * y - 1
    BY <1>2, <2>1, <2>3, <2>4
  <2>5. CASE 2 * p > 2 * y - 1
    <3>1. p = y
      BY <1>2, <2>1, <2>2, <2>5
    <3> QED
      BY <1>2, <1>4, <2>2, <3>1
  <2> QED
    BY <2>1, <2>2, <2>4, <2>5
<1> QED
  BY <1>2, <1>3, <1>4

\* There is such a power for every size the constructor may be given.
LEMMA CeilToPow2 ==
  ASSUME NEW x \in Nat \ {0}
  PROVE  ceilToPow2(x) \in Nat /\ ceilToPow2(x) >= x
<1> DEFINE P == {p \in x .. 2 * x : PowerOf2(p)}
<1>1. P \subseteq Nat /\ \E p \in P : p \in x .. 2 * x
  BY PowerAbove
<1>2. \E p \in P : \A q \in P : p <= q
  BY <1>1, LeastExists
<1>3. ceilToPow2(x) = CHOOSE p \in P : \A q \in P : p <= q
  BY DEF ceilToPow2
<1>4. ceilToPow2(x) \in P
  BY <1>2, <1>3
<1> QED
  BY <1>4

\* The blocks the constructor makes hold what it was asked for, with one to
\* spare if there are several.
LEMMA Parameters ==
  ASSUME NEW m \in MaxSizes
  PROVE  /\ m \in Nat /\ initialBlockSize(m) \in Nat /\ initialBlockSize(m) >= 2
         /\ initialBlockCount(m) \in Nat /\ initialBlockCount(m) >= 1
         /\ IF initialBlockCount(m) = 1 THEN m <= initialBlockSize(m) - 1
            ELSE m <= (initialBlockCount(m) - 1) * (initialBlockSize(m) - 1)
<1> DEFINE B == MAX_BLOCK_SIZE
           c == ceilToPow2(m + 1)
<1>1. m \in Nat \ {0} /\ B \in Nat /\ B >= 2 /\ m + 1 \in Nat \ {0}
  BY ReaderWriterQueueAssumption
<1>2. c \in Nat /\ c >= m + 1
  BY <1>1, CeilToPow2, SMTT(30)
<1> HIDE DEF c
<1>3. CASE c > 2 * B
  <2>1. initialBlockSize(m) = B /\ initialBlockCount(m) = (m + 2 * B - 3) \div (B - 1)
    BY <1>3 DEF initialBlockSize, initialBlockCount, c
  <2> DEFINE q == (m + 2 * B - 3) \div (B - 1)
  <2>2. q \in Nat /\ q >= 2 /\ m <= (q - 1) * (B - 1)
    <3>1. PICK d \in Nat, x \in Nat : d = B - 1 /\ d >= 1 /\ x = m + 2 * B - 3 /\ q = x \div d
      BY <1>1
    <3>2. x = m + 2 * d - 1 /\ m \in Nat /\ m >= 1
      BY <1>1, <3>1
    <3>3. PICK e \in Nat : e = x \div d /\ e * d <= x /\ x < (e + 1) * d
      BY <3>1
    <3>4. m + d <= e * d /\ d <= e * d
      BY <3>1, <3>2, <3>3
    <3>5. m <= (e - 1) * d /\ e >= 2
      BY <3>1, <3>2, <3>3, <3>4
    <3> QED
      BY <3>1, <3>3, <3>5
  <2> QED
    BY <1>1, <2>1, <2>2
<1>4. CASE ~ (c > 2 * B)
  <2>1. initialBlockSize(m) = c /\ initialBlockCount(m) = 1
    BY <1>4 DEF initialBlockSize, initialBlockCount, c
  <2> QED
    BY <1>1, <1>2, <2>1
<1> QED
  BY <1>3, <1>4

-----------------------------------------------------------------------------
(* Rings.                                                                  *)

\* r goes once round the n blocks, each linked to the next by next.
Cycle(r, n, next) ==
  /\ r \in [1 .. n -> 1 .. n]
  /\ \A i, j \in 1 .. n : r[i] = r[j] => i = j
  /\ \A b \in 1 .. n : \E i \in 1 .. n : r[i] = b
  /\ \A i \in 1 .. n : next[r[i]] = IF i = n THEN r[1] ELSE r[i + 1]

\* The ring with a new block behind the p-th, and the ring from its second
\* block on.
Inserted(r, n, p) ==
  [i \in 1 .. n + 1 |-> IF i <= p THEN r[i] ELSE IF i = p + 1 THEN n + 1 ELSE r[i - 1]]

Turned(r, n) == [i \in 1 .. n |-> IF i = n THEN r[1] ELSE r[i + 1]]

\* The blocks before and behind the new one.
LEMMA InsertedAt ==
  ASSUME NEW n \in Nat, NEW p \in 1 .. n, NEW r \in [1 .. n -> 1 .. n]
  PROVE  /\ \A i \in 1 .. p : i \in 1 .. n /\ i \in 1 .. n + 1 /\ Inserted(r, n, p)[i] = r[i]
         /\ Inserted(r, n, p)[p + 1] = n + 1 /\ p + 1 \in 1 .. n + 1
         /\ \A i \in p + 1 .. n : /\ i \in 1 .. n /\ i + 1 \in 1 .. n + 1
                                  /\ Inserted(r, n, p)[i + 1] = r[i]
         /\ \A i \in 1 .. n + 1 : \/ i \in 1 .. p \/ i = p + 1
                                  \/ \E j \in p + 1 .. n : i = j + 1
<1> DEFINE q == Inserted(r, n, p)
<1>1. ASSUME NEW i \in 1 .. p PROVE i \in 1 .. n /\ i \in 1 .. n + 1 /\ q[i] = r[i]
  BY DEF Inserted
<1>2. q[p + 1] = n + 1 /\ p + 1 \in 1 .. n + 1
  BY DEF Inserted
<1>3. ASSUME NEW i \in p + 1 .. n
      PROVE  i \in 1 .. n /\ i + 1 \in 1 .. n + 1 /\ q[i + 1] = r[i]
  <2>1. i \in 1 .. n /\ i + 1 \in 1 .. n + 1 /\ ~ (i + 1 <= p) /\ i + 1 # p + 1 /\ i + 1 - 1 = i
    OBVIOUS
  <2> QED
    BY <2>1 DEF Inserted
<1>4. ASSUME NEW i \in 1 .. n + 1
      PROVE  i \in 1 .. p \/ i = p + 1 \/ \E j \in p + 1 .. n : i = j + 1
  <2>1. CASE i > p + 1
    <3>1. i - 1 \in p + 1 .. n /\ i = i - 1 + 1
      BY <2>1
    <3> QED
      BY <3>1
  <2>2. CASE ~ (i > p + 1)
    BY <2>2
  <2> QED
    BY <2>1, <2>2
<1> QED
  BY <1>1, <1>2, <1>3, <1>4

\* Linking a block in behind the p-th leaves a ring.
LEMMA Insertion ==
  ASSUME NEW n \in Nat, NEW p \in 1 .. n, NEW r, NEW next, NEW new, Cycle(r, n, next),
         \A b \in 1 .. n : new[b] = IF b = r[p] THEN n + 1 ELSE next[b],
         new[n + 1] = next[r[p]]
  PROVE  Cycle(Inserted(r, n, p), n + 1, new)
<1>1. r \in [1 .. n -> 1 .. n] /\ \A i \in 1 .. n : r[i] \in 1 .. n
  BY DEF Cycle
<1>2. \A i, j \in 1 .. n : r[i] = r[j] => i = j
  BY DEF Cycle
<1>3. \A i \in 1 .. n : next[r[i]] = IF i = n THEN r[1] ELSE r[i + 1]
  BY DEF Cycle
<1>4. PICK m \in Nat : m = n + 1
  OBVIOUS
<1>5. PICK q : q = Inserted(r, n, p)
  OBVIOUS
<1>6. \A i \in 1 .. p : i \in 1 .. n /\ i \in 1 .. m /\ q[i] = r[i]
  BY <1>1, <1>4, <1>5, InsertedAt
<1>7. q[p + 1] = m /\ p + 1 \in 1 .. m
  BY <1>1, <1>4, <1>5, InsertedAt
<1>8. \A i \in p + 1 .. n : i \in 1 .. n /\ i + 1 \in 1 .. m /\ q[i + 1] = r[i]
  BY <1>1, <1>4, <1>5, InsertedAt, ZenonT(30)
<1>9. \A i \in 1 .. m : i \in 1 .. p \/ i = p + 1 \/ \E j \in p + 1 .. n : i = j + 1
  BY <1>1, <1>4, InsertedAt
<1>10. m \notin 1 .. n /\ m \in 1 .. m /\ \A i \in 1 .. n : i \in 1 .. m
  BY <1>4
<1>11. q \in [1 .. m -> 1 .. m]
  <2>1. ASSUME NEW i \in 1 .. m PROVE q[i] \in 1 .. m
    <3>1. CASE i \in 1 .. p
      BY <1>1, <1>6, <1>10, <3>1
    <3>2. CASE i = p + 1
      BY <1>7, <1>10, <3>2
    <3>3. ASSUME NEW j \in p + 1 .. n, i = j + 1 PROVE q[i] \in 1 .. m
      BY <1>1, <1>8, <1>10, <3>3
    <3> QED
      BY <1>9, <3>1, <3>2, <3>3
  <2>2. q = [i \in 1 .. m |-> q[i]]
    BY <1>4, <1>5 DEF Inserted
  <2> QED
    BY <2>1, <2>2
<1>12. ASSUME NEW i \in 1 .. m, NEW j \in 1 .. m, q[i] = q[j] PROVE i = j
  <2>1. CASE i \in 1 .. p
    <3>1. q[i] = r[i] /\ i \in 1 .. n /\ r[i] # m
      BY <1>1, <1>6, <1>10, <2>1
    <3>2. CASE j \in 1 .. p
      <4>1. q[j] = r[j] /\ j \in 1 .. n
        BY <1>6, <3>2
      <4> QED
        BY <1>2, <1>12, <3>1, <4>1
    <3>3. CASE j = p + 1
      BY <1>7, <1>12, <3>1, <3>3
    <3>4. ASSUME NEW k \in p + 1 .. n, j = k + 1 PROVE FALSE
      <4>1. q[j] = r[k] /\ k \in 1 .. n
        BY <1>8, <3>4
      <4>2. i = k
        BY <1>2, <1>12, <3>1, <4>1, ZenonT(30)
      <4> QED
        BY <2>1, <4>2
    <3> QED
      BY <1>9, <3>2, <3>3, <3>4
  <2>2. CASE i = p + 1
    <3>1. q[j] = m
      BY <1>7, <1>12, <2>2
    <3>2. CASE j \in 1 .. p
      <4>1. q[j] \in 1 .. n
        BY <1>1, <1>6, <3>2
      <4> QED
        BY <1>10, <3>1, <4>1
    <3>3. ASSUME NEW k \in p + 1 .. n, j = k + 1 PROVE FALSE
      <4>1. q[j] \in 1 .. n
        BY <1>1, <1>8, <3>3
      <4> QED
        BY <1>10, <3>1, <4>1
    <3> QED
      BY <1>9, <2>2, <3>2, <3>3
  <2>3. ASSUME NEW h \in p + 1 .. n, i = h + 1 PROVE i = j
    <3>1. q[i] = r[h] /\ h \in 1 .. n /\ r[h] # m
      BY <1>1, <1>8, <1>10, <2>3
    <3>2. CASE j \in 1 .. p
      <4>1. q[j] = r[j] /\ j \in 1 .. n
        BY <1>6, <3>2
      <4>2. h = j
        BY <1>2, <1>12, <3>1, <4>1
      <4> QED
        BY <3>2, <4>2
    <3>3. CASE j = p + 1
      BY <1>7, <1>12, <3>1, <3>3
    <3>4. ASSUME NEW k \in p + 1 .. n, j = k + 1 PROVE i = j
      <4>1. q[j] = r[k] /\ k \in 1 .. n
        BY <1>8, <3>4
      <4>2. h = k
        BY <1>2, <1>12, <3>1, <4>1, ZenonT(30)
      <4> QED
        BY <2>3, <3>4, <4>2
    <3> QED
      BY <1>9, <3>2, <3>3, <3>4
  <2> QED
    BY <1>9, <2>1, <2>2, <2>3
<1>13. ASSUME NEW b \in 1 .. m PROVE \E i \in 1 .. m : q[i] = b
  <2>1. CASE b = m
    BY <1>7, <2>1
  <2>2. CASE b # m
    <3>1. b \in 1 .. n
      BY <1>4, <2>2
    <3>2. PICK i \in 1 .. n : r[i] = b
      BY <3>1 DEF Cycle
    <3>3. i \in 1 .. p \/ i \in p + 1 .. n
      OBVIOUS
    <3> QED
      BY <1>6, <1>8, <3>2, <3>3
  <2> QED
    BY <2>1, <2>2
<1>14. 1 \in 1 .. p /\ p \in 1 .. p /\ q[1] = r[1] /\ q[p] = r[p]
  BY <1>6
<1>15. ASSUME NEW i \in 1 .. m PROVE new[q[i]] = IF i = m THEN q[1] ELSE q[i + 1]
  <2>1. CASE i = p
    <3>1. i # m /\ r[p] \in 1 .. n
      BY <1>1, <1>4, <2>1
    <3>2. new[r[p]] = m
      BY <1>4, <3>1
    <3> QED
      BY <1>7, <1>14, <2>1, <3>1, <3>2
  <2>2. CASE i \in 1 .. p /\ i # p
    <3>1. i \in 1 .. n /\ i + 1 \in 1 .. p /\ i # n /\ i # m
      BY <1>4, <2>2
    <3>2. r[i] # r[p]
      BY <1>2, <2>2, <3>1
    <3>3. new[r[i]] = r[i + 1]
      BY <1>1, <1>3, <3>1, <3>2
    <3> QED
      BY <1>6, <2>2, <3>1, <3>3
  <2>3. CASE i = p + 1
    <3>1. new[q[i]] = IF p = n THEN r[1] ELSE r[p + 1]
      BY <1>3, <1>4, <1>7, <2>3
    <3>2. CASE p = n
      BY <1>4, <1>14, <2>3, <3>1, <3>2
    <3>3. CASE p # n
      <4>1. p + 1 \in p + 1 .. n /\ i # m
        BY <1>4, <2>3, <3>3
      <4> QED
        BY <1>8, <2>3, <3>1, <3>3, <4>1
    <3> QED
      BY <3>2, <3>3
  <2>4. ASSUME NEW k \in p + 1 .. n, i = k + 1
        PROVE  new[q[i]] = IF i = m THEN q[1] ELSE q[i + 1]
    <3>1. k \in 1 .. n /\ q[i] = r[k] /\ k # p
      BY <1>8, <2>4
    <3>2. r[k] # r[p]
      BY <1>2, <3>1
    <3>3. new[q[i]] = IF k = n THEN r[1] ELSE r[k + 1]
      <4>1. r[k] \in 1 .. n /\ next[r[k]] = IF k = n THEN r[1] ELSE r[k + 1]
        BY <1>1, <1>3, <3>1
      <4>2. new[r[k]] = next[r[k]]
        BY <3>2, <4>1
      <4> QED
        BY <3>1, <4>1, <4>2
    <3>4. CASE k = n
      BY <1>4, <1>14, <2>4, <3>3, <3>4
    <3>5. CASE k # n
      <4>1. k + 1 \in p + 1 .. n /\ i # m
        BY <1>4, <2>4, <3>5
      <4> QED
        BY <1>8, <2>4, <3>3, <3>5, <4>1
    <3> QED
      BY <3>4, <3>5
  <2> QED
    BY <1>9, <2>1, <2>2, <2>3, <2>4
<1>16. Cycle(q, m, new)
  BY <1>11, <1>12, <1>13, <1>15 DEF Cycle
<1> QED
  BY <1>4, <1>5, <1>16

\* Where the blocks are when the ring begins one further on.
LEMMA TurnedAt ==
  ASSUME NEW n \in Nat, n >= 1, NEW r \in [1 .. n -> 1 .. n]
  PROVE  /\ Turned(r, n)[n] = r[1] /\ n \in 1 .. n
         /\ \A i \in 2 .. n : i \in 1 .. n /\ i - 1 \in 1 .. n /\ Turned(r, n)[i - 1] = r[i]
<1>1. Turned(r, n)[n] = r[1] /\ n \in 1 .. n
  BY DEF Turned
<1>2. ASSUME NEW i \in 2 .. n
      PROVE  i \in 1 .. n /\ i - 1 \in 1 .. n /\ Turned(r, n)[i - 1] = r[i]
  <2>1. i \in 1 .. n /\ i - 1 \in 1 .. n /\ i - 1 # n /\ i - 1 + 1 = i
    OBVIOUS
  <2> QED
    BY <2>1 DEF Turned
<1> QED
  BY <1>1, <1>2

\* It is a ring from there, too.
LEMMA Turning ==
  ASSUME NEW n \in Nat, n >= 1, NEW r, NEW next, Cycle(r, n, next)
  PROVE  Cycle(Turned(r, n), n, next)
<1>1. r \in [1 .. n -> 1 .. n] /\ \A i \in 1 .. n : r[i] \in 1 .. n
  BY DEF Cycle
<1>2. \A i, j \in 1 .. n : r[i] = r[j] => i = j
  BY DEF Cycle
<1>3. \A i \in 1 .. n : next[r[i]] = IF i = n THEN r[1] ELSE r[i + 1]
  BY DEF Cycle
<1>4. PICK q : q = Turned(r, n)
  OBVIOUS
<1>5. q[n] = r[1] /\ n \in 1 .. n /\ 1 \in 1 .. n
  BY <1>1, <1>4, TurnedAt
<1>6. \A i \in 2 .. n : i \in 1 .. n /\ i - 1 \in 1 .. n /\ q[i - 1] = r[i]
  BY <1>1, <1>4, TurnedAt
<1>7. ASSUME NEW i \in 1 .. n, i # n PROVE i + 1 \in 1 .. n /\ q[i] = r[i + 1]
  BY <1>4, <1>7 DEF Turned
<1>8. q \in [1 .. n -> 1 .. n]
  <2>1. ASSUME NEW i \in 1 .. n PROVE q[i] \in 1 .. n
    <3>1. CASE i = n
      BY <1>1, <1>5, <3>1
    <3>2. CASE i # n
      BY <1>1, <1>7, <3>2
    <3> QED
      BY <3>1, <3>2
  <2>2. q = [i \in 1 .. n |-> q[i]]
    BY <1>4 DEF Turned
  <2> QED
    BY <2>1, <2>2
<1>9. ASSUME NEW i \in 1 .. n, NEW j \in 1 .. n, q[i] = q[j] PROVE i = j
  <2>1. CASE i = n /\ j # n
    <3>1. r[1] = r[j + 1] /\ j + 1 \in 1 .. n /\ j + 1 # 1
      BY <1>5, <1>7, <1>9, <2>1
    <3> QED
      BY <1>2, <1>5, <3>1
  <2>2. CASE i # n /\ j = n
    <3>1. r[1] = r[i + 1] /\ i + 1 \in 1 .. n /\ i + 1 # 1
      BY <1>5, <1>7, <1>9, <2>2
    <3> QED
      BY <1>2, <1>5, <3>1
  <2>3. CASE i # n /\ j # n
    <3>1. r[i + 1] = r[j + 1] /\ i + 1 \in 1 .. n /\ j + 1 \in 1 .. n
      BY <1>7, <1>9, <2>3
    <3>2. i + 1 = j + 1
      BY <1>2, <3>1
    <3> QED
      BY <3>2
  <2> QED
    BY <2>1, <2>2, <2>3
<1>10. ASSUME NEW b \in 1 .. n PROVE \E i \in 1 .. n : q[i] = b
  <2>1. PICK i \in 1 .. n : r[i] = b
    BY DEF Cycle
  <2>2. i = 1 \/ i \in 2 .. n
    OBVIOUS
  <2> QED
    BY <1>5, <1>6, <2>1, <2>2
<1>11. ASSUME NEW i \in 1 .. n PROVE next[q[i]] = IF i = n THEN q[1] ELSE q[i + 1]
  <2>1. q[1] = IF n = 1 THEN r[1] ELSE r[1 + 1]
    BY <1>5, <1>7
  <2>2. CASE i = n
    <3>1. next[q[n]] = IF 1 = n THEN r[1] ELSE r[1 + 1]
      BY <1>3, <1>5
    <3> QED
      BY <2>1, <2>2, <3>1
  <2>3. CASE i # n
    <3>1. q[i] = r[i + 1] /\ i + 1 \in 1 .. n
      BY <1>7, <2>3
    <3>2. next[q[i]] = IF i + 1 = n THEN r[1] ELSE r[i + 1 + 1]
      BY <1>3, <3>1
    <3>3. q[i + 1] = IF i + 1 = n THEN r[1] ELSE r[i + 1 + 1]
      BY <1>5, <1>7, <3>1
    <3> QED
      BY <2>3, <3>2, <3>3
  <2> QED
    BY <2>2, <2>3
<1>12. Cycle(q, n, next)
  BY <1>8, <1>9, <1>10, <1>11 DEF Cycle
<1> QED
  BY <1>4, <1>12

-----------------------------------------------------------------------------
(* What the invariant says of a block, and steps that leave most alone.    *)

State(r, p, o) == TypeInv /\ BlocksInv /\ CapacityInv /\ SemaInv /\ Good(r, p, o)

\* Blocks are numbered from 1 on.
LEMMA Domain ==
  ASSUME TypeInv
  PROVE  Len(block) \in Nat /\ DOMAIN block = 1 .. Len(block)
  BY DEF TypeInv

\* The fields of a block.
LEMMA FieldTypes ==
  ASSUME TypeInv, NEW b \in DOMAIN block
  PROVE  /\ block[b] \in BlockType
         /\ block[b].size \in Nat /\ block[b].front \in Nat /\ block[b].tail \in Nat
         /\ block[b].localTail \in Nat /\ block[b].localFront \in Nat /\ block[b].next \in Nat
<1>1. block[b] \in BlockType
  BY DEF TypeInv
<1> QED
  BY <1>1 DEF BlockType

\* The size of the first blocks.
LEMMA SIs ==
  ASSUME TypeInv
  PROVE  S \in Nat /\ S >= 2 /\ maxSize \in Nat
  BY Parameters DEF TypeInv, S

\* What the positions of a block, and the tests the code makes of them, mean.
LEMMA BlockFacts ==
  ASSUME TypeInv, BlocksInv, NEW b \in DOMAIN block
  PROVE  /\ block[b].size \in Nat /\ block[b].size >= 2 /\ block[b].size >= S
         /\ block[b].front \in 0 .. block[b].size - 1 /\ block[b].tail \in 0 .. block[b].size - 1
         /\ block[b].localTail \in 0 .. block[b].size - 1
         /\ block[b].localFront \in 0 .. block[b].size - 1
         /\ In(b) \in 0 .. block[b].size - 1 /\ (In(b) = 0 <=> block[b].front = block[b].tail)
         /\ Seen(b) \in 0 .. In(b) /\ (Seen(b) = 0 <=> block[b].front = block[b].localTail)
         /\ Thought(b) \in In(b) .. block[b].size - 1
         /\ NextTail(b) = Plus(block[b].tail, 1, block[b].size)
         /\ (NextTail(b) = block[b].localFront <=> Thought(b) = block[b].size - 1)
         /\ (NextTail(b) = block[b].front <=> Full(b))
         /\ InBlock(b) = In(b)
<1> DEFINE c == block[b].size
           f == block[b].front
           t == block[b].tail
           lf == block[b].localFront
           lt == block[b].localTail
<1>1. /\ c \in Nat /\ c >= 2 /\ c >= S /\ f \in 0 .. c - 1 /\ t \in 0 .. c - 1 /\ lf \in 0 .. c - 1
      /\ lt \in 0 .. c - 1 /\ Dist(f, lt, c) <= Dist(f, t, c) /\ Dist(f, t, c) <= Dist(lf, t, c)
  BY FieldTypes, SIs DEF BlocksInv, BlockOK, In, Seen, Thought
<1>2. /\ In(b) = Dist(f, t, c) /\ Seen(b) = Dist(f, lt, c) /\ Thought(b) = Dist(lf, t, c)
      /\ NextTail(b) = (t + 1) % c /\ InBlock(b) = (t - f) % c
      /\ Full(b) <=> Dist(f, t, c) = c - 1
  BY DEF In, Seen, Thought, NextTail, InBlock, Full
<1> HIDE DEF c, f, t, lf, lt
<1>3. (t + 1) % c = Plus(t, 1, c) /\ (t - f) % c = Dist(f, t, c)
  BY <1>1, Masked, MaskedPlus
<1>4. /\ Dist(f, t, c) \in 0 .. c - 1 /\ (Dist(f, t, c) = 0 <=> f = t)
      /\ Dist(f, lt, c) \in 0 .. c - 1 /\ (Dist(f, lt, c) = 0 <=> f = lt)
      /\ Dist(lf, t, c) \in 0 .. c - 1
  BY <1>1, DistType
<1>5. /\ Plus(t, 1, c) = lf <=> Dist(lf, t, c) = c - 1
      /\ Plus(t, 1, c) = f <=> Dist(f, t, c) = c - 1
  BY <1>1, TailRoom
<1>6. Dist(f, lt, c) \in 0 .. Dist(f, t, c) /\ Dist(lf, t, c) \in Dist(f, t, c) .. c - 1
  BY <1>1, <1>4
<1> QED
  BY <1>1, <1>2, <1>3, <1>4, <1>5, <1>6 DEF c, f, t, lf, lt

\* The ring's blocks.
LEMMA RingFacts ==
  ASSUME NEW r, NEW p, NEW o, State(r, p, o)
  PROVE  /\ TypeInv /\ BlocksInv /\ Good(r, p, o)
         /\ Len(block) \in Nat /\ DOMAIN block = 1 .. Len(block)
         /\ p \in 1 .. Len(block) /\ p \in Nat
         /\ \A i \in 1 .. Len(block) : r[i] \in DOMAIN block
         /\ frontBlock = r[1] /\ tailBlock = r[p] /\ frontBlock \in DOMAIN block
         /\ tailBlock \in DOMAIN block
         /\ (frontBlock = tailBlock <=> p = 1)
<1>1. TypeInv /\ BlocksInv /\ Good(r, p, o) /\ RingInv(r, p)
  BY DEF State, Good
<1>2. Len(block) \in Nat /\ DOMAIN block = 1 .. Len(block)
  BY <1>1, Domain
<1>3. /\ r \in [1 .. Len(block) -> DOMAIN block] /\ p \in 1 .. Len(block)
      /\ frontBlock = r[1] /\ tailBlock = r[p]
  BY <1>1 DEF RingInv
<1>4. 1 \in 1 .. Len(block) /\ p \in Nat
  BY <1>2, <1>3
<1>5. r[1] = r[p] <=> p = 1
  BY <1>1, <1>3, <1>4 DEF RingInv
<1>6. \A i \in 1 .. Len(block) : r[i] \in DOMAIN block
  BY <1>3
<1> QED
  BY <1>1, <1>2, <1>3, <1>4, <1>5, <1>6

\* What remains is never less than nothing.
LEMMA SizeFacts ==
  ASSUME NEW r, NEW p, NEW o, State(r, p, o)
  PROVE  /\ Size \in Nat /\ enq \in Nat /\ deq \in Nat
         /\ o[r[1]] = deq /\ enq = o[r[p]] + In(r[p])
         /\ \A i \in 1 .. p : o[r[i]] \in Nat /\ deq <= o[r[i]] /\ o[r[i]] <= enq
         /\ \A i \in 1 .. Len(block) : In(r[i]) \in Nat
<1>1. OffsetInv(r, p, o) /\ enq \in Nat /\ deq \in Nat
  BY DEF State, Good, TypeInv
<1>2. \A i \in 1 .. Len(block) : In(r[i]) \in Nat /\ o[r[i]] \in Nat
  <2>1. \A i \in 1 .. Len(block) : r[i] \in DOMAIN block
    BY RingFacts
  <2>2. \A b \in DOMAIN block : In(b) \in Nat
    BY RingFacts, BlockFacts
  <2>3. o \in [DOMAIN block -> Nat]
    BY <1>1 DEF OffsetInv
  <2> QED
    BY <2>1, <2>2, <2>3
<1>3. \A i \in 1 .. p : i \in 1 .. Len(block) /\ 1 <= i /\ i <= p /\ 1 \in 1 .. p /\ p \in 1 .. p
  BY RingFacts
<1>4. \A i \in 1 .. p : o[r[i]] \in Nat /\ o[r[1]] <= o[r[i]] /\ o[r[i]] <= o[r[p]]
  BY <1>1, <1>2, <1>3 DEF OffsetInv
<1>5. o[r[1]] = deq /\ enq = o[r[p]] + In(r[p]) /\ p \in 1 .. p /\ p \in 1 .. Len(block)
  BY <1>1, <1>3, RingFacts DEF OffsetInv
<1>6. \A i \in 1 .. p : o[r[i]] \in Nat /\ deq <= o[r[i]] /\ o[r[i]] <= enq
  BY <1>2, <1>4, <1>5
<1> QED
  BY <1>1, <1>2, <1>5, <1>6 DEF Size

\* b begins and ends where it did.
Same(b) ==
  /\ block'[b].size = block[b].size /\ block'[b].front = block[b].front
  /\ block'[b].tail = block[b].tail /\ block'[b].next = block[b].next

SameData == \A b \in DOMAIN block : block'[b].data = block[b].data

Kept ==
  /\ Len(block') = Len(block) /\ DOMAIN block' = DOMAIN block
  /\ \A b \in DOMAIN block : Same(b)
  /\ UNCHANGED <<fixed, frontBlock, tailBlock, largestBlockSize, enq, deq>>

\* A step that moves no position and no link.
LEMMA KeptRing ==
  ASSUME NEW r, NEW p, NEW o, State(r, p, o), Kept
  PROVE  /\ RingInv(r, p)' /\ OffsetInv(r, p, o)' /\ CapacityInv'
         /\ SameData /\ ((con'.pc = "front") <=> (con.pc = "front"))
              => DataInv(r, p, o, con.pc = "front")'
         /\ SameData /\ ((pro'.pc = "tailBlock") <=> (pro.pc = "tailBlock"))
              => FillInv(r, p, pro.pc = "tailBlock")'
<1>1. RingInv(r, p) /\ OffsetInv(r, p, o) /\ DataInv(r, p, o, con.pc = "front")
      /\ FillInv(r, p, pro.pc = "tailBlock") /\ CapacityInv
  BY DEF State, Good
<1>2. /\ \A b \in DOMAIN block : Same(b) /\ In(b)' = In(b) /\ (Full(b)' <=> Full(b))
      /\ \A b \in DOMAIN block : \A k : At(b, k)' = At(b, k)
      /\ Len(block') = Len(block) /\ DOMAIN block' = DOMAIN block /\ S' = S
      /\ UNCHANGED <<maxSize, frontBlock, tailBlock, enq, deq>>
  BY DEF Kept, Same, In, Full, At, S, fixed
<1>3. \A i \in 1 .. Len(block) : r[i] \in DOMAIN block
  BY RingFacts
<1>4. /\ \A i \in 1 .. p : i \in 1 .. Len(block)
      /\ \A i \in 1 .. p - 1 : i \in 1 .. p /\ i + 1 \in 1 .. p
      /\ \A i \in 2 .. p : i \in 1 .. p
      /\ \A i \in p + 1 .. Len(block) : i \in 1 .. Len(block)
  BY RingFacts
<1>5. RingInv(r, p)'
  BY <1>1, <1>2, <1>3 DEF RingInv, Same
<1>6. OffsetInv(r, p, o)'
  BY <1>1, <1>2, <1>3, <1>4, RingFacts DEF OffsetInv
<1>7. ASSUME SameData, (con'.pc = "front") <=> (con.pc = "front")
      PROVE  DataInv(r, p, o, con.pc = "front")'
  BY <1>1, <1>2, <1>3, <1>4, <1>7 DEF DataInv, SameData
<1>8. ASSUME SameData, (pro'.pc = "tailBlock") <=> (pro.pc = "tailBlock")
      PROVE  FillInv(r, p, pro.pc = "tailBlock")'
  <2>1. /\ \A i \in 2 .. p : In(r[i])' >= 1
        /\ \A i \in 2 .. p - 1 : Full(r[i])'
    <3>1. \A i \in 2 .. p - 1 : i \in 2 .. p
      BY RingFacts
    <3> QED
      BY <1>1, <1>2, <1>3, <1>4, <3>1 DEF FillInv
  <2>2. ASSUME NEW i \in p + 1 .. Len(block)
        PROVE  IF pro'.pc = "tailBlock" /\ i = p + 1
               THEN In(r[i])' = 1 /\ block'[r[i]].data[block'[r[i]].front] = enq' + 1
               ELSE In(r[i])' = 0
    <3>1. In(r[i])' = In(r[i]) /\ block'[r[i]].data[block'[r[i]].front] = block[r[i]].data[block[r[i]].front]
      BY <1>2, <1>3, <1>4, <1>8 DEF Same, SameData
    <3> QED
      BY <1>1, <1>2, <1>8, <3>1 DEF FillInv
  <2> QED
    BY <1>2, <2>1, <2>2 DEF FillInv
<1>9. CapacityInv'
  BY <1>1, <1>2 DEF CapacityInv
<1> QED
  BY <1>5, <1>6, <1>7, <1>8, <1>9

\* The consumer's part in a step of the producer.
LEMMA KeptCon ==
  ASSUME NEW r, NEW p, NEW o, State(r, p, o), Kept, con' = con,
         \A b \in DOMAIN block : block'[b].localTail = block[b].localTail,
         (pro'.pc = "tailBlock") <=> (pro.pc = "tailBlock")
  PROVE  ConInv(r, p)' /\ ConSizeInv(r, p, o)'
<1>1. ConInv(r, p) /\ ConSizeInv(r, p, o)
  BY DEF State, Good
<1>2. /\ \A b \in DOMAIN block : In(b)' = In(b) /\ Seen(b)' = Seen(b)
      /\ Len(block') = Len(block) /\ DOMAIN block' = DOMAIN block /\ Size' = Size
      /\ UNCHANGED <<frontBlock, tailBlock, enq, deq>>
  BY DEF Kept, Same, In, Seen, Size
<1>3. frontBlock \in DOMAIN block /\ (p > 1 => r[2] \in DOMAIN block)
  BY RingFacts
<1>4. ConInv(r, p)'
  <2>1. con.pc \in {"enter", "found", "front"} => con.b \in DOMAIN block
    BY <1>1, <1>3 DEF ConInv
  <2> QED
    BY <1>1, <1>2, <1>3, <2>1 DEF ConInv
<1>5. ConSizeInv(r, p, o)'
  <2>1. \A j : ConSum(r, p, o, j)' <=> ConSum(r, p, o, j)
    BY <1>2 DEF ConSum
  <2> QED
    BY <1>1, <1>2, <2>1 DEF ConSizeInv
<1> QED
  BY <1>4, <1>5

\* The producer's part in a step of the consumer.
LEMMA KeptPro ==
  ASSUME NEW r, NEW p, NEW o, State(r, p, o), Kept, pro' = pro,
         \A b \in DOMAIN block : block'[b].localFront = block[b].localFront,
         pro.pc = "tail" => block'[pro.b].data[block[pro.b].tail] = block[pro.b].data[block[pro.b].tail]
  PROVE  ProInv(r, p)' /\ ProSizeInv(r, p, o)'
<1>1. ProInv(r, p) /\ ProSizeInv(r, p, o)
  BY DEF State, Good
<1>2. /\ \A b \in DOMAIN block : /\ Same(b) /\ In(b)' = In(b) /\ Thought(b)' = Thought(b)
                                 /\ (Full(b)' <=> Full(b))
      /\ Len(block') = Len(block) /\ DOMAIN block' = DOMAIN block /\ Size' = Size
      /\ UNCHANGED <<maxSize, frontBlock, tailBlock, enq, deq>>
  BY DEF Kept, Same, In, Thought, Full, Size, fixed
<1>3. tailBlock \in DOMAIN block /\ (p < Len(block) => r[p + 1] \in DOMAIN block)
  BY RingFacts
<1>4. ProInv(r, p)'
  <2>1. pro.pc \in {"construct", "tail"} => pro.b \in DOMAIN block
    BY <1>1, <1>3 DEF ProInv, Ahead
  <2> QED
    BY <1>1, <1>2, <1>3, <2>1 DEF ProInv, Ahead, Same
<1>5. ProSizeInv(r, p, o)'
  <2>1. \A f, j : ProSum(r, p, o, f, j)' <=> ProSum(r, p, o, f, j)
    BY <1>2 DEF ProSum
  <2>2. (ProSized' <=> ProSized) /\ \A j : Follows(j)' = Follows(j)
    BY <1>2 DEF ProSized, Follows
  <2> QED
    BY <1>1, <1>2, <2>1, <2>2 DEF ProSizeInv
<1> QED
  BY <1>4, <1>5

\* What is left to show of a step of the producer that moves no position,
LEMMA ProducerStep ==
  ASSUME NEW r, NEW p, NEW o, State(r, p, o), Kept, SameData, TypeInv', BlocksInv', SemaInv',
         con' = con,
         \A b \in DOMAIN block : block'[b].localTail = block[b].localTail,
         (pro'.pc = "tailBlock") <=> (pro.pc = "tailBlock"),
         ProInv(r, p)', ProSizeInv(r, p, o)'
  PROVE  Inv'
<1>1. Good(r, p, o)' /\ CapacityInv'
  BY KeptRing, KeptCon DEF Good
<1>2. State(r, p, o)'
  BY <1>1 DEF State
<1> QED
  BY <1>1, <1>2 DEF State, Inv, Good, RingInv, OffsetInv

\* and of one of the consumer.
LEMMA ConsumerStep ==
  ASSUME NEW r, NEW p, NEW o, State(r, p, o), Kept, SameData, TypeInv', BlocksInv', SemaInv',
         pro' = pro,
         \A b \in DOMAIN block : block'[b].localFront = block[b].localFront,
         (con'.pc = "front") <=> (con.pc = "front"),
         ConInv(r, p)', ConSizeInv(r, p, o)'
  PROVE  Inv'
<1>1. Good(r, p, o)' /\ CapacityInv'
  <2>1. pro.pc = "tail" => pro.b \in DOMAIN block
    BY RingFacts, SMTT(30) DEF Good, ProInv, Ahead
  <2>2. ProInv(r, p)' /\ ProSizeInv(r, p, o)'
    BY <2>1, KeptPro DEF SameData
  <2> QED
    BY <2>2, KeptRing DEF Good
<1>2. State(r, p, o)'
  BY <1>1 DEF State
<1> QED
  BY <1>1, <1>2 DEF State, Inv, Good, RingInv, OffsetInv

\* A step that leaves the blocks alone.
LEMMA Unmoved ==
  ASSUME BlocksInv, UNCHANGED <<fixed, block, frontBlock, tailBlock, largestBlockSize, enq, deq>>
  PROVE  /\ Kept /\ SameData /\ BlocksInv'
         /\ \A b \in DOMAIN block : /\ block'[b].localTail = block[b].localTail
                                    /\ block'[b].localFront = block[b].localFront
         /\ \A b : In(b)' = In(b) /\ Seen(b)' = Seen(b) /\ Thought(b)' = Thought(b)
         /\ \A b : Full(b)' <=> Full(b)
         /\ Size' = Size /\ Len(block') = Len(block)
         /\ UNCHANGED <<maxSize, blocking>>
<1>1. block' = block /\ largestBlockSize' = largestBlockSize /\ S' = S
      /\ UNCHANGED <<maxSize, blocking, frontBlock, tailBlock, enq, deq>>
  BY DEF fixed, S
<1>2. /\ \A b : In(b)' = In(b) /\ Seen(b)' = Seen(b) /\ Thought(b)' = Thought(b)
      /\ \A b : Full(b)' <=> Full(b)
  BY <1>1 DEF In, Seen, Thought, Full
<1>3. Kept /\ SameData
  BY <1>1 DEF Kept, Same, SameData, fixed
<1>4. BlocksInv'
  BY <1>1, <1>2 DEF BlocksInv, BlockOK
<1> QED
  BY <1>1, <1>2, <1>3, <1>4 DEF Size

\* b's copy of the front is brought up to date.
LEMMA FrontLoaded ==
  ASSUME TypeInv, BlocksInv, NEW b \in DOMAIN block,
         block' = [block EXCEPT ![b].localFront = block[b].front],
         UNCHANGED <<fixed, frontBlock, tailBlock, largestBlockSize, enq, deq>>
  PROVE  /\ Kept /\ SameData /\ block' \in Seq(BlockType) /\ BlocksInv'
         /\ \A a \in DOMAIN block : block'[a].localTail = block[a].localTail
         /\ \A a \in DOMAIN block : /\ In(a)' = In(a)
                                    /\ Thought(a)' = IF a = b THEN In(b) ELSE Thought(a)
                                    /\ Full(a)' <=> Full(a)
         /\ Size' = Size /\ Len(block') = Len(block)
         /\ UNCHANGED <<maxSize, blocking>>
<1>1. block \in Seq(BlockType)
  BY DEF TypeInv
<1> DEFINE x == [block[b] EXCEPT !.localFront = block[b].front]
<1>2. /\ x \in BlockType /\ x.size = block[b].size /\ x.front = block[b].front
      /\ x.tail = block[b].tail /\ x.next = block[b].next /\ x.data = block[b].data
      /\ x.localTail = block[b].localTail /\ x.localFront = block[b].front
  BY FieldTypes DEF BlockType
<1>3. block' = [block EXCEPT ![b] = x]
  OBVIOUS
<1> HIDE DEF x
<1>4. /\ block' \in Seq(BlockType) /\ Len(block') = Len(block) /\ DOMAIN block' = DOMAIN block
      /\ block'[b] = x /\ \A a \in DOMAIN block \ {b} : block'[a] = block[a]
  BY <1>1, <1>2, <1>3
<1>5. S' = S /\ UNCHANGED <<maxSize, blocking, frontBlock, tailBlock, largestBlockSize, enq, deq>>
  BY DEF S, fixed
<1>6. /\ \A a \in DOMAIN block : Same(a) /\ block'[a].localTail = block[a].localTail
      /\ \A a \in DOMAIN block \ {b} : block'[a].localFront = block[a].localFront
      /\ block'[b].localFront = block[b].front /\ SameData
  BY <1>2, <1>4 DEF Same, SameData
<1>7. \A a \in DOMAIN block : /\ In(a)' = In(a) /\ Seen(a)' = Seen(a)
                              /\ Thought(a)' = IF a = b THEN In(b) ELSE Thought(a)
                              /\ Full(a)' <=> Full(a)
  BY <1>6 DEF Same, In, Seen, Thought, Full
<1>8. Kept
  BY <1>4, <1>6 DEF Kept
<1>9. BlocksInv'
  <2>1. ASSUME NEW a \in DOMAIN block PROVE BlockOK(a)'
    <3>1. BlockOK(a) /\ In(a) <= In(a) /\ block'[a].localFront < block'[a].size
      BY <1>6, BlockFacts DEF BlocksInv, BlockOK, Same
    <3>2. Same(a) /\ block'[a].localTail = block[a].localTail
      BY <1>6
    <3> QED
      BY <1>5, <1>6, <1>7, <3>1, <3>2 DEF BlockOK, Same, SameData
  <2> QED
    BY <1>4, <2>1 DEF BlocksInv
<1> QED
  BY <1>4, <1>5, <1>6, <1>7, <1>8, <1>9 DEF Size

\* b's copy of the tail is brought up to date.
LEMMA TailLoaded ==
  ASSUME TypeInv, BlocksInv, NEW b \in DOMAIN block,
         block' = [block EXCEPT ![b].localTail = block[b].tail],
         UNCHANGED <<fixed, frontBlock, tailBlock, largestBlockSize, enq, deq>>
  PROVE  /\ Kept /\ SameData /\ block' \in Seq(BlockType) /\ BlocksInv'
         /\ \A a \in DOMAIN block : block'[a].localFront = block[a].localFront
         /\ \A a \in DOMAIN block : /\ In(a)' = In(a)
                                    /\ Seen(a)' = IF a = b THEN In(b) ELSE Seen(a)
         /\ Size' = Size /\ Len(block') = Len(block)
         /\ UNCHANGED <<maxSize, blocking>>
<1>1. block \in Seq(BlockType)
  BY DEF TypeInv
<1> DEFINE x == [block[b] EXCEPT !.localTail = block[b].tail]
<1>2. /\ x \in BlockType /\ x.size = block[b].size /\ x.front = block[b].front
      /\ x.tail = block[b].tail /\ x.next = block[b].next /\ x.data = block[b].data
      /\ x.localFront = block[b].localFront /\ x.localTail = block[b].tail
  BY FieldTypes DEF BlockType
<1>3. block' = [block EXCEPT ![b] = x]
  OBVIOUS
<1> HIDE DEF x
<1>4. /\ block' \in Seq(BlockType) /\ Len(block') = Len(block) /\ DOMAIN block' = DOMAIN block
      /\ block'[b] = x /\ \A a \in DOMAIN block \ {b} : block'[a] = block[a]
  BY <1>1, <1>2, <1>3
<1>5. S' = S /\ UNCHANGED <<maxSize, blocking, frontBlock, tailBlock, largestBlockSize, enq, deq>>
  BY DEF S, fixed
<1>6. /\ \A a \in DOMAIN block : Same(a) /\ block'[a].localFront = block[a].localFront
      /\ \A a \in DOMAIN block \ {b} : block'[a].localTail = block[a].localTail
      /\ block'[b].localTail = block[b].tail /\ SameData
  BY <1>2, <1>4 DEF Same, SameData
<1>7. \A a \in DOMAIN block : /\ In(a)' = In(a) /\ Thought(a)' = Thought(a)
                              /\ Seen(a)' = IF a = b THEN In(b) ELSE Seen(a)
  BY <1>6 DEF Same, In, Seen, Thought
<1>8. Kept
  BY <1>4, <1>6 DEF Kept
<1>9. BlocksInv'
  <2>1. ASSUME NEW a \in DOMAIN block PROVE BlockOK(a)'
    <3>1. BlockOK(a) /\ In(a) <= In(a) /\ block'[a].localTail < block'[a].size
      BY <1>6, BlockFacts DEF BlocksInv, BlockOK, Same
    <3>2. Same(a) /\ block'[a].localFront = block[a].localFront
      BY <1>6
    <3> QED
      BY <1>5, <1>6, <1>7, <3>1, <3>2 DEF BlockOK, Same, SameData
  <2> QED
    BY <1>4, <2>1 DEF BlocksInv
<1> QED
  BY <1>4, <1>5, <1>6, <1>7, <1>8, <1>9 DEF Size

-----------------------------------------------------------------------------
(* The steps of the producer that leave the elements alone.                *)

\* The locals of the producer.
LEMMA ProFields ==
  ASSUME TypeInv
  PROVE  /\ pro.pc \in ProPCs /\ pro.kind \in Kinds /\ pro.start \in Nat /\ pro.b \in Nat
         /\ pro.first \in Nat /\ pro.sum \in Nat
  BY DEF TypeInv, Locals

\* The locals of the consumer.
LEMMA ConFields ==
  ASSUME TypeInv
  PROVE  /\ con.pc \in ConPCs /\ con.kind \in Kinds /\ con.start \in Nat /\ con.b \in Nat
         /\ con.first \in Nat /\ con.sum \in Nat
  BY DEF TypeInv, Locals

\* The producer goes on to another step.
LEMMA ProGoes ==
  ASSUME TypeInv, NEW to \in ProPCs, NEW b \in Nat,
         pro' = [pro EXCEPT !.pc = to, !.b = b] \/ (pro' = [pro EXCEPT !.pc = to] /\ b = pro.b)
  PROVE  /\ pro' \in Locals(ProPCs) /\ pro'.pc = to /\ pro'.b = b
         /\ pro'.kind = pro.kind /\ pro'.start = pro.start
         /\ pro'.first = pro.first /\ pro'.sum = pro.sum
  BY DEF TypeInv, Locals

\* The consumer goes on to the step named to.
LEMMA ConGoes ==
  ASSUME TypeInv, NEW to \in ConPCs, NEW b \in Nat,
         con' = [con EXCEPT !.pc = to, !.b = b] \/ (con' = [con EXCEPT !.pc = to] /\ b = con.b)
  PROVE  /\ con' \in Locals(ConPCs) /\ con'.pc = to /\ con'.b = b
         /\ con'.kind = con.kind /\ con'.start = con.start
         /\ con'.first = con.first /\ con'.sum = con.sum
  BY DEF TypeInv, Locals

\* A thread between two calls.
LEMMA IdleType ==
  /\ Idle \in Locals(ProPCs) /\ Idle \in Locals(ConPCs)
  /\ Idle.pc = "idle" /\ Idle.kind = "none"
  BY DEF Idle, Locals, ProPCs, ConPCs, Kinds, Removing

\* What the producer remembers of the front is never too much room.
LEMMA StartEnqueueStep ==
  ASSUME NEW r, NEW p, NEW o, State(r, p, o), NEW mode \in {"CanAlloc", "CannotAlloc"},
         StartEnqueue(mode)
  PROVE  Inv'
<1> DEFINE to == IF NextTail(tailBlock) # block[tailBlock].localFront THEN "construct" ELSE "room"
<1>1. /\ pro.pc = "idle"
      /\ pro' = [Idle EXCEPT !.kind = mode, !.start = Size, !.b = tailBlock, !.pc = to]
      /\ UNCHANGED <<fixed, block, frontBlock, tailBlock, largestBlockSize, enq, deq>>
      /\ UNCHANGED <<sema, con>>
  BY DEF StartEnqueue
<1>2. tailBlock \in DOMAIN block /\ tailBlock \in Nat /\ Size \in Nat /\ TypeInv /\ BlocksInv
  BY RingFacts, SizeFacts
<1>3. /\ pro' \in Locals(ProPCs) /\ pro'.pc = to /\ pro'.b = tailBlock /\ pro'.start = Size
  BY <1>1, <1>2 DEF Idle, Locals, ProPCs, Kinds, Removing
<1>4. to \in {"construct", "room"} /\ (to = "construct" => Thought(tailBlock) < block[tailBlock].size - 1)
  BY <1>2, BlockFacts
<1> HIDE DEF to
<1>5. /\ Kept /\ SameData /\ BlocksInv' /\ Size' = Size /\ Thought(tailBlock)' = Thought(tailBlock)
      /\ \A b \in DOMAIN block : block'[b].localTail = block[b].localTail
      /\ UNCHANGED <<maxSize, blocking>>
  <2>1. PICK t : t = tailBlock
    OBVIOUS
  <2>2. Thought(t)' = Thought(t) /\ tailBlock' = t
    BY <1>1, <1>2, <2>1, Unmoved
  <2> QED
    BY <1>1, <1>2, <2>1, <2>2, Unmoved DEF Thought
<1>6. TypeInv'
  BY <1>1, <1>2, <1>3, <1>5 DEF TypeInv
<1>7. SemaInv'
  BY <1>1, <1>3, <1>4, <1>5 DEF State, SemaInv, Sizing
<1>8. ProInv(r, p)'
  <2>1. pro'.start >= Size'
    BY <1>2, <1>3, <1>5
  <2>2. pro'.pc = "construct" => Thought(pro.b)' < block'[pro'.b].size - 1
    BY <1>1, <1>3, <1>4, <1>5 DEF Thought
  <2> QED
    BY <1>1, <1>3, <1>4, <2>1, <2>2 DEF ProInv, Enqueuing
<1>9. ProSizeInv(r, p, o)'
  BY <1>3, <1>4 DEF ProSizeInv, Sizing
<1> QED
  BY <1>1, <1>3, <1>4, <1>5, <1>6, <1>7, <1>8, <1>9, ProducerStep

\* The front just loaded tells whether the block is full.
LEMMA LoadFrontStep ==
  ASSUME NEW r, NEW p, NEW o, State(r, p, o), LoadFront
  PROVE  Inv'
<1> DEFINE to == IF NextTail(tailBlock) # block[tailBlock].front THEN "construct" ELSE "ahead"
<1>1. /\ pro.pc = "room" /\ pro' = [pro EXCEPT !.pc = to]
      /\ block' = [block EXCEPT ![tailBlock].localFront = block[tailBlock].front]
      /\ UNCHANGED <<fixed, frontBlock, tailBlock, largestBlockSize, enq, deq>>
      /\ UNCHANGED <<sema, con>>
  BY DEF LoadFront
<1>2. tailBlock \in DOMAIN block /\ TypeInv /\ BlocksInv /\ ProInv(r, p)
  BY RingFacts DEF Good
<1>3. PICK t \in DOMAIN block : t = tailBlock
  BY <1>2
<1>4. /\ pro' \in Locals(ProPCs) /\ pro'.pc = to /\ pro'.b = pro.b /\ pro'.start = pro.start
  BY <1>1, <1>2, ProGoes, ProFields DEF ProPCs
<1>5. /\ to \in {"construct", "ahead"}
      /\ to = "construct" => In(t) < block[t].size - 1
      /\ to = "ahead" => Full(t)
  BY <1>2, <1>3, BlockFacts DEF Full
<1> HIDE DEF to
<1>6. /\ Kept /\ SameData /\ block' \in Seq(BlockType) /\ BlocksInv' /\ Size' = Size
      /\ \A b \in DOMAIN block : block'[b].localTail = block[b].localTail
      /\ Thought(t)' = In(t) /\ (Full(t)' <=> Full(t))
      /\ UNCHANGED <<maxSize, blocking>>
  BY <1>1, <1>2, <1>3, FrontLoaded
<1>7. TypeInv'
  BY <1>1, <1>2, <1>4, <1>6 DEF TypeInv
<1>8. SemaInv'
  BY <1>1, <1>4, <1>5, <1>6 DEF State, SemaInv, Sizing
<1>9. ProInv(r, p)'
  <2>1. pro.b = t /\ pro.start >= Size /\ pro.start \in Nat
    BY <1>1, <1>2, <1>3, ProFields DEF ProInv, Enqueuing, ProPCs, Sizing
  <2>2. block'[t].size = block[t].size /\ tailBlock' = t /\ pro'.b = t
    BY <1>1, <1>3, <1>4, <1>6, <2>1 DEF Kept, Same
  <2>3. to = "construct" => Thought(pro.b)' < block'[pro'.b].size - 1
    BY <1>5, <1>6, <2>2 DEF Thought
  <2>4. to = "ahead" => Full(tailBlock)' /\ pro'.start >= block'[tailBlock'].size - 1
    <3>1. Size >= In(t)
      <4>1. o[r[p]] \in Nat /\ In(t) \in Nat /\ deq <= o[r[p]] /\ enq = o[r[p]] + In(t) /\ deq \in Nat
        BY <1>3, RingFacts, SizeFacts
      <4> QED
        BY <4>1 DEF Size
    <3>2. Size \in Nat /\ In(t) \in Nat /\ block[t].size \in Nat
      BY <1>2, SizeFacts, BlockFacts
    <3>3. to = "ahead" => pro.start >= block[t].size - 1
      BY <1>5, <2>1, <3>1, <3>2 DEF Full
    <3> QED
      BY <1>4, <1>5, <1>6, <2>2, <3>3 DEF Full, In
  <2> QED
    BY <1>4, <1>5, <1>6, <2>1, <2>2, <2>3, <2>4 DEF ProInv
<1>10. ProSizeInv(r, p, o)'
  BY <1>4, <1>5 DEF ProSizeInv, Sizing
<1> QED
  BY <1>1, <1>4, <1>5, <1>6, <1>7, <1>8, <1>9, <1>10, ProducerStep

\* The block behind the tail block is the front block only if all are in use.
LEMMA RingNext ==
  ASSUME NEW r, NEW p, NEW o, State(r, p, o)
  PROVE  /\ block[tailBlock].next = frontBlock <=> p = Len(block)
         /\ p < Len(block) => r[p + 1] \in DOMAIN block /\ block[tailBlock].next = r[p + 1]
         /\ p < Len(block) => r[p + 1] # tailBlock /\ r[p + 1] # frontBlock
         /\ p > 1 => r[2] \in DOMAIN block /\ block[frontBlock].next = r[2] /\ r[2] # frontBlock
<1>1. PICK n \in Nat : n = Len(block) /\ p \in 1 .. n /\ p \in Nat /\ frontBlock = r[1] /\ tailBlock = r[p]
                       /\ \A i \in 1 .. n : r[i] \in DOMAIN block
  BY RingFacts
<1>2. /\ \A i, j \in 1 .. n : r[i] = r[j] => i = j
      /\ \A i \in 1 .. n : block[r[i]].next = IF i = n THEN r[1] ELSE r[i + 1]
  BY <1>1 DEF State, Good, RingInv
<1>3. 1 \in 1 .. n /\ (p > 1 => 2 \in 1 .. n /\ 1 # n) /\ (p < n => p + 1 \in 1 .. n)
  BY <1>1
<1>4. p > 1 => r[2] \in DOMAIN block /\ block[frontBlock].next = r[2] /\ r[2] # frontBlock
  <2>1. r[2] = r[1] /\ p > 1 => 2 = 1
    BY <1>2, <1>3
  <2>2. p > 1 => block[r[1]].next = r[1 + 1]
    BY <1>2, <1>3
  <2> QED
    BY <1>1, <1>3, <2>1, <2>2
<1>5. CASE p = n
  BY <1>1, <1>2, <1>3, <1>4, <1>5
<1>6. CASE p < n
  <2>1. r[p + 1] # r[p] /\ r[p + 1] # r[1] /\ block[r[p]].next = r[p + 1]
    BY <1>1, <1>2, <1>3, <1>6
  <2> QED
    BY <1>1, <1>3, <1>4, <1>6, <2>1
<1> QED
  BY <1>1, <1>5, <1>6

\* With all blocks in use and the tail block full, the queue is as large as it
\* was to become.
LEMMA AllUsed ==
  ASSUME NEW r, NEW p, NEW o, State(r, p, o), p = Len(block), p > 1, Full(tailBlock)
  PROVE  Size >= maxSize
<1>1. /\ p \in Nat /\ tailBlock = r[p] /\ tailBlock \in DOMAIN block
      /\ OffsetInv(r, p, o) /\ CapacityInv /\ TypeInv /\ BlocksInv
  BY RingFacts DEF State, Good
<1>2. 2 \in 2 .. p /\ p \in 2 .. p /\ 2 \in 1 .. p
  BY <1>1
<1>3. S \in Nat /\ S >= 2 /\ maxSize \in Nat /\ block[r[p]].size \in Nat /\ block[r[p]].size >= S
  BY <1>1, SIs, BlockFacts
<1>4. In(r[p]) = block[r[p]].size - 1
  BY <1>1 DEF Full
<1>5. o[r[2]] + (p - 2) * (S - 1) <= o[r[p]]
  BY <1>1, <1>2, SMTT(30) DEF OffsetInv
<1>6. o[r[2]] \in Nat /\ o[r[p]] \in Nat /\ deq <= o[r[2]] /\ deq \in Nat /\ enq = o[r[p]] + In(r[p])
  BY <1>2, SizeFacts
<1>7. (p - 2) * (S - 1) \in Int /\ (p - 1) * (S - 1) = (p - 2) * (S - 1) + (S - 1)
  BY <1>1, <1>3
<1>8. maxSize <= (p - 1) * (S - 1)
  BY <1>1 DEF CapacityInv
<1> DEFINE x == (p - 2) * (S - 1)
           y == (p - 1) * (S - 1)
<1> HIDE DEF x, y
<1>9. x \in Int /\ y = x + (S - 1) /\ maxSize <= y /\ o[r[2]] + x <= o[r[p]]
  BY <1>5, <1>7, <1>8 DEF x, y
<1> DEFINE u == o[r[2]]
           v == o[r[p]]
           c == block[r[p]].size
           s == S
<1>10. /\ u \in Nat /\ v \in Nat /\ c \in Nat /\ s \in Nat /\ c >= s /\ deq \in Nat /\ deq <= u
       /\ enq = v + (c - 1) /\ u + x <= v /\ x \in Int /\ y = x + (s - 1) /\ maxSize <= y
       /\ maxSize \in Nat
  BY <1>3, <1>4, <1>6, <1>9
<1> HIDE DEF u, v, c, s
<1> QED
  BY <1>10 DEF Size

\* Either the block ahead is free, or the queue is as full as it may be.
LEMMA LoadFrontBlockStep ==
  ASSUME NEW r, NEW p, NEW o, State(r, p, o), LoadFrontBlock
  PROVE  Inv'
<1>1. /\ pro.pc = "ahead"
      /\ UNCHANGED <<fixed, block, frontBlock, tailBlock, largestBlockSize, enq, deq>>
      /\ UNCHANGED <<sema, con>>
  BY DEF LoadFrontBlock
<1>2. TypeInv /\ BlocksInv /\ ProInv(r, p) /\ tailBlock \in DOMAIN block
  BY RingFacts DEF Good
<1>3. /\ pro.start >= Size /\ (tailBlock = frontBlock \/ Full(tailBlock))
      /\ pro.start >= block[tailBlock].size - 1 /\ pro.start \in Nat
  BY <1>1, <1>2, ProFields DEF ProInv, Enqueuing, ProPCs, Sizing
<1>4. /\ Kept /\ SameData /\ BlocksInv' /\ Size' = Size
      /\ \A b \in DOMAIN block : block'[b].localTail = block[b].localTail
      /\ \A b : Full(b)' <=> Full(b)
      /\ UNCHANGED <<maxSize, blocking>> /\ Len(block') = Len(block)
  BY <1>1, <1>2, Unmoved
<1>5. Full(tailBlock)' <=> Full(tailBlock)
  BY <1>1 DEF Full, In
<1>6. CASE block[tailBlock].next # frontBlock
  <2>1. p < Len(block) /\ block[tailBlock].next = r[p + 1] /\ r[p + 1] \in Nat
    BY <1>6, RingFacts, RingNext
  <2>2. /\ pro' \in Locals(ProPCs) /\ pro'.pc = "next" /\ pro'.b = r[p + 1] /\ pro'.start = pro.start
    BY <1>2, <1>6, <2>1, ProGoes DEF LoadFrontBlock, ProPCs
  <2>3. TypeInv'
    BY <1>1, <1>2, <1>4, <2>2 DEF TypeInv
  <2>4. SemaInv'
    BY <1>1, <1>4, <2>2 DEF State, SemaInv, Sizing
  <2>5. ProInv(r, p)'
    BY <1>1, <1>3, <1>4, <1>5, <2>1, <2>2 DEF ProInv, Ahead
  <2>6. ProSizeInv(r, p, o)'
    BY <2>2 DEF ProSizeInv, Sizing
  <2> QED
    BY <1>1, <1>4, <2>2, <2>3, <2>4, <2>5, <2>6, ProducerStep
<1>7. CASE block[tailBlock].next = frontBlock
  <2> DEFINE to == IF pro.kind = "CanAlloc" THEN "alloc" ELSE "refused"
  <2>1. pro' = [pro EXCEPT !.pc = to] /\ to \in {"alloc", "refused"} /\ p = Len(block)
    BY <1>7, RingNext DEF LoadFrontBlock
  <2> HIDE DEF to
  <2>2. /\ pro' \in Locals(ProPCs) /\ pro'.pc = to /\ pro'.start = pro.start
    BY <1>2, <2>1, ProGoes, ProFields DEF ProPCs
  <2>3. TypeInv'
    BY <1>1, <1>2, <1>4, <2>2 DEF TypeInv
  <2>4. SemaInv'
    BY <1>1, <1>4, <2>1, <2>2 DEF State, SemaInv, Sizing
  <2>5. pro.start >= maxSize
    <3>1. CASE p = 1
      <4>1. maxSize <= S - 1
        BY <2>1, <3>1 DEF State, CapacityInv
      <4> QED
        BY <1>2, <1>3, <4>1, SIs, BlockFacts
    <3>2. CASE p > 1
      <4>1. Full(tailBlock)
        BY <1>3, <3>2, RingFacts
      <4>2. Size >= maxSize
        BY <2>1, <3>2, <4>1, AllUsed
      <4> QED
        BY <1>2, <1>3, <4>2, SIs, SizeFacts
    <3> QED
      BY <3>1, <3>2, RingFacts
  <2>6. ProInv(r, p)'
    BY <1>1, <1>3, <1>4, <1>5, <2>1, <2>2, <2>5 DEF ProInv
  <2>7. ProSizeInv(r, p, o)'
    BY <2>1, <2>2 DEF ProSizeInv, Sizing
  <2> QED
    BY <1>1, <1>4, <2>1, <2>2, <2>3, <2>4, <2>6, <2>7, ProducerStep
<1> QED
  BY <1>6, <1>7

\* The block ahead is empty, so there is room in it.
LEMMA UseNextBlockStep ==
  ASSUME NEW r, NEW p, NEW o, State(r, p, o), UseNextBlock
  PROVE  Inv'
<1>1. TypeInv /\ BlocksInv /\ ProInv(r, p) /\ FillInv(r, p, pro.pc = "tailBlock") /\ pro.pc = "next"
  BY RingFacts DEF Good, UseNextBlock
<1>2. p < Len(block) /\ pro.b = r[p + 1] /\ pro.start >= Size
      /\ (tailBlock = frontBlock \/ Full(tailBlock))
  BY <1>1 DEF ProInv, Ahead, Enqueuing, ProPCs, Sizing
<1>3. PICK b \in DOMAIN block : b = pro.b /\ b = r[p + 1] /\ b # tailBlock
  BY <1>2, RingNext
<1>4. /\ pro' = [pro EXCEPT !.pc = "construct"]
      /\ block' = [block EXCEPT ![b].localFront = block[b].front]
      /\ UNCHANGED <<fixed, frontBlock, tailBlock, largestBlockSize, enq, deq>>
      /\ UNCHANGED <<sema, con>>
  BY <1>3 DEF UseNextBlock
<1>5. /\ pro' \in Locals(ProPCs) /\ pro'.pc = "construct" /\ pro'.b = b /\ pro'.start = pro.start
  BY <1>1, <1>3, <1>4, ProGoes, ProFields DEF ProPCs
<1>6. /\ Kept /\ SameData /\ block' \in Seq(BlockType) /\ BlocksInv' /\ Size' = Size
      /\ \A a \in DOMAIN block : block'[a].localTail = block[a].localTail
      /\ Thought(b)' = In(b) /\ \A a \in DOMAIN block : Full(a)' <=> Full(a)
      /\ UNCHANGED <<maxSize, blocking>> /\ Len(block') = Len(block)
  BY <1>1, <1>4, FrontLoaded
<1>7. TypeInv'
  BY <1>1, <1>4, <1>5, <1>6 DEF TypeInv
<1>8. SemaInv'
  BY <1>1, <1>4, <1>5, <1>6 DEF State, SemaInv, Sizing
<1>9. In(b) = 0
  <2>1. p + 1 \in p + 1 .. Len(block)
    BY <1>2, RingFacts
  <2> QED
    BY <1>1, <1>3, <2>1 DEF FillInv
<1>10. ProInv(r, p)'
  <2>1. Thought(pro.b)' < block'[pro'.b].size - 1
    <3>1. block'[b].size = block[b].size /\ block[b].size \in Nat /\ block[b].size >= 2
      BY <1>1, <1>6, BlockFacts DEF Kept, Same
    <3>2. Thought(b)' < block'[b].size - 1
      BY <1>6, <1>9, <3>1
    <3> QED
      BY <1>5, <3>2 DEF Thought
  <2>2. Ahead(r, p)'
    BY <1>2, <1>3, <1>5, <1>6 DEF Ahead
  <2>3. tailBlock' = frontBlock' \/ Full(tailBlock)'
    <3>1. PICK t \in DOMAIN block : t = tailBlock
      BY RingFacts
    <3>2. (tailBlock' = t) /\ (Full(t)' <=> Full(t))
      BY <1>4, <1>6, <3>1
    <3> QED
      BY <1>2, <1>4, <3>1, <3>2 DEF Full, In
  <2> QED
    BY <1>2, <1>5, <1>6, <2>1, <2>2, <2>3 DEF ProInv
<1>11. ProSizeInv(r, p, o)'
  BY <1>5 DEF ProSizeInv, Sizing
<1> QED
  BY <1>1, <1>4, <1>5, <1>6, <1>7, <1>8, <1>10, <1>11, ProducerStep

\* The refused call leaves everything as it was.
LEMMA ReturnFalseStep ==
  ASSUME NEW r, NEW p, NEW o, State(r, p, o), ReturnFalse
  PROVE  Inv'
<1>1. /\ pro.pc \in {"refused", "alloc"} /\ pro' = Idle
      /\ UNCHANGED <<fixed, block, frontBlock, tailBlock, largestBlockSize, enq, deq>>
      /\ UNCHANGED <<sema, con>>
  BY DEF ReturnFalse
<1>2. TypeInv /\ BlocksInv
  BY RingFacts
<1>3. /\ Kept /\ SameData /\ BlocksInv' /\ Size' = Size
      /\ \A b \in DOMAIN block : block'[b].localTail = block[b].localTail
      /\ UNCHANGED <<maxSize, blocking>>
  BY <1>1, <1>2, Unmoved
<1>4. pro' \in Locals(ProPCs) /\ pro'.pc = "idle"
  BY <1>1, IdleType
<1>5. TypeInv'
  BY <1>1, <1>2, <1>3, <1>4 DEF TypeInv
<1>6. SemaInv'
  BY <1>1, <1>3, <1>4 DEF State, SemaInv, Sizing
<1>7. ProInv(r, p)' /\ ProSizeInv(r, p, o)'
  BY <1>4 DEF ProInv, ProSizeInv, Sizing, Enqueuing
<1> QED
  BY <1>1, <1>3, <1>4, <1>5, <1>6, <1>7, ProducerStep

\* The signal becomes a permit.
LEMMA SignalStep ==
  ASSUME NEW r, NEW p, NEW o, State(r, p, o), signal
  PROVE  Inv'
<1>1. /\ pro.pc = "signal" /\ pro' = Idle /\ sema' = sema + 1
      /\ UNCHANGED <<fixed, block, frontBlock, tailBlock, largestBlockSize, enq, deq>>
      /\ UNCHANGED con
  BY DEF signal
<1>2. TypeInv /\ BlocksInv
  BY RingFacts
<1>3. /\ Kept /\ SameData /\ BlocksInv' /\ Size' = Size
      /\ \A b \in DOMAIN block : block'[b].localTail = block[b].localTail
      /\ UNCHANGED <<maxSize, blocking>>
  BY <1>1, <1>2, Unmoved
<1>4. pro' \in Locals(ProPCs) /\ pro'.pc = "idle"
  BY <1>1, IdleType
<1>5. TypeInv'
  BY <1>1, <1>2, <1>3, <1>4 DEF TypeInv
<1>6. SemaInv'
  <2>1. sema \in Nat
    BY <1>2 DEF TypeInv
  <2> QED
    BY <1>1, <1>3, <1>4, <2>1 DEF State, SemaInv, Sizing
<1>7. ProInv(r, p)' /\ ProSizeInv(r, p, o)'
  BY <1>4 DEF ProInv, ProSizeInv, Sizing, Enqueuing
<1> QED
  BY <1>1, <1>3, <1>4, <1>5, <1>6, <1>7, ProducerStep

-----------------------------------------------------------------------------
(* The steps of the producer that add an element.                          *)

\* The ring, its length n a constant of the step.
Ring(n, r, p) ==
  /\ n \in Nat /\ n = Len(block) /\ n >= 1 /\ 1 \in 1 .. n /\ DOMAIN block = 1 .. n
  /\ p \in 1 .. n /\ p \in Nat /\ p >= 1 /\ p <= n
  /\ r \in [1 .. n -> DOMAIN block] /\ \A i \in 1 .. n : r[i] \in DOMAIN block
  /\ \A i, j \in 1 .. n : r[i] = r[j] => i = j
  /\ \A b \in DOMAIN block : \E i \in 1 .. n : r[i] = b
  /\ \A i \in 1 .. n : block[r[i]].next = IF i = n THEN r[1] ELSE r[i + 1]
  /\ frontBlock = r[1] /\ tailBlock = r[p]

\* There is such a ring.
LEMMA Positions ==
  ASSUME NEW r, NEW p, NEW o, State(r, p, o)
  PROVE  \E n : Ring(n, r, p)
<1>1. PICK n \in Nat : n = Len(block)
  BY RingFacts
<1>2. RingInv(r, p) /\ DOMAIN block = 1 .. n /\ p \in 1 .. n
  BY <1>1, RingFacts DEF State, Good
<1>3. n >= 1 /\ 1 \in 1 .. n /\ p \in Nat /\ p >= 1 /\ p <= n
  BY <1>2
<1>4. /\ r \in [1 .. n -> DOMAIN block]
      /\ \A i, j \in 1 .. n : r[i] = r[j] => i = j
      /\ \A b \in DOMAIN block : \E i \in 1 .. n : r[i] = b
      /\ \A i \in 1 .. n : block[r[i]].next = IF i = n THEN r[1] ELSE r[i + 1]
      /\ frontBlock = r[1] /\ tailBlock = r[p]
  BY <1>1, <1>2 DEF RingInv
<1>5. \A i \in 1 .. n : r[i] \in DOMAIN block
  BY <1>4
<1>6. Ring(n, r, p)
  BY <1>1, <1>2, <1>3, <1>4, <1>5 DEF Ring
<1> QED
  BY <1>6

\* No block is linked elsewhere.
LEMMA RingKept ==
  ASSUME NEW r, NEW p, NEW o, State(r, p, o), S' = S,
         Len(block') = Len(block), DOMAIN block' = DOMAIN block,
         \A b \in DOMAIN block : block'[b].next = block[b].next,
         UNCHANGED <<maxSize, frontBlock, tailBlock>>
  PROVE  RingInv(r, p)' /\ CapacityInv'
<1>1. RingInv(r, p) /\ CapacityInv
  BY DEF State, Good
<1>2. CapacityInv'
  BY <1>1 DEF CapacityInv
<1>3. \A i \in 1 .. Len(block) : block'[r[i]].next = block[r[i]].next
  BY RingFacts
<1>4. RingInv(r, p)'
  BY <1>1, <1>3 DEF RingInv
<1> QED
  BY <1>2, <1>4

\* The elements in place are left alone.
LEMMA KeptData ==
  ASSUME NEW r, NEW p, NEW o, State(r, p, o), Kept, NEW hole \in BOOLEAN,
         (con.pc = "front") => hole,
         \A b \in DOMAIN block : \A k \in 0 .. In(b) - 1 :
           (hole /\ b = frontBlock /\ k = 0)
             \/ block'[b].data[At(b, k)] = block[b].data[At(b, k)]
  PROVE  DataInv(r, p, o, hole)'
<1>1. DataInv(r, p, o, con.pc = "front")
  BY DEF State, Good
<1>2. /\ \A b \in DOMAIN block : In(b)' = In(b)
      /\ \A b \in DOMAIN block : \A k : At(b, k)' = At(b, k)
  BY DEF Kept, Same, In, At
<1>3. \A i \in 1 .. p : i \in 1 .. Len(block) /\ r[i] \in DOMAIN block
  BY RingFacts
<1>4. \A i \in 1 .. p : r[i] = frontBlock => i = 1
  <2>1. /\ \A i, j \in 1 .. Len(block) : r[i] = r[j] => i = j
        /\ frontBlock = r[1]
    BY DEF State, Good, RingInv
  <2>2. 1 \in 1 .. Len(block)
    BY RingFacts
  <2> QED
    BY <1>3, <2>1, <2>2
<1> SUFFICES ASSUME NEW i \in 1 .. p, NEW k \in 0 .. In(r[i]) - 1
             PROVE  (hole /\ i = 1 /\ k = 0) \/ block'[r[i]].data[At(r[i], k)] = o[r[i]] + k + 1
  BY <1>2, <1>3 DEF DataInv
<1>5. ((con.pc = "front") /\ i = 1 /\ k = 0) \/ block[r[i]].data[At(r[i], k)] = o[r[i]] + k + 1
  BY <1>1 DEF DataInv
<1>6. (hole /\ r[i] = frontBlock /\ k = 0) \/ block'[r[i]].data[At(r[i], k)] = block[r[i]].data[At(r[i], k)]
  BY <1>3
<1> QED
  BY <1>4, <1>5, <1>6

\* How full the blocks are, when only data change.
LEMMA KeptFill ==
  ASSUME NEW r, NEW p, NEW o, State(r, p, o), Kept,
         (pro'.pc = "tailBlock") <=> (pro.pc = "tailBlock"),
         pro.pc = "tailBlock" => /\ p < Len(block)
                                 /\ block'[r[p + 1]].data = block[r[p + 1]].data
  PROVE  FillInv(r, p, pro.pc = "tailBlock")'
<1>1. FillInv(r, p, pro.pc = "tailBlock")
  BY DEF State, Good
<1>2. /\ \A b \in DOMAIN block : Same(b) /\ In(b)' = In(b) /\ (Full(b)' <=> Full(b))
      /\ Len(block') = Len(block) /\ enq' = enq
  BY DEF Kept, Same, In, Full
<1>3. /\ \A i \in 2 .. p : r[i] \in DOMAIN block
      /\ \A i \in 2 .. p - 1 : r[i] \in DOMAIN block /\ i \in 2 .. p
      /\ \A i \in p + 1 .. Len(block) : r[i] \in DOMAIN block
  <2>1. Len(block) \in Nat /\ p \in 1 .. Len(block) /\ p \in Nat
    BY RingFacts
  <2>2. \A i \in 1 .. Len(block) : r[i] \in DOMAIN block
    BY RingFacts
  <2>3. /\ \A i \in 2 .. p : i \in 1 .. Len(block)
        /\ \A i \in 2 .. p - 1 : i \in 2 .. p
        /\ \A i \in p + 1 .. Len(block) : i \in 1 .. Len(block)
    BY <2>1
  <2> QED
    BY <2>2, <2>3
<1>4. ASSUME NEW i \in p + 1 .. Len(block)
      PROVE  IF pro'.pc = "tailBlock" /\ i = p + 1
             THEN In(r[i])' = 1 /\ block'[r[i]].data[block'[r[i]].front] = enq' + 1
             ELSE In(r[i])' = 0
  <2>1. In(r[i])' = In(r[i]) /\ block'[r[i]].front = block[r[i]].front
    BY <1>2, <1>3 DEF Same
  <2> QED
    BY <1>1, <1>2, <2>1 DEF FillInv
<1> QED
  BY <1>1, <1>2, <1>3, <1>4 DEF FillInv

\* A slot of b is written.
LEMMA DataStored ==
  ASSUME TypeInv, BlocksInv, NEW b \in DOMAIN block, NEW s \in 0 .. block[b].size - 1, NEW v \in Nat,
         block' = [block EXCEPT ![b].data[s] = v],
         UNCHANGED <<fixed, frontBlock, tailBlock, largestBlockSize, enq, deq>>
  PROVE  /\ Kept /\ block' \in Seq(BlockType) /\ BlocksInv'
         /\ \A a \in DOMAIN block : /\ block'[a].localTail = block[a].localTail
                                    /\ block'[a].localFront = block[a].localFront
                                    /\ In(a)' = In(a) /\ Seen(a)' = Seen(a)
                                    /\ Thought(a)' = Thought(a) /\ (Full(a)' <=> Full(a))
         /\ \A a \in DOMAIN block \ {b} : block'[a].data = block[a].data
         /\ \A x \in 0 .. block[b].size - 1 :
              block'[b].data[x] = IF x = s THEN v ELSE block[b].data[x]
         /\ Size' = Size /\ Len(block') = Len(block)
         /\ UNCHANGED <<maxSize, blocking>>
<1>1. block \in Seq(BlockType) /\ block[b].data \in [0 .. block[b].size - 1 -> Nat]
  BY DEF TypeInv, BlocksInv, BlockOK
<1> DEFINE d == [block[b].data EXCEPT ![s] = v]
           x == [block[b] EXCEPT !.data = d]
<1>2. /\ d \in [0 .. block[b].size - 1 -> Nat]
      /\ \A y \in 0 .. block[b].size - 1 : d[y] = IF y = s THEN v ELSE block[b].data[y]
  BY <1>1
<1>3. block' = [block EXCEPT ![b] = x]
  OBVIOUS
<1> HIDE DEF d
<1>4. d \in UNION {[0 .. c - 1 -> Nat] : c \in Nat}
  BY <1>2, FieldTypes
<1>5. /\ x \in BlockType /\ x.size = block[b].size /\ x.front = block[b].front
      /\ x.tail = block[b].tail /\ x.next = block[b].next /\ x.data = d
      /\ x.localFront = block[b].localFront /\ x.localTail = block[b].localTail
  BY <1>4, FieldTypes DEF BlockType
<1> HIDE DEF x
<1>6. /\ block' \in Seq(BlockType) /\ Len(block') = Len(block) /\ DOMAIN block' = DOMAIN block
      /\ block'[b] = x /\ \A a \in DOMAIN block \ {b} : block'[a] = block[a]
  BY <1>1, <1>3, <1>5
<1>7. S' = S /\ UNCHANGED <<maxSize, blocking, frontBlock, tailBlock, largestBlockSize, enq, deq>>
  BY DEF S, fixed
<1>8. /\ \A a \in DOMAIN block : /\ Same(a) /\ block'[a].localFront = block[a].localFront
                                 /\ block'[a].localTail = block[a].localTail
      /\ \A a \in DOMAIN block \ {b} : block'[a].data = block[a].data
      /\ block'[b].data = d
  BY <1>5, <1>6 DEF Same
<1>9. \A a \in DOMAIN block : /\ In(a)' = In(a) /\ Thought(a)' = Thought(a) /\ Seen(a)' = Seen(a)
                              /\ Full(a)' <=> Full(a)
  BY <1>8 DEF Same, In, Seen, Thought, Full
<1>10. Kept
  BY <1>6, <1>8 DEF Kept
<1>11. BlocksInv'
  <2>1. ASSUME NEW a \in DOMAIN block PROVE BlockOK(a)'
    <3>1. BlockOK(a) /\ Same(a)
      BY <1>8 DEF BlocksInv
    <3>2. block'[a].data \in [0 .. block'[a].size - 1 -> Nat]
      BY <1>2, <1>8, <3>1 DEF BlockOK, Same
    <3> QED
      BY <1>7, <1>8, <1>9, <3>1, <3>2 DEF BlockOK, Same
  <2> QED
    BY <1>6, <2>1 DEF BlocksInv
<1> QED
  BY <1>2, <1>6, <1>7, <1>8, <1>9, <1>10, <1>11 DEF Size

\* The new element is put into no slot that is in use.
LEMMA ConstructStep ==
  ASSUME NEW r, NEW p, NEW o, State(r, p, o), Construct
  PROVE  Inv'
<1>1. TypeInv /\ BlocksInv /\ ProInv(r, p) /\ pro.pc = "construct"
  BY RingFacts DEF Good, Construct
<1>2. /\ pro.b = tailBlock \/ Ahead(r, p)
      /\ Thought(pro.b) < block[pro.b].size - 1 /\ pro.start >= Size
      /\ (pro.b # tailBlock) => tailBlock = frontBlock \/ Full(tailBlock)
  BY <1>1 DEF ProInv, Enqueuing, ProPCs, Sizing
<1>3. PICK b \in DOMAIN block : b = pro.b
  BY <1>2, RingFacts, RingNext DEF Ahead
<1>4. PICK t \in DOMAIN block : t = tailBlock
  BY RingFacts
<1>5. PICK s \in 0 .. block[b].size - 1 : s = block[b].tail
  BY <1>1, BlockFacts
<1>6. /\ pro' = [pro EXCEPT !.pc = "tail"]
      /\ block' = [block EXCEPT ![b].data[s] = enq + 1]
      /\ UNCHANGED <<fixed, frontBlock, tailBlock, largestBlockSize, enq, deq>>
      /\ UNCHANGED <<sema, con>>
  BY <1>3, <1>5 DEF Construct
<1>7. /\ pro' \in Locals(ProPCs) /\ pro'.pc = "tail" /\ pro'.b = b /\ pro'.start = pro.start
  BY <1>1, <1>3, <1>6, ProGoes, ProFields DEF ProPCs
<1>8. enq + 1 \in Nat
  BY <1>1 DEF TypeInv
<1>9. /\ Kept /\ block' \in Seq(BlockType) /\ BlocksInv'
      /\ \A a \in DOMAIN block : /\ block'[a].localTail = block[a].localTail
                                 /\ Thought(a)' = Thought(a) /\ (Full(a)' <=> Full(a))
      /\ \A a \in DOMAIN block \ {b} : block'[a].data = block[a].data
      /\ \A x \in 0 .. block[b].size - 1 :
           block'[b].data[x] = IF x = s THEN enq + 1 ELSE block[b].data[x]
      /\ Size' = Size /\ Len(block') = Len(block)
      /\ UNCHANGED <<maxSize, blocking>>
  BY <1>1, <1>6, <1>8, DataStored
<1>10. TypeInv'
  BY <1>1, <1>6, <1>7, <1>9 DEF TypeInv
<1>11. SemaInv'
  BY <1>1, <1>6, <1>7, <1>9 DEF State, SemaInv, Sizing
<1>12. DataInv(r, p, o, con.pc = "front")'
  <2>1. PICK hole \in BOOLEAN : hole <=> con.pc = "front"
    <3>1. (con.pc = "front") \in BOOLEAN
      OBVIOUS
    <3> QED
      BY <3>1
  <2>2. ASSUME NEW k \in 0 .. In(b) - 1 PROVE block'[b].data[At(b, k)] = block[b].data[At(b, k)]
    <3> DEFINE c == block[b].size
               f == block[b].front
    <3>1. /\ c \in Nat /\ c >= 2 /\ f \in 0 .. c - 1 /\ s \in 0 .. c - 1
          /\ In(b) = Dist(f, s, c) /\ Dist(f, s, c) \in 0 .. c - 1 /\ Dist(f, s, c) < c - 1
          /\ At(b, k) = Plus(f, k, c)
      BY <1>1, <1>2, <1>3, <1>5, BlockFacts DEF In, At
    <3>2. k \in 0 .. c - 1 /\ k # Dist(f, s, c)
      BY <3>1
    <3> HIDE DEF c, f
    <3>3. Plus(f, k, c) # s /\ Plus(f, k, c) \in 0 .. c - 1
      BY <3>1, <3>2, TailMoves, PlusOnce, PlusType
    <3> QED
      BY <1>9, <3>1, <3>3 DEF c
  <2>3. \A a \in DOMAIN block : \A k \in 0 .. In(a) - 1 :
           (hole /\ a = frontBlock /\ k = 0)
             \/ block'[a].data[At(a, k)] = block[a].data[At(a, k)]
    BY <1>9, <2>2
  <2>4. DataInv(r, p, o, hole)'
    BY <1>9, <2>1, <2>3, KeptData
  <2> QED
    BY <1>6, <2>1, <2>4 DEF DataInv
<1>13. FillInv(r, p, pro.pc = "tailBlock")'
  BY <1>1, <1>7, <1>9, KeptFill
<1>14. ProInv(r, p)'
  <2>1. Thought(pro.b)' < block'[pro'.b].size - 1
    <3>1. Thought(b)' < block'[b].size - 1
      BY <1>2, <1>3, <1>9 DEF Kept, Same
    <3> QED
      BY <1>7, <3>1 DEF Thought
  <2>2. (pro'.b = tailBlock' \/ Ahead(r, p)') /\ tailBlock' = t /\ frontBlock' = frontBlock
    BY <1>2, <1>3, <1>4, <1>6, <1>7, <1>9 DEF Ahead
  <2>3. pro'.b # tailBlock' => tailBlock' = frontBlock' \/ Full(tailBlock)'
    <3>1. Full(t)' <=> Full(tailBlock)
      BY <1>4, <1>9
    <3>2. Full(tailBlock)' <=> Full(t)'
      BY <2>2 DEF Full, In
    <3> QED
      BY <1>2, <1>3, <1>4, <1>6, <1>7, <2>2, <3>1, <3>2
  <2>4. block'[pro'.b].data[block'[pro'.b].tail] = enq' + 1
    <3>1. block'[b].tail = s /\ block'[b].data[s] = enq + 1
      BY <1>5, <1>9 DEF Kept, Same
    <3> QED
      BY <1>6, <1>7, <3>1
  <2> QED
    BY <1>2, <1>7, <1>9, <2>1, <2>2, <2>3, <2>4 DEF ProInv
<1>15. ProSizeInv(r, p, o)'
  BY <1>7 DEF ProSizeInv, Sizing
<1>16. ConInv(r, p)' /\ ConSizeInv(r, p, o)'
  BY <1>1, <1>6, <1>7, <1>9, KeptCon
<1>17. RingInv(r, p)' /\ OffsetInv(r, p, o)' /\ CapacityInv'
  BY <1>9, KeptRing
<1> QED
  BY <1>9, <1>10, <1>11, <1>12, <1>13, <1>14, <1>15, <1>16, <1>17
     DEF Inv, Good, RingInv, OffsetInv

\* b's tail moves on.
LEMMA TailStored ==
  ASSUME TypeInv, BlocksInv, NEW b \in DOMAIN block, Thought(b) < block[b].size - 1,
         block' = [block EXCEPT ![b].tail = NextTail(b)],
         UNCHANGED <<fixed, frontBlock, tailBlock, largestBlockSize, deq>>
  PROVE  /\ block' \in Seq(BlockType) /\ BlocksInv' /\ SameData
         /\ Len(block') = Len(block) /\ DOMAIN block' = DOMAIN block
         /\ \A a \in DOMAIN block : /\ block'[a].size = block[a].size
                                    /\ block'[a].front = block[a].front
                                    /\ block'[a].next = block[a].next
                                    /\ Seen(a)' = Seen(a)
                                    /\ In(a)' = IF a = b THEN In(b) + 1 ELSE In(a)
         /\ \A a \in DOMAIN block \ {b} : Full(a)' <=> Full(a)
         /\ \A a \in DOMAIN block : \A k : At(a, k)' = At(a, k)
         /\ At(b, In(b)) = block[b].tail
         /\ S' = S /\ UNCHANGED <<maxSize, blocking>>
<1>1. block \in Seq(BlockType) /\ NextTail(b) \in Nat
  <2>1. /\ NextTail(b) = Plus(block[b].tail, 1, block[b].size) /\ block[b].size \in Nat /\ block[b].size >= 2
        /\ block[b].tail \in 0 .. block[b].size - 1
    BY BlockFacts
  <2>2. Plus(block[b].tail, 1, block[b].size) \in Nat
    BY <2>1 DEF Plus
  <2> QED
    BY <2>1, <2>2 DEF TypeInv
<1> DEFINE n == NextTail(b)
           x == [block[b] EXCEPT !.tail = n]
<1>2. block' = [block EXCEPT ![b] = x]
  OBVIOUS
<1> HIDE DEF n
<1>3. /\ x \in BlockType /\ x.size = block[b].size /\ x.front = block[b].front
      /\ x.tail = n /\ x.next = block[b].next /\ x.data = block[b].data
      /\ x.localFront = block[b].localFront /\ x.localTail = block[b].localTail
  BY <1>1, FieldTypes DEF BlockType, n
<1> HIDE DEF x
<1>4. /\ block' \in Seq(BlockType) /\ Len(block') = Len(block) /\ DOMAIN block' = DOMAIN block
      /\ block'[b] = x /\ \A a \in DOMAIN block \ {b} : block'[a] = block[a]
  BY <1>1, <1>2, <1>3
<1>5. S' = S /\ UNCHANGED <<maxSize, blocking, frontBlock, tailBlock, largestBlockSize, deq>>
  BY DEF S, fixed
<1>6. /\ \A a \in DOMAIN block : /\ block'[a].size = block[a].size /\ block'[a].front = block[a].front
                                 /\ block'[a].next = block[a].next /\ block'[a].data = block[a].data
                                 /\ block'[a].localFront = block[a].localFront
                                 /\ block'[a].localTail = block[a].localTail
      /\ \A a \in DOMAIN block \ {b} : block'[a].tail = block[a].tail
      /\ block'[b].tail = n
  BY <1>3, <1>4
<1>7. /\ In(b)' = In(b) + 1 /\ Thought(b)' = Thought(b) + 1 /\ At(b, In(b)) = block[b].tail
      /\ n < block[b].size
  <2> DEFINE c == block[b].size
             f == block[b].front
             t == block[b].tail
             lf == block[b].localFront
  <2>1. /\ c \in Nat /\ c >= 2 /\ f \in 0 .. c - 1 /\ t \in 0 .. c - 1 /\ lf \in 0 .. c - 1
        /\ n = Plus(t, 1, c)
        /\ In(b) = Dist(f, t, c) /\ Thought(b) = Dist(lf, t, c) /\ Dist(lf, t, c) < c - 1
        /\ Dist(f, t, c) < c - 1
    <3>1. In(b) = Dist(f, t, c) /\ Thought(b) = Dist(lf, t, c)
      BY DEF In, Thought
    <3>2. /\ c \in Nat /\ c >= 2 /\ In(b) \in 0 .. c - 1 /\ Thought(b) \in In(b) .. c - 1
          /\ f \in 0 .. c - 1 /\ t \in 0 .. c - 1 /\ lf \in 0 .. c - 1 /\ n = Plus(t, 1, c)
      BY BlockFacts DEF n
    <3> QED
      BY <3>1, <3>2
  <2>2. At(b, In(b)) = Plus(f, In(b), c)
    BY DEF At
  <2>3. In(b)' = Dist(f, n, c) /\ Thought(b)' = Dist(lf, n, c)
    BY <1>6 DEF In, Thought
  <2> HIDE DEF c, f, t, lf
  <2>4. n < c
    BY <2>1, TailMoves
  <2> QED
    BY <2>1, <2>4, <2>2, <2>3, TailMoves DEF c, t
<1>8. \A a \in DOMAIN block : /\ Seen(a)' = Seen(a)
                              /\ a # b => /\ In(a)' = In(a) /\ Thought(a)' = Thought(a)
                                          /\ Full(a)' <=> Full(a)
  BY <1>6 DEF In, Seen, Thought, Full
<1>9. \A a \in DOMAIN block : \A k : At(a, k)' = At(a, k)
  BY <1>6 DEF At
<1>10. BlocksInv'
  <2>1. ASSUME NEW a \in DOMAIN block PROVE BlockOK(a)'
    <3>1. BlockOK(a) /\ Seen(a) \in Nat /\ In(a) \in Nat /\ Thought(a) \in Nat
      BY BlockFacts DEF BlocksInv
    <3>2. CASE a = b
      <4>1. Seen(b)' <= In(b)' /\ In(b)' <= Thought(b)'
        BY <1>7, <1>8, <3>1, <3>2 DEF BlockOK
      <4>2. /\ block'[b].size = block[b].size /\ block'[b].front = block[b].front
            /\ block'[b].tail = n /\ block'[b].data = block[b].data
            /\ block'[b].localFront = block[b].localFront
            /\ block'[b].localTail = block[b].localTail
        BY <1>6
      <4>3. BlockOK(b)'
        BY <1>5, <1>7, <3>1, <3>2, <4>1, <4>2 DEF BlockOK
      <4> QED
        BY <3>2, <4>3
    <3>3. CASE a # b
      BY <1>5, <1>6, <1>8, <3>1, <3>3 DEF BlockOK
    <3> QED
      BY <3>2, <3>3
  <2> QED
    BY <1>4, <2>1 DEF BlocksInv
<1> QED
  BY <1>4, <1>5, <1>6, <1>7, <1>8, <1>9, <1>10 DEF SameData

\* A call is over with its element in place.
LEMMA AcceptedFields ==
  ASSUME NEW r, NEW p, NEW o, State(r, p, o), Accepted, pro.pc # "signal",
         UNCHANGED <<fixed, sema, con, deq>>
  PROVE  /\ pro' \in Locals(ProPCs) /\ pro'.pc \in {"idle", "signal"}
         /\ enq' \in Nat /\ enq' = enq + 1 /\ Size' = Size + 1 /\ SemaInv'
<1>1. enq \in Nat /\ deq \in Nat /\ sema \in Nat /\ SemaInv /\ enq' = enq + 1
  BY DEF State, TypeInv, Accepted
<1>2. Size' = Size + 1
  BY <1>1 DEF Size
<1>3. CASE blocking
  <2>1. pro' \in Locals(ProPCs) /\ pro'.pc = "signal"
    BY <1>3 DEF Accepted, Idle, Locals, ProPCs, Kinds
  <2>2. SemaInv'
    <3>1. Size \in Nat
      BY SizeFacts
    <3> QED
      BY <1>1, <1>2, <2>1, <3>1 DEF SemaInv, fixed, Sizing
  <2> QED
    BY <1>1, <1>2, <2>1, <2>2
<1>4. CASE ~ blocking
  <2>1. pro' = Idle
    BY <1>4 DEF Accepted
  <2> QED
    BY <1>1, <1>2, <1>4, <2>1, IdleType DEF SemaInv, fixed
<1> QED
  BY <1>3, <1>4

\* Into the tail block: the element is in the queue.
LEMMA StoreTailHere ==
  ASSUME NEW r, NEW p, NEW o, State(r, p, o), StoreTail, pro.b = tailBlock
  PROVE  Inv'
<1>1. /\ TypeInv /\ BlocksInv /\ Good(r, p, o) /\ RingInv(r, p) /\ OffsetInv(r, p, o)
      /\ DataInv(r, p, o, con.pc = "front") /\ FillInv(r, p, pro.pc = "tailBlock")
      /\ ProInv(r, p) /\ ConInv(r, p) /\ ConSizeInv(r, p, o) /\ CapacityInv /\ pro.pc = "tail"
  BY RingFacts DEF State, Good, StoreTail
<1>2. PICK t \in DOMAIN block : t = tailBlock /\ t = r[p]
  BY RingFacts
<1>3. Thought(t) < block[t].size - 1 /\ block[t].data[block[t].tail] = enq + 1
  BY <1>1, <1>2 DEF ProInv
<1>4. /\ block' = [block EXCEPT ![t].tail = NextTail(t)] /\ Accepted
      /\ UNCHANGED <<fixed, frontBlock, tailBlock, largestBlockSize, deq>> /\ UNCHANGED <<sema, con>>
  BY <1>2 DEF StoreTail
<1>5. /\ block' \in Seq(BlockType) /\ BlocksInv' /\ SameData
      /\ Len(block') = Len(block) /\ DOMAIN block' = DOMAIN block
      /\ \A a \in DOMAIN block : /\ block'[a].size = block[a].size
                                 /\ block'[a].front = block[a].front
                                 /\ block'[a].next = block[a].next
                                 /\ Seen(a)' = Seen(a)
                                 /\ In(a)' = IF a = t THEN In(t) + 1 ELSE In(a)
      /\ \A a \in DOMAIN block \ {t} : Full(a)' <=> Full(a)
      /\ \A a \in DOMAIN block : \A k : At(a, k)' = At(a, k)
      /\ At(t, In(t)) = block[t].tail
      /\ S' = S /\ UNCHANGED <<maxSize, blocking>>
  BY <1>1, <1>3, <1>4, TailStored
<1>6. /\ pro' \in Locals(ProPCs) /\ pro'.pc \in {"idle", "signal"}
      /\ enq' \in Nat /\ enq' = enq + 1 /\ Size' = Size + 1 /\ SemaInv'
  BY <1>1, <1>4, AcceptedFields
<1>7. PICK n : Ring(n, r, p)
  BY Positions
<1>8. /\ n \in Nat /\ n = Len(block) /\ p \in 1 .. n /\ p \in Nat /\ 1 \in 1 .. n
      /\ \A i \in 1 .. n : r[i] \in DOMAIN block
      /\ \A i \in 1 .. n : r[i] = t => i = p
  BY <1>2, <1>7 DEF Ring
<1>9. TypeInv'
  BY <1>1, <1>4, <1>5, <1>6 DEF TypeInv
<1>10. RingInv(r, p)' /\ CapacityInv'
  BY <1>4, <1>5, RingKept
<1>11. OffsetInv(r, p, o)'
  <2>1. enq' = o[r[p]] + In(r[p])'
    <3>1. o[r[p]] \in Nat /\ In(t) \in Nat /\ enq = o[r[p]] + In(t)
      BY <1>2, <1>8, SizeFacts
    <3> QED
      BY <1>2, <1>5, <1>6, <3>1
  <2>2. ASSUME NEW i \in 1 .. p - 1 PROVE o[r[i + 1]] = o[r[i]] + In(r[i])'
    <3>1. i \in 1 .. n /\ i # p
      BY <1>8
    <3> QED
      BY <1>1, <1>5, <1>8, <3>1 DEF OffsetInv
  <2> QED
    BY <1>1, <1>4, <1>5, <2>1, <2>2 DEF OffsetInv
<1>12. DataInv(r, p, o, con.pc = "front")'
  <2> SUFFICES ASSUME NEW i \in 1 .. p, NEW k \in 0 .. In(r[i])' - 1
               PROVE  \/ con.pc = "front" /\ i = 1 /\ k = 0
                      \/ block'[r[i]].data[At(r[i], k)'] = o[r[i]] + k + 1
    BY <1>4 DEF DataInv
  <2>1. i \in 1 .. n /\ r[i] \in DOMAIN block /\ In(r[i]) \in Nat
    BY <1>8, SizeFacts
  <2>2. block'[r[i]].data[At(r[i], k)'] = block[r[i]].data[At(r[i], k)]
    BY <1>5, <2>1 DEF SameData
  <2>3. CASE k \in 0 .. In(r[i]) - 1
    BY <1>1, <2>2, <2>3 DEF DataInv
  <2>4. CASE ~ k \in 0 .. In(r[i]) - 1
    <3>1. r[i] = t /\ k = In(t)
      BY <1>5, <2>1, <2>4
    <3>2. i = p /\ o[r[p]] \in Nat /\ enq = o[r[p]] + In(t)
      BY <1>2, <1>8, <2>1, <3>1, SizeFacts
    <3> QED
      BY <1>3, <1>5, <2>2, <3>1, <3>2
  <2> QED
    BY <2>3, <2>4
<1>13. FillInv(r, p, pro.pc = "tailBlock")'
  <2>1. \A i \in 2 .. p : In(r[i])' >= 1
    <3> SUFFICES ASSUME NEW i \in 2 .. p PROVE In(r[i])' >= 1
      OBVIOUS
    <3>1. i \in 1 .. n /\ r[i] \in DOMAIN block /\ In(r[i]) \in Nat /\ In(r[i]) >= 1
      BY <1>1, <1>8, SizeFacts DEF FillInv
    <3> QED
      BY <1>5, <3>1
  <2>2. \A i \in 2 .. p - 1 : Full(r[i])'
    <3> SUFFICES ASSUME NEW i \in 2 .. p - 1 PROVE Full(r[i])'
      OBVIOUS
    <3>1. i \in 1 .. n /\ r[i] \in DOMAIN block /\ r[i] # t /\ Full(r[i])
      BY <1>1, <1>8 DEF FillInv
    <3> QED
      BY <1>5, <3>1
  <2>3. \A i \in p + 1 .. n : In(r[i])' = 0
    <3> SUFFICES ASSUME NEW i \in p + 1 .. n PROVE In(r[i])' = 0
      OBVIOUS
    <3>1. i \in 1 .. n /\ r[i] \in DOMAIN block /\ r[i] # t /\ In(r[i]) = 0
      BY <1>1, <1>8 DEF FillInv
    <3> QED
      BY <1>5, <3>1
  <2> QED
    BY <1>5, <1>6, <1>8, <2>1, <2>2, <2>3 DEF FillInv
<1>14. ProInv(r, p)' /\ ProSizeInv(r, p, o)'
  BY <1>6 DEF ProInv, ProSizeInv, Sizing, Enqueuing
<1>15. ConInv(r, p)'
  <2>1. frontBlock = r[1] /\ frontBlock \in DOMAIN block /\ (p > 1 => r[1] # t /\ r[2] \in DOMAIN block)
    BY <1>8, RingFacts
  <2>2. PICK f : f = frontBlock
    OBVIOUS
  <2>3. /\ frontBlock' = f /\ (p > 1 => In(f)' = In(f)) /\ Seen(f)' = Seen(f)
    BY <1>4, <1>5, <2>1, <2>2
  <2>4. con.pc \in {"enter", "found", "front"} => con.b \in DOMAIN block
    BY <1>1, <2>1 DEF ConInv
  <2>5. con.start <= Size => con.start <= Size'
    BY <1>1, <1>6, SizeFacts, ConFields
  <2> QED
    BY <1>1, <1>4, <1>5, <2>1, <2>2, <2>3, <2>4, <2>5 DEF ConInv
<1>16. ConSizeInv(r, p, o)'
  <2>1. Size \in Nat
    BY SizeFacts
  <2>2. \A j : ConSum(r, p, o, j) => ConSum(r, p, o, j)'
    BY <1>1, <1>4, <1>6, <2>1, ConFields DEF ConSum
  <2> QED
    BY <1>1, <1>4, <1>5, <2>2 DEF ConSizeInv
<1> QED
  BY <1>5, <1>6, <1>9, <1>10, <1>11, <1>12, <1>13, <1>14, <1>15, <1>16
     DEF Inv, Good, RingInv, OffsetInv

\* Into the block ahead: the consumer does not see it yet.
LEMMA StoreTailAhead ==
  ASSUME NEW r, NEW p, NEW o, State(r, p, o), StoreTail, pro.b # tailBlock
  PROVE  Inv'
<1>1. /\ TypeInv /\ BlocksInv /\ Good(r, p, o) /\ RingInv(r, p) /\ OffsetInv(r, p, o)
      /\ DataInv(r, p, o, con.pc = "front") /\ FillInv(r, p, pro.pc = "tailBlock")
      /\ ProInv(r, p) /\ ConInv(r, p) /\ ConSizeInv(r, p, o) /\ CapacityInv /\ pro.pc = "tail"
      /\ SemaInv
  BY RingFacts DEF State, Good, StoreTail
<1>2. /\ p < Len(block) /\ pro.b = r[p + 1] /\ (tailBlock = frontBlock \/ Full(tailBlock))
      /\ Thought(pro.b) < block[pro.b].size - 1 /\ block[pro.b].data[block[pro.b].tail] = enq + 1
      /\ pro.start >= Size
  BY <1>1 DEF ProInv, Ahead, Enqueuing, ProPCs, Sizing
<1>3. PICK t \in DOMAIN block : t = pro.b /\ t = r[p + 1] /\ t # tailBlock
  BY <1>2, RingNext
<1>4. /\ block' = [block EXCEPT ![t].tail = NextTail(t)] /\ pro' = [pro EXCEPT !.pc = "tailBlock"]
      /\ UNCHANGED <<fixed, frontBlock, tailBlock, largestBlockSize, deq>>
      /\ UNCHANGED <<sema, con, enq>>
  BY <1>3 DEF StoreTail
<1>5. /\ block' \in Seq(BlockType) /\ BlocksInv' /\ SameData
      /\ Len(block') = Len(block) /\ DOMAIN block' = DOMAIN block
      /\ \A a \in DOMAIN block : /\ block'[a].size = block[a].size
                                 /\ block'[a].front = block[a].front
                                 /\ block'[a].next = block[a].next
                                 /\ Seen(a)' = Seen(a)
                                 /\ In(a)' = IF a = t THEN In(t) + 1 ELSE In(a)
      /\ \A a \in DOMAIN block \ {t} : Full(a)' <=> Full(a)
      /\ \A a \in DOMAIN block : \A k : At(a, k)' = At(a, k)
      /\ S' = S /\ UNCHANGED <<maxSize, blocking>>
  BY <1>1, <1>2, <1>3, <1>4, TailStored
<1>6. /\ pro' \in Locals(ProPCs) /\ pro'.pc = "tailBlock" /\ pro'.b = t
      /\ pro'.start = pro.start /\ Size' = Size
  BY <1>1, <1>3, <1>4, ProGoes, ProFields DEF ProPCs, Size
<1>7. PICK n \in Nat : /\ n = Len(block) /\ p \in 1 .. n /\ p \in Nat /\ p < n /\ 1 \in 1 .. n
                       /\ \A i \in 1 .. n : r[i] \in DOMAIN block
                       /\ \A i \in 1 .. n : r[i] = t => i = p + 1
  <2>1. \A i, j \in 1 .. Len(block) : r[i] = r[j] => i = j
    BY <1>1 DEF RingInv
  <2>2. /\ Len(block) \in Nat /\ p \in 1 .. Len(block) /\ p \in Nat /\ p < Len(block)
        /\ 1 \in 1 .. Len(block) /\ p + 1 \in 1 .. Len(block)
    BY <1>2, RingFacts
  <2>3. \A i \in 1 .. Len(block) : r[i] \in DOMAIN block
    BY RingFacts
  <2>4. \A i \in 1 .. Len(block) : r[i] = t => i = p + 1
    BY <1>3, <2>1, <2>2
  <2> QED
    BY <2>2, <2>3, <2>4
<1>8. TypeInv'
  BY <1>1, <1>4, <1>5, <1>6 DEF TypeInv
<1>9. RingInv(r, p)' /\ CapacityInv'
  BY <1>4, <1>5, RingKept
<1>10. \A i \in 1 .. p : i \in 1 .. n /\ r[i] \in DOMAIN block /\ r[i] # t /\ In(r[i])' = In(r[i])
  BY <1>5, <1>7
<1>11. OffsetInv(r, p, o)'
  <2>1. p \in 1 .. p /\ \A i \in 1 .. p - 1 : i \in 1 .. p
    BY <1>7
  <2> QED
    BY <1>1, <1>4, <1>5, <1>10, <2>1 DEF OffsetInv
<1>12. DataInv(r, p, o, con.pc = "front")'
  BY <1>1, <1>4, <1>5, <1>10 DEF DataInv, SameData
<1>13. FillInv(r, p, pro.pc = "tailBlock")'
  <2>1. \A i \in 2 .. p : In(r[i])' >= 1
    <3>1. \A i \in 2 .. p : i \in 1 .. p
      BY <1>7
    <3> QED
      BY <1>1, <1>10, <3>1 DEF FillInv
  <2>2. \A i \in 2 .. p - 1 : Full(r[i])'
    <3>1. \A i \in 2 .. p - 1 : i \in 1 .. p
      BY <1>7
    <3> QED
      BY <1>1, <1>5, <1>10, <3>1 DEF FillInv
  <2>3. \A i \in p + 1 .. n : In(r[i]) = 0
    BY <1>1, <1>7 DEF FillInv
  <2>4. \A i \in p + 1 .. n : i # p + 1 => In(r[i])' = 0
    <3> SUFFICES ASSUME NEW i \in p + 1 .. n, i # p + 1 PROVE In(r[i])' = 0
      OBVIOUS
    <3>1. i \in 1 .. n
      BY <1>7
    <3> QED
      BY <1>5, <1>7, <2>3, <3>1
  <2>5. In(r[p + 1])' = 1 /\ block'[r[p + 1]].data[block'[r[p + 1]].front] = enq' + 1
    <3>1. In(t) = 0
      BY <1>3, <1>7, <2>3
    <3>2. block[t].front = block[t].tail
      BY <1>1, <3>1, BlockFacts
    <3>3. block'[t].data = block[t].data /\ block'[t].front = block[t].tail /\ In(t)' = 1
      BY <1>5, <3>1, <3>2 DEF SameData
    <3> QED
      BY <1>2, <1>3, <1>4, <3>3
  <2> QED
    BY <1>5, <1>6, <1>7, <2>1, <2>2, <2>4, <2>5 DEF FillInv
<1>14. ProInv(r, p)'
  <2>1. Ahead(r, p)'
    BY <1>2, <1>3, <1>5, <1>6 DEF Ahead
  <2>2. tailBlock' = frontBlock' \/ Full(tailBlock)'
    <3>1. PICK u : u = tailBlock /\ u \in DOMAIN block
      BY RingFacts
    <3>2. tailBlock' = u /\ frontBlock' = frontBlock /\ (Full(u)' <=> Full(u))
      BY <1>3, <1>4, <1>5, <3>1
    <3> QED
      BY <1>2, <3>1, <3>2 DEF Full, In
  <2> QED
    BY <1>2, <1>6, <2>1, <2>2 DEF ProInv
<1>15. ConInv(r, p)'
  <2>1. /\ frontBlock = r[1] /\ frontBlock \in DOMAIN block /\ r[1] # t
        /\ (p > 1 => r[2] \in DOMAIN block)
    BY <1>7, RingFacts
  <2>2. PICK f : f = frontBlock
    OBVIOUS
  <2>3. /\ frontBlock' = f /\ In(f)' = In(f) /\ Seen(f)' = Seen(f)
    BY <1>4, <1>5, <2>1, <2>2
  <2>4. con.pc \in {"enter", "found", "front"} => con.b \in DOMAIN block
    BY <1>1, <2>1 DEF ConInv
  <2> QED
    BY <1>1, <1>4, <1>5, <1>6, <2>1, <2>2, <2>3, <2>4 DEF ConInv
<1>16. ConSizeInv(r, p, o)'
  <2>1. Size \in Nat
    BY SizeFacts
  <2>2. \A j : ConSum(r, p, o, j) => ConSum(r, p, o, j)'
    BY <1>1, <1>4, <1>6, <2>1, ConFields DEF ConSum
  <2> QED
    BY <1>1, <1>4, <1>5, <2>2 DEF ConSizeInv
<1>17. ProSizeInv(r, p, o)' /\ SemaInv'
  BY <1>1, <1>4, <1>5, <1>6 DEF ProSizeInv, Sizing, SemaInv
<1> QED
  BY <1>5, <1>8, <1>9, <1>11, <1>12, <1>13, <1>14, <1>15, <1>16, <1>17
     DEF Inv, Good, RingInv, OffsetInv

\* A block with its first element.
First(L, next, v) == [make_block(L, next) EXCEPT !.data[0] = v, !.tail = 1, !.localTail = 1]

\* The fields of the block that is linked in.
LEMMA FirstFields ==
  ASSUME NEW L \in Nat, L >= 2, NEW next \in Nat, NEW v \in Nat, NEW x, x = First(L, next, v)
  PROVE  /\ x.size = L /\ x.front = 0 /\ x.localTail = 1 /\ x.tail = 1 /\ x.localFront = 0
         /\ x.next = next /\ x.data \in [0 .. L - 1 -> Nat] /\ x.data[0] = v
         /\ x \in BlockType
<1> DEFINE R == make_block(L, next)
           e == [i \in 0 .. L - 1 |-> Nothing]
           d == [e EXCEPT ![0] = v]
           Data == UNION {[0 .. c - 1 -> Nat] : c \in Nat}
<1>1. 0 \in 0 .. L - 1 /\ e \in [0 .. L - 1 -> Nat] /\ e \in Data
  BY DEF Nothing
<1>2. d \in [0 .. L - 1 -> Nat] /\ d[0] = v
  BY <1>1
<1>3. d \in Data
  BY <1>2
<1> HIDE DEF Data, e
<1>4. /\ R \in [size : Nat, front : Nat, localTail : Nat, tail : Nat, localFront : Nat, next : Nat,
                data : Data]
      /\ R.size = L /\ R.front = 0 /\ R.localFront = 0 /\ R.next = next /\ R.data = e
  BY <1>1 DEF make_block, e
<1> HIDE DEF R
<1>5. x = [R EXCEPT !.data = d, !.tail = 1, !.localTail = 1]
  BY <1>4 DEF R, First
<1> HIDE DEF d
<1> DEFINE y == [R EXCEPT !.data = d]
           z == [y EXCEPT !.tail = 1]
           Rec == [size : Nat, front : Nat, localTail : Nat, tail : Nat, localFront : Nat,
                   next : Nat, data : Data]
<1>6. /\ y \in Rec /\ y.size = L /\ y.front = 0 /\ y.localFront = 0 /\ y.next = next
      /\ y.data = d
  BY <1>3, <1>4
<1>7. x = [z EXCEPT !.localTail = 1]
  BY <1>5
<1> HIDE DEF y
<1>8. /\ z \in Rec /\ z.size = L /\ z.front = 0 /\ z.localFront = 0 /\ z.next = next
      /\ z.data = d /\ z.tail = 1
  BY <1>6
<1> HIDE DEF z
<1>9. /\ x \in [size : Nat, front : Nat, localTail : Nat, tail : Nat, localFront : Nat, next : Nat,
                data : Data]
      /\ x.size = L /\ x.front = 0 /\ x.localTail = 1 /\ x.tail = 1 /\ x.localFront = 0
      /\ x.next = next /\ x.data = d
  BY <1>7, <1>8
<1> QED
  BY <1>2, <1>9 DEF BlockType, Data

\* The new block, and the ring with it behind the tail block.
LEMMA BlockAdded ==
  ASSUME NEW r, NEW p, NEW o, State(r, p, o), AddBlock, NEW n, Ring(n, r, p), NEW t, t = tailBlock
  PROVE  /\ Len(block') = n + 1 /\ DOMAIN block' = 1 .. n + 1 /\ block' \in Seq(BlockType)
         /\ BlocksInv' /\ largestBlockSize' \in Nat
         /\ \A a \in 1 .. n : /\ block'[a].size = block[a].size /\ block'[a].data = block[a].data
                              /\ block'[a].front = block[a].front
                              /\ block'[a].next = IF a = t THEN n + 1 ELSE block[a].next
                              /\ In(a)' = In(a) /\ Seen(a)' = Seen(a)
                              /\ (Full(a)' <=> Full(a))
         /\ \A a \in 1 .. n : \A k : At(a, k)' = At(a, k)
         /\ block'[n + 1].next = block[t].next /\ In(n + 1)' = 1
         /\ block'[n + 1].data[block'[n + 1].front] = enq + 1
<1>1. /\ n \in Nat /\ Len(block) = n /\ DOMAIN block = 1 .. n /\ t \in 1 .. n /\ n + 1 \notin 1 .. n
      /\ TypeInv /\ BlocksInv
  BY RingFacts DEF Ring
<1>2. block \in Seq(BlockType) /\ largestBlockSize \in Nat /\ enq \in Nat /\ MAX_BLOCK_SIZE \in Nat
  BY <1>1, ReaderWriterQueueAssumption DEF TypeInv
<1>3. PICK L : L = largestBlockSize'
  OBVIOUS
<1>4. S \in Nat /\ S >= 2 /\ S <= largestBlockSize
  <2>1. BlockOK(t) /\ block[t].size \in Nat
    BY <1>1, FieldTypes DEF BlocksInv
  <2> QED
    BY <1>1, <1>2, <2>1, SIs DEF BlockOK
<1>5. L \in Nat /\ L >= largestBlockSize /\ L >= S /\ L >= 2 /\ 0 \in 0 .. L - 1 /\ S' = S
  BY <1>2, <1>3, <1>4 DEF AddBlock, S, fixed
<1> DEFINE new == First(L, block[t].next, enq + 1)
           old == [block EXCEPT ![t].next = n + 1]
<1>6. block' = Append(old, new)
  BY <1>1, <1>3 DEF AddBlock, First
<1>7. /\ new.size = L /\ new.front = 0 /\ new.localTail = 1 /\ new.tail = 1 /\ new.localFront = 0
      /\ new.next = block[t].next /\ new \in BlockType
      /\ new.data \in [0 .. L - 1 -> Nat] /\ new.data[0] = enq + 1
  <2>1. block[t].next \in Nat /\ enq + 1 \in Nat
    BY <1>1, <1>2, FieldTypes
  <2>2. PICK nx, v, x : nx = block[t].next /\ v = enq + 1 /\ x = new
    OBVIOUS
  <2>3. x = First(L, nx, v) /\ L >= 2 /\ L \in Nat /\ nx \in Nat /\ v \in Nat
    BY <1>5, <2>1, <2>2
  <2>4. /\ x.size = L /\ x.front = 0 /\ x.localTail = 1 /\ x.tail = 1 /\ x.localFront = 0
        /\ x.next = nx /\ x \in BlockType
        /\ x.data \in [0 .. L - 1 -> Nat] /\ x.data[0] = v
    BY ONLY <2>3, FirstFields, SMTT(30)
  <2> QED
    BY <2>2, <2>4
<1> HIDE DEF new
<1>8. /\ old \in Seq(BlockType) /\ Len(old) = n /\ DOMAIN old = 1 .. n
      /\ \A a \in 1 .. n : /\ old[a].size = block[a].size /\ old[a].data = block[a].data
                           /\ old[a].front = block[a].front /\ old[a].tail = block[a].tail
                           /\ old[a].localFront = block[a].localFront
                           /\ old[a].localTail = block[a].localTail
                           /\ old[a].next = IF a = t THEN n + 1 ELSE block[a].next
  <2> DEFINE x == [block[t] EXCEPT !.next = n + 1]
  <2>1. /\ x \in BlockType /\ x.size = block[t].size /\ x.front = block[t].front
        /\ x.tail = block[t].tail /\ x.next = n + 1 /\ x.data = block[t].data
        /\ x.localFront = block[t].localFront /\ x.localTail = block[t].localTail
    <3>1. n + 1 \in Nat /\ block[t] \in BlockType
      BY <1>1, FieldTypes
    <3> QED
      BY <3>1 DEF BlockType
  <2>2. old = [block EXCEPT ![t] = x]
    OBVIOUS
  <2> HIDE DEF x, old
  <2>3. /\ old \in Seq(BlockType) /\ Len(old) = n /\ DOMAIN old = 1 .. n
        /\ old[t] = x /\ \A a \in (1 .. n) \ {t} : old[a] = block[a]
    BY <1>1, <1>2, <2>1, <2>2
  <2> QED
    BY <2>1, <2>3
<1> HIDE DEF old
<1>9. /\ block' \in Seq(BlockType) /\ Len(block') = n + 1 /\ DOMAIN block' = 1 .. n + 1
      /\ block'[n + 1] = new /\ \A a \in 1 .. n : block'[a] = old[a]
  <2>1. /\ old \in Seq(BlockType) /\ Len(old) = n /\ new \in BlockType
    BY <1>7, <1>8
  <2> QED
    BY <1>1, <1>6, <2>1
<1>10. /\ \A a \in 1 .. n : /\ In(a)' = In(a) /\ Seen(a)' = Seen(a) /\ Thought(a)' = Thought(a)
                            /\ (Full(a)' <=> Full(a))
       /\ \A a \in 1 .. n : \A k : At(a, k)' = At(a, k)
  BY <1>8, <1>9 DEF In, Seen, Thought, Full, At
<1>11. PICK m : m = n + 1
  OBVIOUS
<1>12. In(m)' = 1 /\ Seen(m)' = 1 /\ Thought(m)' = 1
  <2>1. Dist(0, 1, L) = 1
    BY <1>5 DEF Dist
  <2> QED
    BY <1>7, <1>9, <1>11, <2>1 DEF In, Seen, Thought
<1>13. BlocksInv'
  <2>1. ASSUME NEW a \in 1 .. n PROVE BlockOK(a)'
    <3>1. BlockOK(a) /\ block[a].size \in Nat
      BY <1>1, FieldTypes DEF BlocksInv
    <3>2. block[a].size <= L
      BY <1>2, <1>5, <3>1 DEF BlockOK
    <3> QED
      BY <1>3, <1>5, <1>8, <1>9, <1>10, <3>1, <3>2, SMTT(30) DEF BlockOK
  <2>2. BlockOK(m)'
    <3>1. /\ block'[m].size = L /\ block'[m].front = 0 /\ block'[m].tail = 1
          /\ block'[m].localFront = 0 /\ block'[m].localTail = 1
          /\ block'[m].data \in [0 .. L - 1 -> Nat]
      BY <1>7, <1>9, <1>11
    <3>2. S <= L /\ L <= L /\ 0 < L /\ 1 < L /\ 1 <= 1
      BY <1>4, <1>5
    <3> QED
      BY <1>3, <1>5, <1>12, <3>1, <3>2 DEF BlockOK
  <2>3. \A a \in 1 .. n + 1 : a \in 1 .. n \/ a = m
    BY <1>1, <1>11
  <2> QED
    BY <1>9, <2>1, <2>2, <2>3 DEF BlocksInv
<1>14. /\ block'[n + 1].next = block[t].next
       /\ block'[n + 1].data[block'[n + 1].front] = enq + 1
  BY <1>7, <1>9
<1> QED
  BY <1>3, <1>5, <1>8, <1>9, <1>10, <1>11, <1>12, <1>13, <1>14


\* The invariant's ring, as one of links,
LEMMA RingCycle ==
  ASSUME NEW n, NEW r, NEW p, Ring(n, r, p)
  PROVE  Cycle(r, n, [b \in 1 .. n |-> block[b].next])
<1>1. /\ n \in Nat /\ r \in [1 .. n -> 1 .. n] /\ \A i \in 1 .. n : r[i] \in 1 .. n
      /\ \A i \in 1 .. n : block[r[i]].next = IF i = n THEN r[1] ELSE r[i + 1]
  BY DEF Ring
<1>2. \A i, j \in 1 .. n : r[i] = r[j] => i = j
  BY DEF Ring
<1>3. \A b \in 1 .. n : \E i \in 1 .. n : r[i] = b
  BY DEF Ring
<1>4. \A i \in 1 .. n : [b \in 1 .. n |-> block[b].next][r[i]] = IF i = n THEN r[1] ELSE r[i + 1]
  BY <1>1
<1> QED
  BY <1>1, <1>2, <1>3, <1>4 DEF Cycle

\* and back.
LEMMA CycleRing ==
  ASSUME NEW n \in Nat, NEW r, NEW p \in 1 .. n, NEW next, Cycle(r, n, next),
         Len(block') = n, DOMAIN block' = 1 .. n, \A b \in 1 .. n : block'[b].next = next[b],
         frontBlock' = r[1], tailBlock' = r[p]
  PROVE  RingInv(r, p)'
<1>1. r \in [1 .. n -> 1 .. n] /\ \A i \in 1 .. n : r[i] \in 1 .. n
  BY DEF Cycle
<1>2. \A i, j \in 1 .. n : r[i] = r[j] => i = j
  BY DEF Cycle
<1>3. \A b \in 1 .. n : \E i \in 1 .. n : r[i] = b
  BY DEF Cycle
<1>4. \A i \in 1 .. n : block'[r[i]].next = IF i = n THEN r[1] ELSE r[i + 1]
  BY <1>1 DEF Cycle
<1> QED
  BY <1>1, <1>2, <1>3, <1>4 DEF RingInv

\* The new block is behind the tail block and before the free ones.
LEMMA AddBlockStep ==
  ASSUME NEW r, NEW p, NEW o, State(r, p, o), AddBlock
  PROVE  Inv'
<1>1. PICK n : Ring(n, r, p)
  BY Positions
<1>2. /\ n \in Nat /\ Len(block) = n /\ n >= 1 /\ DOMAIN block = 1 .. n
      /\ p \in 1 .. n /\ p \in Nat /\ p >= 1 /\ p <= n
      /\ \A i \in 1 .. n : r[i] \in 1 .. n
      /\ frontBlock = r[1] /\ tailBlock = r[p] /\ r \in [1 .. n -> 1 .. n]
  BY <1>1 DEF Ring
<1>3. PICK m \in Nat : m = n + 1 /\ m \notin 1 .. n
  BY <1>2
<1>4. PICK t \in 1 .. n : t = tailBlock /\ t = r[p]
  BY <1>2
<1>5. /\ Len(block') = m /\ DOMAIN block' = 1 .. m /\ block' \in Seq(BlockType)
      /\ BlocksInv' /\ largestBlockSize' \in Nat
      /\ \A a \in 1 .. n : /\ block'[a].size = block[a].size /\ block'[a].data = block[a].data
                           /\ block'[a].front = block[a].front
                           /\ block'[a].next = IF a = t THEN m ELSE block[a].next
                           /\ In(a)' = In(a) /\ Seen(a)' = Seen(a)
                           /\ (Full(a)' <=> Full(a))
      /\ \A a \in 1 .. n : \A k : At(a, k)' = At(a, k)
      /\ block'[m].next = block[t].next
      /\ block'[m].data[block'[m].front] = enq + 1
  BY <1>1, <1>3, <1>4, BlockAdded
<1>6. In(m)' = 1
  BY <1>1, <1>3, <1>4, BlockAdded
<1>7. /\ TypeInv /\ OffsetInv(r, p, o) /\ DataInv(r, p, o, con.pc = "front")
      /\ FillInv(r, p, pro.pc = "tailBlock") /\ ProInv(r, p) /\ ConInv(r, p) /\ ConSizeInv(r, p, o)
      /\ CapacityInv /\ SemaInv /\ pro.pc = "alloc"
  BY DEF State, Good, AddBlock
<1>8. /\ pro' = [pro EXCEPT !.pc = "tailBlock", !.b = m]
      /\ UNCHANGED <<fixed, frontBlock, tailBlock, sema, con, enq, deq>>
      /\ UNCHANGED <<maxSize, blocking>> /\ S' = S /\ Size' = Size
  BY <1>2, <1>3 DEF AddBlock, S, fixed, Size
<1>9. /\ pro' \in Locals(ProPCs) /\ pro'.pc = "tailBlock" /\ pro'.b = m /\ pro'.start = pro.start
  BY <1>3, <1>7, <1>8, ProGoes DEF ProPCs
<1>10. PICK q : q = Inserted(r, n, p)
  OBVIOUS
<1>11. n \in Nat /\ p \in 1 .. n /\ r \in [1 .. n -> 1 .. n]
  BY <1>2
<1>12. \A i \in 1 .. p : i \in 1 .. n /\ i \in 1 .. m /\ q[i] = r[i] /\ r[i] \in 1 .. n
  <2>1. \A i \in 1 .. p : i \in 1 .. n /\ i \in 1 .. n + 1 /\ Inserted(r, n, p)[i] = r[i]
    BY <1>11, InsertedAt
  <2>2. m = n + 1
    BY <1>3
  <2> QED
    BY <1>2, <1>10, <2>1, <2>2
<1>13. q[p + 1] = m /\ p + 1 \in 1 .. m
  BY <1>11, <1>3, <1>10, InsertedAt
<1>14. \A i \in p + 1 .. n : i \in 1 .. n /\ i + 1 \in 1 .. m /\ q[i + 1] = r[i] /\ r[i] \in 1 .. n
  <2>1. \A i \in p + 1 .. n : /\ i \in 1 .. n /\ i + 1 \in 1 .. n + 1
                              /\ Inserted(r, n, p)[i + 1] = r[i]
    BY <1>11, InsertedAt
  <2>2. m = n + 1
    BY <1>3
  <2> QED
    BY <1>2, <1>10, <2>1, <2>2
<1>15. \A i \in 1 .. m : i \in 1 .. p \/ i = p + 1 \/ \E j \in p + 1 .. n : i = j + 1
  BY <1>2, <1>3, InsertedAt
<1>16. 1 \in 1 .. p /\ p \in 1 .. p /\ p \in 1 .. m /\ q[1] = r[1] /\ q[p] = r[p]
  BY <1>2, <1>3, <1>12, SMTT(30)
<1>17. RingInv(q, p)'
  <2>1. PICK next : next = [b \in 1 .. n |-> block[b].next]
    OBVIOUS
  <2>2. PICK new : new = [b \in 1 .. m |-> block'[b].next]
    OBVIOUS
  <2>3. \A b \in 1 .. n : b \in 1 .. m
    BY <1>2, <1>3
  <2>4. \A b \in 1 .. n : new[b] = IF b = r[p] THEN n + 1 ELSE next[b]
    BY <1>3, <1>4, <1>5, <2>1, <2>2, <2>3
  <2>5. new[n + 1] = next[r[p]]
    <3>1. m \in 1 .. m
      BY <1>2, <1>3
    <3> QED
      BY <1>3, <1>4, <1>5, <2>1, <2>2, <3>1
  <2>6. Cycle(r, n, next)
    BY <1>1, <2>1, RingCycle
  <2>7. Cycle(q, m, new)
    BY <1>2, <1>3, <1>10, <2>4, <2>5, <2>6, Insertion
  <2>8. \A b \in 1 .. m : block'[b].next = new[b]
    BY <2>2
  <2> QED
    BY <1>2, <1>5, <1>8, <1>16, <2>7, <2>8, CycleRing
<1>18. PICK u : u = [b \in 1 .. m |-> IF b = m THEN 0 ELSE o[b]]
  OBVIOUS
<1>19. u \in [1 .. m -> Nat] /\ \A b \in 1 .. n : u[b] = o[b]
  <2>1. o \in [1 .. n -> Nat]
    BY <1>2, <1>7 DEF OffsetInv
  <2>2. \A b \in 1 .. m : b # m => b \in 1 .. n
    BY <1>2, <1>3
  <2>3. \A b \in 1 .. n : b # m /\ b \in 1 .. m
    BY <1>2, <1>3
  <2> QED
    BY <1>18, <2>1, <2>2, <2>3
<1>20. \A i \in 1 .. p : u[q[i]] = o[r[i]] /\ In(q[i])' = In(r[i])
  <2> SUFFICES ASSUME NEW i \in 1 .. p PROVE u[q[i]] = o[r[i]] /\ In(q[i])' = In(r[i])
    OBVIOUS
  <2>1. q[i] = r[i] /\ r[i] \in 1 .. n
    BY <1>12
  <2>2. In(r[i])' = In(r[i])
    BY <1>5, <2>1
  <2> QED
    BY <1>19, <2>1, <2>2
<1>21. OffsetInv(q, p, u)'
  <2>1. \A i \in 1 .. p - 1 : i \in 1 .. p /\ i + 1 \in 1 .. p
    BY <1>2
  <2>2. \A i \in 2 .. p : i \in 1 .. p
    BY <1>2
  <2>3. u[q[1]] = deq' /\ enq' = u[q[p]] + In(q[p])'
    BY <1>7, <1>8, <1>16, <1>20 DEF OffsetInv
  <2>4. \A i \in 1 .. p - 1 : u[q[i + 1]] = u[q[i]] + In(q[i])'
    BY <1>7, <1>20, <2>1 DEF OffsetInv
  <2>5. \A i, j \in 1 .. p : i <= j => u[q[i]] <= u[q[j]]
    BY <1>7, <1>20 DEF OffsetInv
  <2>6. \A i, j \in 2 .. p : i <= j => u[q[i]] + (j - i) * (S' - 1) <= u[q[j]]
    BY <1>7, <1>8, <1>20, <2>2 DEF OffsetInv
  <2> QED
    BY <1>5, <1>19, <2>3, <2>4, <2>5, <2>6 DEF OffsetInv
<1>22. DataInv(q, p, u, con.pc = "front")'
  <2> SUFFICES ASSUME NEW i \in 1 .. p, NEW k \in 0 .. In(q[i])' - 1
               PROVE  \/ con.pc = "front" /\ i = 1 /\ k = 0
                      \/ block'[q[i]].data[At(q[i], k)'] = u[q[i]] + k + 1
    BY <1>8 DEF DataInv
  <2>1. q[i] = r[i] /\ r[i] \in 1 .. n /\ k \in 0 .. In(r[i]) - 1
    BY <1>12, <1>20
  <2>2. block'[r[i]].data[At(r[i], k)'] = block[r[i]].data[At(r[i], k)]
    BY <1>5, <2>1
  <2> QED
    BY <1>7, <1>20, <2>1, <2>2 DEF DataInv
<1>23. FillInv(q, p, pro.pc = "tailBlock")'
  <2>1. \A i \in 2 .. p : In(q[i])' >= 1
    <3>1. \A i \in 2 .. p : i \in 1 .. p
      BY <1>2
    <3> QED
      BY <1>7, <1>20, <3>1 DEF FillInv
  <2>2. ASSUME NEW i \in 2 .. p - 1 PROVE Full(q[i])'
    <3>1. i \in 1 .. p
      BY <1>2
    <3>2. q[i] = r[i] /\ r[i] \in 1 .. n /\ Full(r[i])
      BY <1>7, <1>12, <3>1 DEF FillInv
    <3> QED
      BY <1>5, <3>2
  <2>3. In(q[p + 1])' = 1 /\ block'[q[p + 1]].data[block'[q[p + 1]].front] = enq' + 1
    BY <1>5, <1>6, <1>8, <1>13
  <2>4. ASSUME NEW i \in p + 1 .. m, i # p + 1 PROVE In(q[i])' = 0
    <3>1. PICK j \in p + 1 .. n : i = j + 1
      <4>1. i \in 1 .. m /\ i \notin 1 .. p
        BY <1>2, <1>3, <2>4
      <4> QED
        BY <1>15, <2>4, <4>1
    <3>2. q[i] = r[j] /\ r[j] \in 1 .. n
      BY <1>14, <3>1
    <3>3. In(r[j]) = 0
      BY <1>2, <1>7 DEF FillInv
    <3>4. In(r[j])' = In(r[j])
      BY <1>5, <3>2
    <3> QED
      BY <3>2, <3>3, <3>4
  <2> QED
    BY <1>5, <1>9, <2>1, <2>2, <2>3, <2>4 DEF FillInv
<1>24. ProInv(q, p)' /\ ProSizeInv(q, p, u)'
  <2>1. pro.start >= Size /\ (tailBlock = frontBlock \/ Full(tailBlock))
    BY <1>7 DEF ProInv, Enqueuing, ProPCs, Sizing
  <2>2. p < Len(block')
    BY <1>2, <1>3, <1>5
  <2>3. tailBlock' = frontBlock' \/ Full(tailBlock)'
    <3>1. Full(t)' <=> Full(t)
      BY <1>5
    <3>2. Full(tailBlock)' <=> Full(t)'
      BY <1>4, <1>8 DEF Full, In
    <3> QED
      BY <1>4, <1>8, <2>1, <3>1, <3>2
  <2> QED
    BY <1>8, <1>9, <1>13, <2>1, <2>2, <2>3 DEF ProInv, Ahead, ProSizeInv, Sizing
<1>25. ConInv(q, p)'
  <2>1. p > 1 => 2 \in 1 .. p
    BY <1>2
  <2>2. p > 1 => q[2] = r[2] /\ r[2] \in 1 .. n
    BY <1>12, <2>1
  <2>3. PICK f \in 1 .. n : f = frontBlock
    BY <1>2
  <2>4. frontBlock' = f /\ In(f)' = In(f) /\ Seen(f)' = Seen(f)
    BY <1>5, <1>8, <2>3
  <2>5. con.pc \in {"enter", "found", "front"} => con.b \in 1 .. n
    BY <1>7, <2>2, <2>3 DEF ConInv
  <2> QED
    BY <1>5, <1>7, <1>8, <2>2, <2>3, <2>4, <2>5 DEF ConInv
<1>26. ConSizeInv(q, p, u)'
  <2>1. Size \in Nat /\ con.start \in Nat /\ con.sum \in Nat
    BY <1>7, SizeFacts, ConFields
  <2>2. ASSUME NEW j \in 1 .. p, ConSum(r, p, o, j) PROVE ConSum(q, p, u, j)'
    BY <1>2, <1>8, <1>20, <2>2 DEF ConSum
  <2>3. ASSUME NEW j \in Nat, NEW k \in Nat, j > p, k > p, ConSum(r, p, o, j)
        PROVE  ConSum(q, p, u, k)'
    <3>1. con.start <= con.sum /\ con.sum <= Size
      BY <1>2, <1>7, <2>1, <2>3 DEF ConSum
    <3>2. ~ (k <= p)
      BY <1>2, <2>3
    <3>3. con.sum <= Size + 1 /\ con.sum <= Size + 0
      BY <2>1, <3>1
    <3> QED
      BY <1>8, <3>1, <3>2, <3>3 DEF ConSum
  <2> SUFFICES ASSUME con.pc \in Sizing PROVE ConSizeInv(q, p, u)'
    BY <1>8 DEF ConSizeInv
  <2>4. con.first = frontBlock
    BY <1>7 DEF ConSizeInv
  <2>5. CASE con.pc = "sized"
    <3>1. ConSum(r, p, o, n + 1)
      BY <1>2, <1>7, <2>5 DEF ConSizeInv
    <3>2. n + 1 \in Nat /\ n + 1 > p /\ m + 1 \in Nat /\ m + 1 > p
      BY <1>2, <1>3
    <3>3. ConSum(q, p, u, m + 1)'
      BY <2>3, <3>1, <3>2
    <3> QED
      BY <1>5, <1>8, <2>4, <2>5, <3>3 DEF ConSizeInv
  <2>6. CASE con.pc = "size"
    <3>1. PICK i \in 1 .. n : con.b = r[i] /\ ConSum(r, p, o, i)
      BY <1>2, <1>7, <2>6 DEF ConSizeInv, Sizing
    <3>2. CASE i \in 1 .. p
      <4>1. i \in 1 .. m /\ con.b = q[i] /\ ConSum(q, p, u, i)'
        BY <1>12, <2>2, <3>1, <3>2
      <4> QED
        BY <1>5, <1>8, <2>4, <2>6, <4>1 DEF ConSizeInv
    <3>3. CASE i \in p + 1 .. n
      <4>1. i + 1 \in 1 .. m /\ con.b = q[i + 1]
        BY <1>14, <3>1, <3>3
      <4>2. i \in Nat /\ i > p /\ i + 1 \in Nat /\ i + 1 > p
        BY <1>2, <3>3
      <4>3. ConSum(q, p, u, i + 1)'
        BY <2>3, <3>1, <4>2
      <4> QED
        BY <1>5, <1>8, <2>4, <2>6, <4>1, <4>3 DEF ConSizeInv
    <3> QED
      BY <1>2, <3>2, <3>3
  <2>7. CASE con.pc = "sizeNext"
    <3>1. PICK i \in 1 .. n : con.b = r[i] /\ ConSum(r, p, o, i + 1)
      BY <1>2, <1>7, <2>7 DEF ConSizeInv, Sizing
    <3>2. CASE i \in 1 .. p
      <4>1. i \in 1 .. m /\ con.b = q[i]
        BY <1>12, <3>1, <3>2
      <4>2. i + 1 \in Nat /\ (i + 1 \in 1 .. p \/ i + 1 > p)
        BY <1>2, <3>2
      <4>3. ConSum(q, p, u, i + 1)'
        BY <2>2, <2>3, <3>1, <4>2
      <4> QED
        BY <1>5, <1>8, <2>4, <2>7, <4>1, <4>3 DEF ConSizeInv
    <3>3. CASE i \in p + 1 .. n
      <4>1. i + 1 \in 1 .. m /\ con.b = q[i + 1]
        BY <1>14, <3>1, <3>3
      <4>2. i + 1 \in Nat /\ i + 1 > p /\ i + 1 + 1 \in Nat /\ i + 1 + 1 > p
        BY <1>2, <3>3
      <4>3. ConSum(q, p, u, i + 1 + 1)'
        BY <2>3, <3>1, <4>2
      <4> QED
        BY <1>5, <1>8, <2>4, <2>7, <4>1, <4>3 DEF ConSizeInv
    <3> QED
      BY <1>2, <3>2, <3>3
  <2> QED
    BY <2>5, <2>6, <2>7 DEF Sizing
<1>27. CapacityInv'
  <2>1. S \in Nat /\ S >= 2 /\ maxSize \in Nat
    BY <1>7, SIs
  <2>2. m # 1 /\ m - 1 = n
    BY <1>2, <1>3
  <2>3. maxSize <= n * (S - 1)
    <3>1. CASE n = 1
      BY <1>2, <1>7, <2>1, <3>1 DEF CapacityInv
    <3>2. CASE n # 1
      <4>1. maxSize <= (n - 1) * (S - 1)
        BY <1>2, <1>7, <3>2 DEF CapacityInv
      <4>2. n * (S - 1) = (n - 1) * (S - 1) + (S - 1) /\ (n - 1) * (S - 1) \in Int
        BY <1>2, <2>1
      <4> QED
        BY <2>1, <4>1, <4>2
    <3> QED
      BY <3>1, <3>2
  <2> QED
    BY <1>5, <1>8, <2>2, <2>3 DEF CapacityInv
<1>28. TypeInv' /\ SemaInv'
  BY <1>5, <1>7, <1>8, <1>9 DEF TypeInv, SemaInv, Sizing
<1> QED
  BY <1>2, <1>3, <1>5, <1>16, <1>17, <1>19, <1>21, <1>22, <1>23, <1>24, <1>25, <1>26, <1>27, <1>28
     DEF Inv, Good, RingInv

\* The block ahead, with its element, becomes the tail block.
LEMMA StoreTailBlockStep ==
  ASSUME NEW r, NEW p, NEW o, State(r, p, o), StoreTailBlock
  PROVE  Inv'
<1>1. /\ TypeInv /\ BlocksInv /\ OffsetInv(r, p, o) /\ DataInv(r, p, o, con.pc = "front")
      /\ FillInv(r, p, pro.pc = "tailBlock") /\ ProInv(r, p) /\ ConInv(r, p) /\ ConSizeInv(r, p, o)
      /\ CapacityInv /\ pro.pc = "tailBlock"
  BY DEF State, Good, StoreTailBlock
<1>2. p < Len(block) /\ pro.b = r[p + 1] /\ (tailBlock = frontBlock \/ Full(tailBlock))
  BY <1>1 DEF ProInv, Ahead
<1>3. PICK n : Ring(n, r, p)
  BY Positions
<1>4. /\ n \in Nat /\ Len(block) = n /\ n >= 1 /\ DOMAIN block = 1 .. n
      /\ p \in 1 .. n /\ p \in Nat /\ p >= 1 /\ p < n
      /\ \A i \in 1 .. n : r[i] \in 1 .. n
      /\ frontBlock = r[1] /\ tailBlock = r[p] /\ r \in [1 .. n -> 1 .. n]
  BY <1>2, <1>3 DEF Ring
<1>5. \A i, j \in 1 .. n : r[i] = r[j] => i = j
  BY <1>3 DEF Ring
<1>6. PICK z \in Nat : z = p + 1
  BY <1>4
<1>7. z \in 1 .. n /\ z > p /\ z >= 2 /\ \A i \in 1 .. z : i \in 1 .. p \/ i = z
  BY <1>4, <1>6
<1>8. PICK t \in 1 .. n : t = r[z] /\ t = pro.b
  BY <1>2, <1>4, <1>6, <1>7
<1>9. /\ tailBlock' = t /\ Accepted
      /\ UNCHANGED <<fixed, block, frontBlock, largestBlockSize, sema, con, deq>>
      /\ UNCHANGED <<maxSize, blocking, sema, con>> /\ S' = S
  BY <1>8 DEF StoreTailBlock, fixed, S
<1>10. /\ pro' \in Locals(ProPCs) /\ pro'.pc \in {"idle", "signal"}
       /\ enq' \in Nat /\ enq' = enq + 1 /\ Size' = Size + 1 /\ SemaInv'
  BY <1>1, <1>9, AcceptedFields
<1>11. /\ \A a : In(a)' = In(a) /\ Seen(a)' = Seen(a) /\ (Full(a)' <=> Full(a))
       /\ \A a, k : At(a, k)' = At(a, k)
  BY <1>9 DEF In, Seen, Full, At
<1>12. TypeInv' /\ CapacityInv'
  BY <1>1, <1>9, <1>10 DEF TypeInv, CapacityInv
<1>13. BlocksInv'
  <2>1. \A a : Thought(a)' = Thought(a)
    BY <1>9 DEF Thought
  <2> QED
    BY <1>1, <1>9, <1>11, <2>1 DEF BlocksInv, BlockOK
<1>14. RingInv(r, z)'
  <2>1. RingInv(r, p)
    BY DEF State, Good
  <2>2. z \in 1 .. Len(block) /\ block' = block /\ tailBlock' = r[z] /\ frontBlock' = frontBlock
    BY <1>4, <1>7, <1>8, <1>9
  <2> QED
    BY <2>1, <2>2 DEF RingInv
<1>15. In(t) = 1 /\ block[t].data[block[t].front] = enq + 1
  <2>1. p + 1 \in p + 1 .. Len(block)
    BY <1>4
  <2> QED
    BY <1>1, <1>6, <1>8, <2>1 DEF FillInv
<1>16. PICK u : u = [o EXCEPT ![t] = enq]
  OBVIOUS
<1>17. u \in [1 .. n -> Nat] /\ u[t] = enq /\ \A i \in 1 .. p : i \in 1 .. n /\ u[r[i]] = o[r[i]]
  <2>1. o \in [1 .. n -> Nat] /\ enq \in Nat
    BY <1>1, <1>4 DEF OffsetInv, TypeInv
  <2>2. \A i \in 1 .. p : i \in 1 .. n /\ i # z
    BY <1>4, <1>7, SMTT(30)
  <2>3. \A i \in 1 .. p : i \in 1 .. n /\ r[i] # t /\ r[i] \in 1 .. n
    BY <1>4, <1>5, <1>7, <1>8, <2>2
  <2> QED
    BY <1>16, <2>1, <2>3
<1>18. /\ enq \in Nat /\ deq \in Nat /\ \A i \in 1 .. p : o[r[i]] \in Nat /\ o[r[i]] <= enq
       /\ o[r[1]] = deq /\ enq = o[r[p]] + In(r[p]) /\ In(r[p]) \in Nat
  BY <1>4, SizeFacts
<1>19. 1 \in 1 .. p /\ p \in 1 .. p
  BY <1>4
<1>20. u[r[z]] = enq /\ enq <= enq /\ enq + 0 <= enq
  <2>1. enq \in Nat
    BY <1>18
  <2>2. u[r[z]] = enq
    BY <1>8, <1>17
  <2> QED
    BY <2>1, <2>2
<1>21. OffsetInv(r, z, u)'
  <2>1. u[r[1]] = deq' /\ enq' = u[r[z]] + In(r[z])'
    BY <1>8, <1>9, <1>10, <1>11, <1>15, <1>17, <1>18, <1>19
  <2>2. ASSUME NEW i \in 1 .. z - 1 PROVE u[r[i + 1]] = u[r[i]] + In(r[i])'
    <3>1. CASE i = p
      BY <1>6, <1>8, <1>11, <1>17, <1>18, <1>19, <3>1
    <3>2. CASE i # p
      <4>1. i \in 1 .. p - 1 /\ i \in 1 .. p /\ i + 1 \in 1 .. p
        BY <1>4, <1>6, <3>2
      <4> QED
        BY <1>1, <1>11, <1>17, <4>1 DEF OffsetInv
    <3> QED
      BY <3>1, <3>2
  <2>3. ASSUME NEW i \in 1 .. z, NEW j \in 1 .. z, i <= j PROVE u[r[i]] <= u[r[j]]
    <3>1. CASE j = z
      <4>1. u[r[j]] = enq
        BY <1>8, <1>17, <3>1
      <4>2. CASE i = z
        <5>1. u[r[i]] = enq /\ enq <= enq
          BY <1>20, <4>2
        <5> QED
          BY <4>1, <5>1
      <4>3. CASE i \in 1 .. p
        BY <1>17, <1>18, <4>1, <4>3
      <4> QED
        BY <1>7, <4>2, <4>3
    <3>2. CASE j # z
      <4>1. j \in 1 .. p /\ i \in 1 .. p
        BY <1>4, <1>6, <2>3, <3>2
      <4> QED
        BY <1>1, <1>17, <2>3, <4>1 DEF OffsetInv
    <3> QED
      BY <3>1, <3>2
  <2>4. ASSUME NEW i \in 2 .. z, NEW j \in 2 .. z, i <= j
        PROVE  u[r[i]] + (j - i) * (S' - 1) <= u[r[j]]
    <3>1. S \in Nat /\ S >= 2
      BY <1>1, SIs
    <3>2. CASE j # z
      <4>1. j \in 2 .. p /\ i \in 2 .. p /\ j \in 1 .. p /\ i \in 1 .. p
        BY <1>4, <1>6, <2>4, <3>2
      <4> QED
        BY <1>1, <1>9, <1>17, <2>4, <4>1 DEF OffsetInv
    <3>3. CASE i = z
      <4>1. j = z /\ (j - i) * (S - 1) = 0
        BY <2>4, <3>1, <3>3
      <4>2. u[r[i]] = enq /\ u[r[j]] = enq /\ enq + 0 <= enq
        BY <1>20, <3>3, <4>1
      <4> QED
        BY <1>9, <4>1, <4>2
    <3>4. CASE j = z /\ i # z
      <4>1. i \in 2 .. p /\ p \in 2 .. p /\ i \in 1 .. p /\ i <= p /\ p # 1
        BY <1>4, <1>6, <3>4
      <4>2. o[r[i]] + (p - i) * (S - 1) <= o[r[p]]
        BY <1>1, <4>1 DEF OffsetInv
      <4>3. In(r[p]) >= S - 1
        <5>1. r[p] # r[1]
          BY <1>4, <1>5, <4>1
        <5>2. Full(r[p]) /\ r[p] \in DOMAIN block
          BY <1>2, <1>4, <5>1
        <5> QED
          BY <1>1, <3>1, <5>2, BlockFacts DEF Full
      <4>4. PICK x \in Int : x = (p - i) * (S - 1)
        BY <1>4, <3>1, <4>1
      <4>5. (j - i) * (S - 1) = x + (S - 1)
        BY <1>4, <1>6, <3>1, <3>4, <4>1, <4>4
      <4>6. PICK s \in Nat, v \in Nat, w \in Nat, y \in Nat :
              s = S /\ v = o[r[i]] /\ w = o[r[p]] /\ y = In(r[p])
        BY <1>18, <1>19, <3>1, <4>1
      <4>7. v + (x + (s - 1)) <= w + y
        <5>1. v + x <= w /\ y >= s - 1
          BY <4>2, <4>3, <4>4, <4>6
        <5> QED
          BY <5>1
      <4>8. u[r[i]] = v /\ u[r[j]] = w + y
        BY <1>8, <1>17, <1>18, <3>4, <4>1, <4>6
      <4> QED
        BY <1>9, <4>5, <4>6, <4>7, <4>8
    <3> QED
      BY <3>2, <3>3, <3>4
  <2>5. DOMAIN block' = 1 .. n
    BY <1>4, <1>9
  <2> QED
    BY <1>17, <2>1, <2>2, <2>3, <2>4, <2>5 DEF OffsetInv
<1>22. DataInv(r, z, u, con.pc = "front")'
  <2> SUFFICES ASSUME NEW i \in 1 .. z, NEW k \in 0 .. In(r[i]) - 1
               PROVE  \/ con.pc = "front" /\ i = 1 /\ k = 0
                      \/ block[r[i]].data[At(r[i], k)] = u[r[i]] + k + 1
    BY <1>9, <1>11 DEF DataInv
  <2>1. CASE i \in 1 .. p
    BY <1>1, <1>17, <2>1 DEF DataInv
  <2>2. CASE i = z
    <3>1. k = 0 /\ r[i] = t
      <4>1. r[i] = t
        BY <1>8, <2>2
      <4>2. In(r[i]) = 1
        BY <1>15, <4>1
      <4> QED
        BY <4>1, <4>2
    <3>2. At(t, 0) = block[t].front
      <4>1. /\ block[t].size \in Nat /\ block[t].front \in 0 .. block[t].size - 1
        BY <1>1, <1>4, BlockFacts
      <4> QED
        BY <4>1 DEF At, Plus
    <3> QED
      BY <1>15, <1>17, <1>18, <3>1, <3>2
  <2> QED
    BY <1>7, <2>1, <2>2
<1>23. FillInv(r, z, pro.pc = "tailBlock")'
  <2>1. ASSUME NEW i \in 2 .. z PROVE In(r[i])' >= 1
    <3>1. CASE i = z
      <4>1. r[i] = t /\ In(r[i])' = In(r[i])
        BY <1>8, <1>11, <3>1
      <4>2. In(r[i]) = 1
        BY <1>15, <4>1
      <4> QED
        BY <4>1, <4>2
    <3>2. CASE i # z
      <4>1. i \in 2 .. p
        BY <1>4, <1>6, <3>2
      <4> QED
        BY <1>1, <1>11, <4>1 DEF FillInv
    <3> QED
      BY <3>1, <3>2
  <2>2. ASSUME NEW i \in 2 .. z - 1 PROVE Full(r[i])'
    <3>1. CASE i = p
      <4>1. r[p] # r[1]
        <5>1. p # 1 /\ 1 \in 1 .. n
          BY <1>4, <3>1
        <5> QED
          BY <1>4, <1>5, <5>1
      <4> QED
        BY <1>2, <1>4, <1>11, <3>1, <4>1
    <3>2. CASE i # p
      <4>1. i \in 2 .. p - 1
        BY <1>4, <1>6, <3>2
      <4> QED
        BY <1>1, <1>11, <4>1 DEF FillInv
    <3> QED
      BY <3>1, <3>2
  <2>3. ASSUME NEW i \in z + 1 .. n PROVE In(r[i])' = 0
    <3>1. i \in p + 1 .. n /\ i # p + 1
      BY <1>4, <1>6
    <3> QED
      BY <1>1, <1>4, <1>11, <3>1 DEF FillInv
  <2>4. Len(block') = n /\ pro'.pc # "tailBlock"
    BY <1>4, <1>9, <1>10
  <2> QED
    BY <2>1, <2>2, <2>3, <2>4 DEF FillInv
<1>24. ProInv(r, z)' /\ ProSizeInv(r, z, u)'
  BY <1>10 DEF ProInv, ProSizeInv, Sizing, Enqueuing
<1>25. ConInv(r, z)'
  <2>1. z > 1 /\ (p > 1 => z > 1)
    BY <1>7
  <2>2. con.start <= Size => con.start <= Size'
    BY <1>1, <1>10, SizeFacts, ConFields
  <2>3. frontBlock' = frontBlock /\ con' = con /\ In(frontBlock)' = In(frontBlock)
    BY <1>9 DEF In
  <2> QED
    BY <1>1, <1>9, <1>11, <2>1, <2>2, <2>3 DEF ConInv
<1>26. ConSizeInv(r, z, u)'
  <2>1. Size \in Nat /\ con.start \in Nat /\ con.sum \in Nat /\ Size = enq - deq
    BY <1>1, SizeFacts, ConFields DEF Size
  <2>2. ASSUME NEW j \in Nat, j >= 1, ConSum(r, p, o, j) PROVE ConSum(r, z, u, j)'
    <3>1. CASE j \in 1 .. p
      <4>1. j <= p /\ j <= z
        BY <1>4, <1>7, <3>1
      <4> QED
        BY <1>9, <1>17, <2>2, <3>1, <4>1 DEF ConSum
    <3>2. CASE j = z
      <4>1. ~ (j <= p) /\ j <= z /\ ~ (j > p + 1)
        BY <1>4, <1>6, <3>2
      <4>2. con.start <= con.sum /\ con.sum <= Size
        BY <2>1, <2>2, <4>1 DEF ConSum
      <4>3. u[r[j]] - deq = Size
        BY <1>8, <1>17, <2>1, <3>2
      <4> QED
        BY <1>9, <2>1, <4>1, <4>2, <4>3 DEF ConSum
    <3>3. CASE j > z
      <4>1. ~ (j <= p) /\ ~ (j <= z)
        BY <1>4, <1>7, <3>3
      <4>2. con.start <= con.sum /\ con.sum <= Size + 1
        BY <2>1, <2>2, <4>1 DEF ConSum
      <4>3. con.sum <= Size' + 0
        BY <1>10, <2>1, <4>2
      <4> QED
        BY <1>9, <1>10, <4>1, <4>2, <4>3 DEF ConSum
    <3> QED
      BY <1>4, <1>6, <2>2, <3>1, <3>2, <3>3
  <2>3. \A i \in 1 .. n : i \in Nat /\ i >= 1 /\ i + 1 \in Nat /\ i + 1 >= 1
    BY <1>4
  <2>4. n + 1 \in Nat /\ n + 1 >= 1 /\ Len(block') = n
    BY <1>4, <1>9
  <2> SUFFICES ASSUME con.pc \in Sizing PROVE ConSizeInv(r, z, u)'
    BY <1>9 DEF ConSizeInv
  <2>5. CASE con.pc = "sized"
    BY <1>1, <1>4, <1>9, <2>2, <2>4, <2>5 DEF ConSizeInv
  <2>6. CASE con.pc # "sized"
    <3>1. PICK i \in 1 .. n : con.b = r[i] /\ ConSum(r, p, o, IF con.pc = "size" THEN i ELSE i + 1)
      BY <1>1, <1>4, <2>6 DEF ConSizeInv
    <3>2. ConSum(r, z, u, IF con.pc = "size" THEN i ELSE i + 1)'
      <4>1. PICK j : j = IF con.pc = "size" THEN i ELSE i + 1
        OBVIOUS
      <4>2. j \in Nat /\ j >= 1 /\ ConSum(r, p, o, j)
        BY <2>3, <3>1, <4>1
      <4>3. ConSum(r, z, u, j)'
        BY <2>2, <4>2
      <4> QED
        BY <1>9, <4>1, <4>3
    <3>3. con.first = frontBlock
      BY <1>1 DEF ConSizeInv
    <3> QED
      BY <1>9, <2>4, <2>6, <3>1, <3>2, <3>3 DEF ConSizeInv
  <2> QED
    BY <2>5, <2>6
<1> QED
  BY <1>4, <1>9, <1>7, <1>10, <1>12, <1>13, <1>14, <1>17, <1>21, <1>22, <1>23, <1>24, <1>25, <1>26
     DEF Inv, Good, RingInv

-----------------------------------------------------------------------------
(* The steps of the consumer that leave the elements alone.                *)

\* An element the consumer remembers is still there.
LEMMA StartDequeueStep ==
  ASSUME NEW r, NEW p, NEW o, State(r, p, o), NEW kind \in {"try_dequeue", "pop", "peek"},
         StartDequeue(kind)
  PROVE  Inv'
<1> DEFINE to == IF block[frontBlock].front # block[frontBlock].localTail THEN "found" ELSE "tail"
<1>1. /\ con.pc = "idle"
      /\ con' = [Idle EXCEPT !.kind = kind, !.start = Size, !.b = frontBlock, !.pc = to]
      /\ UNCHANGED <<fixed, block, frontBlock, tailBlock, largestBlockSize, enq, deq>>
      /\ UNCHANGED pro
      /\ IF blocking /\ kind # "peek" THEN sema > 0 /\ sema' = sema - 1 ELSE sema' = sema
  BY DEF StartDequeue
<1>2. frontBlock \in DOMAIN block /\ frontBlock \in Nat /\ Size \in Nat /\ TypeInv /\ BlocksInv
      /\ SemaInv /\ ConInv(r, p)
  BY RingFacts, SizeFacts DEF State, Good
<1>3. PICK f \in DOMAIN block : f = frontBlock
  BY <1>2
<1>4. /\ con' \in Locals(ConPCs) /\ con'.pc = to /\ con'.b = f /\ con'.start = Size
      /\ con'.kind = kind
  BY <1>1, <1>2, <1>3 DEF Idle, Locals, ConPCs, Kinds, Removing
<1>5. to \in {"found", "tail"} /\ (to = "found" => Seen(f) >= 1)
  BY <1>2, <1>3, BlockFacts
<1> HIDE DEF to
<1>6. /\ Kept /\ SameData /\ BlocksInv' /\ Size' = Size /\ Seen(f)' = Seen(f)
      /\ \A b \in DOMAIN block : block'[b].localFront = block[b].localFront
      /\ UNCHANGED <<maxSize, blocking>>
  BY <1>1, <1>2, Unmoved
<1>7. sema' \in Nat /\ sema \in Nat
  <2>1. sema \in Nat
    BY <1>2 DEF TypeInv
  <2> QED
    BY <1>1, <2>1
<1>8. TypeInv'
  BY <1>1, <1>2, <1>4, <1>6, <1>7 DEF TypeInv
<1>9. con.kind \notin Removing /\ (kind \in Removing <=> kind # "peek")
  BY <1>1, <1>2 DEF ConInv, Removing
<1>10. SemaInv'
  <2> SUFFICES ASSUME blocking PROVE SemaInv'
    BY <1>6 DEF SemaInv
  <2>1. /\ sema + (IF pro.pc = "signal" THEN 1 ELSE 0) + 0 = Size /\ pro.pc \notin Sizing
    BY <1>2, <1>9 DEF SemaInv
  <2>2. con'.pc \notin Sizing
    BY <1>4, <1>5 DEF Sizing
  <2>3. CASE kind = "peek"
    <3>1. sema' = sema /\ con'.kind \notin Removing
      BY <1>1, <1>4, <1>9, <2>3
    <3> QED
      BY <1>1, <1>6, <2>1, <2>2, <3>1 DEF SemaInv
  <2>4. CASE kind # "peek"
    <3>1. sema > 0 /\ sema' = sema - 1 /\ con'.kind \in Removing /\ con'.start = Size
      BY <1>1, <1>4, <1>9, <2>4
    <3>2. sema' + (IF pro.pc = "signal" THEN 1 ELSE 0) + 1 = Size /\ Size >= 1
      BY <1>2, <1>7, <2>1, <3>1
    <3> QED
      BY <1>1, <1>6, <2>1, <2>2, <3>1, <3>2 DEF SemaInv
  <2> QED
    BY <2>3, <2>4
<1>11. ConInv(r, p)'
  <2>1. con'.start <= Size' /\ frontBlock' = f
    BY <1>1, <1>2, <1>3, <1>4, <1>6
  <2>2. con'.kind \in Removing \cup {"peek"} /\ con'.pc \notin {"idle"} \cup Sizing
    BY <1>4, <1>5 DEF Removing, Sizing
  <2>3. con'.pc = "found" => Seen(con.b)' >= 1
    BY <1>4, <1>5, <1>6 DEF Seen
  <2> QED
    BY <1>4, <1>5, <2>1, <2>2, <2>3 DEF ConInv
<1>12. ConSizeInv(r, p, o)'
  BY <1>4, <1>5 DEF ConSizeInv, Sizing
<1> QED
  BY <1>1, <1>4, <1>5, <1>6, <1>8, <1>10, <1>11, <1>12, ConsumerStep

\* With one block in use all elements are in it.
LEMMA OneBlock ==
  ASSUME NEW r, NEW p, NEW o, State(r, p, o), p = 1
  PROVE  Size = In(frontBlock)
<1>1. /\ o[r[1]] = deq /\ enq = o[r[p]] + In(r[p]) /\ frontBlock = r[1] /\ deq \in Nat
      /\ In(frontBlock) \in Nat
  BY RingFacts, SizeFacts
<1> QED
  BY <1>1 DEF Size

\* After the second look an empty front block will stay empty.
LEMMA LoadTailStep ==
  ASSUME NEW r, NEW p, NEW o, State(r, p, o), LoadTail
  PROVE  Inv'
<1>1. frontBlock \in DOMAIN block /\ TypeInv /\ BlocksInv /\ ConInv(r, p) /\ SemaInv
  BY RingFacts DEF Good, State
<1>2. PICK f \in DOMAIN block : f = frontBlock
  BY <1>1
<1> DEFINE to == IF block[f].front # block[f].tail THEN "found"
                 ELSE IF con.pc = "tail" THEN "tailBlock" ELSE "advance"
<1>3. /\ con.pc \in {"tail", "again"} /\ con' = [con EXCEPT !.pc = to]
      /\ block' = [block EXCEPT ![f].localTail = block[f].tail]
      /\ UNCHANGED <<fixed, frontBlock, tailBlock, largestBlockSize, enq, deq>>
      /\ UNCHANGED <<sema, pro>>
  BY <1>2 DEF LoadTail
<1>4. /\ to \in {"found", "tailBlock", "advance"}
      /\ to = "found" => In(f) >= 1
      /\ to # "found" => In(f) = 0
      /\ to = "tailBlock" => con.pc = "tail"
      /\ to = "advance" => con.pc = "again"
  <2>1. In(f) \in Nat /\ (In(f) = 0 <=> block[f].front = block[f].tail)
    BY <1>1, BlockFacts
  <2> QED
    BY <1>3, <2>1
<1> HIDE DEF to
<1>5. /\ con' \in Locals(ConPCs) /\ con'.pc = to /\ con'.b = con.b /\ con'.start = con.start
      /\ con'.kind = con.kind
  BY <1>1, <1>3, <1>4, ConGoes, ConFields DEF ConPCs
<1>6. /\ Kept /\ SameData /\ block' \in Seq(BlockType) /\ BlocksInv' /\ Size' = Size
      /\ \A b \in DOMAIN block : block'[b].localFront = block[b].localFront
      /\ Seen(f)' = In(f) /\ In(f)' = In(f)
      /\ UNCHANGED <<maxSize, blocking>>
  BY <1>1, <1>3, TailLoaded
<1>7. TypeInv'
  BY <1>1, <1>3, <1>5, <1>6 DEF TypeInv
<1>8. SemaInv'
  BY <1>1, <1>3, <1>4, <1>5, <1>6 DEF SemaInv, Sizing
<1>9. /\ con.kind \in Removing \cup {"peek"} /\ con.start <= Size /\ con.start \in Nat
      /\ con.b = frontBlock /\ (con.pc = "again" => p > 1)
  BY <1>1, <1>3, ConFields DEF ConInv, Sizing
<1>10. ConInv(r, p)'
  <2>1. to = "tailBlock" => p > 1 \/ con.start = 0
    <3>1. p = 1 /\ In(f) = 0 => con.start = 0
      BY <1>2, <1>9, OneBlock
    <3> QED
      BY <1>4, <3>1, RingFacts
  <2>2. frontBlock' = f /\ con'.b = f
    BY <1>2, <1>3, <1>5, <1>9
  <2>3. to = "found" => Seen(con.b)' >= 1
    BY <1>4, <1>6, <2>2 DEF Seen
  <2>4. to = "advance" => In(frontBlock)' = 0
    BY <1>4, <1>6, <2>2 DEF In
  <2>5. con'.pc \notin {"idle"} \cup Sizing
    BY <1>4, <1>5 DEF Sizing
  <2> QED
    BY <1>4, <1>5, <1>6, <1>9, <2>1, <2>2, <2>3, <2>4, <2>5 DEF ConInv
<1>11. ConSizeInv(r, p, o)'
  BY <1>4, <1>5 DEF ConSizeInv, Sizing
<1> QED
  BY <1>3, <1>4, <1>5, <1>6, <1>7, <1>8, <1>10, <1>11, ConsumerStep

\* If front and tail block are the same there was nothing when the call began.
LEMMA LoadTailBlockStep ==
  ASSUME NEW r, NEW p, NEW o, State(r, p, o), LoadTailBlock
  PROVE  Inv'
<1>1. TypeInv /\ BlocksInv /\ ConInv(r, p) /\ SemaInv /\ (frontBlock = tailBlock <=> p = 1) /\ p \in Nat
  BY RingFacts DEF Good, State
<1> DEFINE to == IF frontBlock # tailBlock THEN "again" ELSE "none"
<1>2. /\ con.pc = "tailBlock" /\ con' = [con EXCEPT !.pc = to]
      /\ UNCHANGED <<fixed, block, frontBlock, tailBlock, largestBlockSize, enq, deq>>
      /\ UNCHANGED <<sema, pro>>
  BY DEF LoadTailBlock
<1>3. to \in {"again", "none"} /\ (to = "again" => p # 1) /\ (to = "none" => p = 1)
  BY <1>1
<1> HIDE DEF to
<1>4. /\ con' \in Locals(ConPCs) /\ con'.pc = to /\ con'.b = con.b /\ con'.start = con.start
      /\ con'.kind = con.kind
  BY <1>1, <1>2, <1>3, ConGoes, ConFields DEF ConPCs
<1>5. /\ Kept /\ SameData /\ BlocksInv' /\ Size' = Size
      /\ \A b \in DOMAIN block : block'[b].localFront = block[b].localFront
      /\ UNCHANGED <<maxSize, blocking>>
  BY <1>1, <1>2, Unmoved
<1>6. TypeInv' /\ SemaInv'
  BY <1>1, <1>2, <1>3, <1>4, <1>5 DEF TypeInv, SemaInv, Sizing
<1>7. ConInv(r, p)'
  <2>1. /\ con.kind \in Removing \cup {"peek"} /\ con.start <= Size
        /\ con.b = frontBlock /\ (p > 1 \/ con.start = 0)
    BY <1>1, <1>2 DEF ConInv, Sizing
  <2>2. to = "again" => p > 1
    BY <1>3, RingFacts
  <2>3. to = "none" => con.start = 0
    BY <1>3, <2>1
  <2>4. con'.pc \notin {"idle"} \cup Sizing
    BY <1>3, <1>4 DEF Sizing
  <2> QED
    BY <1>2, <1>3, <1>4, <1>5, <2>1, <2>2, <2>3, <2>4 DEF ConInv
<1>8. ConSizeInv(r, p, o)'
  BY <1>3, <1>4 DEF ConSizeInv, Sizing
<1> QED
  BY <1>2, <1>3, <1>4, <1>5, <1>6, <1>7, <1>8, ConsumerStep

\* The block behind an empty front block has an element if it is in use.
LEMMA LookAheadStep ==
  ASSUME NEW r, NEW p, NEW o, State(r, p, o), LookAhead
  PROVE  Inv'
<1>1. /\ TypeInv /\ BlocksInv /\ ConInv(r, p) /\ SemaInv /\ con.pc = "advance"
      /\ FillInv(r, p, pro.pc = "tailBlock")
  BY RingFacts DEF Good, State, LookAhead
<1>2. p > 1 /\ In(frontBlock) = 0 /\ con.kind \in Removing \cup {"peek"} /\ con.start <= Size
  BY <1>1 DEF ConInv, Sizing
<1>3. PICK b \in DOMAIN block : b = r[2] /\ b = block[frontBlock].next
  BY <1>2, RingNext
<1>4. In(b) >= 1 /\ b \in Nat
  <2>1. 2 \in 2 .. p
    BY <1>2, RingFacts
  <2>2. In(r[2]) >= 1
    BY <1>1, <2>1 DEF FillInv
  <2>3. b \in Nat
    BY <1>3, RingFacts
  <2> QED
    BY <1>3, <2>2, <2>3
<1>5. /\ UNCHANGED <<fixed, frontBlock, tailBlock, largestBlockSize, enq, deq>>
      /\ UNCHANGED <<sema, pro>>
  BY DEF LookAhead
<1>6. CASE con.kind = "peek"
  <2>1. con' = [con EXCEPT !.pc = "found", !.b = b] /\ block' = block
    BY <1>3, <1>6 DEF LookAhead
  <2>2. /\ con' \in Locals(ConPCs) /\ con'.pc = "found" /\ con'.b = b /\ con'.start = con.start
        /\ con'.kind = con.kind
    BY <1>1, <1>4, <2>1, ConGoes DEF ConPCs
  <2>3. /\ Kept /\ SameData /\ BlocksInv' /\ Size' = Size
        /\ \A a \in DOMAIN block : block'[a].localFront = block[a].localFront
        /\ UNCHANGED <<maxSize, blocking>>
    BY <1>1, <1>5, <2>1, Unmoved
  <2>4. TypeInv' /\ SemaInv'
    BY <1>1, <1>5, <2>1, <2>2, <2>3 DEF TypeInv, SemaInv, Sizing
  <2>5. ConInv(r, p)'
    <3>1. In(frontBlock)' = 0
      BY <1>2, <1>5, <2>1 DEF In
    <3> QED
      BY <1>2, <1>3, <1>6, <2>2, <2>3, <3>1 DEF ConInv, Sizing
  <2>6. ConSizeInv(r, p, o)'
    BY <2>2 DEF ConSizeInv, Sizing
  <2> QED
    BY <1>1, <1>5, <2>2, <2>3, <2>4, <2>5, <2>6, ConsumerStep
<1>7. CASE con.kind # "peek"
  <2>1. /\ con' = [con EXCEPT !.pc = "enter", !.b = b]
        /\ block' = [block EXCEPT ![b].localTail = block[b].tail]
    BY <1>3, <1>7 DEF LookAhead
  <2>2. /\ con' \in Locals(ConPCs) /\ con'.pc = "enter" /\ con'.b = b /\ con'.start = con.start
        /\ con'.kind = con.kind
    BY <1>1, <1>4, <2>1, ConGoes DEF ConPCs
  <2>3. PICK f \in DOMAIN block : f = frontBlock
    BY RingFacts
  <2>4. /\ Kept /\ SameData /\ block' \in Seq(BlockType) /\ BlocksInv' /\ Size' = Size
        /\ \A a \in DOMAIN block : block'[a].localFront = block[a].localFront
        /\ Seen(b)' = In(b) /\ In(f)' = In(f)
        /\ UNCHANGED <<maxSize, blocking>>
    BY <1>1, <1>5, <2>1, TailLoaded
  <2>5. TypeInv' /\ SemaInv'
    BY <1>1, <1>5, <2>1, <2>2, <2>4 DEF TypeInv, SemaInv, Sizing
  <2>6. ConInv(r, p)'
    <3>1. In(frontBlock)' = 0
      BY <1>2, <1>5, <2>3, <2>4 DEF In
    <3>2. Seen(con.b)' >= 1
      BY <1>4, <2>2, <2>4 DEF Seen
    <3> QED
      BY <1>2, <1>3, <1>7, <2>2, <2>4, <3>1, <3>2 DEF ConInv, Sizing
  <2>7. ConSizeInv(r, p, o)'
    BY <2>2 DEF ConSizeInv, Sizing
  <2> QED
    BY <1>1, <1>5, <2>2, <2>4, <2>5, <2>6, <2>7, ConsumerStep
<1> QED
  BY <1>6, <1>7

\* The call is over.
LEMMA ReturnStep ==
  ASSUME NEW r, NEW p, NEW o, State(r, p, o), Return
  PROVE  Inv'
<1>1. TypeInv /\ BlocksInv /\ ConInv(r, p) /\ SemaInv
  BY RingFacts DEF Good, State
<1>2. /\ con.pc = "none" \/ (con.kind = "peek" /\ con.pc = "found")
      /\ con' = Idle
      /\ UNCHANGED <<fixed, block, frontBlock, tailBlock, largestBlockSize, enq, deq>>
      /\ UNCHANGED <<sema, pro>>
  BY DEF Return
<1>3. con' \in Locals(ConPCs) /\ con'.pc = "idle" /\ con'.kind = "none"
  BY <1>2, IdleType
<1>4. /\ Kept /\ SameData /\ BlocksInv' /\ Size' = Size
      /\ \A b \in DOMAIN block : block'[b].localFront = block[b].localFront
      /\ UNCHANGED <<maxSize, blocking>>
  BY <1>1, <1>2, Unmoved
<1>5. blocking => con.kind \notin Removing
  <2>1. con.pc = "none" => con.start = 0
    BY <1>1 DEF ConInv
  <2>2. blocking /\ con.kind \in Removing => con.start >= 1
    BY <1>1 DEF SemaInv
  <2> QED
    BY <1>1, <1>2, <2>1, <2>2, ConFields DEF Removing
<1>6. TypeInv' /\ SemaInv'
  BY <1>1, <1>2, <1>3, <1>4, <1>5 DEF TypeInv, SemaInv, Sizing, Removing
<1>7. ConInv(r, p)' /\ ConSizeInv(r, p, o)'
  BY <1>3 DEF ConInv, ConSizeInv, Sizing, Removing
<1> QED
  BY <1>2, <1>3, <1>4, <1>6, <1>7, ConsumerStep

-----------------------------------------------------------------------------
(* The steps of the consumer that remove an element.                       *)

\* The oldest element is destroyed, its slot not yet given back.
LEMMA TakeStep ==
  ASSUME NEW r, NEW p, NEW o, State(r, p, o), Take, con.kind \in Removing
  PROVE  Inv'
<1>1. /\ TypeInv /\ BlocksInv /\ ConInv(r, p) /\ ProInv(r, p) /\ SemaInv /\ con.pc = "found"
  BY RingFacts DEF State, Good, Take
<1>2. con.b = frontBlock /\ Seen(con.b) >= 1 /\ con.start <= Size
  BY <1>1 DEF ConInv, Removing
<1>3. PICK f \in DOMAIN block : f = frontBlock /\ f = con.b
  BY <1>2, RingFacts
<1>4. PICK s \in 0 .. block[f].size - 1 : s = block[f].front
  BY <1>1, BlockFacts
<1>5. PICK v \in Nat : v = Nothing
  BY DEF Nothing
<1>6. /\ con' = [con EXCEPT !.pc = "front"]
      /\ block' = [block EXCEPT ![f].data[s] = v]
      /\ UNCHANGED <<fixed, frontBlock, tailBlock, largestBlockSize, enq, deq>>
      /\ UNCHANGED <<sema, pro>>
  BY <1>3, <1>4, <1>5 DEF Take
<1>7. /\ con' \in Locals(ConPCs) /\ con'.pc = "front" /\ con'.b = f /\ con'.start = con.start
      /\ con'.kind = con.kind
  BY <1>1, <1>3, <1>6, ConGoes, ConFields DEF ConPCs
<1>8. /\ Kept /\ block' \in Seq(BlockType) /\ BlocksInv'
      /\ \A a \in DOMAIN block : /\ block'[a].localFront = block[a].localFront
                                 /\ Seen(a)' = Seen(a)
      /\ \A a \in DOMAIN block \ {f} : block'[a].data = block[a].data
      /\ \A x \in 0 .. block[f].size - 1 :
           block'[f].data[x] = IF x = s THEN v ELSE block[f].data[x]
      /\ Size' = Size /\ Len(block') = Len(block)
      /\ UNCHANGED <<maxSize, blocking>>
  BY <1>1, <1>6, DataStored
<1>9. TypeInv' /\ SemaInv'
  BY <1>1, <1>6, <1>7, <1>8 DEF TypeInv, SemaInv, Sizing
<1>10. /\ block[f].size \in Nat /\ In(f) \in 0 .. block[f].size - 1 /\ In(f) >= 1
       /\ block[f].tail \in 0 .. block[f].size - 1 /\ block[f].tail # s
  BY <1>1, <1>2, <1>3, <1>4, BlockFacts
<1>11. DataInv(r, p, o, con.pc = "front")'
  <2>1. ASSUME NEW k \in 0 .. In(f) - 1, k # 0
        PROVE  block'[f].data[At(f, k)] = block[f].data[At(f, k)]
    <3> DEFINE c == block[f].size
    <3>1. /\ c \in Nat /\ s \in 0 .. c - 1 /\ k \in 0 .. c - 1 /\ 0 \in 0 .. c - 1
          /\ At(f, k) = Plus(s, k, c)
      BY <1>4, <1>10 DEF At
    <3> HIDE DEF c
    <3>2. Plus(s, k, c) # s /\ Plus(s, k, c) \in 0 .. c - 1
      BY <2>1, <3>1 DEF Plus
    <3> QED
      BY <1>8, <3>1, <3>2 DEF c
  <2>2. \A a \in DOMAIN block : \A k \in 0 .. In(a) - 1 :
           (TRUE /\ a = frontBlock /\ k = 0)
             \/ block'[a].data[At(a, k)] = block[a].data[At(a, k)]
    BY <1>3, <1>8, <2>1
  <2>3. DataInv(r, p, o, TRUE)'
    BY <1>8, <2>2, KeptData
  <2> QED
    BY <1>7, <2>3 DEF DataInv
<1>12. FillInv(r, p, pro.pc = "tailBlock")'
  <2>1. pro.pc = "tailBlock" => p < Len(block)
    BY <1>1 DEF ProInv, Ahead
  <2>2. p < Len(block) => r[p + 1] \in DOMAIN block /\ r[p + 1] # f
    BY <1>3, RingNext
  <2> QED
    BY <1>6, <1>8, <2>1, <2>2, KeptFill
<1>13. ProInv(r, p)' /\ ProSizeInv(r, p, o)'
  <2>1. pro.pc = "tail" => pro.b \in DOMAIN block
    BY <1>1, RingFacts, RingNext DEF ProInv, Ahead
  <2>2. pro.pc = "tail" =>
          block'[pro.b].data[block[pro.b].tail] = block[pro.b].data[block[pro.b].tail]
    <3>1. CASE pro.b = f
      BY <1>8, <1>10, <3>1
    <3>2. CASE pro.b # f
      BY <1>8, <2>1, <3>2
    <3> QED
      BY <3>1, <3>2
  <2> QED
    BY <1>6, <1>8, <2>2, KeptPro
<1>14. ConInv(r, p)' /\ ConSizeInv(r, p, o)'
  <2>1. Seen(con.b)' >= 1
    <3>1. Seen(f)' >= 1
      BY <1>2, <1>3, <1>8
    <3> QED
      BY <1>7, <3>1 DEF Seen
  <2> QED
    BY <1>2, <1>3, <1>6, <1>7, <1>8, <2>1 DEF ConInv, ConSizeInv, Sizing
<1>15. RingInv(r, p)' /\ OffsetInv(r, p, o)' /\ CapacityInv'
  BY <1>8, KeptRing
<1> QED
  BY <1>8, <1>9, <1>11, <1>12, <1>13, <1>14, <1>15 DEF Inv, Good, RingInv, OffsetInv

\* b's front moves on.
LEMMA FrontStored ==
  ASSUME TypeInv, BlocksInv, NEW b \in DOMAIN block, Seen(b) >= 1,
         block' = [block EXCEPT ![b].front = (@ + 1) % block[b].size],
         UNCHANGED <<fixed, frontBlock, tailBlock, largestBlockSize, enq>>
  PROVE  /\ block' \in Seq(BlockType) /\ BlocksInv' /\ SameData
         /\ Len(block') = Len(block) /\ DOMAIN block' = DOMAIN block
         /\ \A a \in DOMAIN block : /\ block'[a].size = block[a].size
                                    /\ block'[a].tail = block[a].tail
                                    /\ block'[a].next = block[a].next
                                    /\ Thought(a)' = Thought(a)
                                    /\ In(a)' = IF a = b THEN In(b) - 1 ELSE In(a)
         /\ \A a \in DOMAIN block \ {b} : /\ Full(a)' <=> Full(a)
                                          /\ block'[a].front = block[a].front
         /\ \A a \in DOMAIN block \ {b} : \A k : At(a, k)' = At(a, k)
         /\ \A k \in 0 .. In(b) - 2 : At(b, k)' = At(b, k + 1)
         /\ S' = S /\ UNCHANGED <<maxSize, blocking>>
<1> DEFINE c == block[b].size
           f == block[b].front
           n == Plus(f, 1, c)
<1>1. /\ block \in Seq(BlockType) /\ c \in Nat /\ c >= 2 /\ f \in 0 .. c - 1
      /\ n \in 0 .. c - 1 /\ n \in Nat /\ (f + 1) % c = n
  <2>1. block \in Seq(BlockType) /\ c \in Nat /\ c >= 2 /\ f \in 0 .. c - 1
    BY BlockFacts DEF TypeInv
  <2> HIDE DEF c, f
  <2>2. c \in Nat \ {0} /\ 1 \in 0 .. c - 1
    BY <2>1
  <2>3. n \in 0 .. c - 1 /\ (f + 1) % c = n
    BY <2>1, <2>2, PlusType, MaskedPlus
  <2> QED
    BY <2>1, <2>3
<1>2. block' = [block EXCEPT ![b].front = n]
  BY <1>1
<1> DEFINE x == [block[b] EXCEPT !.front = n]
<1>3. block' = [block EXCEPT ![b] = x]
  BY <1>2
<1>4. PICK m \in Nat : m = n
  BY <1>1
<1> HIDE DEF n
<1>5. /\ x \in BlockType /\ x.size = c /\ x.front = m
      /\ x.tail = block[b].tail /\ x.next = block[b].next /\ x.data = block[b].data
      /\ x.localFront = block[b].localFront /\ x.localTail = block[b].localTail
  BY <1>4, FieldTypes DEF BlockType
<1> HIDE DEF x
<1>6. /\ block' \in Seq(BlockType) /\ Len(block') = Len(block) /\ DOMAIN block' = DOMAIN block
      /\ block'[b] = x /\ \A a \in DOMAIN block \ {b} : block'[a] = block[a]
  BY <1>1, <1>3, <1>5, SMTT(30)
<1>7. S' = S /\ UNCHANGED <<maxSize, blocking, frontBlock, tailBlock, largestBlockSize, enq>>
  BY DEF S, fixed
<1>8. /\ \A a \in DOMAIN block : /\ block'[a].size = block[a].size /\ block'[a].tail = block[a].tail
                                 /\ block'[a].next = block[a].next /\ block'[a].data = block[a].data
                                 /\ block'[a].localFront = block[a].localFront
                                 /\ block'[a].localTail = block[a].localTail
      /\ \A a \in DOMAIN block \ {b} : block'[a].front = block[a].front
      /\ block'[b].front = m
  BY <1>5, <1>6
<1>9. /\ In(b)' = In(b) - 1 /\ Seen(b)' = Seen(b) - 1
      /\ \A k \in 0 .. In(b) - 2 : At(b, k)' = At(b, k + 1)
  <2> DEFINE t == block[b].tail
             lt == block[b].localTail
  <2>1. /\ t \in 0 .. c - 1 /\ lt \in 0 .. c - 1 /\ In(b) = Dist(f, t, c) /\ Seen(b) = Dist(f, lt, c)
        /\ Dist(f, lt, c) >= 1 /\ Dist(f, t, c) >= 1 /\ Dist(f, t, c) \in 0 .. c - 1
    <3>1. In(b) = Dist(f, t, c) /\ Seen(b) = Dist(f, lt, c)
      BY DEF In, Seen
    <3>2. In(b) \in 0 .. c - 1 /\ Seen(b) \in 0 .. In(b) /\ t \in 0 .. c - 1 /\ lt \in 0 .. c - 1
      BY BlockFacts
    <3> QED
      BY <3>1, <3>2
  <2>2. In(b)' = Dist(m, t, c) /\ Seen(b)' = Dist(m, lt, c) /\ \A k : At(b, k)' = Plus(m, k, c)
    BY <1>8 DEF In, Seen, At
  <2>3. \A k : At(b, k) = Plus(f, k, c)
    BY DEF At
  <2> HIDE DEF t, lt, f, c
  <2>4. m = Plus(f, 1, c)
    BY <1>4 DEF n
  <2>5. Dist(m, t, c) = Dist(f, t, c) - 1 /\ Dist(m, lt, c) = Dist(f, lt, c) - 1
    BY <1>1, <2>1, <2>4, FrontMoves
  <2>6. \A k \in 0 .. c - 2 : Plus(m, k, c) = Plus(f, k + 1, c)
    BY <1>1, <2>1, <2>4, FrontMoves
  <2>7. \A k \in 0 .. In(b) - 2 : k \in 0 .. c - 2
    BY <1>1, <2>1
  <2> QED
    BY <2>1, <2>2, <2>3, <2>5, <2>6, <2>7
<1>10. \A a \in DOMAIN block : /\ Thought(a)' = Thought(a)
                               /\ a # b => /\ In(a)' = In(a) /\ Seen(a)' = Seen(a)
                                           /\ (Full(a)' <=> Full(a))
                                           /\ \A k : At(a, k)' = At(a, k)
  BY <1>8 DEF In, Seen, Thought, Full, At
<1>11. BlocksInv'
  <2>1. ASSUME NEW a \in DOMAIN block PROVE BlockOK(a)'
    <3>1. BlockOK(a) /\ Seen(a) \in Nat /\ In(a) \in Nat /\ Thought(a) \in Nat
      BY BlockFacts DEF BlocksInv
    <3>2. CASE a = b
      <4>1. Seen(b)' <= In(b)' /\ In(b)' <= Thought(b)' /\ m < c
        BY <1>1, <1>4, <1>9, <1>10, <3>1, <3>2, SMTT(30) DEF BlockOK
      <4>2. /\ block'[b].size = c /\ block'[b].front = m
            /\ block'[b].tail = block[b].tail /\ block'[b].data = block[b].data
            /\ block'[b].localFront = block[b].localFront
            /\ block'[b].localTail = block[b].localTail
        BY <1>8
      <4>3. BlockOK(b)'
        BY <1>7, <3>1, <3>2, <4>1, <4>2 DEF BlockOK
      <4> QED
        BY <3>2, <4>3
    <3>3. CASE a # b
      BY <1>7, <1>8, <1>10, <3>1, <3>3 DEF BlockOK
    <3> QED
      BY <3>2, <3>3
  <2> QED
    BY <1>6, <2>1 DEF BlocksInv
<1> QED
  BY <1>6, <1>7, <1>8, <1>9, <1>10, <1>11 DEF SameData

\* The slot is given back; the producer's size_approx may have counted it.
LEMMA StoreFrontStep ==
  ASSUME NEW r, NEW p, NEW o, State(r, p, o), StoreFront
  PROVE  Inv'
<1>1. /\ TypeInv /\ BlocksInv /\ OffsetInv(r, p, o) /\ DataInv(r, p, o, con.pc = "front")
      /\ FillInv(r, p, pro.pc = "tailBlock") /\ ProInv(r, p) /\ ConInv(r, p) /\ ProSizeInv(r, p, o)
      /\ SemaInv /\ con.pc = "front"
  BY DEF State, Good, StoreFront
<1>2. con.b = frontBlock /\ Seen(con.b) >= 1 /\ con.kind \in Removing
  BY <1>1 DEF ConInv
<1>3. PICK n : Ring(n, r, p)
  BY Positions
<1>4. /\ n \in Nat /\ Len(block) = n /\ n >= 1 /\ DOMAIN block = 1 .. n
      /\ p \in 1 .. n /\ p \in Nat /\ p >= 1 /\ p <= n
      /\ \A i \in 1 .. n : r[i] \in 1 .. n
      /\ frontBlock = r[1] /\ tailBlock = r[p] /\ 1 \in 1 .. n
  BY <1>3 DEF Ring
<1>5. \A i, j \in 1 .. n : r[i] = r[j] => i = j
  BY <1>3 DEF Ring
<1>6. PICK f \in 1 .. n : f = r[1] /\ f = frontBlock /\ f = con.b
  BY <1>2, <1>4
<1>7. /\ block' = [block EXCEPT ![f].front = (@ + 1) % block[f].size]
      /\ UNCHANGED <<fixed, frontBlock, tailBlock, largestBlockSize, enq>>
      /\ UNCHANGED <<sema, pro>> /\ con' = Idle /\ deq' = deq + 1
  BY <1>6 DEF StoreFront
<1>8. /\ block' \in Seq(BlockType) /\ BlocksInv' /\ SameData
      /\ Len(block') = Len(block) /\ DOMAIN block' = DOMAIN block
      /\ \A a \in DOMAIN block : /\ block'[a].size = block[a].size
                                 /\ block'[a].tail = block[a].tail
                                 /\ block'[a].next = block[a].next
                                 /\ Thought(a)' = Thought(a)
                                 /\ In(a)' = IF a = f THEN In(f) - 1 ELSE In(a)
      /\ \A a \in DOMAIN block \ {f} : /\ Full(a)' <=> Full(a)
                                       /\ block'[a].front = block[a].front
      /\ \A a \in DOMAIN block \ {f} : \A k : At(a, k)' = At(a, k)
      /\ \A k \in 0 .. In(f) - 2 : At(f, k)' = At(f, k + 1)
      /\ S' = S /\ UNCHANGED <<maxSize, blocking>>
  BY <1>1, <1>2, <1>4, <1>6, <1>7, FrontStored
<1>9. con' \in Locals(ConPCs) /\ con'.pc = "idle" /\ con'.kind = "none"
  BY <1>7, IdleType
<1>10. enq \in Nat /\ deq \in Nat /\ deq' \in Nat /\ Size \in Nat /\ Size = enq - deq /\ Size' = Size - 1
  <2>1. enq \in Nat /\ deq \in Nat /\ Size \in Nat
    BY SizeFacts
  <2> QED
    BY <1>7, <2>1 DEF Size
<1>11. In(f) \in Nat /\ In(f) >= 1
  <2>1. f \in DOMAIN block /\ Seen(f) >= 1
    BY <1>2, <1>4, <1>6
  <2>2. /\ block[f].size \in Nat /\ In(f) \in 0 .. block[f].size - 1
        /\ Seen(f) \in 0 .. In(f)
    BY <1>1, <2>1, BlockFacts
  <2> QED
    BY <2>1, <2>2
<1>12. TypeInv'
  BY <1>1, <1>7, <1>8, <1>9, <1>10 DEF TypeInv
<1>13. SemaInv'
  <2> SUFFICES ASSUME blocking PROVE SemaInv'
    BY <1>8 DEF SemaInv
  <2>1. /\ sema + (IF pro.pc = "signal" THEN 1 ELSE 0) + 1 = Size /\ pro.pc \notin Sizing
    BY <1>1, <1>2 DEF SemaInv
  <2>2. sema \in Nat /\ con'.kind \notin Removing /\ con'.pc \notin Sizing
    BY <1>1, <1>9 DEF TypeInv, Removing, Sizing
  <2>3. sema + (IF pro.pc = "signal" THEN 1 ELSE 0) + 0 = Size - 1
    BY <1>10, <2>1, <2>2
  <2> QED
    BY <1>7, <1>10, <2>1, <2>2, <2>3 DEF SemaInv
<1>14. RingInv(r, p)' /\ CapacityInv'
  BY <1>7, <1>8, RingKept
<1>15. PICK u : u = [o EXCEPT ![f] = deq + 1]
  OBVIOUS
<1>16. /\ u \in [1 .. n -> Nat] /\ u[r[1]] = deq + 1
       /\ \A i \in 2 .. n : i \in 1 .. n /\ r[i] # f /\ u[r[i]] = o[r[i]]
  <2>1. o \in [1 .. n -> Nat] /\ deq + 1 \in Nat
    <3>1. o \in [DOMAIN block -> Nat] /\ DOMAIN block = 1 .. n
      BY <1>1, <1>4 DEF OffsetInv
    <3> QED
      BY <1>10, <3>1
  <2>2. \A i \in 2 .. n : i \in 1 .. n /\ i # 1
    BY <1>4
  <2>3. \A i \in 2 .. n : i \in 1 .. n /\ r[i] # f /\ r[i] \in 1 .. n
    BY <1>4, <1>5, <1>6, <2>2
  <2> QED
    BY <1>6, <1>15, <2>1, <2>3
<1>17. /\ In(r[1])' = In(r[1]) - 1
       /\ \A i \in 2 .. n : In(r[i])' = In(r[i]) /\ (Full(r[i])' <=> Full(r[i]))
  <2>1. In(r[1])' = In(r[1]) - 1
    BY <1>4, <1>6, <1>8
  <2>2. ASSUME NEW i \in 2 .. n PROVE In(r[i])' = In(r[i]) /\ (Full(r[i])' <=> Full(r[i]))
    <3>1. r[i] \in DOMAIN block /\ r[i] # f
      BY <1>4, <1>16
    <3> QED
      BY <1>8, <3>1
  <2> QED
    BY <2>1, <2>2
<1>18. \A i \in 1 .. p : o[r[i]] \in Nat
  BY SizeFacts
<1>19. o[r[1]] = deq /\ (p > 1 => o[r[2]] = deq + In(f))
  <2>1. p > 1 => 1 \in 1 .. p - 1
    BY <1>4
  <2>2. o[r[1]] = deq /\ \A i \in 1 .. p - 1 : o[r[i + 1]] = o[r[i]] + In(r[i])
    BY <1>1 DEF OffsetInv
  <2>3. p > 1 => o[r[1 + 1]] = o[r[1]] + In(r[1])
    BY <2>1, <2>2
  <2> QED
    BY <1>6, <2>2, <2>3
<1>20. \A i \in 1 .. p : i = 1 \/ i \in 2 .. n
  BY <1>4
<1>21. OffsetInv(r, p, u)'
  <2>1. enq = u[r[p]] + In(r[p])'
    <3>1. enq = o[r[p]] + In(r[p])
      BY <1>1 DEF OffsetInv
    <3>2. CASE p = 1
      <4>1. enq = deq + In(f) /\ u[r[p]] = deq + 1 /\ In(r[p])' = In(f) - 1
        BY <1>6, <1>16, <1>17, <1>19, <3>1, <3>2
      <4> QED
        BY <1>10, <1>11, <4>1
    <3>3. CASE p # 1
      <4>1. p \in 2 .. n
        BY <1>4, <3>3
      <4> QED
        BY <1>16, <1>17, <3>1, <4>1
    <3> QED
      BY <3>2, <3>3
  <2>2. ASSUME NEW i \in 1 .. p - 1 PROVE u[r[i + 1]] = u[r[i]] + In(r[i])'
    <3>1. o[r[i + 1]] = o[r[i]] + In(r[i]) /\ i + 1 \in 2 .. n
      BY <1>1, <1>4 DEF OffsetInv
    <3>2. CASE i = 1
      <4>1. u[r[i + 1]] = deq + In(f) /\ u[r[i]] = deq + 1 /\ In(r[i])' = In(f) - 1
        BY <1>6, <1>16, <1>17, <1>19, <3>1, <3>2
      <4> QED
        BY <1>10, <1>11, <4>1
    <3>3. CASE i # 1
      <4>1. i \in 2 .. n
        BY <1>4, <3>3
      <4> QED
        BY <1>16, <1>17, <3>1, <4>1
    <3> QED
      BY <3>2, <3>3
  <2>3. ASSUME NEW i \in 1 .. p, NEW j \in 1 .. p, i <= j PROVE u[r[i]] <= u[r[j]]
    <3>1. CASE i = 1 /\ j = 1
      <4>1. deq + 1 <= deq + 1
        BY <1>10
      <4> QED
        BY <1>16, <3>1, <4>1
    <3>2. CASE i = 1 /\ j \in 2 .. n
      <4>1. 2 \in 1 .. p /\ 2 <= j /\ p > 1
        BY <1>4, <3>2
      <4>2. o[r[2]] <= o[r[j]] /\ o[r[j]] \in Nat
        BY <1>1, <1>18, <4>1 DEF OffsetInv
      <4>3. deq + 1 <= o[r[j]]
        BY <1>10, <1>11, <1>19, <4>1, <4>2
      <4> QED
        BY <1>16, <3>2, <4>3
    <3>3. CASE i \in 2 .. n
      <4>1. j \in 2 .. n
        BY <1>4, <2>3, <3>3
      <4> QED
        BY <1>1, <1>16, <2>3, <3>3, <4>1 DEF OffsetInv
    <3> QED
      BY <1>20, <3>1, <3>2, <3>3
  <2>4. ASSUME NEW i \in 2 .. p, NEW j \in 2 .. p, i <= j
        PROVE  u[r[i]] + (j - i) * (S' - 1) <= u[r[j]]
    <3>1. i \in 2 .. n /\ j \in 2 .. n
      BY <1>4
    <3> QED
      BY <1>1, <1>8, <1>16, <2>4, <3>1 DEF OffsetInv
  <2>5. DOMAIN block' = 1 .. n /\ enq' = enq /\ u[r[1]] = deq'
    BY <1>4, <1>7, <1>8, <1>16
  <2> QED
    BY <1>16, <2>1, <2>2, <2>3, <2>4, <2>5 DEF OffsetInv
<1>22. DataInv(r, p, u, con.pc = "front")'
  <2> SUFFICES ASSUME NEW i \in 1 .. p, NEW k \in 0 .. In(r[i])' - 1
               PROVE  block'[r[i]].data[At(r[i], k)'] = u[r[i]] + k + 1
    BY DEF DataInv
  <2>1. CASE i = 1
    <3>1. k \in 0 .. In(f) - 2 /\ k + 1 \in 0 .. In(f) - 1 /\ k + 1 # 0 /\ r[i] = f
      <4>1. In(r[i])' = In(f) - 1 /\ r[i] = f
        BY <1>6, <1>17, <2>1
      <4>2. k \in 0 .. (In(f) - 1) - 1
        BY <4>1
      <4> QED
        BY <1>11, <4>1, <4>2
    <3>2. At(f, k)' = At(f, k + 1) /\ block'[f].data = block[f].data
      BY <1>4, <1>8, <3>1 DEF SameData
    <3>3. block[f].data[At(f, k + 1)] = deq + (k + 1) + 1
      <4>1. 1 \in 1 .. p
        BY <1>4
      <4> QED
        BY <1>1, <1>6, <1>19, <3>1, <4>1 DEF DataInv
    <3>4. deq + (k + 1) + 1 = deq + 1 + k + 1
      BY <1>10
    <3>5. block'[f].data[At(f, k)'] = u[f] + k + 1
      BY <1>6, <1>16, <3>2, <3>3, <3>4
    <3> QED
      BY <3>1, <3>5
  <2>2. CASE i \in 2 .. n
    <3>1. In(r[i])' = In(r[i]) /\ r[i] \in DOMAIN block /\ r[i] # f /\ i # 1
      BY <1>4, <1>16, <1>17, <2>2
    <3>2. At(r[i], k)' = At(r[i], k) /\ block'[r[i]].data = block[r[i]].data
      BY <1>8, <3>1 DEF SameData
    <3>3. block[r[i]].data[At(r[i], k)] = o[r[i]] + k + 1
      BY <1>1, <3>1 DEF DataInv
    <3> QED
      BY <1>16, <2>2, <3>2, <3>3
  <2> QED
    BY <1>20, <2>1, <2>2
<1>23. FillInv(r, p, pro.pc = "tailBlock")'
  <2>1. ASSUME NEW i \in 2 .. p PROVE In(r[i])' >= 1
    <3>1. i \in 2 .. n
      BY <1>4
    <3> QED
      BY <1>1, <1>17, <3>1 DEF FillInv
  <2>2. ASSUME NEW i \in 2 .. p - 1 PROVE Full(r[i])'
    <3>1. i \in 2 .. n
      BY <1>4
    <3> QED
      BY <1>1, <1>17, <3>1 DEF FillInv
  <2>3. ASSUME NEW i \in p + 1 .. n
        PROVE  IF pro.pc = "tailBlock" /\ i = p + 1
               THEN In(r[i])' = 1 /\ block'[r[i]].data[block'[r[i]].front] = enq + 1
               ELSE In(r[i])' = 0
    <3>1. i \in 2 .. n
      BY <1>4
    <3>2. r[i] \in DOMAIN block /\ r[i] # f
      BY <1>4, <1>16, <3>1
    <3>3. block'[r[i]].data = block[r[i]].data /\ block'[r[i]].front = block[r[i]].front
      BY <1>8, <3>2 DEF SameData
    <3> QED
      BY <1>1, <1>4, <1>17, <3>1, <3>3 DEF FillInv
  <2> QED
    BY <1>4, <1>7, <1>8, <2>1, <2>2, <2>3 DEF FillInv
<1>24. ProInv(r, p)'
  <2>1. pro.start \in Nat
    BY <1>1, ProFields
  <2>2. pro.start >= Size => pro.start >= Size'
    BY <1>10, <2>1
  <2>3. PICK t \in DOMAIN block : t = tailBlock
    BY RingFacts
  <2>4. /\ tailBlock' = t /\ frontBlock' = f /\ pro' = pro /\ enq' = enq /\ maxSize' = maxSize
        /\ (Ahead(r, p)' <=> Ahead(r, p)) /\ block'[t].size = block[t].size
    BY <1>7, <1>8, <1>6, <2>3 DEF Ahead
  <2>5. pro.pc \in {"construct", "tail"} => pro.b \in DOMAIN block
    BY <1>1, <2>3, RingNext DEF ProInv, Ahead
  <2>6. pro.pc \in {"construct", "tail"} =>
          /\ Thought(pro.b)' = Thought(pro.b) /\ block'[pro.b].size = block[pro.b].size
          /\ block'[pro.b].data = block[pro.b].data /\ block'[pro.b].tail = block[pro.b].tail
    <3>1. PICK b : b = pro.b
      OBVIOUS
    <3>2. b \in DOMAIN block =>
            /\ Thought(b)' = Thought(b) /\ block'[b].size = block[b].size
            /\ block'[b].data = block[b].data /\ block'[b].tail = block[b].tail
      BY <1>8 DEF SameData
    <3>3. Thought(pro.b)' = Thought(b)'
      BY <2>4, <3>1 DEF Thought
    <3> QED
      BY <2>5, <3>1, <3>2, <3>3
  <2>7. tailBlock = frontBlock \/ Full(tailBlock) => tailBlock' = frontBlock' \/ Full(tailBlock)'
    <3>1. Full(tailBlock)' <=> Full(t)'
      BY <2>4 DEF Full, In
    <3>2. t # f => (Full(t)' <=> Full(t))
      BY <1>8, <2>3
    <3> QED
      BY <1>6, <2>3, <2>4, <3>1, <3>2
  <2> QED
    BY <1>1, <2>2, <2>3, <2>4, <2>6, <2>7 DEF ProInv
<1>25. ProSizeInv(r, p, u)'
  <2>1. pro.sum \in Nat /\ pro.start \in Nat
    BY <1>1, ProFields
  <2>2. ProSized => ProSized'
    BY <1>7, <1>10, <2>1 DEF ProSized
  <2>3. ASSUME NEW g, NEW j \in 1 .. n, ProSum(r, p, o, g, j) PROVE ProSum(r, p, u, g, j)'
    <3>1. CASE g > 1 /\ j >= g
      <4>1. pro.sum + Size <= pro.start
        BY <2>3, <3>1 DEF ProSum
      <4>2. pro.sum + Size' <= pro.start
        BY <1>10, <2>1, <4>1
      <4> QED
        BY <1>7, <3>1, <4>2 DEF ProSum
    <3>2. CASE ~ (g > 1 /\ j >= g) /\ j <= p
      <4>1. o[r[j]] - deq <= pro.sum /\ pro.sum + (enq - o[r[j]]) <= pro.start
        BY <2>3, <3>2 DEF ProSum
      <4>2. u[r[j]] - deq' <= pro.sum /\ pro.sum + (enq - u[r[j]]) <= pro.start
        <5>1. CASE j = 1
          <6>1. u[r[j]] = deq + 1 /\ o[r[j]] = deq
            BY <1>16, <1>19, <5>1
          <6> QED
            BY <1>7, <1>10, <2>1, <4>1, <6>1
        <5>2. CASE j # 1
          <6>1. j \in 2 .. n /\ j \in 1 .. p
            BY <1>4, <3>2, <5>2
          <6>2. u[r[j]] = o[r[j]] /\ o[r[j]] \in Nat
            BY <1>16, <1>18, <6>1
          <6> QED
            BY <1>7, <1>10, <2>1, <4>1, <6>2
        <5> QED
          BY <5>1, <5>2
      <4> QED
        BY <1>7, <3>2, <4>2 DEF ProSum
    <3>3. CASE ~ (g > 1 /\ j >= g) /\ ~ (j <= p)
      <4>1. Size <= pro.sum /\ pro.sum <= pro.start
        BY <2>3, <3>3 DEF ProSum
      <4>2. Size' <= pro.sum
        BY <1>10, <2>1, <4>1
      <4> QED
        BY <1>7, <3>3, <4>1, <4>2 DEF ProSum
    <3> QED
      BY <3>1, <3>2, <3>3
  <2>4. \A j \in 1 .. n : Follows(j)' = Follows(j) /\ Follows(j) \in 1 .. n
    BY <1>4, <1>8 DEF Follows
  <2> SUFFICES ASSUME pro.pc \in Sizing PROVE ProSizeInv(r, p, u)'
    BY <1>7 DEF ProSizeInv
  <2>5. PICK g \in 1 .. n : /\ pro.first = r[g] /\ (g = 1 \/ g > p)
          /\ CASE pro.pc = "sized" -> ProSized
               [] pro.pc = "size" -> \E i \in 1 .. n : pro.b = r[i] /\ ProSum(r, p, o, g, i)
               [] OTHER -> \E i \in 1 .. n :
                             /\ pro.b = r[i]
                             /\ IF Follows(i) = g THEN ProSized ELSE ProSum(r, p, o, g, Follows(i))
    BY <1>1, <1>4 DEF ProSizeInv
  <2>6. Len(block') = n /\ pro' = pro
    BY <1>4, <1>7, <1>8
  <2>7. CASE pro.pc = "sized"
    BY <2>2, <2>5, <2>6, <2>7 DEF ProSizeInv
  <2>8. CASE pro.pc = "size"
    <3>1. PICK i \in 1 .. n : pro.b = r[i] /\ ProSum(r, p, o, g, i)
      BY <2>5, <2>8
    <3>2. ProSum(r, p, u, g, i)'
      BY <2>3, <3>1
    <3> QED
      BY <2>5, <2>6, <2>8, <3>1, <3>2 DEF ProSizeInv
  <2>9. CASE pro.pc = "sizeNext"
    <3>1. PICK i \in 1 .. n : /\ pro.b = r[i]
                              /\ IF Follows(i) = g THEN ProSized ELSE ProSum(r, p, o, g, Follows(i))
      BY <2>5, <2>9
    <3>2. PICK j \in 1 .. n : j = Follows(i) /\ Follows(i)' = j
      BY <2>4
    <3>3. IF j = g THEN ProSized' ELSE ProSum(r, p, u, g, j)'
      BY <2>2, <2>3, <3>1, <3>2
    <3>4. IF Follows(i)' = g THEN ProSized' ELSE ProSum(r, p, u, g, Follows(i))'
      BY <2>6, <3>2, <3>3 DEF ProSum
    <3> QED
      BY <2>5, <2>6, <2>9, <3>1, <3>4 DEF ProSizeInv
  <2> QED
    BY <2>7, <2>8, <2>9 DEF Sizing
<1>26. ConInv(r, p)' /\ ConSizeInv(r, p, u)'
  BY <1>9 DEF ConInv, ConSizeInv, Sizing, Removing
<1> QED
  BY <1>4, <1>8, <1>12, <1>13, <1>14, <1>16, <1>21, <1>22, <1>23, <1>24, <1>25, <1>26
     DEF Inv, Good, RingInv

\* The position of a block when the ring is seen from its second on.
Back(i, n) == IF i = 1 THEN n ELSE i - 1

\* Seen so, the block that follows is still the one that follows.
LEMMA BackAndForth ==
  ASSUME NEW n \in Nat, n >= 2, NEW j \in 1 .. n
  PROVE  /\ Back(j, n) \in 1 .. n
         /\ (IF Back(j, n) = n THEN 1 ELSE Back(j, n) + 1) = j
         /\ (IF j = n THEN 1 ELSE j + 1) \in 1 .. n
         /\ Back(IF j = n THEN 1 ELSE j + 1, n) = j
<1>1. CASE j = 1
  <2>1. Back(j, n) = n /\ j # n /\ j + 1 # 1 /\ j + 1 - 1 = j
    BY <1>1 DEF Back
  <2> QED
    BY <1>1, <2>1 DEF Back
<1>2. CASE j # 1 /\ j = n
  <2>1. Back(j, n) = n - 1 /\ n - 1 # n /\ n - 1 + 1 = n
    BY <1>2 DEF Back
  <2> QED
    BY <1>2, <2>1 DEF Back
<1>3. CASE j # 1 /\ j # n
  <2>1. Back(j, n) = j - 1 /\ j - 1 # n /\ j - 1 + 1 = j /\ j + 1 # 1 /\ j + 1 - 1 = j
    BY <1>3 DEF Back
  <2> QED
    BY <1>3, <2>1 DEF Back
<1> QED
  BY <1>1, <1>2, <1>3

\* The ring begins one block further on, and the first becomes the last.
LEMMA StoreFrontBlockStep ==
  ASSUME NEW r, NEW p, NEW o, State(r, p, o), StoreFrontBlock
  PROVE  Inv'
<1>1. /\ TypeInv /\ BlocksInv /\ OffsetInv(r, p, o) /\ DataInv(r, p, o, con.pc = "front")
      /\ FillInv(r, p, pro.pc = "tailBlock") /\ ProInv(r, p) /\ ConInv(r, p) /\ ProSizeInv(r, p, o)
      /\ SemaInv /\ CapacityInv /\ con.pc = "enter"
  BY DEF State, Good, StoreFrontBlock
<1>2. /\ con.b = r[2] /\ Seen(con.b) >= 1 /\ con.kind \in Removing /\ p > 1 /\ In(frontBlock) = 0
      /\ con.start <= Size
  BY <1>1 DEF ConInv
<1>3. PICK n : Ring(n, r, p)
  BY Positions
<1>4. /\ n \in Nat /\ Len(block) = n /\ n >= 1 /\ DOMAIN block = 1 .. n
      /\ p \in 1 .. n /\ p \in Nat /\ p >= 2 /\ p <= n
      /\ \A i \in 1 .. n : r[i] \in 1 .. n
      /\ frontBlock = r[1] /\ tailBlock = r[p] /\ 1 \in 1 .. n /\ 2 \in 1 .. n
      /\ r \in [1 .. n -> 1 .. n]
  BY <1>2, <1>3 DEF Ring
<1>5. \A i, j \in 1 .. n : r[i] = r[j] => i = j
  BY <1>3 DEF Ring
<1>6. /\ frontBlock' = r[2] /\ con' = [con EXCEPT !.pc = "found"]
      /\ UNCHANGED <<fixed, block, tailBlock, largestBlockSize, sema, pro, enq, deq>>
      /\ UNCHANGED <<maxSize, blocking>> /\ S' = S /\ Size' = Size
  BY <1>2 DEF StoreFrontBlock, fixed, S, Size
<1>7. /\ con' \in Locals(ConPCs) /\ con'.pc = "found" /\ con'.b = r[2] /\ con'.start = con.start
      /\ con'.kind = con.kind
  BY <1>1, <1>2, <1>6, ConGoes, ConFields DEF ConPCs
<1>8. /\ \A a : In(a)' = In(a) /\ Seen(a)' = Seen(a) /\ (Full(a)' <=> Full(a))
      /\ \A a : Thought(a)' = Thought(a)
      /\ \A a, k : At(a, k)' = At(a, k)
  BY <1>6 DEF In, Seen, Full, At, Thought
<1>9. TypeInv' /\ SemaInv' /\ CapacityInv'
  BY <1>1, <1>6, <1>7 DEF TypeInv, SemaInv, CapacityInv, Sizing
<1>10. BlocksInv'
  BY <1>1, <1>6, <1>8 DEF BlocksInv, BlockOK
<1>11. PICK q : q = Turned(r, n)
  OBVIOUS
<1>12. PICK z \in Nat : z = p - 1
  BY <1>4
<1>13. q[n] = r[1] /\ n \in 1 .. n
  BY <1>4, <1>11, TurnedAt
<1>14. \A i \in 2 .. n : i \in 1 .. n /\ i - 1 \in 1 .. n /\ q[i - 1] = r[i]
  BY <1>4, <1>11, TurnedAt
<1>15. \A i \in 1 .. n : i = n \/ (i + 1 \in 2 .. n /\ q[i] = r[i + 1])
  <2> SUFFICES ASSUME NEW i \in 1 .. n, i # n PROVE i + 1 \in 2 .. n /\ q[i] = r[i + 1]
    OBVIOUS
  <2>1. i + 1 \in 2 .. n /\ i + 1 - 1 = i
    BY <1>4
  <2> QED
    BY <1>14, <2>1
<1>16. \A i \in 1 .. z : i \in 1 .. n /\ i # n /\ i + 1 \in 2 .. p /\ i + 1 \in 1 .. p /\ q[i] = r[i + 1]
  <2>1. \A i \in 1 .. z : i \in 1 .. n /\ i # n /\ i + 1 \in 2 .. p /\ i + 1 \in 1 .. p
    BY <1>4, <1>12, SMTT(30)
  <2> QED
    BY <1>15, <2>1
<1>17. z \in 1 .. n /\ 1 \in 1 .. z /\ z \in 1 .. z /\ z + 1 = p /\ z < n
  BY <1>4, <1>12
<1>18. q[1] = r[2] /\ q[z] = r[p]
  <2>1. q[1] = r[1 + 1] /\ q[z] = r[z + 1]
    BY <1>16, <1>17
  <2> QED
    BY <1>17, <2>1
<1>19. RingInv(q, z)'
  <2>1. PICK next : next = [b \in 1 .. n |-> block[b].next]
    OBVIOUS
  <2>2. Cycle(r, n, next)
    BY <1>3, <2>1, RingCycle
  <2>3. Cycle(q, n, next)
    BY <1>4, <1>11, <2>2, Turning
  <2>4. \A b \in 1 .. n : block'[b].next = next[b]
    BY <1>6, <2>1
  <2>5. Len(block') = n /\ DOMAIN block' = 1 .. n /\ frontBlock' = q[1] /\ tailBlock' = q[z]
    BY <1>4, <1>6, <1>18
  <2> QED
    BY <1>4, <1>17, <2>3, <2>4, <2>5, CycleRing
<1>20. \A i \in 1 .. z : In(q[i])' = In(r[i + 1])
  BY <1>8, <1>16
<1>21. OffsetInv(q, z, o)'
  <2>1. o[q[1]] = deq
    <3>1. 1 \in 1 .. p - 1
      BY <1>4
    <3>2. o[r[1 + 1]] = o[r[1]] + In(r[1]) /\ o[r[1]] = deq
      BY <1>1, <3>1 DEF OffsetInv
    <3>3. deq \in Nat
      BY SizeFacts
    <3>4. 1 + 1 = 2 /\ In(r[1]) = 0
      BY <1>2, <1>4
    <3>5. o[r[2]] = deq + 0
      BY <3>2, <3>4
    <3> QED
      BY <1>18, <3>3, <3>5
  <2>2. enq = o[q[z]] + In(q[z])'
    BY <1>1, <1>8, <1>18 DEF OffsetInv
  <2>3. ASSUME NEW i \in 1 .. z - 1 PROVE o[q[i + 1]] = o[q[i]] + In(q[i])'
    <3>1. i \in 1 .. z /\ i + 1 \in 1 .. z /\ i + 1 \in 1 .. p - 1
      BY <1>4, <1>12
    <3>2. q[i] = r[i + 1] /\ q[i + 1] = r[(i + 1) + 1]
      BY <1>16, <3>1
    <3> QED
      BY <1>1, <1>8, <3>1, <3>2 DEF OffsetInv
  <2>4. ASSUME NEW i \in 1 .. z, NEW j \in 1 .. z, i <= j PROVE o[q[i]] <= o[q[j]]
    <3>1. q[i] = r[i + 1] /\ q[j] = r[j + 1] /\ i + 1 \in 1 .. p /\ j + 1 \in 1 .. p
      BY <1>16
    <3>2. i + 1 <= j + 1
      BY <2>4
    <3> QED
      BY <1>1, <3>1, <3>2 DEF OffsetInv
  <2>5. ASSUME NEW i \in 2 .. z, NEW j \in 2 .. z, i <= j
        PROVE  o[q[i]] + (j - i) * (S' - 1) <= o[q[j]]
    <3>1. i \in 1 .. z /\ j \in 1 .. z
      OBVIOUS
    <3>2. q[i] = r[i + 1] /\ q[j] = r[j + 1] /\ i + 1 \in 2 .. p /\ j + 1 \in 2 .. p
      BY <1>16, <3>1
    <3>3. i + 1 <= j + 1 /\ (j + 1) - (i + 1) = j - i
      BY <2>5
    <3>4. o[r[i + 1]] + ((j + 1) - (i + 1)) * (S - 1) <= o[r[j + 1]]
      BY <1>1, <3>2, <3>3 DEF OffsetInv
    <3> QED
      BY <1>6, <3>2, <3>3, <3>4
  <2>6. o \in [DOMAIN block' -> Nat] /\ deq' = deq /\ enq' = enq
    BY <1>1, <1>6 DEF OffsetInv
  <2> QED
    BY <2>1, <2>2, <2>3, <2>4, <2>5, <2>6 DEF OffsetInv
<1>22. DataInv(q, z, o, con.pc = "front")'
  <2> SUFFICES ASSUME NEW i \in 1 .. z, NEW k \in 0 .. In(q[i]) - 1
               PROVE  block[q[i]].data[At(q[i], k)] = o[q[i]] + k + 1
    BY <1>6, <1>8 DEF DataInv
  <2>1. q[i] = r[i + 1] /\ i + 1 \in 1 .. p
    BY <1>16
  <2> QED
    BY <1>1, <2>1 DEF DataInv
<1>23. FillInv(q, z, pro.pc = "tailBlock")'
  <2>1. ASSUME NEW i \in 2 .. z PROVE In(q[i])' >= 1
    <3>1. i \in 1 .. z
      OBVIOUS
    <3>2. q[i] = r[i + 1] /\ i + 1 \in 2 .. p
      BY <1>16, <3>1
    <3> QED
      BY <1>1, <1>8, <3>2 DEF FillInv
  <2>2. ASSUME NEW i \in 2 .. z - 1 PROVE Full(q[i])'
    <3>1. i \in 1 .. z /\ i + 1 \in 2 .. p - 1
      BY <1>4, <1>12
    <3>2. q[i] = r[i + 1]
      BY <1>16, <3>1
    <3> QED
      BY <1>1, <1>8, <3>1, <3>2 DEF FillInv
  <2>3. ASSUME NEW i \in z + 1 .. n
        PROVE  IF pro.pc = "tailBlock" /\ i = z + 1
               THEN In(q[i]) = 1 /\ block[q[i]].data[block[q[i]].front] = enq + 1
               ELSE In(q[i]) = 0
    <3>1. CASE i = n
      <4>1. In(q[i]) = 0
        BY <1>2, <1>4, <1>13, <3>1
      <4>2. pro.pc = "tailBlock" => i # z + 1
        <5>1. pro.pc = "tailBlock" => p < n
          BY <1>1, <1>4 DEF ProInv, Ahead
        <5> QED
          BY <1>4, <1>17, <3>1, <5>1
      <4> QED
        BY <4>1, <4>2
    <3>2. CASE i # n
      <4>1. i \in 1 .. n /\ i + 1 \in p + 1 .. n /\ (i + 1 = p + 1 <=> i = z + 1)
        BY <1>4, <1>12, <3>2
      <4>2. q[i] = r[i + 1]
        BY <1>15, <3>2, <4>1
      <4> QED
        BY <1>1, <1>4, <4>1, <4>2 DEF FillInv
    <3> QED
      BY <3>1, <3>2
  <2>4. Len(block') = n /\ block' = block /\ pro' = pro /\ enq' = enq
    BY <1>4, <1>6
  <2> QED
    BY <1>8, <2>1, <2>2, <2>3, <2>4 DEF FillInv
<1>24. ProInv(q, z)'
  <2>1. Full(tailBlock)' <=> Full(tailBlock)
    BY <1>6 DEF Full, In
  <2>2. tailBlock # frontBlock
    <3>1. p # 1
      BY <1>4
    <3> QED
      BY <1>4, <1>5, <3>1
  <2>3. Ahead(r, p) => Ahead(q, z)'
    <3>1. p < n => p \in 1 .. n /\ p # n
      BY <1>4
    <3>2. p < n => q[p] = r[p + 1]
      BY <1>15, <3>1
    <3> QED
      BY <1>4, <1>6, <1>17, <3>2 DEF Ahead
  <2>4. Thought(pro.b)' = Thought(pro.b)
    BY <1>6 DEF Thought
  <2> QED
    BY <1>1, <1>6, <2>1, <2>2, <2>3, <2>4 DEF ProInv
<1>25. ProSizeInv(q, z, o)'
  <2>1. \A i \in 1 .. n : Back(i, n) \in 1 .. n /\ q[Back(i, n)] = r[i]
    <3> SUFFICES ASSUME NEW i \in 1 .. n PROVE Back(i, n) \in 1 .. n /\ q[Back(i, n)] = r[i]
      OBVIOUS
    <3>1. CASE i = 1
      BY <1>13, <3>1 DEF Back
    <3>2. CASE i # 1
      <4>1. i \in 2 .. n
        BY <3>2
      <4> QED
        BY <1>14, <3>2, <4>1 DEF Back
    <3> QED
      BY <3>1, <3>2
  <2>2. pro.sum \in Nat /\ pro.start \in Nat /\ enq \in Nat /\ deq \in Nat /\ o[r[1]] = deq /\ Size = enq - deq
    BY <1>1, ProFields, SizeFacts DEF Size
  <2>3. \A j \in 1 .. n : /\ Follows(j)' = Follows(j) /\ Follows(j) \in 1 .. n
                          /\ Follows(Back(j, n)) = Back(Follows(j), n)
    <3>1. \A j : Follows(j)' = Follows(j) /\ Follows(j) = IF j = n THEN 1 ELSE j + 1
      BY <1>4, <1>6 DEF Follows
    <3> SUFFICES ASSUME NEW j \in 1 .. n
                 PROVE  Follows(j) \in 1 .. n /\ Follows(Back(j, n)) = Back(Follows(j), n)
      BY <3>1
    <3>2. Follows(j) = (IF j = n THEN 1 ELSE j + 1) /\ n >= 2
      BY <1>4, <3>1, SMTT(30)
    <3>3. Follows(j) \in 1 .. n /\ Back(Follows(j), n) = j
      <4>1. (IF j = n THEN 1 ELSE j + 1) \in 1 .. n /\ Back(IF j = n THEN 1 ELSE j + 1, n) = j
        BY <1>4, <3>2, BackAndForth
      <4> QED
        BY <3>2, <4>1
    <3>4. Follows(Back(j, n)) = IF Back(j, n) = n THEN 1 ELSE Back(j, n) + 1
      BY <3>1
    <3>5. Follows(Back(j, n)) = j
      BY <1>4, <3>2, <3>4, BackAndForth
    <3> QED
      BY <3>3, <3>5
  <2>4. ASSUME NEW g \in 1 .. n, g = 1 \/ g > p, NEW j \in 1 .. n, ProSum(r, p, o, g, j)
        PROVE  ProSum(q, z, o, Back(g, n), Back(j, n))'
    <3>1. PICK h \in 1 .. n, k \in 1 .. n : h = Back(g, n) /\ k = Back(j, n) /\ q[k] = r[j]
      BY <2>1
    <3>2. h > 1 /\ (g = 1 => h = n)
      BY <1>4, <2>4, <3>1 DEF Back
    <3>3. CASE j = 1
      <4>1. k = n /\ k >= h
        BY <3>1, <3>3 DEF Back
      <4>2. ~ (g > 1 /\ j >= g) /\ j <= p
        BY <1>4, <3>3
      <4>3. pro.sum + (enq - deq) <= pro.start
        BY <2>2, <2>4, <3>3, <4>2 DEF ProSum
      <4>4. ProSum(q, z, o, h, k)'
        BY <1>6, <2>2, <3>2, <4>1, <4>3 DEF ProSum
      <4> QED
        BY <1>6, <3>1, <4>4 DEF ProSum
    <3>4. CASE j # 1
      <4>1. k = j - 1
        BY <3>1, <3>4 DEF Back
      <4>2. (g > 1 /\ j >= g) <=> (h > 1 /\ k >= h)
        <5>1. CASE g = 1
          BY <3>2, <4>1, <5>1
        <5>2. CASE g # 1
          <6>1. h = g - 1
            BY <3>1, <5>2 DEF Back
          <6> QED
            BY <3>2, <4>1, <5>2, <6>1
        <5> QED
          BY <5>1, <5>2
      <4>3. j <= p <=> k <= z
        BY <1>4, <1>12, <4>1
      <4>4. ProSum(q, z, o, h, k)'
        BY <1>6, <2>4, <3>1, <4>2, <4>3 DEF ProSum
      <4> QED
        BY <1>6, <3>1, <4>4 DEF ProSum
    <3> QED
      BY <3>3, <3>4
  <2>5. ProSized' <=> ProSized
    BY <1>6 DEF ProSized
  <2> SUFFICES ASSUME pro.pc \in Sizing PROVE ProSizeInv(q, z, o)'
    BY <1>6 DEF ProSizeInv
  <2>6. PICK g \in 1 .. n : /\ pro.first = r[g] /\ (g = 1 \/ g > p)
          /\ CASE pro.pc = "sized" -> ProSized
               [] pro.pc = "size" -> \E i \in 1 .. n : pro.b = r[i] /\ ProSum(r, p, o, g, i)
               [] OTHER -> \E i \in 1 .. n :
                             /\ pro.b = r[i]
                             /\ IF Follows(i) = g THEN ProSized ELSE ProSum(r, p, o, g, Follows(i))
    BY <1>1, <1>4 DEF ProSizeInv
  <2>7. PICK h \in 1 .. n : h = Back(g, n) /\ q[h] = r[g] /\ h > z
    <3>1. Back(g, n) > z
      BY <1>4, <1>12, <2>6 DEF Back
    <3> QED
      BY <2>1, <3>1
  <2>8. Len(block') = n /\ pro' = pro
    BY <1>4, <1>6
  <2>9. CASE pro.pc = "sized"
    BY <2>5, <2>6, <2>7, <2>8, <2>9 DEF ProSizeInv
  <2>10. CASE pro.pc = "size"
    <3>1. PICK i \in 1 .. n : pro.b = r[i] /\ ProSum(r, p, o, g, i)
      BY <2>6, <2>10
    <3>2. PICK k \in 1 .. n : k = Back(i, n) /\ q[k] = r[i]
      BY <2>1
    <3>3. ProSum(q, z, o, h, k)'
      BY <2>4, <2>6, <2>7, <3>1, <3>2
    <3> QED
      BY <2>6, <2>7, <2>8, <2>10, <3>1, <3>2, <3>3 DEF ProSizeInv
  <2>11. CASE pro.pc = "sizeNext"
    <3>1. PICK i \in 1 .. n : /\ pro.b = r[i]
                              /\ IF Follows(i) = g THEN ProSized ELSE ProSum(r, p, o, g, Follows(i))
      BY <2>6, <2>11
    <3>2. PICK k \in 1 .. n : k = Back(i, n) /\ q[k] = r[i]
      BY <2>1
    <3>3. PICK j \in 1 .. n : j = Follows(i)
      BY <2>3
    <3>4. PICK l \in 1 .. n : l = Back(j, n)
      BY <2>1
    <3>5. Follows(k)' = l
      BY <2>3, <3>2, <3>3, <3>4
    <3>6. l = h => j = g
      <4>1. n >= 2
        BY <1>4
      <4>2. /\ (IF l = n THEN 1 ELSE l + 1) = j
            /\ (IF h = n THEN 1 ELSE h + 1) = g
        BY <1>4, <2>7, <3>4, <4>1, BackAndForth
      <4> QED
        BY <4>2
    <3>7. l = h => ProSized'
      BY <2>5, <3>1, <3>3, <3>6
    <3>8. l # h => ProSum(q, z, o, h, l)'
      <4>1. l # h => j # g
        BY <2>7, <3>4
      <4>2. l # h => ProSum(r, p, o, g, j)
        BY <3>1, <3>3, <4>1
      <4> QED
        BY <2>4, <2>6, <2>7, <3>4, <4>2
    <3>9. IF Follows(k)' = h THEN ProSized' ELSE ProSum(q, z, o, h, Follows(k))'
      BY <2>8, <3>5, <3>7, <3>8 DEF ProSum
    <3> QED
      BY <2>6, <2>7, <2>8, <2>11, <3>1, <3>2, <3>9 DEF ProSizeInv
  <2> QED
    BY <2>9, <2>10, <2>11 DEF Sizing
<1>26. ConInv(q, z)' /\ ConSizeInv(q, z, o)'
  <2>1. Seen(con.b)' >= 1
    BY <1>2, <1>6, <1>7 DEF Seen
  <2> QED
    BY <1>2, <1>6, <1>7, <2>1 DEF ConInv, ConSizeInv, Sizing
<1>27. /\ q \in [1 .. Len(block') -> DOMAIN block'] /\ z \in 1 .. Len(block')
       /\ o \in [DOMAIN block' -> Nat]
  BY <1>19, <1>21 DEF RingInv, OffsetInv
<1>28. Good(q, z, o)'
  BY <1>19, <1>21, <1>22, <1>23, <1>24, <1>25, <1>26 DEF Good
<1> QED
  BY <1>9, <1>10, <1>27, <1>28 DEF Inv

-----------------------------------------------------------------------------
(* size_approx.                                                            *)

\* What is left to show of a step of size_approx by the consumer.
LEMMA ConSizing ==
  ASSUME NEW r, NEW p, NEW o, State(r, p, o), ~ blocking, con.pc \in {"idle"} \cup Sizing, pro' = pro,
         UNCHANGED <<fixed, block, frontBlock, tailBlock, largestBlockSize, sema, enq, deq>>,
         con' \in Locals(ConPCs), con'.pc \in {"idle"} \cup Sizing,
         con'.kind \notin Removing \cup {"peek"}, con'.start <= Size, ConSizeInv(r, p, o)'
  PROVE  Inv'
<1>1. TypeInv /\ BlocksInv
  BY DEF State
<1>2. UNCHANGED <<fixed, block, frontBlock, tailBlock, largestBlockSize, enq, deq>>
  OBVIOUS
<1>3. /\ Kept /\ SameData /\ BlocksInv' /\ Size' = Size /\ UNCHANGED <<maxSize, blocking>>
      /\ \A b \in DOMAIN block : block'[b].localFront = block[b].localFront
  BY <1>1, <1>2, Unmoved
<1>4. TypeInv' /\ SemaInv'
  BY <1>1, <1>3 DEF TypeInv, SemaInv
<1>5. ConInv(r, p)'
  BY <1>3 DEF ConInv, Sizing
<1>6. con'.pc # "front" /\ con.pc # "front"
  BY DEF Sizing
<1> QED
  BY <1>3, <1>4, <1>5, <1>6, ConsumerStep

\* Blocks the consumer has not reached may gain elements meanwhile.
LEMMA ConSizeStep ==
  ASSUME NEW r, NEW p, NEW o, State(r, p, o), ~ blocking, con.pc \in {"idle"} \cup Sizing, pro' = pro,
         UNCHANGED <<fixed, block, frontBlock, tailBlock, largestBlockSize, sema, enq, deq>>,
         con' = SizeStep(con)
  PROVE  Inv'
<1>1. /\ TypeInv /\ BlocksInv /\ OffsetInv(r, p, o) /\ FillInv(r, p, pro.pc = "tailBlock")
      /\ ConInv(r, p) /\ ConSizeInv(r, p, o)
  BY DEF State, Good
<1>2. /\ Size' = Size /\ block' = block /\ frontBlock' = frontBlock /\ deq' = deq /\ enq' = enq
      /\ Len(block') = Len(block)
  BY DEF Size
<1>3. PICK n : Ring(n, r, p)
  BY Positions
<1>4. /\ n \in Nat /\ Len(block) = n /\ n >= 1 /\ DOMAIN block = 1 .. n
      /\ p \in 1 .. n /\ p \in Nat /\ p >= 1 /\ p <= n
      /\ \A i \in 1 .. n : r[i] \in 1 .. n
      /\ frontBlock = r[1] /\ frontBlock \in Nat /\ 1 \in 1 .. n
  BY <1>3 DEF Ring
<1>5. /\ Size \in Nat /\ enq \in Nat /\ deq \in Nat /\ Size = enq - deq
      /\ o[r[1]] = deq /\ enq = o[r[p]] + In(r[p])
  BY SizeFacts DEF Size
<1>6. \A i \in 1 .. p : o[r[i]] \in Nat
  BY SizeFacts
<1>7. /\ con.sum \in Nat /\ con.start \in Nat /\ con.kind \in Kinds /\ con \in Locals(ConPCs)
  BY <1>1, ConFields DEF TypeInv
<1>8. con.pc # "idle" => con.kind \notin Removing \cup {"peek"} /\ con.start <= Size
  BY <1>1 DEF ConInv
<1>9. CASE con.pc = "idle"
  <2>1. con' = [Idle EXCEPT !.pc = "size", !.kind = "size_approx", !.start = Size,
                            !.b = frontBlock, !.first = frontBlock]
    BY <1>9 DEF SizeStep
  <2>2. con' = [pc |-> "size", kind |-> "size_approx", start |-> Size, b |-> frontBlock,
                first |-> frontBlock, sum |-> 0]
    BY <2>1 DEF Idle
  <2>3. con' \in Locals(ConPCs)
    BY <1>4, <1>5, <2>2 DEF Locals, ConPCs, Kinds
  <2>4. /\ con'.pc = "size" /\ con'.kind = "size_approx" /\ con'.start = Size /\ con'.b = r[1]
        /\ con'.first = frontBlock /\ con'.sum = 0
    BY <1>4, <2>2
  <2>5. ConSum(r, p, o, 1)'
    BY <1>2, <1>4, <1>5, <2>4 DEF ConSum
  <2>6. ConSizeInv(r, p, o)'
    BY <1>2, <1>4, <2>4, <2>5 DEF ConSizeInv
  <2>7. con'.kind \notin Removing \cup {"peek"} /\ con'.pc \in {"idle"} \cup Sizing /\ con'.start <= Size
    BY <1>5, <2>4 DEF Removing, Sizing
  <2> QED
    BY <2>3, <2>6, <2>7, ConSizing
<1>10. CASE con.pc = "size"
  <2>1. PICK i \in 1 .. n : con.b = r[i] /\ ConSum(r, p, o, i)
    BY <1>1, <1>4, <1>10 DEF ConSizeInv, Sizing
  <2>2. r[i] \in DOMAIN block /\ i \in Nat /\ i >= 1 /\ i <= n
    BY <1>4
  <2>3. InBlock(con.b) = In(r[i]) /\ In(r[i]) \in Nat
    BY <1>1, <2>1, <2>2, BlockFacts
  <2>4. PICK m \in Nat : m = In(r[i])
    BY <2>3
  <2>5. con' = [con EXCEPT !.pc = "sizeNext", !.sum = @ + m]
    BY <1>10, <2>3, <2>4 DEF SizeStep
  <2>6. /\ con' \in Locals(ConPCs) /\ con'.pc = "sizeNext" /\ con'.kind = con.kind
        /\ con'.start = con.start /\ con'.b = con.b /\ con'.first = con.first
        /\ con'.sum = con.sum + m
    <3>1. /\ con.kind \in Kinds /\ con.start \in Nat /\ con.b \in Nat /\ con.first \in Nat
          /\ con.sum \in Nat
      BY <1>7 DEF Locals
    <3>2. "sizeNext" \in ConPCs /\ con.sum + m \in Nat
      BY <3>1 DEF ConPCs
    <3>3. con' = [pc |-> "sizeNext", kind |-> con.kind, start |-> con.start, b |-> con.b, first |-> con.first,
                  sum |-> con.sum + m]
      BY <1>7, <2>5 DEF Locals
    <3> QED
      BY <3>1, <3>2, <3>3 DEF Locals
  <2>7. ConSum(r, p, o, i + 1)'
    <3>1. CASE i < p
      <4>1. i \in 1 .. p - 1 /\ i \in 1 .. p /\ i + 1 \in 1 .. p /\ i <= p /\ i + 1 <= p
        BY <1>4, <2>2, <3>1
      <4>2. o[r[i + 1]] = o[r[i]] + m
        BY <1>1, <2>4, <4>1 DEF OffsetInv
      <4>3. /\ con.sum <= o[r[i]] - deq
            /\ con.sum = o[r[i]] - deq \/ con.sum >= con.start
        BY <2>1, <4>1 DEF ConSum
      <4>4. o[r[i]] \in Nat
        BY <1>6, <4>1
      <4>5. /\ con.sum + m <= o[r[i + 1]] - deq
            /\ con.sum + m = o[r[i + 1]] - deq \/ con.sum + m >= con.start
        BY <1>5, <1>7, <4>2, <4>3, <4>4
      <4> QED
        BY <1>2, <2>6, <4>1, <4>5 DEF ConSum
    <3>2. CASE i = p
      <4>1. /\ con.sum <= o[r[p]] - deq
            /\ con.sum = o[r[p]] - deq \/ con.sum >= con.start
        BY <1>4, <2>1, <3>2 DEF ConSum
      <4>2. o[r[p]] \in Nat /\ enq = o[r[p]] + m /\ con.start <= Size
        BY <1>4, <1>5, <1>6, <1>8, <1>10, <2>4, <3>2
      <4>3. con.start <= con.sum + m /\ con.sum + m <= Size
        BY <1>5, <1>7, <4>1, <4>2
      <4>4. ~ (i + 1 <= p)
        BY <1>4, <3>2
      <4> QED
        BY <1>2, <1>5, <1>7, <2>6, <4>3, <4>4 DEF ConSum
    <3>3. CASE i > p
      <4>1. i \in p + 1 .. Len(block) /\ ~ (i <= p) /\ ~ (i + 1 <= p) /\ i + 1 > p + 1
        BY <1>4, <2>2, <3>3
      <4>2. m = IF pro.pc = "tailBlock" /\ i = p + 1 THEN 1 ELSE 0
        BY <1>1, <2>4, <4>1 DEF FillInv
      <4>3. /\ con.start <= con.sum
            /\ con.sum <= Size + (IF pro.pc = "tailBlock" /\ i > p + 1 THEN 1 ELSE 0)
        BY <2>1, <4>1 DEF ConSum
      <4>4. con.start <= con.sum + m /\ con.sum + m <= Size + (IF pro.pc = "tailBlock" THEN 1 ELSE 0)
        BY <1>5, <1>7, <4>1, <4>2, <4>3, SMTT(30)
      <4> QED
        BY <1>2, <2>6, <4>1, <4>4 DEF ConSum
    <3> QED
      BY <1>4, <2>2, <3>1, <3>2, <3>3
  <2>8. ConSizeInv(r, p, o)'
    <3>1. con.first = frontBlock
      BY <1>1, <1>10 DEF ConSizeInv, Sizing
    <3>2. con'.b = r[i] /\ con'.first = frontBlock' /\ i \in 1 .. Len(block')
      BY <1>2, <1>4, <2>1, <2>6, <3>1
    <3> QED
      BY <2>6, <2>7, <3>2 DEF ConSizeInv
  <2>9. con'.kind \notin Removing \cup {"peek"} /\ con'.pc \in {"idle"} \cup Sizing /\ con'.start <= Size
    BY <1>8, <1>10, <2>6 DEF Sizing
  <2> QED
    BY <2>6, <2>8, <2>9, ConSizing
<1>11. CASE con.pc = "sizeNext"
  <2>1. PICK i \in 1 .. n : con.b = r[i] /\ ConSum(r, p, o, i + 1)
    BY <1>1, <1>4, <1>11 DEF ConSizeInv, Sizing
  <2>2. con.first = r[1]
    BY <1>1, <1>4, <1>11 DEF ConSizeInv, Sizing
  <2>3. block[r[i]].next = IF i = n THEN r[1] ELSE r[i + 1]
    BY <1>3, <1>4 DEF Ring
  <2>4. PICK to \in {"size", "sized"}, b \in 1 .. n :
          /\ b = block[con.b].next /\ to = IF b = con.first THEN "sized" ELSE "size"
    <3>1. i # n => i + 1 \in 1 .. n
      BY <1>4
    <3>2. block[con.b].next \in 1 .. n
      BY <1>4, <2>1, <2>3, <3>1
    <3> QED
      BY <3>2
  <2>5. con' = [con EXCEPT !.b = b, !.pc = to]
    BY <1>11, <2>4 DEF SizeStep
  <2>6. /\ con' \in Locals(ConPCs) /\ con'.pc = to /\ con'.kind = con.kind
        /\ con'.start = con.start /\ con'.b = b /\ con'.first = con.first /\ con'.sum = con.sum
    <3>1. /\ con.kind \in Kinds /\ con.start \in Nat /\ con.b \in Nat /\ con.first \in Nat
          /\ con.sum \in Nat
      BY <1>7 DEF Locals
    <3>2. to \in ConPCs /\ b \in Nat
      BY <1>4, <3>1 DEF ConPCs
    <3>3. con' = [pc |-> to, kind |-> con.kind, start |-> con.start, b |-> b, first |-> con.first,
                  sum |-> con.sum]
      BY <1>7, <2>5 DEF Locals
    <3> QED
      BY <3>1, <3>2, <3>3 DEF Locals
  <2>7. ConSum(r, p, o, i + 1)'
    BY <1>2, <2>1, <2>6 DEF ConSum
  <2>8. CASE i = n
    <3>1. to = "sized"
      BY <2>1, <2>2, <2>3, <2>4, <2>8
    <3> QED
      <4>1. ConSizeInv(r, p, o)'
        BY <1>2, <1>4, <2>2, <2>6, <2>7, <2>8, <3>1 DEF ConSizeInv
      <4>2. con'.kind \notin Removing \cup {"peek"} /\ con'.pc \in {"idle"} \cup Sizing /\ con'.start <= Size
        BY <1>8, <1>11, <2>6, <3>1 DEF Sizing
      <4> QED
        BY <2>6, <4>1, <4>2, ConSizing
  <2>9. CASE i # n
    <3>1. i + 1 \in 1 .. n /\ i + 1 # 1
      BY <1>4, <2>9
    <3>2. b = r[i + 1] /\ r[i + 1] # r[1]
      <4>1. \A k, j \in 1 .. n : r[k] = r[j] => k = j
        BY <1>3 DEF Ring
      <4>2. r[i + 1] # r[1]
        BY <1>4, <3>1, <4>1
      <4> QED
        BY <2>1, <2>3, <2>4, <2>9, <4>2
    <3>3. to = "size"
      BY <2>2, <2>4, <3>2
    <3> QED
      <4>1. ConSizeInv(r, p, o)'
        BY <1>2, <1>4, <2>2, <2>6, <2>7, <3>1, <3>2, <3>3 DEF ConSizeInv
      <4>2. con'.kind \notin Removing \cup {"peek"} /\ con'.pc \in {"idle"} \cup Sizing /\ con'.start <= Size
        BY <1>8, <1>11, <2>6, <3>3 DEF Sizing
      <4> QED
        BY <2>6, <4>1, <4>2, ConSizing
  <2> QED
    BY <2>8, <2>9
<1>12. CASE con.pc = "sized"
  <2>1. con' = Idle
    BY <1>12 DEF SizeStep
  <2>2. con' \in Locals(ConPCs) /\ con'.pc = "idle" /\ con'.kind = "none" /\ con'.start = 0
    BY <2>1, IdleType DEF Idle
  <2>3. con'.kind \notin Removing \cup {"peek"} /\ con'.start <= Size
    BY <1>5, <2>2 DEF Removing
  <2>4. ConSizeInv(r, p, o)'
    BY <2>2 DEF ConSizeInv, Sizing
  <2> QED
    BY <2>2, <2>3, <2>4, ConSizing
<1> QED
  BY <1>9, <1>10, <1>11, <1>12 DEF Sizing

\* What is left to show of a step of size_approx by the producer.
LEMMA ProSizing ==
  ASSUME NEW r, NEW p, NEW o, State(r, p, o), ~ blocking, pro.pc \in {"idle"} \cup Sizing, con' = con,
         UNCHANGED <<fixed, block, frontBlock, tailBlock, largestBlockSize, sema, enq, deq>>,
         pro' \in Locals(ProPCs), pro'.pc \in {"idle"} \cup Sizing, ProSizeInv(r, p, o)'
  PROVE  Inv'
<1>1. TypeInv /\ BlocksInv
  BY DEF State
<1>2. UNCHANGED <<fixed, block, frontBlock, tailBlock, largestBlockSize, enq, deq>>
  OBVIOUS
<1>3. /\ Kept /\ SameData /\ BlocksInv' /\ Size' = Size /\ UNCHANGED <<maxSize, blocking>>
      /\ \A b \in DOMAIN block : block'[b].localTail = block[b].localTail
  BY <1>1, <1>2, Unmoved
<1>4. TypeInv' /\ SemaInv'
  BY <1>1, <1>3 DEF TypeInv, SemaInv
<1>5. ProInv(r, p)'
  BY DEF ProInv, Enqueuing, Sizing
<1>6. pro'.pc # "tailBlock" /\ pro.pc # "tailBlock"
  BY DEF Sizing
<1> QED
  BY <1>3, <1>4, <1>5, <1>6, ProducerStep

\* The producer has added the i-th block's elements.
LEMMA ProSummed ==
  ASSUME NEW r, NEW p, NEW o, State(r, p, o), NEW n, Ring(n, r, p), pro.pc = "size",
         NEW f \in 1 .. n, f = 1 \/ f > p, NEW i \in 1 .. n, ProSum(r, p, o, f, i),
         NEW j \in 1 .. n, j = IF i = n THEN 1 ELSE i + 1,
         UNCHANGED <<enq, deq>>, pro'.start = pro.start, pro'.sum = pro.sum + In(r[i])
  PROVE  IF j = f THEN ProSized' ELSE ProSum(r, p, o, f, j)'
<1>1. /\ n \in Nat /\ Len(block) = n /\ p \in Nat /\ p >= 1 /\ p <= n /\ p \in 1 .. n
  BY DEF Ring
<1>2. /\ Size \in Nat /\ enq \in Nat /\ deq \in Nat /\ Size = enq - deq /\ Size' = enq - deq
      /\ o[r[1]] = deq /\ enq = o[r[p]] + In(r[p])
  BY SizeFacts DEF Size
<1>3. \A k \in 1 .. p : o[r[k]] \in Nat
  BY SizeFacts
<1>4. PICK m \in Nat : m = In(r[i])
  BY <1>1, SizeFacts
<1>5. OffsetInv(r, p, o) /\ FillInv(r, p, pro.pc = "tailBlock") /\ TypeInv
  BY DEF State, Good
<1>6. pro.sum \in Nat /\ pro.start \in Nat
  BY <1>5, ProFields
<1>7. PICK s \in Nat : s = pro.sum + m /\ pro'.sum = s
  BY <1>4, <1>6
<1>8. i > p => m = 0
  <2>1. i > p => i \in p + 1 .. Len(block)
    BY <1>1
  <2> QED
    BY <1>4, <1>5, <2>1 DEF FillInv
<1>9. CASE f > 1 /\ i >= f
  <2>1. m = 0 /\ s = pro.sum
    BY <1>1, <1>6, <1>7, <1>8, <1>9
  <2>2. s + Size <= pro.start
    BY <1>9, <2>1 DEF ProSum
  <2>3. CASE i = n
    <3>1. j = 1 /\ j # f /\ ~ (f > 1 /\ j >= f) /\ j <= p
      BY <1>1, <1>9, <2>3
    <3>2. o[r[j]] - deq <= s /\ s + (enq - o[r[j]]) <= pro.start
      BY <1>2, <1>7, <2>2, <3>1
    <3>3. ProSum(r, p, o, f, j)'
      BY <1>7, <3>1, <3>2 DEF ProSum
    <3> QED
      BY <3>1, <3>3
  <2>4. CASE i # n
    <3>1. j # f /\ j >= f
      BY <1>9, <2>4
    <3>2. ProSum(r, p, o, f, j)'
      BY <1>2, <1>7, <1>9, <2>2, <3>1 DEF ProSum
    <3> QED
      BY <3>1, <3>2
  <2> QED
    BY <2>3, <2>4
<1>10. CASE ~ (f > 1 /\ i >= f) /\ i < p
  <2>1. /\ i # n /\ j = i + 1 /\ j # f /\ ~ (f > 1 /\ j >= f) /\ j <= p
        /\ i \in 1 .. p - 1 /\ i \in 1 .. p /\ i <= p
    BY <1>1, <1>10
  <2>2. o[r[i]] - deq <= pro.sum /\ pro.sum + (enq - o[r[i]]) <= pro.start
    BY <1>10, <2>1 DEF ProSum
  <2>3. o[r[i + 1]] = o[r[i]] + m /\ o[r[i]] \in Nat
    BY <1>3, <1>4, <1>5, <2>1 DEF OffsetInv
  <2>4. o[r[j]] - deq <= s /\ s + (enq - o[r[j]]) <= pro.start
    BY <1>2, <1>6, <1>7, <2>1, <2>2, <2>3
  <2>5. ProSum(r, p, o, f, j)'
    BY <1>7, <2>1, <2>4 DEF ProSum
  <2> QED
    BY <2>1, <2>5
<1>11. CASE ~ (f > 1 /\ i >= f) /\ i = p
  <2>1. o[r[p]] - deq <= pro.sum /\ pro.sum + (enq - o[r[p]]) <= pro.start
    BY <1>1, <1>11 DEF ProSum
  <2>2. o[r[p]] \in Nat /\ enq = o[r[p]] + m
    BY <1>1, <1>2, <1>3, <1>4, <1>11
  <2>3. Size <= s /\ s <= pro.start
    BY <1>2, <1>6, <1>7, <2>1, <2>2
  <2>4. ProSized'
    BY <1>2, <1>7, <2>3 DEF ProSized
  <2>5. j # f => ~ (f > 1 /\ j >= f) /\ ~ (j <= p)
    BY <1>1, <1>11
  <2>6. j # f => ProSum(r, p, o, f, j)'
    BY <1>2, <1>7, <2>3, <2>5 DEF ProSum
  <2> QED
    BY <2>4, <2>6
<1>12. CASE ~ (f > 1 /\ i >= f) /\ i > p
  <2>1. Size <= pro.sum /\ pro.sum <= pro.start /\ s = pro.sum
    <3>1. ~ (i <= p)
      BY <1>1, <1>12
    <3> QED
      BY <1>6, <1>7, <1>8, <1>12, <3>1 DEF ProSum
  <2>2. ProSized'
    BY <1>2, <1>7, <2>1 DEF ProSized
  <2>3. j # f => ~ (f > 1 /\ j >= f) /\ ~ (j <= p)
    BY <1>1, <1>12
  <2>4. j # f => ProSum(r, p, o, f, j)'
    BY <1>2, <1>7, <2>1, <2>3 DEF ProSum
  <2> QED
    BY <2>2, <2>4
<1> QED
  BY <1>1, <1>9, <1>10, <1>11, <1>12

\* Blocks the producer has not reached may lose elements meanwhile.
LEMMA ProSizeStep ==
  ASSUME NEW r, NEW p, NEW o, State(r, p, o), ~ blocking, pro.pc \in {"idle"} \cup Sizing, con' = con,
         UNCHANGED <<fixed, block, frontBlock, tailBlock, largestBlockSize, sema, enq, deq>>,
         pro' = SizeStep(pro)
  PROVE  Inv'
<1>1. TypeInv /\ BlocksInv /\ ProSizeInv(r, p, o)
  BY DEF State, Good
<1>2. /\ Size' = Size /\ block' = block /\ frontBlock' = frontBlock /\ deq' = deq /\ enq' = enq
      /\ Len(block') = Len(block)
  BY DEF Size
<1>3. PICK n : Ring(n, r, p)
  BY Positions
<1>4. /\ n \in Nat /\ Len(block) = n /\ n >= 1 /\ DOMAIN block = 1 .. n
      /\ p \in 1 .. n /\ p \in Nat /\ p >= 1 /\ p <= n
      /\ \A i \in 1 .. n : r[i] \in 1 .. n
      /\ frontBlock = r[1] /\ frontBlock \in Nat /\ 1 \in 1 .. n
  BY <1>3 DEF Ring
<1>5. Size \in Nat /\ enq \in Nat /\ deq \in Nat /\ Size = enq - deq /\ o[r[1]] = deq
  BY SizeFacts DEF Size
<1>6. pro \in Locals(ProPCs)
  BY <1>1 DEF TypeInv
<1>7. \A j : Follows(j) = (IF j = n THEN 1 ELSE j + 1) /\ Follows(j)' = Follows(j)
  BY <1>2, <1>4 DEF Follows
<1>8. \A j \in 1 .. n : Follows(j) \in 1 .. n
  BY <1>4, <1>7
<1>9. CASE pro.pc = "idle"
  <2>1. pro' = [Idle EXCEPT !.pc = "size", !.kind = "size_approx", !.start = Size,
                            !.b = frontBlock, !.first = frontBlock]
    BY <1>9 DEF SizeStep
  <2>2. pro' = [pc |-> "size", kind |-> "size_approx", start |-> Size, b |-> frontBlock,
                first |-> frontBlock, sum |-> 0]
    BY <2>1 DEF Idle
  <2>3. pro' \in Locals(ProPCs)
    BY <1>4, <1>5, <2>2 DEF Locals, ProPCs, Kinds
  <2>4. pro'.pc = "size" /\ pro'.start = Size /\ pro'.b = r[1] /\ pro'.first = r[1] /\ pro'.sum = 0
    BY <1>4, <2>2
  <2>5. ProSum(r, p, o, 1, 1)'
    BY <1>2, <1>4, <1>5, <2>4 DEF ProSum
  <2>6. ProSizeInv(r, p, o)'
    BY <1>2, <1>4, <2>4, <2>5 DEF ProSizeInv
  <2>7. pro'.pc \in {"idle"} \cup Sizing
    BY <2>4 DEF Sizing
  <2> QED
    BY <2>3, <2>6, <2>7, ProSizing
<1>10. CASE pro.pc = "size"
  <2>1. PICK f \in 1 .. n : /\ pro.first = r[f] /\ (f = 1 \/ f > p)
                            /\ \E i \in 1 .. n : pro.b = r[i] /\ ProSum(r, p, o, f, i)
    BY <1>1, <1>4, <1>10 DEF ProSizeInv, Sizing
  <2>2. PICK i \in 1 .. n : pro.b = r[i] /\ ProSum(r, p, o, f, i)
    BY <2>1
  <2>3. InBlock(pro.b) = In(r[i]) /\ In(r[i]) \in Nat
    BY <1>1, <1>4, <2>2, BlockFacts
  <2>4. PICK m \in Nat : m = In(r[i])
    BY <2>3
  <2>5. pro' = [pro EXCEPT !.pc = "sizeNext", !.sum = @ + m]
    BY <1>10, <2>3, <2>4 DEF SizeStep
  <2>6. /\ pro' \in Locals(ProPCs) /\ pro'.pc = "sizeNext" /\ pro'.start = pro.start
        /\ pro'.b = pro.b /\ pro'.first = pro.first /\ pro'.sum = pro.sum + m
    <3>1. /\ pro.kind \in Kinds /\ pro.start \in Nat /\ pro.b \in Nat /\ pro.first \in Nat
          /\ pro.sum \in Nat
      BY <1>6 DEF Locals
    <3>2. "sizeNext" \in ProPCs /\ pro.sum + m \in Nat
      BY <3>1 DEF ProPCs
    <3>3. pro' = [pc |-> "sizeNext", kind |-> pro.kind, start |-> pro.start, b |-> pro.b, first |-> pro.first,
                  sum |-> pro.sum + m]
      BY <1>6, <2>5 DEF Locals
    <3> QED
      BY <3>1, <3>2, <3>3 DEF Locals
  <2>7. PICK j \in 1 .. n : j = Follows(i) /\ j = IF i = n THEN 1 ELSE i + 1
    BY <1>7, <1>8
  <2>8. IF j = f THEN ProSized' ELSE ProSum(r, p, o, f, j)'
    BY <1>3, <1>10, <2>1, <2>2, <2>4, <2>6, <2>7, ProSummed
  <2>9. IF Follows(i)' = f THEN ProSized' ELSE ProSum(r, p, o, f, Follows(i))'
    BY <1>2, <1>7, <2>7, <2>8 DEF ProSum
  <2>10. ProSizeInv(r, p, o)'
    BY <1>2, <1>4, <2>1, <2>2, <2>6, <2>9 DEF ProSizeInv
  <2>11. pro'.pc \in {"idle"} \cup Sizing
    BY <2>6 DEF Sizing
  <2> QED
    BY <2>6, <2>10, <2>11, ProSizing
<1>11. CASE pro.pc = "sizeNext"
  <2>1. PICK f \in 1 .. n : /\ pro.first = r[f] /\ (f = 1 \/ f > p)
          /\ \E i \in 1 .. n : /\ pro.b = r[i]
                               /\ IF Follows(i) = f THEN ProSized ELSE ProSum(r, p, o, f, Follows(i))
    BY <1>1, <1>4, <1>11 DEF ProSizeInv, Sizing
  <2>2. PICK i \in 1 .. n : /\ pro.b = r[i]
                            /\ IF Follows(i) = f THEN ProSized ELSE ProSum(r, p, o, f, Follows(i))
    BY <2>1
  <2>3. PICK j \in 1 .. n : j = Follows(i) /\ j = IF i = n THEN 1 ELSE i + 1
    BY <1>7, <1>8
  <2>4. block[r[i]].next = r[j]
    <3>1. block[r[i]].next = IF i = n THEN r[1] ELSE r[i + 1]
      BY <1>3, <1>4 DEF Ring
    <3> QED
      BY <2>3, <3>1
  <2>5. PICK to \in {"size", "sized"} : to = IF j = f THEN "sized" ELSE "size"
    OBVIOUS
  <2>6. r[j] = r[f] <=> j = f
    <3>1. \A k, l \in 1 .. n : r[k] = r[l] => k = l
      BY <1>3 DEF Ring
    <3> QED
      BY <3>1
  <2>7. PICK b \in 1 .. n : b = r[j]
    BY <1>4
  <2>8. pro' = [pro EXCEPT !.b = b, !.pc = to]
    BY <1>11, <2>1, <2>2, <2>4, <2>5, <2>6, <2>7 DEF SizeStep
  <2>9. /\ pro' \in Locals(ProPCs) /\ pro'.pc = to /\ pro'.start = pro.start
        /\ pro'.b = b /\ pro'.first = pro.first /\ pro'.sum = pro.sum
    <3>1. /\ pro.kind \in Kinds /\ pro.start \in Nat /\ pro.b \in Nat /\ pro.first \in Nat
          /\ pro.sum \in Nat
      BY <1>6 DEF Locals
    <3>2. to \in ProPCs /\ b \in Nat
      BY <1>4, <3>1 DEF ProPCs
    <3>3. pro' = [pc |-> to, kind |-> pro.kind, start |-> pro.start, b |-> b, first |-> pro.first,
                  sum |-> pro.sum]
      BY <1>6, <2>8 DEF Locals
    <3> QED
      BY <3>1, <3>2, <3>3 DEF Locals
  <2>10. (ProSized' <=> ProSized) /\ (ProSum(r, p, o, f, j)' <=> ProSum(r, p, o, f, j))
    BY <1>2, <2>9 DEF ProSized, ProSum
  <2>11. CASE j = f
    <3>1. ProSized'
      BY <2>2, <2>3, <2>10, <2>11
    <3>2. to = "sized"
      BY <2>5, <2>11
    <3> QED
      <4>1. ProSizeInv(r, p, o)'
        BY <1>2, <1>4, <2>1, <2>9, <3>1, <3>2 DEF ProSizeInv
      <4>2. pro'.pc \in {"idle"} \cup Sizing
        BY <2>9, <3>2 DEF Sizing
      <4> QED
        BY <2>9, <4>1, <4>2, ProSizing
  <2>12. CASE j # f
    <3>1. ProSum(r, p, o, f, j)'
      BY <2>2, <2>3, <2>10, <2>12
    <3>2. to = "size"
      BY <2>5, <2>12
    <3> QED
      <4>1. ProSizeInv(r, p, o)'
        BY <1>2, <1>4, <2>1, <2>7, <2>9, <3>1, <3>2 DEF ProSizeInv
      <4>2. pro'.pc \in {"idle"} \cup Sizing
        BY <2>9, <3>2 DEF Sizing
      <4> QED
        BY <2>9, <4>1, <4>2, ProSizing
  <2> QED
    BY <2>11, <2>12
<1>12. CASE pro.pc = "sized"
  <2>1. pro' = Idle
    BY <1>12 DEF SizeStep
  <2>2. pro' \in Locals(ProPCs) /\ pro'.pc = "idle"
    BY <2>1, IdleType
  <2>3. ProSizeInv(r, p, o)'
    BY <2>2 DEF ProSizeInv, Sizing
  <2> QED
    BY <2>2, <2>3, ProSizing
<1> QED
  BY <1>9, <1>10, <1>11, <1>12 DEF Sizing

-----------------------------------------------------------------------------
(* The invariant holds initially and is preserved.                         *)

\* A block that make_block made.
LEMMA MadeBlock ==
  ASSUME NEW s \in Nat, NEW next \in Nat
  PROVE  /\ make_block(s, next) \in BlockType /\ make_block(s, next).size = s
         /\ make_block(s, next).front = 0 /\ make_block(s, next).tail = 0
         /\ make_block(s, next).localFront = 0 /\ make_block(s, next).localTail = 0
         /\ make_block(s, next).next = next /\ make_block(s, next).data \in [0 .. s - 1 -> Nat]
<1> DEFINE d == [i \in 0 .. s - 1 |-> Nothing]
<1>1. d \in [0 .. s - 1 -> Nat]
  BY DEF Nothing
<1>2. d \in UNION {[0 .. c - 1 -> Nat] : c \in Nat}
  BY <1>1
<1>3. make_block(s, next) = [size |-> s, front |-> 0, localTail |-> 0, tail |-> 0,
                             localFront |-> 0, next |-> next, data |-> d]
  BY DEF make_block
<1> HIDE DEF d
<1>4. PICK m : m = make_block(s, next)
  OBVIOUS
<1>5. m = [size |-> s, front |-> 0, localTail |-> 0, tail |-> 0, localFront |-> 0, next |-> next,
           data |-> d]
  BY <1>3, <1>4
<1>6. m \in BlockType
  <2> DEFINE U == UNION {[0 .. c - 1 -> Nat] : c \in Nat}
  <2>1. BlockType = [size : Nat, front : Nat, localTail : Nat, tail : Nat, localFront : Nat,
                     next : Nat, data : U]
    BY DEF BlockType
  <2> HIDE DEF U
  <2>2. d \in U
    BY <1>2 DEF U
  <2> QED
    BY <1>5, <2>1, <2>2
<1>7. /\ m.size = s /\ m.front = 0 /\ m.tail = 0 /\ m.localFront = 0 /\ m.localTail = 0
      /\ m.next = next /\ m.data = d
  BY <1>5
<1> QED
  BY <1>1, <1>4, <1>6, <1>7

\* The constructor makes a ring of empty blocks.
LEMMA InitInv == Init => Inv
<1> SUFFICES ASSUME Init PROVE Inv
  OBVIOUS
<1>1. PICK n \in Nat, s \in Nat :
        /\ n = initialBlockCount(maxSize) /\ n >= 1 /\ s = S /\ s >= 2
        /\ maxSize \in Nat /\ largestBlockSize = s
        /\ IF n = 1 THEN maxSize <= s - 1 ELSE maxSize <= (n - 1) * (s - 1)
  BY Parameters DEF Init, S
<1>2. block = [b \in 1 .. n |-> make_block(s, (b % n) + 1)]
  BY <1>1 DEF Init, S
<1>3. \A b \in 1 .. n : (b % n) + 1 = (IF b = n THEN 1 ELSE b + 1) /\ (b % n) + 1 \in Nat
  BY <1>1
<1>4. \A b \in 1 .. n : /\ block[b] \in BlockType /\ block[b].size = s
                        /\ block[b].front = 0 /\ block[b].tail = 0
                        /\ block[b].localFront = 0 /\ block[b].localTail = 0
                        /\ block[b].next = IF b = n THEN 1 ELSE b + 1
                        /\ block[b].data \in [0 .. s - 1 -> Nat]
  <2> SUFFICES ASSUME NEW b \in 1 .. n
               PROVE  /\ block[b] \in BlockType /\ block[b].size = s
                      /\ block[b].front = 0 /\ block[b].tail = 0
                      /\ block[b].localFront = 0 /\ block[b].localTail = 0
                      /\ block[b].next = IF b = n THEN 1 ELSE b + 1
                      /\ block[b].data \in [0 .. s - 1 -> Nat]
    OBVIOUS
  <2>1. PICK next \in Nat : next = (b % n) + 1 /\ next = IF b = n THEN 1 ELSE b + 1
    BY <1>3
  <2>2. block[b] = make_block(s, next)
    BY <1>2, <2>1
  <2> QED
    BY <2>1, <2>2, MadeBlock
<1>5. DOMAIN block = 1 .. n /\ block \in Seq(BlockType) /\ Len(block) = n
  <2>1. DOMAIN block = 1 .. n /\ block = [b \in 1 .. n |-> block[b]]
    BY <1>2
  <2>2. block \in Seq(BlockType)
    BY <1>4, <2>1
  <2> QED
    BY <2>1, <2>2
<1>6. /\ pro = Idle /\ con = Idle /\ enq = 0 /\ deq = 0 /\ sema = 0
      /\ frontBlock = 1 /\ tailBlock = 1 /\ maxSize \in MaxSizes /\ blocking \in BOOLEAN
  BY DEF Init
<1>7. /\ pro \in Locals(ProPCs) /\ con \in Locals(ConPCs) /\ pro.pc = "idle" /\ con.pc = "idle"
      /\ con.kind = "none"
  BY <1>6, IdleType
<1>8. TypeInv
  BY <1>1, <1>5, <1>6, <1>7 DEF TypeInv
<1>9. \A b \in 1 .. n : In(b) = 0 /\ Seen(b) = 0 /\ Thought(b) = 0
  BY <1>4 DEF In, Seen, Thought, Dist
<1>10. BlocksInv
  BY <1>1, <1>4, <1>5, <1>9 DEF BlocksInv, BlockOK
<1>11. CapacityInv /\ SemaInv
  <2>1. CapacityInv
    BY <1>1, <1>5 DEF CapacityInv
  <2>2. SemaInv
    BY <1>6, <1>7 DEF SemaInv, Size, Sizing, Removing
  <2> QED
    BY <2>1, <2>2
<1>12. PICK r : r = [i \in 1 .. n |-> i]
  OBVIOUS
<1>13. PICK o : o = [b \in 1 .. n |-> 0]
  OBVIOUS
<1>14. /\ r \in [1 .. n -> 1 .. n] /\ \A i \in 1 .. n : r[i] = i
       /\ o \in [1 .. n -> Nat] /\ \A i \in 1 .. n : o[i] = 0
       /\ 1 \in 1 .. n
  BY <1>1, <1>12, <1>13
<1>15. RingInv(r, 1)
  <2>1. \A i \in 1 .. n : block[r[i]].next = IF i = n THEN r[1] ELSE r[i + 1]
    <3> SUFFICES ASSUME NEW i \in 1 .. n PROVE block[r[i]].next = IF i = n THEN r[1] ELSE r[i + 1]
      OBVIOUS
    <3>1. i # n => i + 1 \in 1 .. n
      BY <1>1
    <3> QED
      BY <1>4, <1>14, <3>1
  <2> QED
    BY <1>5, <1>6, <1>14, <2>1 DEF RingInv
<1>16. OffsetInv(r, 1, o)
  <2>1. o[r[1]] = 0 /\ In(r[1]) = 0
    BY <1>9, <1>14
  <2>2. 1 .. 1 - 1 = {} /\ 2 .. 1 = {} /\ \A i \in 1 .. 1 : i = 1
    OBVIOUS
  <2> QED
    BY <1>5, <1>6, <1>14, <2>1, <2>2 DEF OffsetInv
<1>17. DataInv(r, 1, o, con.pc = "front")
  <2> SUFFICES ASSUME NEW i \in 1 .. 1, NEW k \in 0 .. In(r[i]) - 1 PROVE FALSE
    BY DEF DataInv
  <2>1. In(r[i]) = 0
    BY <1>9, <1>14
  <2> QED
    BY <2>1
<1>18. FillInv(r, 1, pro.pc = "tailBlock")
  <2>1. \A i \in 2 .. n : i \in 1 .. n /\ In(r[i]) = 0
    BY <1>9, <1>14
  <2>2. 2 .. 1 = {} /\ 2 .. 1 - 1 = {} /\ 1 + 1 = 2
    OBVIOUS
  <2> QED
    BY <1>5, <1>7, <2>1, <2>2 DEF FillInv
<1>19. ProInv(r, 1) /\ ConInv(r, 1) /\ ConSizeInv(r, 1, o) /\ ProSizeInv(r, 1, o)
  <2>1. ProInv(r, 1)
    BY <1>7 DEF ProInv, Enqueuing
  <2>2. ConInv(r, 1)
    BY <1>7 DEF ConInv, Removing
  <2>3. ConSizeInv(r, 1, o) /\ ProSizeInv(r, 1, o)
    BY <1>7 DEF ConSizeInv, ProSizeInv, Sizing
  <2> QED
    BY <2>1, <2>2, <2>3
<1>20. Good(r, 1, o)
  BY <1>15, <1>16, <1>17, <1>18, <1>19 DEF Good
<1>21. r \in [1 .. Len(block) -> DOMAIN block] /\ 1 \in 1 .. Len(block) /\ o \in [DOMAIN block -> Nat]
  BY <1>5, <1>14
<1> QED
  BY <1>8, <1>10, <1>11, <1>20, <1>21 DEF Inv

\* Nothing happens.
LEMMA StutteringStep ==
  ASSUME NEW r, NEW p, NEW o, State(r, p, o), UNCHANGED vars
  PROVE  Inv'
<1>1. /\ UNCHANGED <<fixed, block, frontBlock, tailBlock, largestBlockSize, enq, deq>>
      /\ UNCHANGED <<pro, con, sema>>
  BY DEF vars
<1>2. TypeInv /\ BlocksInv /\ SemaInv
  BY DEF State
<1>3. /\ Kept /\ SameData /\ BlocksInv' /\ Size' = Size /\ UNCHANGED <<maxSize, blocking>>
      /\ \A b \in DOMAIN block : /\ block'[b].localTail = block[b].localTail
                                 /\ block'[b].localFront = block[b].localFront
  BY <1>1, <1>2, Unmoved
<1>4. TypeInv' /\ SemaInv'
  BY <1>1, <1>2, <1>3 DEF TypeInv, SemaInv
<1>5. ConInv(r, p)' /\ ConSizeInv(r, p, o)'
  BY <1>1, <1>3, KeptCon
<1> QED
  BY <1>1, <1>3, <1>4, <1>5, ConsumerStep

\* Every step preserves the invariant.
LEMMA NextInv == Inv /\ [Next]_vars => Inv'
<1> SUFFICES ASSUME Inv, [Next]_vars PROVE Inv'
  OBVIOUS
<1>1. PICK r, p, o : State(r, p, o)
  BY DEF Inv, State
<1>2. ASSUME NEW mode \in {"CanAlloc", "CannotAlloc"}, StartEnqueue(mode) PROVE Inv'
  BY <1>1, <1>2, StartEnqueueStep
<1>3. CASE inner_enqueue
  <2>1. CASE StoreTail
    BY <1>1, <2>1, StoreTailHere, StoreTailAhead
  <2> QED
    BY <1>1, <1>3, <2>1, LoadFrontStep, LoadFrontBlockStep, UseNextBlockStep, ConstructStep,
       AddBlockStep, StoreTailBlockStep, ReturnFalseStep DEF inner_enqueue
<1>4. CASE signal
  BY <1>1, <1>4, SignalStep
<1>5. ASSUME NEW kind \in {"try_dequeue", "pop", "peek"}, StartDequeue(kind) PROVE Inv'
  BY <1>1, <1>5, StartDequeueStep
<1>6. ASSUME Locate PROVE Inv'
  BY <1>1, <1>6, LoadTailStep, LoadTailBlockStep, LookAheadStep DEF Locate
<1>7. ASSUME Remove, con.kind \in Removing PROVE Inv'
  BY <1>1, <1>6, <1>7, StoreFrontBlockStep, TakeStep, StoreFrontStep, ReturnStep DEF Remove
<1>8. CASE try_dequeue \/ pop
  BY <1>7, <1>8 DEF try_dequeue, pop, Removing
<1>9. CASE peek
  BY <1>1, <1>6, <1>9, ReturnStep DEF peek
<1>10. CASE size_approx
  <2>1. /\ ~ blocking
        /\ UNCHANGED <<fixed, block, frontBlock, tailBlock, largestBlockSize, sema, enq, deq>>
    BY <1>10 DEF size_approx
  <2>2. CASE pro.pc \in {"idle", "size", "sizeNext", "sized"} /\ pro' = SizeStep(pro) /\ con' = con
    <3>1. pro.pc \in {"idle"} \cup Sizing
      BY <2>2 DEF Sizing
    <3> QED
      BY <1>1, <2>1, <2>2, <3>1, ProSizeStep
  <2>3. CASE con.pc \in {"idle", "size", "sizeNext", "sized"} /\ con' = SizeStep(con) /\ pro' = pro
    <3>1. con.pc \in {"idle"} \cup Sizing
      BY <2>3 DEF Sizing
    <3> QED
      BY <1>1, <2>1, <2>3, <3>1, ConSizeStep
  <2> QED
    BY <1>10, <2>2, <2>3 DEF size_approx
<1>11. CASE UNCHANGED vars
  BY <1>1, <1>11, StutteringStep
<1> QED
  BY <1>2, <1>3, <1>4, <1>5, <1>8, <1>9, <1>10, <1>11 DEF Next

\* The invariant holds in every state.
LEMMA Invariance == Spec => []Inv
  BY InitInv, NextInv, PTL DEF Spec

-----------------------------------------------------------------------------
(* What the invariant implies.                                             *)

\* The elements of a block in use are among those accepted.
LEMMA UpToEnq ==
  ASSUME NEW r, NEW p, NEW o, State(r, p, o), NEW i \in 1 .. p
  PROVE  o[r[i]] + In(r[i]) <= enq
<1>1. OffsetInv(r, p, o) /\ p \in Nat
  BY RingFacts DEF State, Good
<1>2. CASE i = p
  BY <1>1, <1>2, SizeFacts
<1>3. CASE i # p
  <2>1. i \in 1 .. p - 1 /\ i + 1 \in 1 .. p
    BY <1>1, <1>3
  <2>2. o[r[i + 1]] = o[r[i]] + In(r[i])
    BY <1>1, <2>1 DEF OffsetInv
  <2> QED
    BY <2>1, <2>2, SizeFacts
<1> QED
  BY <1>2, <1>3

\* The i-th block's first element, if the blocks before are used up.
LEMMA FirstElement ==
  ASSUME NEW r, NEW p, NEW o, State(r, p, o), NEW i \in 1 .. p, o[r[i]] = deq, In(r[i]) >= 1,
         con.pc = "found"
  PROVE  deq < enq /\ block[r[i]].data[block[r[i]].front] = deq + 1
<1>1. /\ TypeInv /\ BlocksInv /\ DataInv(r, p, o, con.pc = "front")
  BY DEF State, Good
<1>2. r[i] \in DOMAIN block /\ deq \in Nat /\ enq \in Nat /\ In(r[i]) \in Nat
  BY RingFacts, SizeFacts
<1>3. 0 \in 0 .. In(r[i]) - 1
  BY <1>2
<1>4. block[r[i]].data[At(r[i], 0)] = o[r[i]] + 0 + 1
  BY <1>1, <1>3 DEF DataInv
<1>5. At(r[i], 0) = block[r[i]].front
  <2>1. block[r[i]].size \in Nat /\ block[r[i]].front \in 0 .. block[r[i]].size - 1
    BY <1>1, <1>2, BlockFacts
  <2> QED
    BY <2>1 DEF At, Plus
<1>6. deq + In(r[i]) <= enq
  BY UpToEnq
<1> QED
  BY <1>2, <1>4, <1>5, <1>6

\* The element found is the first of the first block that has one.
LEMMA InvTakesOldest == Inv => TakesOldest
<1> SUFFICES ASSUME Inv, con.pc = "found"
             PROVE  deq < enq /\ block[con.b].data[block[con.b].front] = deq + 1
  BY DEF TakesOldest
<1>1. PICK r, p, o : State(r, p, o)
  BY DEF Inv, State
<1>2. /\ ConInv(r, p) /\ FillInv(r, p, pro.pc = "tailBlock") /\ OffsetInv(r, p, o)
      /\ TypeInv /\ BlocksInv
  BY <1>1 DEF State, Good
<1>3. /\ frontBlock = r[1] /\ frontBlock \in DOMAIN block /\ p \in Nat /\ p >= 1 /\ o[r[1]] = deq
      /\ 1 \in 1 .. p /\ deq \in Nat
  BY <1>1, RingFacts, SizeFacts
<1>4. CASE con.b = frontBlock /\ Seen(con.b) >= 1
  <2>1. In(r[1]) >= 1
    BY <1>2, <1>3, <1>4, BlockFacts
  <2> QED
    BY <1>1, <1>3, <1>4, <2>1, FirstElement
<1>5. CASE p > 1 /\ con.b = r[2] /\ In(frontBlock) = 0
  <2>1. 2 \in 1 .. p /\ 2 \in 2 .. p /\ 1 \in 1 .. p - 1 /\ 1 + 1 = 2
    BY <1>3, <1>5
  <2>2. In(r[2]) >= 1
    BY <1>2, <2>1 DEF FillInv
  <2>3. o[r[1 + 1]] = o[r[1]] + In(r[1])
    BY <1>2, <2>1 DEF OffsetInv
  <2>4. o[r[2]] = deq + 0
    BY <1>3, <1>5, <2>1, <2>3
  <2>5. o[r[2]] = deq
    BY <1>3, <2>4
  <2> QED
    BY <1>1, <1>5, <2>1, <2>2, <2>5, FirstElement
<1> QED
  BY <1>2, <1>4, <1>5 DEF ConInv

\* A permit is an element that was there before the call.
LEMMA InvRefusesRightly == Inv => RefusesRightly
<1> SUFFICES ASSUME Inv PROVE RefusesRightly
  OBVIOUS
<1>1. PICK r, p, o : State(r, p, o)
  BY DEF Inv, State
<1>2. ConInv(r, p) /\ ProInv(r, p) /\ SemaInv
  BY <1>1 DEF State, Good
<1>3. pro.pc = "refused" => pro.start >= maxSize
  BY <1>2 DEF ProInv
<1>4. ASSUME con.pc = "none" PROVE con.start = 0 /\ ~ (blocking /\ con.kind # "peek")
  <2>1. con.start = 0 /\ con.kind \in Removing \cup {"peek"}
    BY <1>2, <1>4 DEF ConInv, Sizing
  <2>2. blocking /\ con.kind \in Removing => con.start >= 1
    BY <1>2 DEF SemaInv
  <2> QED
    BY <2>1, <2>2
<1> QED
  BY <1>3, <1>4 DEF RefusesRightly

\* The sum at the end of the loop.
LEMMA InvSizeIsBetween == Inv => SizeIsBetween
<1> SUFFICES ASSUME Inv PROVE SizeIsBetween
  OBVIOUS
<1>1. PICK r, p, o : State(r, p, o)
  BY DEF Inv, State
<1>2. ConSizeInv(r, p, o) /\ ProSizeInv(r, p, o) /\ TypeInv
  BY <1>1 DEF State, Good
<1>3. PICK n \in Nat : n = Len(block) /\ p \in 1 .. n /\ Size \in Nat
  BY <1>1, RingFacts, SizeFacts
<1>4. ASSUME con.pc = "sized"
      PROVE  con.start <= con.sum /\ con.sum <= Size + (IF pro.pc = "tailBlock" THEN 1 ELSE 0)
  <2>1. ConSum(r, p, o, n + 1)
    BY <1>2, <1>3, <1>4 DEF ConSizeInv, Sizing
  <2>2. ~ (n + 1 <= p)
    BY <1>3
  <2>3. /\ con.start <= con.sum
        /\ con.sum <= Size + (IF pro.pc = "tailBlock" /\ n + 1 > p + 1 THEN 1 ELSE 0)
    BY <2>1, <2>2 DEF ConSum
  <2>4. con.sum \in Nat
    BY <1>2, ConFields
  <2> QED
    BY <1>3, <2>3, <2>4
<1>5. pro.pc = "sized" => Size <= pro.sum /\ pro.sum <= pro.start
  BY <1>2 DEF ProSizeInv, ProSized, Sizing
<1>6. ASSUME blocking
      PROVE  /\ availableApprox <= Size
             /\ Size <= availableApprox + (IF pro.pc = "signal" THEN 1 ELSE 0)
                                        + (IF con.kind \in {"try_dequeue", "pop"} THEN 1 ELSE 0)
  <2>1. SemaInv /\ sema \in Nat
    BY <1>1, <1>2 DEF State, Good, TypeInv
  <2> QED
    BY <1>3, <1>6, <2>1 DEF SemaInv, availableApprox, Removing
<1> QED
  BY <1>4, <1>5, <1>6 DEF SizeIsBetween

-----------------------------------------------------------------------------
(* What the destructor does.                                               *)

\* Induction, for a set of natural numbers.
LEMMA SetInduction ==
  ASSUME NEW T, 0 \in T, \A k \in Nat : k \in T => k + 1 \in T
  PROVE  Nat \subseteq T
<1> SUFFICES ASSUME NEW k \in Nat, k \notin T PROVE FALSE
  OBVIOUS
<1> DEFINE U == Nat \ T
<1>1. U \subseteq Nat /\ U # {}
  OBVIOUS
<1>2. \E x \in U : \A y \in U : ~ (<<y, x>> \in OpToRel(<, Nat))
  BY <1>1, NatLessThanWellFounded, WFMin
<1>3. PICK x \in U : \A y \in U : ~ (y < x)
  BY <1>2 DEF OpToRel
<1>4. x # 0 /\ x - 1 \in Nat /\ (x - 1) + 1 = x /\ x - 1 < x
  OBVIOUS
<1>5. x - 1 \in T
  BY <1>3, <1>4
<1> QED
  BY <1>4, <1>5

\* The equation of Walked, which it satisfies because some function does.
Links(f) ==
  f = [k \in 0 .. Len(block) |-> IF k = 0 THEN frontBlock ELSE block[f[k - 1]].next]

\* So does Walked.
LEMMA WalkedLinks ==
  ASSUME NEW f, Links(f)
  PROVE  Links(Walked)
  BY Zenon DEF Walked, Links

\* Following next as often as there are blocks leads to all of them.
LEMMA WalkIs ==
  ASSUME NEW r, NEW p, NEW o, State(r, p, o)
  PROVE  Walk = DOMAIN block
<1>1. PICK n : Ring(n, r, p)
  BY Positions
<1>2. /\ n \in Nat /\ Len(block) = n /\ n >= 1 /\ DOMAIN block = 1 .. n /\ frontBlock = r[1]
      /\ \A i \in 1 .. n : r[i] \in 1 .. n
  BY <1>1 DEF Ring
<1>3. \A i \in 1 .. n : block[r[i]].next = IF i = n THEN r[1] ELSE r[i + 1]
  BY <1>1 DEF Ring
<1>4. PICK f : f = [k \in 0 .. n |-> IF k = n THEN r[1] ELSE r[k + 1]]
  OBVIOUS
<1>5. \A k \in 1 .. n : k - 1 \in 0 .. n /\ f[k - 1] = r[k] /\ f[k] = block[r[k]].next
  <2> SUFFICES ASSUME NEW k \in 1 .. n
               PROVE  k - 1 \in 0 .. n /\ f[k - 1] = r[k] /\ f[k] = block[r[k]].next
    OBVIOUS
  <2>1. k - 1 \in 0 .. n /\ k - 1 # n /\ (k - 1) + 1 = k /\ k \in 0 .. n
    BY <1>2
  <2> QED
    BY <1>3, <1>4, <2>1
<1>6. 0 \in 0 .. n /\ f[0] = r[1]
  <2>1. 0 \in 0 .. n /\ 0 # n /\ 0 + 1 = 1
    BY <1>2
  <2> QED
    BY <1>4, <2>1
<1>7. \A k \in 0 .. n : f[k] = IF k = 0 THEN frontBlock ELSE block[f[k - 1]].next
  <2>1. \A k \in 0 .. n : k = 0 \/ k \in 1 .. n
    OBVIOUS
  <2>2. \A k \in 1 .. n : k # 0
    OBVIOUS
  <2> QED
    BY <1>2, <1>5, <1>6, <2>1, <2>2
<1>8. Links(f)
  <2>1. f = [k \in 0 .. n |-> f[k]]
    BY <1>4
  <2> QED
    BY <1>2, <1>7, <2>1 DEF Links
<1>9. PICK w : w = Walked
  OBVIOUS
<1>10. /\ DOMAIN w = 0 .. n
       /\ \A k \in 0 .. n : w[k] = IF k = 0 THEN frontBlock ELSE block[w[k - 1]].next
  <2>1. Links(w)
    BY <1>8, <1>9, WalkedLinks
  <2> QED
    BY <1>2, <2>1 DEF Links
<1>11. \A k \in 0 .. n : w[k] = f[k]
  <2> DEFINE T == {k \in Nat : k <= n => w[k] = f[k]}
  <2>1. 0 \in T
    BY <1>2, <1>6, <1>10
  <2>2. \A k \in Nat : k \in T => k + 1 \in T
    <3> SUFFICES ASSUME NEW k \in Nat, k \in T, k + 1 <= n PROVE w[k + 1] = f[k + 1]
      OBVIOUS
    <3>1. k + 1 \in 0 .. n /\ k + 1 # 0 /\ (k + 1) - 1 = k /\ k <= n
      BY <1>2
    <3>2. w[k] = f[k]
      BY <3>1
    <3>3. w[k + 1] = block[w[k]].next /\ f[k + 1] = block[f[k]].next
      BY <1>7, <1>10, <3>1
    <3> QED
      BY <3>2, <3>3
  <2>3. Nat \subseteq T
    <3> HIDE DEF T
    <3> QED
      BY <2>1, <2>2, SetInduction
  <2> QED
    BY <2>3
<1>12. Walk = {f[k] : k \in 0 .. n}
  BY <1>2, <1>9, <1>11 DEF Walk
<1>13. ASSUME NEW k \in 0 .. n PROVE f[k] \in 1 .. n
  <2>1. CASE k = n
    BY <1>2, <1>4, <2>1
  <2>2. CASE k # n
    <3>1. k + 1 \in 1 .. n
      BY <1>2, <2>2
    <3> QED
      BY <1>2, <1>4, <2>2, <3>1
  <2> QED
    BY <2>1, <2>2
<1>14. ASSUME NEW b \in 1 .. n PROVE \E k \in 0 .. n : f[k] = b
  <2>1. PICK i \in 1 .. n : r[i] = b
    BY <1>1, <1>2 DEF Ring
  <2> QED
    BY <1>5, <2>1
<1> QED
  BY <1>2, <1>12, <1>13, <1>14

\* Every element accepted and not removed is in some block.
LEMMA InSomeBlock ==
  ASSUME NEW r, NEW p, NEW o, State(r, p, o), NEW v \in (deq + 1) .. enq
  PROVE  \E i \in 1 .. p : o[r[i]] < v /\ v <= o[r[i]] + In(r[i])
<1>1. OffsetInv(r, p, o) /\ p \in Nat /\ p >= 1
  BY RingFacts DEF State, Good
<1>2. /\ o[r[1]] = deq /\ enq = o[r[p]] + In(r[p]) /\ enq \in Nat /\ deq \in Nat /\ v \in Nat
      /\ deq < v /\ v <= enq
  BY SizeFacts
<1>3. \A i \in 1 .. p : o[r[i]] \in Nat /\ In(r[i]) \in Nat
  <2>1. \A i \in 1 .. p : i \in 1 .. Len(block)
    BY RingFacts
  <2> QED
    BY <2>1, SizeFacts
<1> SUFFICES ASSUME \A i \in 1 .. p : ~ (o[r[i]] < v /\ v <= o[r[i]] + In(r[i])) PROVE FALSE
  OBVIOUS
<1> DEFINE T == {k \in Nat : k + 1 <= p => o[r[k + 1]] < v}
<1>4. 0 \in T
  <2>1. 0 + 1 = 1
    OBVIOUS
  <2>2. o[r[0 + 1]] < v
    BY <1>2, <2>1
  <2> QED
    BY <2>2
<1>5. \A k \in Nat : k \in T => k + 1 \in T
  <2> SUFFICES ASSUME NEW k \in Nat, k \in T, (k + 1) + 1 <= p PROVE o[r[(k + 1) + 1]] < v
    OBVIOUS
  <2>1. PICK i \in 1 .. p : i = k + 1 /\ i \in 1 .. p - 1
    BY <1>1
  <2>2. o[r[i]] < v
    BY <2>1
  <2>3. ~ (v <= o[r[i]] + In(r[i]))
    BY <2>2
  <2>4. o[r[i + 1]] = o[r[i]] + In(r[i])
    BY <1>1, <2>1 DEF OffsetInv
  <2>5. o[r[i + 1]] < v
    BY <1>2, <1>3, <2>3, <2>4
  <2> QED
    BY <2>1, <2>5
<1>6. Nat \subseteq T
  <2> HIDE DEF T
  <2> QED
    BY <1>4, <1>5, SetInduction
<1>7. p - 1 \in Nat /\ (p - 1) + 1 = p /\ p \in 1 .. p
  BY <1>1
<1>8. o[r[p]] < v
  BY <1>6, <1>7
<1> QED
  BY <1>2, <1>7, <1>8

\* Each element is in the slots the destructor visits, once.
LEMMA InvDestructorExact == Inv => DestructorExact
<1> SUFFICES ASSUME Inv, pro.pc = "idle", con.pc = "idle"
             PROVE  Walk = DOMAIN block /\ Destroyed = (deq + 1) .. enq
  BY DEF DestructorExact
<1>1. PICK r, p, o : State(r, p, o)
  BY DEF Inv, State
<1>2. Walk = DOMAIN block
  BY <1>1, WalkIs
<1>3. PICK n : Ring(n, r, p)
  BY <1>1, Positions
<1>4. /\ TypeInv /\ BlocksInv /\ DataInv(r, p, o, con.pc = "front") /\ FillInv(r, p, pro.pc = "tailBlock")
      /\ enq \in Nat /\ deq \in Nat
  BY <1>1, SizeFacts DEF State, Good
<1>5. ASSUME NEW b \in DOMAIN block, NEW k \in 0 .. In(b) - 1
      PROVE  (block[b].front + k) % block[b].size = At(b, k)
  <2>1. /\ block[b].size \in Nat \ {0} /\ block[b].front \in 0 .. block[b].size - 1
        /\ In(b) \in 0 .. block[b].size - 1
    BY <1>4, BlockFacts
  <2>2. k \in 0 .. block[b].size - 1
    BY <2>1
  <2> QED
    BY <2>1, <2>2, MaskedPlus DEF At
<1>6. \A b \in DOMAIN block : InBlock(b) = In(b) /\ In(b) \in Nat
  BY <1>4, BlockFacts
<1>7. Destroyed = UNION {{block[b].data[At(b, k)] : k \in 0 .. In(b) - 1} : b \in DOMAIN block}
  BY <1>2, <1>5, <1>6 DEF Destroyed
<1>8. \A i \in 1 .. p : /\ r[i] \in DOMAIN block /\ o[r[i]] \in Nat /\ deq <= o[r[i]]
                        /\ o[r[i]] + In(r[i]) <= enq
  <2>1. \A i \in 1 .. p : i \in 1 .. n /\ r[i] \in DOMAIN block
    BY <1>3 DEF Ring
  <2>2. \A i \in 1 .. p : o[r[i]] \in Nat /\ deq <= o[r[i]]
    BY <1>1, SizeFacts
  <2>3. \A i \in 1 .. p : o[r[i]] + In(r[i]) <= enq
    BY <1>1, UpToEnq
  <2> QED
    BY <2>1, <2>2, <2>3
<1>9. \A i \in 1 .. p : \A k \in 0 .. In(r[i]) - 1 : block[r[i]].data[At(r[i], k)] = o[r[i]] + k + 1
  BY <1>4 DEF DataInv
<1>10. ASSUME NEW b \in DOMAIN block, NEW k \in 0 .. In(b) - 1
       PROVE  block[b].data[At(b, k)] \in (deq + 1) .. enq
  <2>1. PICK i \in 1 .. n : r[i] = b
    BY <1>3 DEF Ring
  <2>2. i \in 1 .. p
    <3>1. n = Len(block) /\ n \in Nat /\ p \in Nat
      BY <1>3 DEF Ring
    <3>2. In(b) >= 1
      BY <1>6
    <3>3. CASE i > p
      <4>1. i \in p + 1 .. Len(block)
        BY <3>1, <3>3
      <4>2. In(r[i]) = 0
        BY <1>4, <4>1 DEF FillInv
      <4> QED
        BY <2>1, <3>2, <4>2
    <3> QED
      BY <3>1, <3>3
  <2>3. block[b].data[At(b, k)] = o[b] + k + 1
    BY <1>9, <2>1, <2>2
  <2>4. o[b] \in Nat /\ deq <= o[b] /\ o[b] + In(b) <= enq /\ In(b) \in Nat
    BY <1>6, <1>8, <2>1, <2>2
  <2> QED
    BY <1>4, <2>3, <2>4
<1>11. ASSUME NEW v \in (deq + 1) .. enq
       PROVE  \E b \in DOMAIN block : \E k \in 0 .. In(b) - 1 : v = block[b].data[At(b, k)]
  <2>1. PICK i \in 1 .. p : o[r[i]] < v /\ v <= o[r[i]] + In(r[i])
    BY <1>1, InSomeBlock
  <2>2. r[i] \in DOMAIN block /\ o[r[i]] \in Nat /\ In(r[i]) \in Nat /\ v \in Nat
    BY <1>4, <1>6, <1>8
  <2>3. PICK k \in 0 .. In(r[i]) - 1 : k = v - o[r[i]] - 1
    BY <2>1, <2>2
  <2>4. block[r[i]].data[At(r[i], k)] = v
    BY <1>9, <2>2, <2>3
  <2> QED
    BY <2>2, <2>4
<1>12. Destroyed = (deq + 1) .. enq
  BY <1>7, <1>10, <1>11
<1> QED
  BY <1>2, <1>12

-----------------------------------------------------------------------------
(* The theorems.                                                           *)

\* However the producer's and the consumer's loads and stores interleave, what
\* try_dequeue or pop removes, and what peek points at, is the oldest element
\* that was accepted and not removed, and it has been constructed.
THEOREM TakesOldestAlways == Spec => []TakesOldest
  BY Invariance, InvTakesOldest, PTL

\* A call that finds the queue empty began when it was, which none that has
\* taken a permit of the semaphore does, and try_enqueue refuses only if there
\* were maxSize elements.
THEOREM RefusesRightlyAlways == Spec => []RefusesRightly
  BY Invariance, InvRefusesRightly, PTL

\* size_approx lies between the sizes at its beginning and at its end, though
\* the blocks it adds up are used, linked in and left meanwhile.
THEOREM SizeIsBetweenAlways == Spec => []SizeIsBetween
  BY Invariance, InvSizeIsBetween, PTL

\* Following next from the front block the destructor comes to every block,
\* and it destroys every element in the queue and none but those.
THEOREM DestructorExactAlways == Spec => []DestructorExact
  BY Invariance, InvDestructorExact, PTL
=============================================================================
