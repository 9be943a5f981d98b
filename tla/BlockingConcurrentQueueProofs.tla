------------------- MODULE BlockingConcurrentQueueProofs -------------------
(***************************************************************************)
(* Proofs about BlockingConcurrentQueue for every number of threads, every *)
(* number of items and every set of timeouts.                              *)
(***************************************************************************)
EXTENDS BlockingConcurrentQueue, FiniteSetTheorems, TLAPS

-----------------------------------------------------------------------------
(* Cardinality, one element at a time.                                     *)

\* A set that gains one element gains one in size.
LEMMA GainOne ==
  ASSUME NEW S, IsFiniteSet(S), NEW T, NEW x, x \notin S, T = S \cup {x}
  PROVE  /\ IsFiniteSet(T)
         /\ Cardinality(S) \in Nat
         /\ Cardinality(T) = Cardinality(S) + 1
  BY FS_AddElement, FS_CardinalityType

\* A set that loses one element loses one in size.
LEMMA LoseOne ==
  ASSUME NEW S, IsFiniteSet(S), NEW T, NEW x, x \in S, T = S \ {x}
  PROVE  /\ IsFiniteSet(T)
         /\ Cardinality(T) \in Nat
         /\ Cardinality(S) \in Nat
         /\ Cardinality(T) = Cardinality(S) - 1
  BY FS_RemoveElement, FS_CardinalityType

-----------------------------------------------------------------------------
(* Types.                                                                  *)

\* Every reachable state of the queue is well typed.
THEOREM TypeCorrect == Spec => []TypeOK
<1> USE DEF ProducerPC, ConsumerPC
<1>1. Init => TypeOK
  BY QueueAssumption DEF Init, TypeOK
<1>2. TypeOK /\ [Next]_vars => TypeOK'
  <2> SUFFICES ASSUME TypeOK, [Next]_vars PROVE TypeOK'
    OBVIOUS
  <2> USE QueueAssumption DEF TypeOK
  <2>1. ASSUME NEW p \in Producers, Enqueue(p) PROVE TypeOK'
    BY <2>1 DEF Enqueue
  <2>2. ASSUME NEW p \in Producers, ProducerStep(p) PROVE TypeOK'
    BY <2>2 DEF ProducerStep, Signal, Post
  <2>3. ASSUME NEW c \in Consumers, TryDequeue(c) PROVE TypeOK'
    BY <2>3 DEF TryDequeue, Settle
  <2>4. ASSUME NEW c \in Consumers, NEW t \in Timeouts, Wait(c, t) PROVE TypeOK'
    BY <2>4 DEF Wait
  <2>5. ASSUME NEW c \in Consumers, Decrement(c) PROVE TypeOK'
    BY <2>5 DEF Decrement, Settle, Goto
  <2>6. ASSUME NEW c \in Consumers, SemInvalid(c) \/ SemTake(c) \/ SemBlock(c)
        PROVE TypeOK'
    BY <2>6 DEF SemInvalid, SemTake, SemBlock, Settle
  <2>7. ASSUME NEW c \in Consumers, SemTimeout(c) \/ LoadCount(c) PROVE TypeOK'
    BY <2>7 DEF SemTimeout, LoadCount, Goto
  <2>8. ASSUME NEW c \in Consumers, AdjustTake(c) \/ AdjustCancel(c) \/ AdjustRetry(c)
        PROVE TypeOK'
    BY <2>8 DEF AdjustTake, AdjustCancel, AdjustRetry, Goto
  <2>9. ASSUME NEW c \in Consumers, Take(c) PROVE TypeOK'
    BY <2>9 DEF Take, Goto, Oldest
  <2>10. CASE UNCHANGED vars
    BY <2>10 DEF vars
  <2> QED
    BY <2>1, <2>2, <2>3, <2>4, <2>5, <2>6, <2>7, <2>8, <2>9, <2>10
       DEF Next, Call, ConsumerStep
<1> QED
  BY <1>1, <1>2, PTL DEF Spec

-----------------------------------------------------------------------------
(* The count.                                                              *)

\* Sequence numbers in the queue have been handed out, so the next one is new.
ItemInv == \A i \in inner : i[2] < sent[i[1]]

\* A consumer on its way into sem_timedwait carries its caller's timeout.
UsecsInv == \A c \in Consumers : cpc[c] \in {"spin", "enter"} => usecs[c] \in Timeouts

CountIInv == TypeOK /\ ItemInv /\ UsecsInv /\ CountInv

\* Every set that is counted is finite.
LEMMA CountedSetsFinite ==
  ASSUME TypeOK
  PROVE  /\ IsFiniteSet(inner) /\ Cardinality(inner) \in Nat
         /\ IsFiniteSet(Adding) /\ Cardinality(Adding) \in Nat
         /\ IsFiniteSet(Posting) /\ Cardinality(Posting) \in Nat
         /\ IsFiniteSet(Taking) /\ Cardinality(Taking) \in Nat
         /\ IsFiniteSet(Registered) /\ Cardinality(Registered) \in Nat
<1>1. IsFiniteSet(inner)
  <2>1. IsFiniteSet(0 .. MaxItems - 1)
    BY QueueAssumption, FS_Interval
  <2>2. IsFiniteSet(Producers \X (0 .. MaxItems - 1))
    BY <2>1, QueueAssumption, FS_Product
  <2> QED
    BY <2>2, FS_Subset DEF TypeOK
<1>2. Adding \subseteq Producers /\ Posting \subseteq Producers
  BY DEF Adding, Posting
<1>3. Taking \subseteq Consumers /\ Registered \subseteq Consumers
  BY DEF Taking, Registered
<1>4. IsFiniteSet(Adding) /\ IsFiniteSet(Posting)
  BY <1>2, QueueAssumption, FS_Subset
<1>5. IsFiniteSet(Taking) /\ IsFiniteSet(Registered)
  BY <1>3, QueueAssumption, FS_Subset
<1> QED
  BY <1>1, <1>4, <1>5, FS_CardinalityType

\* What one consumer's move does to the sets that are counted.
LEMMA ConsumerMoves ==
  ASSUME TypeOK, NEW c \in Consumers, NEW pc \in ConsumerPC,
         cpc' = [cpc EXCEPT ![c] = pc]
  PROVE  /\ Taking' = IF pc = "take" THEN Taking \cup {c} ELSE Taking \ {c}
         /\ Registered' = IF pc \in {"enter", "block", "late", "adjust"}
                            THEN Registered \cup {c} ELSE Registered \ {c}
  BY DEF TypeOK, Taking, Registered

\* What one producer's move does to them.
LEMMA ProducerMoves ==
  ASSUME TypeOK, NEW p \in Producers, NEW pc \in ProducerPC,
         ppc' = [ppc EXCEPT ![p] = pc]
  PROVE  /\ Adding' = IF pc = "add" THEN Adding \cup {p} ELSE Adding \ {p}
         /\ Posting' = IF pc = "post" THEN Posting \cup {p} ELSE Posting \ {p}
  BY DEF TypeOK, Adding, Posting

\* m_count accounts for every item: those in the queue are the free ones it
\* counts, those being announced, and those granted to or awaited by consumers.
THEOREM CountCorrect == Spec => []CountIInv
<1> USE DEF ProducerPC, ConsumerPC
<1>1. Init => CountIInv
  <2> SUFFICES ASSUME Init PROVE CountIInv
    OBVIOUS
  <2>1. TypeOK
    BY QueueAssumption DEF Init, TypeOK
  <2>2. Adding = {} /\ Taking = {} /\ Registered = {} /\ inner = {} /\ m_count = 0
    BY DEF Init, Adding, Taking, Registered
  <2>3. CountInv
    BY <2>2, FS_EmptySet DEF CountInv
  <2> QED
    BY <2>1, <2>3 DEF Init, CountIInv, ItemInv, UsecsInv
<1>2. TypeOK /\ TypeOK' /\ CountIInv /\ [Next]_vars => CountIInv'
  <2> SUFFICES ASSUME TypeOK, TypeOK', CountIInv, [Next]_vars PROVE CountIInv'
    OBVIOUS
  <2>0. ItemInv /\ UsecsInv /\ CountInv
    BY DEF CountIInv
  <2> USE CountedSetsFinite
  <2>1. ASSUME NEW p \in Producers, Enqueue(p) PROVE CountIInv'
    <3>1. <<p, sent[p]>> \notin inner
      BY <2>0, <2>1 DEF ItemInv, TypeOK
    <3>2. Cardinality(inner') = Cardinality(inner) + 1
      BY <2>1, <3>1, GainOne DEF Enqueue
    <3>3. Adding' = Adding \cup {p} /\ p \notin Adding
      BY <2>1, ProducerMoves DEF Enqueue, Adding
    <3>4. Cardinality(Adding') = Cardinality(Adding) + 1
      BY <3>3, GainOne
    <3>5. Taking' = Taking /\ Registered' = Registered /\ m_count' = m_count
      BY <2>1 DEF Enqueue, Taking, Registered
    <3>6. CountInv'
      BY <2>0, <3>2, <3>4, <3>5 DEF CountInv, TypeOK
    <3>7. ItemInv' /\ UsecsInv'
      BY <2>0, <2>1 DEF Enqueue, ItemInv, UsecsInv, TypeOK
    <3> QED
      BY <3>6, <3>7 DEF CountIInv
  <2>2. ASSUME NEW p \in Producers, Signal(p) PROVE CountIInv'
    <3>1. Adding' = Adding \ {p} /\ p \in Adding
      BY <2>2, ProducerMoves DEF Signal, Adding
    <3>2. Cardinality(Adding') = Cardinality(Adding) - 1
      BY <3>1, LoseOne
    <3>3. Taking' = Taking /\ Registered' = Registered /\ inner' = inner
      BY <2>2 DEF Signal, Taking, Registered
    <3>4. CountInv'
      BY <2>0, <2>2, <3>2, <3>3 DEF CountInv, TypeOK, Signal
    <3> QED
      BY <2>0, <2>2, <3>4 DEF CountIInv, Signal, ItemInv, UsecsInv
  <2>3. ASSUME NEW p \in Producers, Post(p) PROVE CountIInv'
    <3>1. Adding' = Adding
      BY <2>3, ProducerMoves DEF Post, Adding
    <3>2. Taking' = Taking /\ Registered' = Registered
      BY <2>3 DEF Post, Taking, Registered
    <3> QED
      BY <2>0, <2>3, <3>1, <3>2 DEF CountIInv, CountInv, Post, ItemInv, UsecsInv
  <2>4. ASSUME NEW c \in Consumers, TryDequeue(c) PROVE CountIInv'
    <3>1. /\ Taking' = Taking \cup {c} /\ c \notin Taking
          /\ Registered' = Registered
      BY <2>4, ConsumerMoves DEF TryDequeue, Settle, Taking, Registered
    <3>2. Cardinality(Taking') = Cardinality(Taking) + 1
      BY <3>1, GainOne
    <3>3. Adding' = Adding
      BY <2>4 DEF TryDequeue, Adding
    <3>4. CountInv'
      BY <2>0, <2>4, <3>1, <3>2, <3>3 DEF CountInv, TypeOK, TryDequeue
    <3> QED
      BY <2>0, <2>4, <3>4
         DEF CountIInv, TryDequeue, Settle, ItemInv, UsecsInv, TypeOK
  <2>5. ASSUME NEW c \in Consumers, NEW t \in Timeouts, Wait(c, t) PROVE CountIInv'
    <3>1. Taking' = Taking /\ Registered' = Registered
      BY <2>5, ConsumerMoves DEF Wait, Taking, Registered
    <3>2. Adding' = Adding
      BY <2>5 DEF Wait, Adding
    <3>3. CountInv'
      BY <2>0, <2>5, <3>1, <3>2 DEF CountInv, Wait
    <3> QED
      BY <2>0, <2>5, <3>3 DEF CountIInv, Wait, ItemInv, UsecsInv, TypeOK
  <2>6. ASSUME NEW c \in Consumers, Decrement(c) PROVE CountIInv'
    <3>0. c \notin Taking /\ c \notin Registered
      BY <2>6 DEF Decrement, Taking, Registered
    <3>1. /\ Cardinality(Taking \cup {c}) = Cardinality(Taking) + 1
          /\ Cardinality(Registered \cup {c}) = Cardinality(Registered) + 1
      BY <3>0, GainOne
    <3>2. \/ Taking' = Taking \cup {c} /\ Registered' = Registered
          \/ Taking' = Taking /\ Registered' = Registered \cup {c}
      BY <2>6, <3>0, ConsumerMoves DEF Decrement, Settle, Goto
    <3>3. Adding' = Adding /\ inner' = inner /\ m_count' = m_count - 1
      BY <2>6 DEF Decrement, Adding
    <3>4. CountInv'
      <4>1. CASE Taking' = Taking \cup {c} /\ Registered' = Registered
        BY <2>0, <3>1, <3>3, <4>1 DEF CountInv, TypeOK
      <4>2. CASE Taking' = Taking /\ Registered' = Registered \cup {c}
        BY <2>0, <3>1, <3>3, <4>2 DEF CountInv, TypeOK
      <4> QED
        BY <3>2, <4>1, <4>2
    <3>5. UsecsInv'
      BY <2>0, <2>6 DEF UsecsInv, Decrement, Settle, Goto, TypeOK
    <3> QED
      BY <2>0, <2>6, <3>4, <3>5 DEF CountIInv, Decrement, ItemInv
  <2>7. ASSUME NEW c \in Consumers,
               SemInvalid(c) \/ SemTake(c) \/ AdjustTake(c)
        PROVE CountIInv'
    <3>0. c \notin Taking /\ c \in Registered
      BY <2>7 DEF SemInvalid, SemTake, AdjustTake, Taking, Registered
    <3>1. Taking' = Taking \cup {c} /\ Registered' = Registered \ {c}
      BY <2>7, ConsumerMoves DEF SemInvalid, SemTake, AdjustTake, Settle, Goto
    <3>2. Cardinality(Taking') = Cardinality(Taking) + 1
      BY <3>0, <3>1, GainOne
    <3>3. Cardinality(Registered') = Cardinality(Registered) - 1
      BY <3>0, <3>1, LoseOne
    <3>4. Adding' = Adding /\ inner' = inner /\ m_count' = m_count
      BY <2>7 DEF SemInvalid, SemTake, AdjustTake, Adding
    <3>5. CountInv'
      BY <2>0, <3>2, <3>3, <3>4 DEF CountInv, TypeOK
    <3>6. UsecsInv'
      BY <2>0, <2>7 DEF UsecsInv, SemInvalid, SemTake, AdjustTake, Settle, Goto, TypeOK
    <3>7. ItemInv'
      BY <2>0, <2>7 DEF ItemInv, SemInvalid, SemTake, AdjustTake
    <3> QED
      BY <3>5, <3>6, <3>7 DEF CountIInv
  <2>8. ASSUME NEW c \in Consumers,
               SemBlock(c) \/ SemTimeout(c) \/ LoadCount(c) \/ AdjustRetry(c)
        PROVE CountIInv'
    <3>0. c \notin Taking /\ c \in Registered
      BY <2>8 DEF SemBlock, SemTimeout, LoadCount, AdjustRetry, Taking, Registered
    <3>1. Taking' = Taking /\ Registered' = Registered
      BY <2>8, <3>0, ConsumerMoves
         DEF SemBlock, SemTimeout, LoadCount, AdjustRetry, Settle, Goto
    <3>2. Adding' = Adding /\ inner' = inner /\ m_count' = m_count /\ sent' = sent
      BY <2>8 DEF SemBlock, SemTimeout, LoadCount, AdjustRetry, Adding
    <3>3. CountInv'
      BY <2>0, <3>1, <3>2 DEF CountInv
    <3>4. UsecsInv'
      BY <2>0, <2>8
         DEF UsecsInv, SemBlock, SemTimeout, LoadCount, AdjustRetry, Settle, Goto, TypeOK
    <3> QED
      BY <2>0, <3>2, <3>3, <3>4 DEF CountIInv, ItemInv
  <2>9. ASSUME NEW c \in Consumers, AdjustCancel(c) PROVE CountIInv'
    <3>1. Taking' = Taking /\ Registered' = Registered \ {c} /\ c \in Registered
      BY <2>9, ConsumerMoves DEF AdjustCancel, Goto, Taking, Registered
    <3>2. Cardinality(Registered') = Cardinality(Registered) - 1
      BY <3>1, LoseOne
    <3>3. Adding' = Adding
      BY <2>9 DEF AdjustCancel, Adding
    <3>4. CountInv'
      BY <2>0, <2>9, <3>1, <3>2, <3>3 DEF CountInv, TypeOK, AdjustCancel
    <3> QED
      BY <2>0, <2>9, <3>4 DEF CountIInv, AdjustCancel, Goto, ItemInv, UsecsInv, TypeOK
  <2>10. ASSUME NEW c \in Consumers, Take(c) PROVE CountIInv'
    <3>1. Taking' = Taking \ {c} /\ c \in Taking /\ Registered' = Registered
      BY <2>10, ConsumerMoves DEF Take, Goto, Taking, Registered
    <3>2. Cardinality(Taking') = Cardinality(Taking) - 1
      BY <3>1, LoseOne
    <3>3. PICK i \in Oldest(inner) : inner' = inner \ {i}
      BY <2>10 DEF Take
    <3>4. Cardinality(inner') = Cardinality(inner) - 1
      BY <3>3, LoseOne DEF Oldest
    <3>5. Adding' = Adding
      BY <2>10 DEF Take, Adding
    <3>6. CountInv'
      BY <2>0, <2>10, <3>1, <3>2, <3>4, <3>5 DEF CountInv, TypeOK, Take
    <3>7. ItemInv'
      BY <2>0, <2>10, <3>3 DEF ItemInv, Take
    <3> QED
      BY <2>0, <2>10, <3>6, <3>7 DEF CountIInv, Take, Goto, UsecsInv, TypeOK
  <2>11. CASE UNCHANGED vars
    BY <2>0, <2>11
       DEF vars, CountIInv, CountInv, ItemInv, UsecsInv, Adding, Taking, Registered
  <2> QED
    BY <2>1, <2>2, <2>3, <2>4, <2>5, <2>6, <2>7, <2>8, <2>9, <2>10, <2>11
       DEF Next, Call, ConsumerStep, ProducerStep
<1> QED
  BY <1>1, <1>2, TypeCorrect, PTL DEF Spec

-----------------------------------------------------------------------------
(* The kernel semaphore.                                                   *)

SemaIInv == CountIInv /\ SemaInv

\* The kernel semaphore holds exactly the units that registered consumers are
\* owed and producers have posted, and one for every deadline that
\* sem_timedwait has rejected.
THEOREM SemaCorrect == Spec => []SemaIInv
<1> USE DEF ProducerPC, ConsumerPC
<1>1. Init => SemaInv
  <2> SUFFICES ASSUME Init PROVE SemaInv
    OBVIOUS
  <2>1. Posting = {} /\ Registered = {} /\ m_sema = 0 /\ m_count = 0 /\ rejected = 0
    BY DEF Init, Posting, Registered
  <2> QED
    BY <2>1, FS_EmptySet DEF SemaInv
<1>2. CountIInv /\ CountIInv' /\ SemaInv /\ [Next]_vars => SemaInv'
  <2> SUFFICES ASSUME CountIInv, CountIInv', SemaInv, [Next]_vars PROVE SemaInv'
    OBVIOUS
  <2>0. TypeOK /\ TypeOK'
    BY DEF CountIInv
  <2>a. /\ IsFiniteSet(Posting) /\ Cardinality(Posting) \in Nat
        /\ IsFiniteSet(Registered) /\ Cardinality(Registered) \in Nat
    BY <2>0, CountedSetsFinite
  <2>1. ASSUME NEW p \in Producers, Enqueue(p) PROVE SemaInv'
    <3>1. Posting' = Posting
      BY <2>0, <2>1, ProducerMoves DEF Enqueue, Posting
    <3>2. Registered' = Registered
      BY <2>1 DEF Enqueue, Registered
    <3> QED
      BY <2>1, <3>1, <3>2 DEF SemaInv, Enqueue
  <2>2. ASSUME NEW p \in Producers, Signal(p) PROVE SemaInv'
    <3>1. /\ Registered' = Registered /\ m_sema' = m_sema /\ m_count' = m_count + 1
          /\ rejected' = rejected
      BY <2>2 DEF Signal, Registered
    <3>2. p \notin Posting
      BY <2>2 DEF Signal, Posting
    <3>3. CASE m_count < 0
      <4>1. Posting' = Posting \cup {p}
        BY <2>0, <2>2, <3>3, ProducerMoves DEF Signal
      <4>2. Cardinality(Posting') = Cardinality(Posting) + 1
        BY <2>a, <3>2, <4>1, GainOne
      <4>3. m_count \in Int /\ m_sema \in Nat /\ rejected \in Nat
        BY <2>0 DEF TypeOK
      <4> QED
        BY <2>a, <3>1, <3>3, <4>2, <4>3 DEF SemaInv
    <3>4. CASE ~ (m_count < 0)
      <4>0. ppc' = [ppc EXCEPT ![p] = "idle"]
        BY <2>2, <3>4 DEF Signal
      <4>1. Posting' = Posting
        BY <2>0, <2>2, <4>0, ProducerMoves DEF Signal, Posting
      <4> QED
        BY <2>0, <2>a, <3>1, <3>4, <4>1 DEF SemaInv, TypeOK
    <3> QED
      BY <3>3, <3>4
  <2>3. ASSUME NEW p \in Producers, Post(p) PROVE SemaInv'
    <3>1. Posting' = Posting \ {p} /\ p \in Posting
      BY <2>0, <2>3, ProducerMoves DEF Post, Posting
    <3>2. Cardinality(Posting') = Cardinality(Posting) - 1
      BY <2>a, <3>1, LoseOne
    <3>3. /\ Registered' = Registered /\ m_sema' = m_sema + 1 /\ m_count' = m_count
          /\ rejected' = rejected
      BY <2>3 DEF Post, Registered
    <3> QED
      BY <2>0, <2>a, <3>2, <3>3 DEF SemaInv, TypeOK
  <2>4. ASSUME NEW c \in Consumers, TryDequeue(c) PROVE SemaInv'
    <3>1. Registered' = Registered
      BY <2>0, <2>4, ConsumerMoves DEF TryDequeue, Settle, Registered
    <3>2. /\ Posting' = Posting /\ m_sema' = m_sema
          /\ m_count > 0 /\ m_count' = m_count - 1 /\ rejected' = rejected
      BY <2>4 DEF TryDequeue, Posting
    <3> QED
      BY <2>0, <2>a, <3>1, <3>2 DEF SemaInv, TypeOK
  <2>5. ASSUME NEW c \in Consumers, NEW t \in Timeouts, Wait(c, t) PROVE SemaInv'
    <3>1. Registered' = Registered
      BY <2>0, <2>5, ConsumerMoves DEF Wait, Registered
    <3>2. Posting' = Posting
      BY <2>5 DEF Wait, Posting
    <3> QED
      BY <2>5, <3>1, <3>2 DEF SemaInv, Wait
  <2>6. ASSUME NEW c \in Consumers, Decrement(c) PROVE SemaInv'
    <3>0. c \notin Registered
      BY <2>6 DEF Decrement, Registered
    <3>1. /\ Posting' = Posting /\ m_sema' = m_sema /\ m_count' = m_count - 1
          /\ rejected' = rejected
      BY <2>6 DEF Decrement, Posting
    <3>2. CASE m_count > 0
      <4>1. Registered' = Registered
        BY <2>0, <2>6, <3>0, <3>2, ConsumerMoves DEF Decrement, Settle
      <4> QED
        BY <2>0, <2>a, <3>1, <3>2, <4>1 DEF SemaInv, TypeOK
    <3>3. CASE ~ (m_count > 0)
      <4>1. Registered' = Registered \cup {c}
        BY <2>0, <2>6, <3>3, ConsumerMoves DEF Decrement, Goto
      <4>2. Cardinality(Registered') = Cardinality(Registered) + 1
        BY <2>a, <3>0, <4>1, GainOne
      <4>3. m_count \in Int /\ m_sema \in Nat /\ rejected \in Nat
        BY <2>0 DEF TypeOK
      <4> QED
        BY <2>a, <3>1, <3>3, <4>2, <4>3 DEF SemaInv
    <3> QED
      BY <3>2, <3>3
  <2>7. ASSUME NEW c \in Consumers, SemInvalid(c) PROVE SemaInv'
    <3>1. Registered' = Registered \ {c} /\ c \in Registered
      BY <2>0, <2>7, ConsumerMoves DEF SemInvalid, Settle, Registered
    <3>2. Cardinality(Registered') = Cardinality(Registered) - 1
      BY <2>a, <3>1, LoseOne
    <3>3. /\ Posting' = Posting /\ m_sema' = m_sema /\ m_count' = m_count
          /\ rejected' = rejected + 1
      BY <2>7 DEF SemInvalid, Posting
    <3> QED
      BY <2>0, <2>a, <3>2, <3>3 DEF SemaInv, TypeOK
  <2>8. ASSUME NEW c \in Consumers, SemTake(c) \/ AdjustTake(c) PROVE SemaInv'
    <3>1. Registered' = Registered \ {c} /\ c \in Registered
      BY <2>0, <2>8, ConsumerMoves DEF SemTake, AdjustTake, Settle, Goto, Registered
    <3>2. Cardinality(Registered') = Cardinality(Registered) - 1
      BY <2>a, <3>1, LoseOne
    <3>3. /\ Posting' = Posting /\ m_sema' = m_sema - 1 /\ m_count' = m_count
          /\ rejected' = rejected
      BY <2>8 DEF SemTake, AdjustTake, Posting
    <3> QED
      BY <2>0, <2>a, <3>2, <3>3 DEF SemaInv, TypeOK
  <2>9. ASSUME NEW c \in Consumers,
               SemBlock(c) \/ SemTimeout(c) \/ LoadCount(c) \/ AdjustRetry(c)
        PROVE SemaInv'
    <3>1. c \in Registered
      BY <2>9 DEF SemBlock, SemTimeout, LoadCount, AdjustRetry, Registered
    <3>2. Registered' = Registered
      <4>1. PICK pc \in {"block", "late", "adjust"} : cpc' = [cpc EXCEPT ![c] = pc]
        BY <2>9 DEF SemBlock, SemTimeout, LoadCount, AdjustRetry, Settle, Goto
      <4>2. Registered' = Registered \cup {c}
        BY <2>0, <4>1, ConsumerMoves
      <4> QED
        BY <3>1, <4>2
    <3>3. /\ Posting' = Posting /\ m_sema' = m_sema /\ m_count' = m_count
          /\ rejected' = rejected
      BY <2>9 DEF SemBlock, SemTimeout, LoadCount, AdjustRetry, Posting
    <3> QED
      BY <3>2, <3>3 DEF SemaInv
  <2>10. ASSUME NEW c \in Consumers, AdjustCancel(c) PROVE SemaInv'
    <3>1. Registered' = Registered \ {c} /\ c \in Registered
      BY <2>0, <2>10, ConsumerMoves DEF AdjustCancel, Goto, Registered
    <3>2. Cardinality(Registered') = Cardinality(Registered) - 1
      BY <2>a, <3>1, LoseOne
    <3>3. /\ Posting' = Posting /\ m_sema' = m_sema
          /\ m_count < 0 /\ m_count' = m_count + 1 /\ rejected' = rejected
      BY <2>0, <2>10 DEF AdjustCancel, Posting, TypeOK
    <3> QED
      BY <2>0, <2>a, <3>2, <3>3 DEF SemaInv, TypeOK
  <2>11. ASSUME NEW c \in Consumers, Take(c) PROVE SemaInv'
    <3>1. Registered' = Registered
      BY <2>0, <2>11, ConsumerMoves DEF Take, Goto, Registered
    <3>2. Posting' = Posting
      BY <2>11 DEF Take, Posting
    <3> QED
      BY <2>11, <3>1, <3>2 DEF SemaInv, Take
  <2>12. CASE UNCHANGED vars
    BY <2>12 DEF vars, SemaInv, Posting, Registered
  <2> QED
    BY <2>1, <2>2, <2>3, <2>4, <2>5, <2>6, <2>7, <2>8, <2>9, <2>10, <2>11, <2>12
       DEF Next, Call, ConsumerStep, ProducerStep
<1> QED
  BY <1>1, <1>2, CountCorrect, PTL DEF Spec, SemaIInv

\* Whatever timeouts callers pass, at most one consumer per rejected deadline
\* is in the loop `while (!inner.try_dequeue)' for an item that is not there.
THEOREM TokensBacked == Spec => []TokenBacked
<1>1. SemaIInv => TokenBacked
  <2> SUFFICES ASSUME SemaIInv PROVE TokenBacked
    OBVIOUS
  <2>1. TypeOK /\ CountInv /\ SemaInv
    BY DEF SemaIInv, CountIInv
  <2> QED
    BY <2>1, CountedSetsFinite DEF TokenBacked, CountInv, SemaInv, TypeOK
<1> QED
  BY <1>1, SemaCorrect, PTL

\* Whatever timeouts callers pass, a queue nobody is using has m_count equal to
\* the number of its items and one kernel unit per rejected deadline.
THEOREM Settles == Spec => []SemaphoreSettles
<1>1. SemaIInv => SemaphoreSettles
  <2> SUFFICES ASSUME SemaIInv,
                      \A p \in Producers : ppc[p] = "idle",
                      \A c \in Consumers : cpc[c] = "idle"
               PROVE  m_count = Cardinality(inner) /\ m_sema = rejected
    BY DEF SemaphoreSettles
  <2>1. TypeOK /\ CountInv /\ SemaInv
    BY DEF SemaIInv, CountIInv
  <2>2. Adding = {} /\ Posting = {} /\ Taking = {} /\ Registered = {}
    BY DEF Adding, Posting, Taking, Registered
  <2>3. Cardinality({}) = 0
    BY FS_EmptySet
  <2>4. m_count = Cardinality(inner)
    BY <2>1, <2>2, <2>3 DEF CountInv, TypeOK
  <2>5. m_count >= 0
    BY <2>1, <2>4, CountedSetsFinite
  <2> QED
    BY <2>1, <2>2, <2>3, <2>4, <2>5 DEF SemaInv, TypeOK
<1> QED
  BY <1>1, SemaCorrect, PTL

\* Whatever timeouts callers pass, consumers asleep have a kernel unit waiting
\* for as many of them as there are items: no wake-up is lost.
THEOREM NoWakeupLost == Spec => []NoLostWakeup
<1>1. SemaIInv => NoLostWakeup
  <2> DEFINE Asleep == {c \in Consumers : cpc[c] = "block"}
  <2> SUFFICES ASSUME SemaIInv,
                      \A p \in Producers : ppc[p] = "idle",
                      \A c \in Consumers : cpc[c] \in {"idle", "spin", "block"}
               PROVE  m_sema = (IF Cardinality(inner) < Cardinality(Asleep)
                                  THEN Cardinality(inner)
                                  ELSE Cardinality(Asleep)) + rejected
    BY DEF NoLostWakeup
  <2>1. TypeOK /\ CountInv /\ SemaInv
    BY DEF SemaIInv, CountIInv
  <2>2. Adding = {} /\ Posting = {} /\ Taking = {} /\ Registered = Asleep
    BY DEF Adding, Posting, Taking, Registered
  <2>3. Cardinality({}) = 0
    BY FS_EmptySet
  <2>4. Cardinality(Asleep) \in Nat /\ Cardinality(inner) \in Nat
    BY <2>1, <2>2, CountedSetsFinite
  <2>5. Cardinality(inner) = m_count + Cardinality(Asleep)
    BY <2>1, <2>2, <2>3, <2>4 DEF CountInv, TypeOK
  <2>6. m_sema = Cardinality(Asleep) + (IF m_count < 0 THEN m_count ELSE 0)
                  + rejected
    BY <2>1, <2>2, <2>3, <2>4 DEF SemaInv, TypeOK
  <2> QED
    BY <2>1, <2>4, <2>5, <2>6 DEF TypeOK
<1> QED
  BY <1>1, SemaCorrect, PTL

-----------------------------------------------------------------------------
(* Deadlines.                                                              *)

\* Exactly which callers are safe: timed_wait never builds a deadline that
\* sem_timedwait rejects if and only if every timeout is a whole number of
\* seconds.  (LogicHandler's idle wait is one, its busy wait is not.)
THEOREM DeadlinesValidIffWholeSeconds ==
  DeadlinesValid <=> \A t \in Timeouts : t % UsecsPerSec = 0
<1>0. NsecsPerSec \in Nat
  BY QueueAssumption DEF NsecsPerSec
<1>1. ASSUME \A t \in Timeouts : t % UsecsPerSec = 0 PROVE DeadlinesValid
  <2> SUFFICES ASSUME NEW t \in Timeouts, NEW now \in Nsec
               PROVE  ValidNsec(DeadlineNsec(now, t))
    BY DEF DeadlinesValid
  <2>1. (t % UsecsPerSec) * NsecsPerUsec = 0
    BY <1>1, QueueAssumption
  <2>2. now \in Int /\ 0 <= now /\ now < NsecsPerSec
    BY <1>0 DEF Nsec
  <2>3. DeadlineNsec(now, t) = now
    BY <1>0, <2>1, <2>2 DEF DeadlineNsec
  <2> QED
    BY <2>2, <2>3 DEF ValidNsec
<1>2. ASSUME DeadlinesValid PROVE \A t \in Timeouts : t % UsecsPerSec = 0
  <2> SUFFICES ASSUME NEW t \in Timeouts, t % UsecsPerSec # 0 PROVE FALSE
    OBVIOUS
  <2> DEFINE r == t % UsecsPerSec
             late == r * NsecsPerUsec
  <2>1. r \in 1 .. UsecsPerSec - 1
    BY QueueAssumption
  <2>2. late \in Nat /\ late >= 1
    BY <2>1, QueueAssumption
  <2>3. late <= NsecsPerSec
    <3>1. NsecsPerSec = late + (UsecsPerSec - r) * NsecsPerUsec
      BY <2>1, QueueAssumption DEF NsecsPerSec
    <3>2. (UsecsPerSec - r) * NsecsPerUsec \in Nat
      BY <2>1, QueueAssumption
    <3> HIDE DEF late, r
    <3> QED
      BY <2>2, <3>1, <3>2
  <2>4. NsecsPerSec - late \in Nsec
    <3> HIDE DEF late
    <3> QED
      BY <1>0, <2>2, <2>3 DEF Nsec
  <2>5. DeadlineNsec(NsecsPerSec - late, t) = NsecsPerSec
    <3>1. DeadlineNsec(NsecsPerSec - late, t) =
            IF (NsecsPerSec - late) + late > NsecsPerSec
              THEN ((NsecsPerSec - late) + late) - NsecsPerSec
              ELSE (NsecsPerSec - late) + late
      BY Zenon DEF DeadlineNsec
    <3> HIDE DEF late
    <3> QED
      BY <1>0, <2>2, <3>1
  <2>6. ValidNsec(NsecsPerSec)
    BY <1>2, <2>4, <2>5 DEF DeadlinesValid
  <2> QED
    BY <1>0, <2>6 DEF ValidNsec
<1> QED
  BY <1>1, <1>2

\* No deadline is ever rejected when every one timed_wait can build is valid:
\* then TokensBacked, Settles and NoWakeupLost hold with 0 for `rejected'.
THEOREM ValidNeverRejected == ASSUME DeadlinesValid PROVE Spec => [](rejected = 0)
<1> DEFINE None == rejected = 0
<1>1. CountIInv /\ None /\ [Next]_vars => None'
  <2> SUFFICES ASSUME CountIInv, rejected = 0, [Next]_vars PROVE rejected' = 0
    OBVIOUS
  <2>1. ASSUME NEW c \in Consumers, SemInvalid(c) PROVE FALSE
    BY <2>1 DEF SemInvalid, CountIInv, UsecsInv, DeadlinesValid
  <2>2. ASSUME NEW c \in Consumers, ConsumerStep(c) PROVE rejected' = rejected
    BY <2>1, <2>2 DEF ConsumerStep, Decrement, SemTake, SemBlock, SemTimeout,
       LoadCount, AdjustTake, AdjustCancel, AdjustRetry, Take
  <2>3. ASSUME NEW c \in Consumers, Call(c) PROVE rejected' = rejected
    BY <2>3 DEF Call, TryDequeue, Wait
  <2>4. ASSUME NEW p \in Producers, Enqueue(p) \/ ProducerStep(p)
        PROVE rejected' = rejected
    BY <2>4 DEF ProducerStep, Enqueue, Signal, Post
  <2> QED
    BY <2>2, <2>3, <2>4 DEF Next, vars
<1>2. Init => None
  BY DEF Init
<1> HIDE DEF None
<1>3. Spec => []None
  BY <1>1, <1>2, CountCorrect, PTL DEF Spec
<1> USE DEF None
<1> QED
  BY <1>3

-----------------------------------------------------------------------------
(* Refinement.                                                             *)

\* WorkQueue counts with the same operator.
LEMMA SameCardinality == \A S : WQ!Cardinality(S) = Cardinality(S)
  BY Zenon DEF WQ!Cardinality, Cardinality

\* The queue implements WorkQueue, rejected deadlines included: every item is
\* handed over once and in its producer's order, and a call gives up only when
\* each item present is claimed by another consumer or not yet announced.
THEOREM Refinement == Spec => ImplementsWorkQueue
<1> DEFINE InCall == {c \in Consumers : cpc[c] # "idle"}
<1>1. Init => WQ!Init
  BY DEF Init, WQ!Init, Adding
<1>2. CountIInv /\ [Next]_vars => [WQ!Next]_(WQ!vars)
  <2> SUFFICES ASSUME CountIInv, [Next]_vars PROVE [WQ!Next]_(WQ!vars)
    OBVIOUS
  <2>0. TypeOK /\ CountInv
    BY DEF CountIInv
  <2> USE DEF ProducerPC, ConsumerPC
  <2>1. ASSUME NEW p \in Producers, Enqueue(p) PROVE WQ!Insert(p)
    <3>1. Adding' = Adding \cup {p} /\ p \notin Adding
      BY <2>0, <2>1, ProducerMoves DEF Enqueue, Adding
    <3> QED
      BY <2>1, <3>1 DEF Enqueue, WQ!Insert
  <2>2. ASSUME NEW p \in Producers, Signal(p) PROVE WQ!Announce(p)
    <3>1. Adding' = Adding \ {p} /\ p \in Adding
      BY <2>0, <2>2, ProducerMoves DEF Signal, Adding
    <3> QED
      BY <2>2, <3>1 DEF Signal, WQ!Announce
  <2>3. ASSUME NEW p \in Producers, Post(p) PROVE UNCHANGED WQ!vars
    <3>1. Adding' = Adding
      BY <2>0, <2>3, ProducerMoves DEF Post, Adding
    <3> QED
      BY <2>3, <3>1 DEF Post, WQ!vars
  <2>4. ASSUME NEW c \in Consumers, Call(c) PROVE WQ!Ask(c)
    <3>1. InCall' = InCall \cup {c} /\ c \notin InCall
      BY <2>0, <2>4 DEF Call, TryDequeue, Wait, Settle, TypeOK
    <3>2. Adding' = Adding
      BY <2>4 DEF Call, TryDequeue, Wait, Adding
    <3> QED
      BY <2>4, <3>1, <3>2 DEF Call, TryDequeue, Wait, WQ!Ask
  <2>5. ASSUME NEW c \in Consumers,
               \/ Decrement(c) \/ SemInvalid(c) \/ SemTake(c) \/ SemBlock(c)
               \/ SemTimeout(c) \/ LoadCount(c) \/ AdjustTake(c) \/ AdjustRetry(c)
        PROVE UNCHANGED WQ!vars
    <3> USE <2>5 DEF Decrement, SemInvalid, SemTake, SemBlock, SemTimeout,
                     LoadCount, AdjustTake, AdjustRetry
    <3>1. \E pc \in ConsumerPC \ {"idle"} : cpc' = [cpc EXCEPT ![c] = pc]
      BY DEF Settle, Goto
    <3>2. cpc[c] # "idle"
      OBVIOUS
    <3>3. InCall' = InCall
      BY <2>0, <3>1, <3>2 DEF TypeOK
    <3>4. Adding' = Adding /\ inner' = inner /\ sent' = sent
      BY DEF Adding
    <3> QED
      BY <3>3, <3>4 DEF WQ!vars
  <2>6. ASSUME NEW c \in Consumers, AdjustCancel(c) PROVE WQ!GiveUp(c)
    <3>1. InCall' = InCall \ {c} /\ c \in InCall
      BY <2>0, <2>6 DEF AdjustCancel, Goto, TypeOK
    <3>2. Adding' = Adding
      BY <2>6 DEF AdjustCancel, Adding
    <3>3. Cardinality(inner) < Cardinality(Adding) + Cardinality(Taking) + Cardinality(Registered)
      BY <2>0, <2>6, CountedSetsFinite DEF AdjustCancel, CountInv, TypeOK
    <3>4. Cardinality(Taking \cup Registered) = Cardinality(Taking) + Cardinality(Registered)
      <4>1. Taking \cap Registered = {}
        BY DEF Taking, Registered
      <4>2. Cardinality(Taking \cup Registered) =
              Cardinality(Taking) + Cardinality(Registered) - Cardinality(Taking \cap Registered)
        BY <2>0, CountedSetsFinite, FS_Union
      <4>3. Cardinality(Taking \cap Registered) = 0
        BY <4>1, FS_EmptySet
      <4> QED
        BY <2>0, <4>2, <4>3, CountedSetsFinite
    <3>5. IsFiniteSet(InCall)
      BY QueueAssumption, FS_Subset
    <3>6. Cardinality(Taking \cup Registered) <= Cardinality(InCall)
      <4>1. (Taking \cup Registered) \subseteq InCall
        BY DEF Taking, Registered
      <4> QED
        BY <3>5, <4>1, FS_Subset
    <3>7. Cardinality(InCall \ {c}) = Cardinality(InCall) - 1 /\ Cardinality(InCall) \in Nat
      BY <3>1, <3>5, LoseOne
    <3>8. Cardinality(inner) <= Cardinality(Adding) + Cardinality(InCall \ {c})
      <4> HIDE DEF InCall
      <4> QED
        BY <2>0, <3>3, <3>4, <3>6, <3>7, CountedSetsFinite
    <3> QED
      BY <2>6, <3>1, <3>2, <3>8, SameCardinality DEF AdjustCancel, WQ!GiveUp
  <2>7. ASSUME NEW c \in Consumers, Take(c) PROVE WQ!Deliver(c)
    <3>1. InCall' = InCall \ {c} /\ c \in InCall
      BY <2>0, <2>7 DEF Take, Goto, TypeOK
    <3>2. Adding' = Adding
      BY <2>7 DEF Take, Adding
    <3> QED
      BY <2>7, <3>1, <3>2 DEF Take, Oldest, WQ!Deliver, WQ!Oldest
  <2>8. CASE UNCHANGED vars
    BY <2>8 DEF vars, WQ!vars, Adding
  <2> QED
    BY <2>1, <2>2, <2>3, <2>4, <2>5, <2>6, <2>7, <2>8
       DEF Next, ProducerStep, ConsumerStep, WQ!Next
<1> QED
  BY <1>1, <1>2, CountCorrect, PTL DEF Spec, ImplementsWorkQueue, WQ!Spec
=============================================================================
