----------------------- MODULE ImplicitProducerHash ------------------------
(***************************************************************************)
(* utils/concurrentqueue.h: how a thread that enqueues without a token     *)
(* finds its own ImplicitProducer.  get_or_add_implicit_producer looks its *)
(* thread id up in a lock-free hash table with linear probing and in all   *)
(* the smaller tables before it, and adds a producer if it is in none.     *)
(* Every access to an atomic is a step of its own.                         *)
(*                                                                         *)
(* MOODYCAMEL_CPP11_THREAD_LOCAL_SUPPORTED is not defined in this build,   *)
(* so that threads never leave a table and no implicit producer becomes    *)
(* inactive.                                                               *)
(***************************************************************************)
EXTENDS Integers, FiniteSets, Sequences

CONSTANTS
  Threads,
  hash_thread_id,      \* hash of each thread id
  InitialSizes,        \* values of INITIAL_IMPLICIT_PRODUCER_HASH_SIZE
  MaxFailures,         \* bound: allocations that fail
  Null                 \* invalid_thread_id, nullptr

\* No odd divisor but 1.
PowerOf2(p) == \A q \in 2 .. p : p % q = 0 => q % 2 = 0

ASSUME ImplicitProducerHashAssumption ==
  /\ Null \notin Threads /\ IsFiniteSet(Threads)
  /\ hash_thread_id \in [Threads -> Nat]
  /\ InitialSizes \subseteq Nat \ {0} /\ \A size \in InitialSizes : PowerOf2(size)
  /\ MaxFailures \in Nat

VARIABLES
  hashes,                                  \* the tables; the last is the current one
  implicitProducerHashCount,
  implicitProducerHashResizeInProgress,
  created,                                 \* how many producers a thread has created
  failures,
  pc, loc,                                 \* position and locals of each thread
  mine                                     \* history: what a thread was given last

vars == <<hashes, implicitProducerHashCount, implicitProducerHashResizeInProgress,
          created, failures, pc, loc, mine>>

-----------------------------------------------------------------------------
\* The k-th producer that thread t creates is <<t, k>>.
NoProducer == << >>
NoLocals == [main |-> 0, hash |-> 0, index |-> 0, newCount |-> 0, value |-> NoProducer]

EmptyHash(capacity) ==
  [capacity |-> capacity, key |-> [i \in 0 .. capacity - 1 |-> Null],
   value |-> [i \in 0 .. capacity - 1 |-> NoProducer]]

Slot(t, h) == hash_thread_id[t] % hashes[h].capacity
After(i, h) == (i + 1) % hashes[h].capacity

\* The call returns a producer.
Give(t, value) ==
  /\ mine' = [mine EXCEPT ![t] = value]
  /\ pc' = [pc EXCEPT ![t] = "idle"] /\ loc' = [loc EXCEPT ![t] = NoLocals]

Go(t, to, l) == pc' = [pc EXCEPT ![t] = to] /\ loc' = [loc EXCEPT ![t] = l]

Producers == {NoProducer} \cup (Threads \X Nat)

TableOf(capacity) ==
  [capacity : {capacity}, key : [0 .. capacity - 1 -> Threads \cup {Null}],
   value : [0 .. capacity - 1 -> Producers]]
Table == UNION {TableOf(capacity) : capacity \in Nat \ {0}}

Positions == {"idle", "probe", "insert", "count", "lock", "resize", "unlock", "room", "give up"}
Locals == [main : Nat, hash : Nat, index : Nat, newCount : Int, value : Producers]

TypeOK ==
  /\ hashes \in Seq(Table) /\ hashes # << >>
  /\ implicitProducerHashCount \in Int
  /\ implicitProducerHashResizeInProgress \in BOOLEAN
  /\ created \in [Threads -> Nat] /\ failures \in Nat
  /\ pc \in [Threads -> Positions] /\ loc \in [Threads -> Locals]
  /\ mine \in [Threads -> Producers]

Init ==
  /\ \E size \in InitialSizes : hashes = <<EmptyHash(size)>>
  /\ implicitProducerHashCount = 0
  /\ implicitProducerHashResizeInProgress = FALSE
  /\ created = [t \in Threads |-> 0] /\ failures = 0
  /\ pc = [t \in Threads |-> "idle"] /\ loc = [t \in Threads |-> NoLocals]
  /\ mine = [t \in Threads |-> NoProducer]

-----------------------------------------------------------------------------
(* Looking for the thread id.                                              *)

Start(t) ==
  /\ pc[t] = "idle"
  /\ Go(t, "probe", [NoLocals EXCEPT !.main = Len(hashes), !.hash = Len(hashes),
                                     !.index = Slot(t, Len(hashes))])
  /\ UNCHANGED <<hashes, implicitProducerHashCount, implicitProducerHashResizeInProgress,
                 created, failures, mine>>

\* Mutant of Probe: looks into the current table only.
ProbeCurrent(t) ==
  /\ pc[t] = "probe"
  /\ LET l == loc[t]
         probedKey == hashes[l.hash].key[l.index]
     IN  IF probedKey = t THEN Give(t, hashes[l.hash].value[l.index])
         ELSE /\ mine' = mine
              /\ IF probedKey = Null THEN Go(t, "count", l)
                 ELSE Go(t, "probe", [l EXCEPT !.index = After(l.index, l.hash)])
  /\ UNCHANGED <<hashes, implicitProducerHashCount, implicitProducerHashResizeInProgress,
                 created, failures>>

\* Found in an earlier table, the producer is entered into the current one.
\* An empty slot ends the search of a table.
Probe(t) ==
  /\ pc[t] = "probe"
  /\ LET l == loc[t]
         probedKey == hashes[l.hash].key[l.index]
         value == hashes[l.hash].value[l.index]
     IN  \/ probedKey = t /\ l.hash = l.main /\ Give(t, value)
         \/ /\ probedKey # t \/ l.hash # l.main
            /\ mine' = mine
            /\ CASE probedKey = t ->
                      Go(t, "insert", [l EXCEPT !.value = value, !.index = Slot(t, l.main)])
                 [] probedKey = Null /\ l.hash = 1 -> Go(t, "count", l)
                 [] probedKey = Null /\ l.hash > 1 ->
                      Go(t, "probe", [l EXCEPT !.hash = @ - 1, !.index = Slot(t, l.hash - 1)])
                 [] OTHER -> Go(t, "probe", [l EXCEPT !.index = After(l.index, l.hash)])
  /\ UNCHANGED <<hashes, implicitProducerHashCount, implicitProducerHashResizeInProgress,
                 created, failures>>

Enter(table, i, t, value) ==
  [capacity |-> table.capacity, key |-> [table.key EXCEPT ![i] = t],
   value |-> [table.value EXCEPT ![i] = value]]

\* The slot is taken by compare_exchange if it is empty.
Insert(t) ==
  /\ pc[t] = "insert"
  /\ LET l == loc[t]
     IN  IF hashes[l.main].key[l.index] = Null
         THEN /\ hashes' = [hashes EXCEPT ![l.main] = Enter(@, l.index, t, l.value)]
              /\ Give(t, l.value)
         ELSE /\ Go(t, "insert", [l EXCEPT !.index = After(l.index, l.main)])
              /\ UNCHANGED <<hashes, mine>>
  /\ UNCHANGED <<implicitProducerHashCount, implicitProducerHashResizeInProgress,
                 created, failures>>

-----------------------------------------------------------------------------
(* Adding it.                                                              *)

Count(t) ==
  /\ pc[t] = "count"
  /\ implicitProducerHashCount' = implicitProducerHashCount + 1
  /\ Go(t, "lock", [loc[t] EXCEPT !.newCount = implicitProducerHashCount + 1])
  /\ UNCHANGED <<hashes, implicitProducerHashResizeInProgress, created, failures, mine>>

HalfFull(t, h) == loc[t].newCount >= hashes[h].capacity \div 2

\* test_and_set of the resize lock, for a table that is half full.
TryLock(t) ==
  /\ pc[t] = "lock"
  /\ IF HalfFull(t, loc[t].main) /\ ~ implicitProducerHashResizeInProgress
     THEN implicitProducerHashResizeInProgress' = TRUE /\ Go(t, "resize", loc[t])
     ELSE UNCHANGED implicitProducerHashResizeInProgress /\ Go(t, "room", loc[t])
  /\ UNCHANGED <<hashes, implicitProducerHashCount, created, failures, mine>>

\* The least doubling of the capacity that is less than half full.
NewCapacities(t) ==
  LET c == hashes[Len(hashes)].capacity
      n == loc[t].newCount
  IN  {d \in {c * factor : factor \in {f \in 2 .. 4 * n + 3 : PowerOf2(f)}} :
         /\ n < d \div 2
         /\ d > 2 * c => n >= d \div 4}

\* Holding the lock, the thread looks at the current table again.
Resize(t) ==
  /\ pc[t] = "resize"
  /\ IF HalfFull(t, Len(hashes))
     THEN /\ \E d \in NewCapacities(t) : hashes' = Append(hashes, EmptyHash(d))
          /\ Go(t, "unlock", [loc[t] EXCEPT !.main = Len(hashes) + 1])
     ELSE /\ Go(t, "unlock", [loc[t] EXCEPT !.main = Len(hashes)])
          /\ UNCHANGED hashes
  /\ UNCHANGED <<implicitProducerHashCount, implicitProducerHashResizeInProgress,
                 created, failures, mine>>

\* Mutant of Unlock: not after a failure.
UnlockOnSuccess(t) ==
  /\ pc[t] \in {"unlock", "give up"}
  /\ implicitProducerHashResizeInProgress' = (pc[t] = "give up")
  /\ Go(t, IF pc[t] = "unlock" THEN "room" ELSE "idle",
        IF pc[t] = "unlock" THEN loc[t] ELSE NoLocals)
  /\ UNCHANGED <<hashes, implicitProducerHashCount, created, failures, mine>>

Unlock(t) ==
  /\ pc[t] \in {"unlock", "give up"}
  /\ implicitProducerHashResizeInProgress' = FALSE
  /\ Go(t, IF pc[t] = "unlock" THEN "room" ELSE "idle",
        IF pc[t] = "unlock" THEN loc[t] ELSE NoLocals)
  /\ UNCHANGED <<hashes, implicitProducerHashCount, created, failures, mine>>

\* Mutant of HasRoom: a table may be filled up.
HasRoomToTheLast(t) == loc[t].newCount <= hashes[loc[t].main].capacity

HasRoom(t) ==
  LET c == hashes[loc[t].main].capacity IN loc[t].newCount < (c \div 2) + (c \div 4)

\* Less than three quarters full: create a producer and use this table.
\* recycle_or_create_producer finds no implicit producer that is inactive.
Create(t) ==
  /\ pc[t] = "room" /\ HasRoom(t)
  /\ created' = [created EXCEPT ![t] = @ + 1]
  /\ Go(t, "insert", [loc[t] EXCEPT !.value = <<t, created'[t]>>, !.index = Slot(t, loc[t].main)])
  /\ UNCHANGED <<hashes, implicitProducerHashCount, implicitProducerHashResizeInProgress,
                 failures, mine>>

\* Somebody else is making a larger table: load the current one and retry.
Wait(t) ==
  /\ pc[t] = "room" /\ ~ HasRoom(t)
  /\ Go(t, "lock", [loc[t] EXCEPT !.main = Len(hashes)])
  /\ UNCHANGED <<hashes, implicitProducerHashCount, implicitProducerHashResizeInProgress,
                 created, failures, mine>>

\* malloc fails, for the table or for the producer: the thread is not counted
\* any more and nullptr is returned, after unlocking in the first case.
Fail(t) ==
  /\ \/ pc[t] = "resize" /\ HalfFull(t, Len(hashes)) /\ Go(t, "give up", NoLocals)
     \/ pc[t] = "room" /\ HasRoom(t) /\ Go(t, "idle", NoLocals)
  /\ failures < MaxFailures /\ failures' = failures + 1
  /\ implicitProducerHashCount' = implicitProducerHashCount - 1
  /\ UNCHANGED <<hashes, implicitProducerHashResizeInProgress, created, mine>>

get_or_add_implicit_producer(t) ==
  \/ Probe(t) \/ Insert(t)
  \/ Count(t) \/ TryLock(t) \/ Resize(t) \/ Unlock(t) \/ Create(t) \/ Wait(t) \/ Fail(t)

Next == \E t \in Threads : Start(t) \/ get_or_add_implicit_producer(t)

\* A thread inside the call keeps running.
Spec ==
  Init /\ [][Next]_vars /\ \A t \in Threads : WF_vars(get_or_add_implicit_producer(t))

-----------------------------------------------------------------------------
(* Correctness.                                                            *)

\* `Not an infinite loop because at least one slot is free in the hash
\* table', whichever tables threads still hold, and however many were
\* entered again from earlier ones.
SlotFree == \A h \in DOMAIN hashes : \E i \in DOMAIN hashes[h].key : hashes[h].key[i] = Null

\* A thread is always given the producer it was given first, through every
\* change of tables, and no two threads are given the same: an ImplicitProducer
\* has one enqueuing thread.
OwnProducer ==
  [][\A t \in Threads : mine'[t] # mine[t] =>
       /\ mine[t] = NoProducer
       /\ \A u \in Threads \ {t} : mine'[u] # mine'[t]]_vars

\* Nobody waits for ever for a table that somebody else is to make, whether
\* or not that one succeeds.
CallsReturn == \A t \in Threads : pc[t] # "idle" ~> pc[t] = "idle"
=============================================================================
