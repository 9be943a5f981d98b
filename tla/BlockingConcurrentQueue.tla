---------------------- MODULE BlockingConcurrentQueue ----------------------
(***************************************************************************)
(* utils/blockingconcurrentqueue.h: the lock-free queue with a lightweight *)
(* semaphore in front of it, through which every request and every         *)
(* response of the server travels.  The atomic counter m_count, the kernel *)
(* semaphore m_sema and each step the calling threads take between two     *)
(* atomic operations are modelled; the lock-free queue `inner' is the set  *)
(* of the items it holds.                                                  *)
(***************************************************************************)
EXTENDS Integers, FiniteSets

CONSTANTS
  Producers,     \* threads that call enqueue
  Consumers,     \* threads that call wait_dequeue_timed or try_dequeue
  Timeouts,      \* the timeout_usecs arguments callers pass
  UsecsPerSec,   \* usecs_in_1_sec
  NsecsPerUsec,  \* the factor 1000 between the two
  MaxItems       \* bound: enqueue calls per producer

NsecsPerSec == UsecsPerSec * NsecsPerUsec

\* Whatever instant clock_gettime returns within its second.
Nsec == 0 .. NsecsPerSec - 1

ASSUME QueueAssumption ==
  /\ IsFiniteSet(Producers)
  /\ IsFiniteSet(Consumers)
  /\ Timeouts \subseteq Nat
  /\ UsecsPerSec \in Nat \ {0}
  /\ NsecsPerUsec \in Nat \ {0}
  /\ MaxItems \in Nat

VARIABLES
  inner,     \* items in the lock-free queue, <<producer, sequence number>>
  m_count,   \* LightweightSemaphore::m_count
  m_sema,    \* value of the kernel semaphore
  sent,      \* enqueue calls each producer has made
  ppc,       \* where each producer is in enqueue
  cpc,       \* where each consumer is in its dequeue call
  oldCount,  \* the consumer's local oldCount in the re-adjustment loop
  usecs,     \* the timeout of the consumer's current call
  rejected   \* history: deadlines sem_timedwait has rejected so far

vars == <<inner, m_count, m_sema, sent, ppc, cpc, oldCount, usecs, rejected>>

(***************************************************************************)
(* Producer: "idle" outside enqueue, "add" after inner.enqueue and before  *)
(* signal's fetch_add, "post" before the sem_post it decided on.           *)
(* Consumer: "idle" outside a call, "spin" in the spin loop, "enter" about *)
(* to call sem_timedwait, "block" asleep in it, "late" timed out and about *)
(* to load m_count, "adjust" with the loaded value, "take" in the loop     *)
(* `while (!inner.try_dequeue(item))'.                                     *)
(***************************************************************************)
ProducerPC == {"idle", "add", "post"}
ConsumerPC == {"idle", "spin", "enter", "block", "late", "adjust", "take"}

\* Consumers that have decremented m_count and hold no item for it yet.
Registered == {c \in Consumers : cpc[c] \in {"enter", "block", "late", "adjust"}}
Taking     == {c \in Consumers : cpc[c] = "take"}
Adding     == {p \in Producers : ppc[p] = "add"}
Posting    == {p \in Producers : ppc[p] = "post"}

TypeOK ==
  /\ inner \in SUBSET (Producers \X (0 .. MaxItems - 1))
  /\ m_count \in Int
  /\ m_sema \in Nat
  /\ sent \in [Producers -> 0 .. MaxItems]
  /\ ppc \in [Producers -> ProducerPC]
  /\ cpc \in [Consumers -> ConsumerPC]
  /\ oldCount \in [Consumers -> Int]
  /\ usecs \in [Consumers -> Timeouts \cup {0}]
  /\ rejected \in Nat

Init ==
  /\ inner = {}
  /\ m_count = 0
  /\ m_sema = 0
  /\ sent = [p \in Producers |-> 0]
  /\ ppc = [p \in Producers |-> "idle"]
  /\ cpc = [c \in Consumers |-> "idle"]
  /\ oldCount = [c \in Consumers |-> 0]
  /\ usecs = [c \in Consumers |-> 0]
  /\ rejected = 0

-----------------------------------------------------------------------------
(* Producers.                                                              *)

\* inner.enqueue(item): the item becomes visible before it is announced.
Enqueue(p) ==
  /\ ppc[p] = "idle"
  /\ sent[p] < MaxItems
  /\ inner' = inner \cup {<<p, sent[p]>>}
  /\ sent' = [sent EXCEPT ![p] = @ + 1]
  /\ ppc' = [ppc EXCEPT ![p] = "add"]
  /\ UNCHANGED <<m_count, m_sema, cpc, oldCount, usecs, rejected>>

\* Mutant of Signal: posts for an old value of 0 as well.
SignalTooOften(p) ==
  /\ ppc[p] = "add"
  /\ m_count' = m_count + 1
  /\ ppc' = [ppc EXCEPT ![p] = IF m_count <= 0 THEN "post" ELSE "idle"]
  /\ UNCHANGED <<inner, m_sema, sent, cpc, oldCount, usecs, rejected>>

\* Mutant of Signal: does not post for the last registered consumer.
SignalTooRarely(p) ==
  /\ ppc[p] = "add"
  /\ m_count' = m_count + 1
  /\ ppc' = [ppc EXCEPT ![p] = IF m_count < -1 THEN "post" ELSE "idle"]
  /\ UNCHANGED <<inner, m_sema, sent, cpc, oldCount, usecs, rejected>>

\* signal(1): fetch_add; a negative old value means a consumer is registered
\* on the kernel semaphore and must be released.
Signal(p) ==
  /\ ppc[p] = "add"
  /\ m_count' = m_count + 1
  /\ ppc' = [ppc EXCEPT ![p] = IF m_count < 0 THEN "post" ELSE "idle"]
  /\ UNCHANGED <<inner, m_sema, sent, cpc, oldCount, usecs, rejected>>

Post(p) ==
  /\ ppc[p] = "post"
  /\ m_sema' = m_sema + 1
  /\ ppc' = [ppc EXCEPT ![p] = "idle"]
  /\ UNCHANGED <<inner, m_count, sent, cpc, oldCount, usecs, rejected>>

-----------------------------------------------------------------------------
(* Consumers.                                                              *)

\* The consumer's call goes on at `pc' with its timeout still needed.
Goto(c, pc) ==
  /\ cpc' = [cpc EXCEPT ![c] = pc]
  /\ UNCHANGED usecs

\* It no longer matters what the timeout was.
Settle(c, pc) ==
  /\ cpc' = [cpc EXCEPT ![c] = pc]
  /\ usecs' = [usecs EXCEPT ![c] = 0]

\* tryWait's successful compare-and-swap.  A try_dequeue that finds the
\* count at or below 0 returns false and changes nothing.
TryDequeue(c) ==
  /\ cpc[c] = "idle"
  /\ m_count > 0
  /\ m_count' = m_count - 1
  /\ Settle(c, "take")
  /\ UNCHANGED <<inner, m_sema, sent, ppc, oldCount, rejected>>

\* wait_dequeue_timed(item, t) whose tryWait failed; one whose tryWait
\* succeeds takes the same step as TryDequeue.
Wait(c, t) ==
  /\ cpc[c] = "idle"
  /\ m_count <= 0
  /\ cpc' = [cpc EXCEPT ![c] = "spin"]
  /\ usecs' = [usecs EXCEPT ![c] = t]
  /\ UNCHANGED <<inner, m_count, m_sema, sent, ppc, oldCount, rejected>>

\* Mutant of Decrement: an old value of 0 counts as success.
DecrementAtZero(c) ==
  /\ cpc[c] = "spin"
  /\ m_count' = m_count - 1
  /\ IF m_count >= 0 THEN Settle(c, "take") ELSE Goto(c, "enter")
  /\ UNCHANGED <<inner, m_sema, sent, ppc, oldCount, rejected>>

\* The spin loop ends, by a successful compare-and-swap or by the fetch_sub
\* after the last round: either way m_count drops by one, and the value it
\* had decides whether the caller must sleep.
Decrement(c) ==
  /\ cpc[c] = "spin"
  /\ m_count' = m_count - 1
  /\ IF m_count > 0 THEN Settle(c, "take") ELSE Goto(c, "enter")
  /\ UNCHANGED <<inner, m_sema, sent, ppc, oldCount, rejected>>

\* timed_wait's tv_nsec handed to sem_timedwait when the clock reads `now'.
DeadlineNsec(now, t) ==
  LET nsec == now + (t % UsecsPerSec) * NsecsPerUsec
  IN  IF nsec > NsecsPerSec THEN nsec - NsecsPerSec ELSE nsec

\* sem_timedwait's precondition on tv_nsec: at least 0 and below one second.
ValidNsec(n) == 0 <= n /\ n < NsecsPerSec

\* No caller's timeout can lead to a deadline sem_timedwait rejects.
DeadlinesValid ==
  \A t \in Timeouts : \A now \in Nsec : ValidNsec(DeadlineNsec(now, t))

\* sem_timedwait rejects the deadline with EINVAL and takes nothing;
\* timed_wait returns true because errno is not ETIMEDOUT, so the caller goes
\* on to the inner queue as if it had been granted an item.
SemInvalid(c) ==
  /\ cpc[c] = "enter"
  /\ \E now \in Nsec : ~ ValidNsec(DeadlineNsec(now, usecs[c]))
  /\ Settle(c, "take")
  /\ rejected' = rejected + 1
  /\ UNCHANGED <<inner, m_count, m_sema, sent, ppc, oldCount>>

\* With a valid deadline sem_timedwait takes a unit if there is one, at once
\* or when it is woken up.
SemTake(c) ==
  /\ \/ /\ cpc[c] = "enter"
        /\ \E now \in Nsec : ValidNsec(DeadlineNsec(now, usecs[c]))
     \/ cpc[c] = "block"
  /\ m_sema > 0
  /\ m_sema' = m_sema - 1
  /\ Settle(c, "take")
  /\ UNCHANGED <<inner, m_count, sent, ppc, oldCount, rejected>>

SemBlock(c) ==
  /\ cpc[c] = "enter"
  /\ m_sema = 0
  /\ \E now \in Nsec : ValidNsec(DeadlineNsec(now, usecs[c]))
  /\ Settle(c, "block")
  /\ UNCHANGED <<inner, m_count, m_sema, sent, ppc, oldCount, rejected>>

\* The deadline passes while asleep.  A post that arrives in the same moment
\* does not undo it, so m_sema may be positive here.
SemTimeout(c) ==
  /\ cpc[c] = "block"
  /\ Goto(c, "late")
  /\ UNCHANGED <<inner, m_count, m_sema, sent, ppc, oldCount, rejected>>

LoadCount(c) ==
  /\ cpc[c] = "late"
  /\ oldCount' = [oldCount EXCEPT ![c] = m_count]
  /\ Goto(c, "adjust")
  /\ UNCHANGED <<inner, m_count, m_sema, sent, ppc, rejected>>

\* oldCount >= 0 && m_sema.try_wait(): a producer has already counted this
\* consumer out of the waiters, so its unit is on the way.
AdjustTake(c) ==
  /\ cpc[c] = "adjust"
  /\ oldCount[c] >= 0
  /\ m_sema > 0
  /\ m_sema' = m_sema - 1
  /\ oldCount' = [oldCount EXCEPT ![c] = 0]
  /\ Goto(c, "take")
  /\ UNCHANGED <<inner, m_count, sent, ppc, rejected>>

\* Mutant of AdjustCancel: gives up without taking its decrement back.
AdjustCancelInDebt(c) ==
  /\ cpc[c] = "adjust"
  /\ oldCount[c] < 0
  /\ m_count = oldCount[c]
  /\ oldCount' = [oldCount EXCEPT ![c] = 0]
  /\ Goto(c, "idle")
  /\ UNCHANGED <<inner, m_count, m_sema, sent, ppc, rejected>>

\* Mutant of AdjustCancel: gives up whether or not a producer has already
\* counted it out of the waiters.
AdjustCancelAlways(c) ==
  /\ cpc[c] = "adjust"
  /\ m_count' = m_count + 1
  /\ oldCount' = [oldCount EXCEPT ![c] = 0]
  /\ Goto(c, "idle")
  /\ UNCHANGED <<inner, m_sema, sent, ppc, rejected>>

\* oldCount < 0 and the compare-and-swap succeeds: the call returns false.
AdjustCancel(c) ==
  /\ cpc[c] = "adjust"
  /\ oldCount[c] < 0
  /\ m_count = oldCount[c]
  /\ m_count' = m_count + 1
  /\ oldCount' = [oldCount EXCEPT ![c] = 0]
  /\ Goto(c, "idle")
  /\ UNCHANGED <<inner, m_sema, sent, ppc, rejected>>

\* Neither: around the loop again.
AdjustRetry(c) ==
  /\ cpc[c] = "adjust"
  /\ IF oldCount[c] >= 0 THEN m_sema = 0 ELSE m_count # oldCount[c]
  /\ oldCount' = [oldCount EXCEPT ![c] = 0]
  /\ Goto(c, "late")
  /\ UNCHANGED <<inner, m_count, m_sema, sent, ppc, rejected>>

\* The oldest item of each producer.
Oldest(items) == {i \in items : \A j \in items : j[1] = i[1] => i[2] <= j[2]}

\* inner.try_dequeue succeeds, from whichever producer's sub-queue; the loop
\* around it has no other way out.
Take(c) ==
  /\ cpc[c] = "take"
  /\ \E i \in Oldest(inner) : inner' = inner \ {i}
  /\ Goto(c, "idle")
  /\ UNCHANGED <<m_count, m_sema, sent, ppc, oldCount, rejected>>

-----------------------------------------------------------------------------
ProducerStep(p) == Signal(p) \/ Post(p)

ConsumerStep(c) ==
  \/ Decrement(c)
  \/ SemInvalid(c) \/ SemTake(c) \/ SemBlock(c) \/ SemTimeout(c)
  \/ LoadCount(c) \/ AdjustTake(c) \/ AdjustCancel(c) \/ AdjustRetry(c)
  \/ Take(c)

Call(c) == TryDequeue(c) \/ \E t \in Timeouts : Wait(c, t)

Next ==
  \/ \E p \in Producers : Enqueue(p) \/ ProducerStep(p)
  \/ \E c \in Consumers : Call(c) \/ ConsumerStep(c)

Spec == Init /\ [][Next]_vars

(***************************************************************************)
(* A thread inside a call keeps running.  Nobody is obliged to enqueue or  *)
(* to call.                                                                *)
(***************************************************************************)
FairSpec ==
  /\ Spec
  /\ \A p \in Producers : WF_vars(ProducerStep(p))
  /\ \A c \in Consumers : WF_vars(ConsumerStep(c))

\* As long as a consumer is outside the queue some consumer calls again: the
\* executor loop of a running LogicHandler does nothing else.
Served == WF_vars(\E c \in Consumers : Call(c))

-----------------------------------------------------------------------------
(* Correctness.                                                            *)

\* Of the consumers in the loop `while (!inner.try_dequeue(item))' of
\* wait_dequeue_timed or try_dequeue, which has no other exit, each has an item
\* of its own in the inner queue, but for at most one per rejected deadline.
TokenBacked == Cardinality(Taking) <= Cardinality(inner) + rejected

\* Behind TokenBacked: m_count is the number of items less those an enqueue
\* has yet to announce and those a consumer has been granted or waits for.
CountInv ==
  Cardinality(inner) =
    m_count + Cardinality(Adding) + Cardinality(Taking) + Cardinality(Registered)

\* Also behind it: kernel units present or about to be posted are those of
\* the registered consumers that m_count no longer counts as waiting, and the
\* unit each rejected call went on without.
SemaInv ==
  m_sema + Cardinality(Posting) =
    Cardinality(Registered) + (IF m_count < 0 THEN m_count ELSE 0) + rejected

\* No wake-up is lost: when every producer has returned from enqueue and
\* every consumer in a call sleeps in sem_timedwait, the kernel semaphore holds
\* a unit for each of them that an item is there for, and beyond these only
\* the units that rejected calls left behind.
NoLostWakeup ==
  LET Asleep == {c \in Consumers : cpc[c] = "block"}
      Least(a, b) == IF a < b THEN a ELSE b
  IN  (/\ \A p \in Producers : ppc[p] = "idle"
       /\ \A c \in Consumers : cpc[c] \in {"idle", "spin", "block"})
        => m_sema = Least(Cardinality(inner), Cardinality(Asleep)) + rejected

\* Whatever time-outs, cancellations and late posts happened, once no call is
\* in progress m_count is again exactly the number of items: a call that gave
\* up leaves no unit and no debt behind, and a call whose deadline was rejected
\* leaves exactly one unit in the kernel semaphore, for ever.
SemaphoreSettles ==
  (/\ \A p \in Producers : ppc[p] = "idle"
   /\ \A c \in Consumers : cpc[c] = "idle")
    => m_count = Cardinality(inner) /\ m_sema = rejected

\* wait_dequeue_timed comes back, with an item or without, if the other
\* consumers leave the queue alone from some point on and no deadline has been
\* rejected.
WaitReturns ==
  \A c \in Consumers :
    <>[](\A d \in Consumers \ {c} : cpc[d] = "idle")
      => []<>(cpc[c] = "idle" \/ rejected > 0)

\* What wait_dequeue_timed promises of its timeout, whatever its deadline:
\* "or the timeout (specified in microseconds) expires".
TimeoutExpires ==
  \A c \in Consumers :
    <>[](\A d \in Consumers \ {c} : cpc[d] = "idle") => []<>(cpc[c] = "idle")

\* As long as consumers keep calling, no item stays in the queue for ever.
EventuallyDelivered ==
  Served => \A p \in Producers : \A n \in 0 .. MaxItems - 1 :
              <<p, n>> \in inner ~> <<p, n>> \notin inner

\* The queue implements the work queue its users rely on.
WQ == INSTANCE WorkQueue WITH
        pending   <- inner,
        enqueuing <- Adding,
        waiting   <- {c \in Consumers : cpc[c] # "idle"}

\* Every step of the implementation is a step of WorkQueue or changes nothing
\* WorkQueue speaks of: exactly-once hand-over, order per producer, and no
\* false time-out.
ImplementsWorkQueue == WQ!Spec
=============================================================================
