--------------------------- MODULE ProducerList ----------------------------
(***************************************************************************)
(* utils/concurrentqueue.h: the list of all producers of a queue.  Tokens  *)
(* and enqueuing threads add producers, a token takes over the producer    *)
(* that another one has left, and the dequeuing methods go through the     *)
(* list, with or without a ConsumerToken that says where to begin and      *)
(* moves on when the consumers rotate.  Every access to an atomic is a     *)
(* step of its own, but for two: Recycle loads inactive and swaps it, and  *)
(* Place loads the number of producers with the offset.  What these two    *)
(* say is only at which producer a search begins, and a search goes all    *)
(* around the list from wherever that is.                                  *)
(*                                                                         *)
(* Of the producers' own queues (module ProducerQueue) only the number of  *)
(* elements is kept.  Alone, a consumer gets what there is; while others   *)
(* dequeue it may find less.                                               *)
(***************************************************************************)
EXTENDS ConcurrentQueueConstants, Integers, FiniteSets, Sequences, FiniteSetsExt

CONSTANTS
  Owners,          \* threads that enqueue, each with a token or implicitly
  TokenUsers,      \* the consumers that dequeue with a ConsumerToken
  MaxProducers,    \* bound: creating another producer fails
  Quota            \* EXPLICIT_CONSUMER_CONSUMPTION_QUOTA_BEFORE_ROTATE

ASSUME ProducerListAssumption ==
  /\ MaxProducers \in Nat /\ MaxItems \in Nat /\ MaxBulk \in Nat \ {0}
  /\ TokenUsers \subseteq Consumers
  /\ Quota \in Nat \ {0} /\ Null \notin Nat

VARIABLES
  producerListTail, producerCount,
  next_prod, inactive, explicitProducer, size,  \* of the producers
  items,                                \* elements enqueued so far
  owner,                                \* position, producer and locals of each owner
  nextExplicitConsumerId, globalExplicitConsumerOffset,
  token,                                \* the ConsumerToken of each consumer
  call                                  \* position and locals of each consumer

producers == <<producerListTail, producerCount, next_prod, inactive, explicitProducer>>
rotation  == <<nextExplicitConsumerId, globalExplicitConsumerOffset>>
listVars == <<producers, size, items, owner, rotation, token, call>>

-----------------------------------------------------------------------------
Producers == DOMAIN next_prod

\* The producer after p, starting again from tail at the end.
Around(p, tail) == IF next_prod[p] = Null THEN tail ELSE next_prod[p]

\* n steps from p.
Steps(p, tail, n) ==
  LET at[k \in 0 .. n] == IF k = 0 THEN p ELSE Around(at[k - 1], tail) IN at[n]

NoProducer == [pc |-> "idle", has |-> Null, ptr |-> Null, explicit |-> TRUE]
OutsideCall == [pc |-> "idle", ptr |-> Null, tail |-> Null, best |-> Null, bestSize |-> 0,
                nonEmpty |-> 0, count |-> 0, left |-> 0, max |-> 0, start |-> 0, alone |-> FALSE]
NoToken == [initialOffset |-> Null, last |-> -1, consumed |-> 0,
            current |-> Null, desired |-> Null]

OwnerOf(P) == [pc : {"idle", "scan", "load", "push"}, has : P \cup {Null}, ptr : P \cup {Null},
               explicit : BOOLEAN]

Holding(p) == [pc |-> "idle", has |-> p, ptr |-> Null, explicit |-> explicitProducer[p]]

\* The producers, and what their owners hold.  Where the consumers stand is
\* left to the runs, in which a step from nowhere would be an error.
ListTypeOK ==
  /\ next_prod \in Seq(Nat \cup {Null})
  /\ inactive \in Seq(BOOLEAN) /\ Len(inactive) = Len(next_prod)
  /\ explicitProducer \in Seq(BOOLEAN) /\ Len(explicitProducer) = Len(next_prod)
  /\ producerListTail \in Producers \cup {Null}
  /\ \A p \in Producers : next_prod[p] \in Producers \cup {Null}
  /\ owner \in [Owners -> OwnerOf(Producers)]
  /\ \A o \in Owners : owner[o].pc \in {"load", "push"} => owner[o].has # Null

ListInit ==
  /\ producerListTail = Null /\ producerCount = 0
  /\ next_prod = << >> /\ inactive = << >> /\ explicitProducer = << >> /\ size = << >>
  /\ items = 0
  /\ owner = [o \in Owners |-> NoProducer]
  /\ nextExplicitConsumerId = 0 /\ globalExplicitConsumerOffset = 0
  /\ token = [c \in Consumers |-> NoToken]
  /\ call = [c \in Consumers |-> OutsideCall]

-----------------------------------------------------------------------------
(* Producers come and go.                                                  *)

\* A ProducerToken is made (explicit), or a thread enqueues for the first
\* time without one.
StartProducer(o, explicit) ==
  /\ owner[o].pc = "idle" /\ owner[o].has = Null
  /\ owner' = [owner EXCEPT ![o] = [pc |-> "scan", has |-> Null, ptr |-> producerListTail,
                                   explicit |-> explicit]]
  /\ UNCHANGED <<producers, size, items, rotation, token, call>>

\* Mutant of Recycle: takes a producer that is in use.
RecycleAny(o) ==
  /\ owner[o].pc = "scan" /\ owner[o].ptr # Null
  /\ LET p == owner[o].ptr
     IN  IF explicitProducer[p] = owner[o].explicit
         THEN owner' = [owner EXCEPT ![o] = Holding(p)]
         ELSE owner' = [owner EXCEPT ![o].ptr = next_prod[p]]
  /\ UNCHANGED <<producers, size, items, rotation, token, call>>

\* An inactive producer of the right kind is claimed by compare_exchange.
Recycle(o) ==
  /\ owner[o].pc = "scan" /\ owner[o].ptr # Null
  /\ LET p == owner[o].ptr
     IN  IF inactive[p] /\ explicitProducer[p] = owner[o].explicit
         THEN /\ inactive' = [inactive EXCEPT ![p] = FALSE]
              /\ owner' = [owner EXCEPT ![o] = Holding(p)]
         ELSE /\ owner' = [owner EXCEPT ![o].ptr = next_prod[p]]
              /\ UNCHANGED inactive
  /\ UNCHANGED <<producerListTail, producerCount, next_prod, explicitProducer, size, items, rotation,
                 token, call>>

\* None: a new one.  add_producer counts it before it puts it on the list.
CreateProducer(o) ==
  /\ owner[o].pc = "scan" /\ owner[o].ptr = Null
  /\ Len(next_prod) < MaxProducers
  /\ producerCount' = producerCount + 1
  /\ next_prod' = Append(next_prod, Null) /\ inactive' = Append(inactive, FALSE)
  /\ explicitProducer' = Append(explicitProducer, owner[o].explicit) /\ size' = Append(size, 0)
  /\ owner' = [owner EXCEPT ![o].pc = "load", ![o].has = Len(next_prod) + 1]
  /\ UNCHANGED <<producerListTail, items, rotation, token, call>>

\* No memory: the token is not valid.
CreateFails(o) ==
  /\ owner[o].pc = "scan" /\ owner[o].ptr = Null
  /\ owner' = [owner EXCEPT ![o] = NoProducer]
  /\ UNCHANGED <<producers, size, items, rotation, token, call>>

LoadTail(o) ==
  /\ owner[o].pc = "load"
  /\ next_prod' = [next_prod EXCEPT ![owner[o].has] = producerListTail]
  /\ owner' = [owner EXCEPT ![o].pc = "push"]
  /\ UNCHANGED <<producerListTail, producerCount, inactive, explicitProducer, size, items, rotation,
                 token, call>>

\* compare_exchange, which loads the tail again when it fails.
PushProducer(o) ==
  /\ owner[o].pc = "push"
  /\ IF producerListTail = next_prod[owner[o].has]
     THEN /\ producerListTail' = owner[o].has /\ next_prod' = next_prod
          /\ owner' = [owner EXCEPT ![o].pc = "idle"]
     ELSE /\ next_prod' = [next_prod EXCEPT ![owner[o].has] = producerListTail]
          /\ UNCHANGED <<producerListTail, owner>>
  /\ UNCHANGED <<producerCount, inactive, explicitProducer, size, items, rotation, token, call>>

recycle_or_create_producer(o) == Recycle(o) \/ CreateProducer(o) \/ CreateFails(o)
add_producer(o) == LoadTail(o) \/ PushProducer(o)

Owns(o, p) == owner[o].pc = "idle" /\ owner[o].has = p

\* The destructor of a ProducerToken: what is left in the producer stays.
DestroyToken(o) ==
  /\ owner[o].has # Null /\ Owns(o, owner[o].has) /\ owner[o].explicit
  /\ inactive' = [inactive EXCEPT ![owner[o].has] = TRUE]
  /\ owner' = [owner EXCEPT ![o] = NoProducer]
  /\ UNCHANGED <<producerListTail, producerCount, next_prod, explicitProducer, size, items, rotation,
                 token, call>>

Enqueue(o) ==
  /\ owner[o].has # Null /\ Owns(o, owner[o].has) /\ items < MaxItems
  /\ size' = [size EXCEPT ![owner[o].has] = @ + 1]
  /\ items' = items + 1
  /\ UNCHANGED <<producers, owner, rotation, token, call>>

-----------------------------------------------------------------------------
(* Dequeueing: the calls, and the queue of one producer.                   *)

Busy(c) == call[c].pc # "idle"
Total == MapThenSumSet(LAMBDA p : size[p], Producers)

\* call' of every consumer when c begins a call, which is alone until another
\* one begins.
BeginCall(c, max, l) ==
  call' = [d \in Consumers |->
             IF d = c THEN [l EXCEPT !.max = max, !.left = max, !.start = Total,
                                     !.alone = \A e \in Consumers \ {c} : ~ Busy(e)]
             ELSE [call[d] EXCEPT !.alone = FALSE]]

\* How many elements dequeue or dequeue_bulk may get from producer p.
Available(c, p) ==
  LET most == Min({size[p], call[c].left})
  IN  IF \E d \in Consumers \ {c} : Busy(d) THEN 0 .. most ELSE {most}

\* n elements are taken from p, and the call goes on as l.
Dequeue(c, p, n, l) ==
  /\ size' = [size EXCEPT ![p] = @ - n]
  /\ call' = [call EXCEPT ![c] = [l EXCEPT !.count = @ + n, !.left = @ - n]]

-----------------------------------------------------------------------------
(* try_dequeue, try_dequeue_non_interleaved and try_dequeue_bulk.          *)

\* The plain try_dequeue first looks for the fullest of the first three
\* producers that are not empty.
StartBest(c) ==
  /\ ~ Busy(c) /\ c \notin TokenUsers
  /\ BeginCall(c, 1, [OutsideCall EXCEPT !.pc = "score", !.ptr = producerListTail])
  /\ UNCHANGED <<producers, size, items, owner, rotation, token>>

Score(c) ==
  /\ call[c].pc = "score"
  /\ LET l == call[c]
     IN  IF l.ptr = Null \/ l.nonEmpty = 3
         THEN call' = [call EXCEPT ![c].pc = IF l.nonEmpty = 0 THEN "return" ELSE "best"]
         ELSE call' = [call EXCEPT ![c] =
                [l EXCEPT !.ptr = next_prod[l.ptr],
                          !.nonEmpty = IF size[l.ptr] > 0 THEN @ + 1 ELSE @,
                          !.best = IF size[l.ptr] > l.bestSize THEN l.ptr ELSE @,
                          !.bestSize = IF size[l.ptr] > @ THEN size[l.ptr] ELSE @]]
  /\ UNCHANGED <<producers, size, items, owner, rotation, token>>

\* If it is empty by now, all others are tried.
DequeueBest(c) ==
  /\ call[c].pc = "best"
  /\ \E n \in Available(c, call[c].best) :
       Dequeue(c, call[c].best, n,
               [call[c] EXCEPT !.pc = IF n > 0 THEN "return" ELSE "list", !.ptr = producerListTail])
  /\ UNCHANGED <<producers, items, owner, rotation, token>>

\* try_dequeue_bulk; with max = 1 it is try_dequeue_non_interleaved.
StartList(c, max) ==
  /\ ~ Busy(c) /\ c \notin TokenUsers
  /\ BeginCall(c, max, [OutsideCall EXCEPT !.pc = "list", !.ptr = producerListTail])
  /\ UNCHANGED <<producers, size, items, owner, rotation, token>>

\* One producer after the other, until there is enough.
DequeueList(c) ==
  /\ call[c].pc = "list"
  /\ LET l == call[c]
     IN  IF l.ptr = Null THEN call' = [call EXCEPT ![c].pc = "return"] /\ size' = size
         ELSE IF l.ptr = l.best
              THEN call' = [call EXCEPT ![c].ptr = next_prod[l.ptr]] /\ size' = size
         ELSE \E n \in Available(c, l.ptr) :
                Dequeue(c, l.ptr, n, [l EXCEPT !.pc = IF n = l.left THEN "return" ELSE "list",
                                               !.ptr = next_prod[l.ptr]])
  /\ UNCHANGED <<producers, items, owner, rotation, token>>

try_dequeue(c) == Score(c) \/ DequeueBest(c)

-----------------------------------------------------------------------------
(* The same with a ConsumerToken.                                          *)

MakeConsumerToken(c) ==
  /\ c \in TokenUsers /\ token[c].initialOffset = Null
  /\ token' = [token EXCEPT ![c].initialOffset = nextExplicitConsumerId]
  /\ nextExplicitConsumerId' = nextExplicitConsumerId + 1
  /\ UNCHANGED <<producers, size, items, owner, globalExplicitConsumerOffset, call>>

StartToken(c, max) ==
  /\ ~ Busy(c) /\ token[c].initialOffset # Null
  /\ LET rotated == token[c].desired = Null \/ token[c].last # globalExplicitConsumerOffset
     IN  BeginCall(c, max, [OutsideCall EXCEPT !.pc = IF rotated THEN "rotate" ELSE "current"])
  /\ UNCHANGED <<producers, size, items, owner, rotation, token>>

\* update_current_producer_after_rotation: the tail is loaded first ...
RotateLoadTail(c) ==
  /\ call[c].pc = "rotate"
  /\ call' = [call EXCEPT ![c].tail = producerListTail,
                          ![c].pc = IF token[c].desired = Null /\ producerListTail = Null
                                    THEN "return" ELSE "place"]
  /\ UNCHANGED <<producers, size, items, owner, rotation, token>>

\* ... then the number of producers, which may count some that are not on
\* the list yet, and the offset.
Place(c) ==
  /\ call[c].pc = "place"
  /\ LET tail == call[c].tail
         offset == producerCount - 1 - (token[c].initialOffset % producerCount)
         from == IF token[c].desired = Null THEN Steps(tail, tail, offset) ELSE token[c].desired
         delta == (globalExplicitConsumerOffset - token[c].last) % producerCount
         to == Steps(from, tail, delta)
     IN  token' = [token EXCEPT ![c].desired = to, ![c].current = to, ![c].consumed = 0,
                                ![c].last = globalExplicitConsumerOffset]
  /\ call' = [call EXCEPT ![c].pc = "current"]
  /\ UNCHANGED <<producers, size, items, owner, rotation>>

update_current_producer_after_rotation(c) == RotateLoadTail(c) \/ Place(c)

\* try_dequeue compares with ==, try_dequeue_bulk with >=.
QuotaReached(max, consumed) == IF max = 1 THEN consumed = Quota ELSE consumed >= Quota

\* From the current producer; when that was enough the count may make all
\* consumers rotate.
DequeueCurrent(c) ==
  /\ call[c].pc = "current"
  /\ \E n \in Available(c, token[c].current) :
       LET l == call[c]
           consumed == token[c].consumed + n
       IN  /\ Dequeue(c, token[c].current, n,
                [l EXCEPT !.pc = IF n < l.left THEN "around"
                                 ELSE IF QuotaReached(l.max, consumed) THEN "turn" ELSE "return"])
           /\ token' = [token EXCEPT ![c].consumed = consumed]
  /\ UNCHANGED <<producers, items, owner, rotation>>

Turn(c) ==
  /\ call[c].pc = "turn"
  /\ globalExplicitConsumerOffset' = globalExplicitConsumerOffset + 1
  /\ call' = [call EXCEPT ![c].pc = "return"]
  /\ UNCHANGED <<producers, size, items, owner, nextExplicitConsumerId, token>>

\* Mutant of LoadTailAround: the last producer of the list ends the search.
LoadTailToEnd(c) ==
  /\ call[c].pc = "around"
  /\ call' = [call EXCEPT ![c].tail = producerListTail, ![c].ptr = next_prod[token[c].current],
                          ![c].pc = IF next_prod[token[c].current] = Null THEN "return"
                                    ELSE "others"]
  /\ UNCHANGED <<producers, size, items, owner, rotation, token>>

LoadTailAround(c) ==
  /\ call[c].pc = "around"
  /\ call' = [call EXCEPT ![c].tail = producerListTail, ![c].pc = "others",
                          ![c].ptr = Around(token[c].current, producerListTail)]
  /\ UNCHANGED <<producers, size, items, owner, rotation, token>>

\* All around the list, back to the producer that is current by then.
DequeueOthers(c) ==
  /\ call[c].pc = "others"
  /\ LET l == call[c]
     IN  IF l.ptr = token[c].current
         THEN call' = [call EXCEPT ![c].pc = "return"] /\ UNCHANGED <<size, token>>
         ELSE \E n \in Available(c, l.ptr) :
                /\ Dequeue(c, l.ptr, n, [l EXCEPT !.pc = IF n = l.left THEN "return" ELSE "others",
                                                  !.ptr = Around(l.ptr, l.tail)])
                /\ token' = IF n > 0 THEN [token EXCEPT ![c].current = l.ptr, ![c].consumed = n]
                            ELSE token
  /\ UNCHANGED <<producers, items, owner, rotation>>

token_dequeue(c) == DequeueCurrent(c) \/ Turn(c) \/ LoadTailAround(c) \/ DequeueOthers(c)

Return(c) ==
  /\ call[c].pc = "return"
  /\ call' = [call EXCEPT ![c] = OutsideCall]
  /\ UNCHANGED <<producers, size, items, owner, rotation, token>>

-----------------------------------------------------------------------------
OwnerStep(o) == recycle_or_create_producer(o) \/ add_producer(o)

ConsumerStep(c) ==
  \/ try_dequeue(c) \/ DequeueList(c)
  \/ update_current_producer_after_rotation(c) \/ token_dequeue(c) \/ Return(c)

ListNext ==
  \/ \E o \in Owners :
       \/ \E explicit \in BOOLEAN : StartProducer(o, explicit)
       \/ OwnerStep(o) \/ DestroyToken(o) \/ Enqueue(o)
  \/ \E c \in Consumers :
       \/ MakeConsumerToken(c) \/ StartBest(c)
       \/ \E max \in 1 .. MaxBulk : StartList(c, max) \/ StartToken(c, max)
       \/ ConsumerStep(c)

ListSpec == ListInit /\ [][ListNext]_listVars

-----------------------------------------------------------------------------
(* Correctness.                                                            *)

\* No producer has two owners, and an inactive one has none: its queue has
\* a single enqueuing thread.
OneOwner ==
  \A o \in Owners : owner[o].has # Null =>
    /\ ~ inactive[owner[o].has]
    /\ \A u \in Owners \ {o} : owner[u].has # owner[o].has

\* `We need to make sure every queue's been tried': a call with no other
\* dequeuing beside it gets what was there when it began, or as much as it
\* wanted, wherever in the list that is and whoever has been added since.
TriesEveryQueue ==
  \A c \in Consumers :
    call[c].pc = "return" /\ call[c].alone => call[c].count >= Min({call[c].max, call[c].start})
=============================================================================
