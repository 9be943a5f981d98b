----------------------------- MODULE WorkQueue -----------------------------
(***************************************************************************)
(* What the blocking queue promises the threads that use it, whatever its  *)
(* implementation: every item is handed to exactly one consumer, items of  *)
(* one producer leave in the order they entered, and a consumer is sent    *)
(* away without an item only when every item that is present is spoken for *)
(* by another waiting consumer or belongs to an enqueue that has not yet   *)
(* returned.  BlockingConcurrentQueue implements it.                       *)
(***************************************************************************)
EXTENDS Integers, FiniteSets

CONSTANTS Producers, Consumers

VARIABLES
  pending,    \* the items present, as <<producer, sequence number>>
  sent,       \* how many items each producer has put in
  enqueuing,  \* producers whose item is in, but not yet announced
  waiting     \* consumers inside a dequeue call

vars == <<pending, sent, enqueuing, waiting>>

TypeOK ==
  /\ pending \subseteq (Producers \X Nat)
  /\ sent \in [Producers -> Nat]
  /\ enqueuing \subseteq Producers
  /\ waiting \subseteq Consumers

\* The oldest item of each producer: the only ones that may leave next.
Oldest(items) == {i \in items : \A j \in items : j[1] = i[1] => i[2] <= j[2]}

Init ==
  /\ pending = {}
  /\ sent = [p \in Producers |-> 0]
  /\ enqueuing = {}
  /\ waiting = {}

Insert(p) ==
  /\ p \notin enqueuing
  /\ pending' = pending \cup {<<p, sent[p]>>}
  /\ sent' = [sent EXCEPT ![p] = @ + 1]
  /\ enqueuing' = enqueuing \cup {p}
  /\ UNCHANGED waiting

Announce(p) ==
  /\ p \in enqueuing
  /\ enqueuing' = enqueuing \ {p}
  /\ UNCHANGED <<pending, sent, waiting>>

Ask(c) ==
  /\ c \notin waiting
  /\ waiting' = waiting \cup {c}
  /\ UNCHANGED <<pending, sent, enqueuing>>

Deliver(c) ==
  /\ c \in waiting
  /\ \E i \in Oldest(pending) : pending' = pending \ {i}
  /\ waiting' = waiting \ {c}
  /\ UNCHANGED <<sent, enqueuing>>

GiveUp(c) ==
  /\ c \in waiting
  /\ Cardinality(pending) <= Cardinality(enqueuing) + Cardinality(waiting \ {c})
  /\ waiting' = waiting \ {c}
  /\ UNCHANGED <<pending, sent, enqueuing>>

Next ==
  \/ \E p \in Producers : Insert(p) \/ Announce(p)
  \/ \E c \in Consumers : Ask(c) \/ Deliver(c) \/ GiveUp(c)

Spec == Init /\ [][Next]_vars
=============================================================================
