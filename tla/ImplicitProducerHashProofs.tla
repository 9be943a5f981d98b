-------------------- MODULE ImplicitProducerHashProofs ---------------------
(***************************************************************************)
(* Proofs about ImplicitProducerHash, for any number of threads whose ids  *)
(* hash in any way.                                                        *)
(***************************************************************************)
EXTENDS ImplicitProducerHash, FiniteSetTheorems, TLAPS

-----------------------------------------------------------------------------
(* Linear probing in one table.                                            *)

Slots(T) == 0 .. T.capacity - 1

\* The slot d places after s.
Pos(T, s, d) == IF s + d < T.capacity THEN s + d ELSE s + d - T.capacity

\* The probe that starts at s passes no key of Bad before it gets to i.
Prefix(T, s, i, Bad) ==
  \E d \in Slots(T) : i = Pos(T, s, d) /\ \A e \in 0 .. d - 1 : T.key[Pos(T, s, e)] \notin Bad

\* Likewise, or it has gone through the whole table.
Passed(T, s, i, Bad) == Prefix(T, s, i, Bad) \/ \A j \in Slots(T) : T.key[j] \notin Bad

LEMMA TableType ==
  ASSUME NEW T \in Table
  PROVE  /\ T.capacity \in Nat \ {0}
         /\ T.key \in [Slots(T) -> Threads \cup {Null}]
         /\ T.value \in [Slots(T) -> Producers]
  BY DEF Table, TableOf, Slots

LEMMA TableIntro ==
  ASSUME NEW c \in Nat \ {0}, NEW k \in [0 .. c - 1 -> Threads \cup {Null}],
         NEW v \in [0 .. c - 1 -> Producers]
  PROVE  [capacity |-> c, key |-> k, value |-> v] \in Table
  BY DEF Table, TableOf

LEMMA PosType ==
  ASSUME NEW T \in Table, NEW s \in Slots(T), NEW d \in Slots(T)
  PROVE  Pos(T, s, d) \in Slots(T)
  BY TableType DEF Pos, Slots

\* A probe begins having passed nothing.
LEMMA PassedStart ==
  ASSUME NEW T \in Table, NEW s \in Slots(T), NEW Bad
  PROVE  Passed(T, s, s, Bad)
<1>1. 0 \in Slots(T) /\ s = Pos(T, s, 0) /\ 0 .. 0 - 1 = {}
  BY TableType DEF Pos, Slots
<1>2. Prefix(T, s, s, Bad)
  BY <1>1 DEF Prefix
<1> QED
  BY <1>2 DEF Passed

LEMMA Wrap ==
  ASSUME NEW c \in Nat \ {0}, NEW x \in 0 .. c - 1
  PROVE  (x + 1) % c = IF x + 1 = c THEN 0 ELSE x + 1
  OBVIOUS

LEMMA PassedNext ==
  ASSUME NEW T \in Table, NEW s \in Slots(T), NEW i \in Slots(T), NEW Bad,
         Passed(T, s, i, Bad), T.key[i] \notin Bad
  PROVE  Passed(T, s, (i + 1) % T.capacity, Bad) /\ (i + 1) % T.capacity \in Slots(T)
<1> DEFINE c == T.capacity
           n == (i + 1) % c
<1>1. c \in Nat \ {0} /\ n = IF i + 1 = c THEN 0 ELSE i + 1
  BY TableType, Wrap DEF Slots
<1>2. n \in Slots(T)
  BY <1>1 DEF Slots
<1>3. CASE Prefix(T, s, i, Bad)
  <2>1. PICK d \in Slots(T) : i = Pos(T, s, d) /\ \A e \in 0 .. d - 1 : T.key[Pos(T, s, e)] \notin Bad
    BY <1>3 DEF Prefix
  <2>2. \A e \in 0 .. d : T.key[Pos(T, s, e)] \notin Bad
    BY <2>1 DEF Slots
  <2>3. CASE d + 1 < c
    <3>1. d + 1 \in Slots(T) /\ n = Pos(T, s, d + 1)
      BY <1>1, <2>1, <2>3 DEF Pos, Slots
    <3>2. \A e \in 0 .. (d + 1) - 1 : T.key[Pos(T, s, e)] \notin Bad
      BY <1>1, <2>2 DEF Slots
    <3> QED
      BY <1>2, <3>1, <3>2 DEF Passed, Prefix
  <2>4. CASE d + 1 = c
    <3>1. ASSUME NEW j \in Slots(T) PROVE T.key[j] \notin Bad
      <4> DEFINE e == IF j >= s THEN j - s ELSE j - s + c
      <4>1. e \in 0 .. d /\ j = Pos(T, s, e)
        BY <1>1, <2>4 DEF Pos, Slots
      <4> QED
        BY <2>2, <4>1
    <3> QED
      BY <1>2, <3>1 DEF Passed
  <2> QED
    BY <1>1, <2>3, <2>4 DEF Slots
<1>4. CASE \A j \in Slots(T) : T.key[j] \notin Bad
  BY <1>2, <1>4 DEF Passed
<1> QED
  BY <1>3, <1>4 DEF Passed

\* What was passed stays passed while no slot gets a key of Bad.
LEMMA PassedKept ==
  ASSUME NEW T \in Table, NEW T2 \in Table, NEW s \in Slots(T), NEW i \in Slots(T), NEW Bad,
         T2.capacity = T.capacity, \A j \in Slots(T) : T.key[j] \notin Bad => T2.key[j] \notin Bad
  PROVE  /\ Prefix(T, s, i, Bad) => Prefix(T2, s, i, Bad)
         /\ Passed(T, s, i, Bad) => Passed(T2, s, i, Bad)
<1>1. \A d \in Slots(T) : Pos(T2, s, d) = Pos(T, s, d)
  BY DEF Pos
<1>2. Slots(T2) = Slots(T) /\ \A d \in Slots(T) : \A e \in 0 .. d - 1 : e \in Slots(T)
  BY TableType DEF Slots
<1>3. \A d \in Slots(T) : Pos(T, s, d) \in Slots(T)
  BY PosType
<1>4. Prefix(T, s, i, Bad) => Prefix(T2, s, i, Bad)
  BY <1>1, <1>2, <1>3 DEF Prefix
<1> QED
  BY <1>2, <1>4 DEF Passed

\* A search that ends at an empty slot has not missed the key.
LEMMA NotMissed ==
  ASSUME NEW T \in Table, NEW s \in Slots(T), NEW i \in Slots(T), NEW j \in Slots(T),
         NEW t, t # Null, Passed(T, s, i, {Null, t}), T.key[i] = Null, Prefix(T, s, j, {Null})
  PROVE  T.key[j] # t
<1> SUFFICES ASSUME T.key[j] = t PROVE FALSE
  OBVIOUS
<1>1. PICK d \in Slots(T) : /\ i = Pos(T, s, d)
                            /\ \A e \in 0 .. d - 1 : T.key[Pos(T, s, e)] \notin {Null, t}
  BY DEF Passed, Prefix
<1>2. PICK f \in Slots(T) : j = Pos(T, s, f) /\ \A e \in 0 .. f - 1 : T.key[Pos(T, s, e)] # Null
  BY DEF Prefix
<1>3. d \in Int /\ f \in Int /\ d >= 0 /\ f >= 0
  BY TableType DEF Slots
<1>4. CASE f < d
  BY <1>1, <1>2, <1>3, <1>4
<1>5. CASE f = d
  BY <1>1, <1>2, <1>5
<1>6. CASE d < f
  BY <1>1, <1>2, <1>3, <1>6
<1> QED
  BY <1>3, <1>4, <1>5, <1>6

-----------------------------------------------------------------------------
(* The inductive invariant.                                                *)

Has(t, h) == \E i \in Slots(hashes[h]) : hashes[h].key[i] = t

MineOf(t) == mine[t] \in {NoProducer} \cup ({t} \X Nat)

\* Wherever t is entered, it is with the producer it was given, and a probe
\* gets there.
EntriesOf(t) ==
  \A h \in DOMAIN hashes : \A i \in Slots(hashes[h]) :
    hashes[h].key[i] = t =>
      /\ mine[t] # NoProducer /\ hashes[h].value[i] = mine[t]
      /\ Prefix(hashes[h], Slot(t, h), i, {Null})

\* A thread that was given a producer is in a table it has yet to search.
KnownAt(t, p, l) ==
  mine[t] # NoProducer =>
    \E h \in 1 .. (IF p = "probe" THEN l.hash ELSE Len(hashes)) : Has(t, h)

ProbingAt(t, p, l) ==
  p = "probe" =>
    /\ l.main \in DOMAIN hashes /\ l.hash \in 1 .. l.main
    /\ l.index \in Slots(hashes[l.hash])
    /\ Passed(hashes[l.hash], Slot(t, l.hash), l.index, {Null, t})

AddingAt(t, p, l) ==
  p \in {"count", "lock", "resize", "unlock", "room"} =>
    mine[t] = NoProducer /\ l.main \in DOMAIN hashes

InsertingAt(t, p, l) ==
  p = "insert" =>
    /\ l.main \in DOMAIN hashes
    /\ l.index \in Slots(hashes[l.main])
    /\ Passed(hashes[l.main], Slot(t, l.main), l.index, {Null})
    /\ l.value \in {t} \X Nat
    /\ mine[t] \in {NoProducer, l.value}

StandsAt(t, p, l) ==
  KnownAt(t, p, l) /\ ProbingAt(t, p, l) /\ AddingAt(t, p, l) /\ InsertingAt(t, p, l)

ThreadInv(t) == MineOf(t) /\ EntriesOf(t) /\ StandsAt(t, pc[t], loc[t])

Inv == TypeOK /\ \A t \in Threads : ThreadInv(t)

-----------------------------------------------------------------------------
(* Tables only grow.                                                       *)

\* No step changes a table but by entering k in empty slots, or the sequence
\* but by adding an empty table.
Grows(k) ==
  /\ Len(hashes) <= Len(hashes')
  /\ \A h \in DOMAIN hashes :
       /\ hashes'[h].capacity = hashes[h].capacity
       /\ \A i \in Slots(hashes[h]) :
            \/ hashes'[h].key[i] = hashes[h].key[i] /\ hashes'[h].value[i] = hashes[h].value[i]
            \/ hashes[h].key[i] = Null /\ hashes'[h].key[i] = k
  /\ \A h \in DOMAIN hashes' \ DOMAIN hashes :
       \A i \in Slots(hashes'[h]) : hashes'[h].key[i] = Null

LEMMA SlotType ==
  ASSUME TypeOK, NEW t \in Threads, NEW h \in DOMAIN hashes
  PROVE  hashes[h] \in Table /\ Slot(t, h) \in Slots(hashes[h])
<1>1. hashes[h] \in Table
  BY DEF TypeOK
<1>2. hashes[h].capacity \in Nat \ {0} /\ hash_thread_id[t] \in Nat
  BY <1>1, TableType, ImplicitProducerHashAssumption
<1> QED
  BY <1>1, <1>2 DEF Slot, Slots

LEMMA SlotKept ==
  ASSUME TypeOK, TypeOK', NEW k, Grows(k), NEW t \in Threads, NEW h \in DOMAIN hashes
  PROVE  /\ h \in DOMAIN hashes' /\ hashes[h] \in Table /\ hashes'[h] \in Table
         /\ Slot(t, h)' = Slot(t, h) /\ Slots(hashes'[h]) = Slots(hashes[h])
         /\ Slot(t, h) \in Slots(hashes[h])
<1>1. h \in DOMAIN hashes' /\ hashes'[h].capacity = hashes[h].capacity
  BY DEF TypeOK, Grows
<1> QED
  BY <1>1, SlotType DEF TypeOK, Slot, Slots

LEMMA PassedStays ==
  ASSUME TypeOK, TypeOK', NEW k, Grows(k), NEW t \in Threads, t # k, NEW h \in DOMAIN hashes,
         NEW i \in Slots(hashes[h])
  PROVE  /\ Prefix(hashes[h], Slot(t, h), i, {Null}) => Prefix(hashes[h], Slot(t, h), i, {Null})'
         /\ Passed(hashes[h], Slot(t, h), i, {Null}) => Passed(hashes[h], Slot(t, h), i, {Null})'
         /\ Passed(hashes[h], Slot(t, h), i, {Null, t})
              => Passed(hashes[h], Slot(t, h), i, {Null, t})'
<1>1. \A j \in Slots(hashes[h]) :
        /\ hashes[h].key[j] \notin {Null} => hashes'[h].key[j] \notin {Null}
        /\ hashes[h].key[j] \notin {Null, t} => hashes'[h].key[j] \notin {Null, t}
  BY DEF Grows
<1>2. hashes'[h].capacity = hashes[h].capacity
  BY DEF Grows
<1> QED
  BY <1>1, <1>2, SlotKept, PassedKept

LEMMA HasKept ==
  ASSUME TypeOK, TypeOK', NEW k, Grows(k), NEW t \in Threads, NEW h \in DOMAIN hashes, Has(t, h)
  PROVE  Has(t, h)'
<1>1. PICK i \in Slots(hashes[h]) : hashes[h].key[i] = t
  BY DEF Has
<1>2. hashes'[h].key[i] = t
  BY <1>1, ImplicitProducerHashAssumption DEF Grows
<1> QED
  BY <1>2, SlotKept DEF Has

LEMMA EntriesKept ==
  ASSUME TypeOK, TypeOK', NEW k, Grows(k), NEW t \in Threads, t # k, EntriesOf(t),
         mine'[t] = mine[t]
  PROVE  EntriesOf(t)'
<1> SUFFICES ASSUME NEW h \in DOMAIN hashes', NEW i \in Slots(hashes'[h]), hashes'[h].key[i] = t
             PROVE  /\ mine'[t] # NoProducer /\ hashes'[h].value[i] = mine'[t]
                    /\ Prefix(hashes[h], Slot(t, h), i, {Null})'
  BY DEF EntriesOf
<1>1. h \in DOMAIN hashes
  BY ImplicitProducerHashAssumption DEF Grows
<1>2. i \in Slots(hashes[h]) /\ hashes[h].key[i] = t /\ hashes'[h].value[i] = hashes[h].value[i]
  BY <1>1, SlotKept DEF Grows
<1> QED
  BY <1>1, <1>2, PassedStays DEF EntriesOf

LEMMA StandsKept ==
  ASSUME TypeOK, TypeOK', NEW k, Grows(k), NEW t \in Threads, t # k,
         NEW p, NEW l \in Locals, StandsAt(t, p, l), mine'[t] = mine[t]
  PROVE  StandsAt(t, p, l)'
<1>0. /\ DOMAIN hashes = 1 .. Len(hashes) /\ DOMAIN hashes' = 1 .. Len(hashes')
      /\ Len(hashes) \in Nat /\ Len(hashes') \in Nat /\ Len(hashes) <= Len(hashes')
      /\ l.main \in Nat /\ l.hash \in Nat
  <2>1. hashes \in Seq(Table) /\ hashes' \in Seq(Table) /\ Len(hashes) <= Len(hashes')
    BY DEF TypeOK, Grows
  <2>2. l.main \in Nat /\ l.hash \in Nat
    BY DEF Locals
  <2> QED
    BY <2>1, <2>2
<1>1. ProbingAt(t, p, l)'
  <2> SUFFICES ASSUME p = "probe"
               PROVE  /\ l.main \in DOMAIN hashes' /\ l.hash \in 1 .. l.main
                      /\ l.index \in Slots(hashes'[l.hash])
                      /\ Passed(hashes[l.hash], Slot(t, l.hash), l.index, {Null, t})'
    BY DEF ProbingAt
  <2>1. /\ l.main \in DOMAIN hashes /\ l.hash \in 1 .. l.main /\ l.hash \in DOMAIN hashes
        /\ l.index \in Slots(hashes[l.hash])
        /\ Passed(hashes[l.hash], Slot(t, l.hash), l.index, {Null, t})
    BY <1>0 DEF StandsAt, ProbingAt
  <2> QED
    BY <2>1, SlotKept, PassedStays
<1>2. KnownAt(t, p, l)'
  <2> SUFFICES ASSUME mine[t] # NoProducer
               PROVE  \E h \in 1 .. (IF p = "probe" THEN l.hash ELSE Len(hashes')) : Has(t, h)'
    BY DEF KnownAt
  <2>1. PICK h \in 1 .. (IF p = "probe" THEN l.hash ELSE Len(hashes)) : Has(t, h)
    BY DEF StandsAt, KnownAt
  <2>2. h \in DOMAIN hashes /\ h \in 1 .. (IF p = "probe" THEN l.hash ELSE Len(hashes'))
    BY <1>0 DEF StandsAt, ProbingAt
  <2> QED
    BY <2>1, <2>2, HasKept
<1>3. AddingAt(t, p, l)'
  BY <1>0 DEF StandsAt, AddingAt
<1>4. InsertingAt(t, p, l)'
  <2> SUFFICES ASSUME p = "insert"
               PROVE  /\ l.main \in DOMAIN hashes'
                      /\ l.index \in Slots(hashes'[l.main])
                      /\ Passed(hashes[l.main], Slot(t, l.main), l.index, {Null})'
    BY DEF StandsAt, InsertingAt
  <2>1. /\ l.main \in DOMAIN hashes
        /\ l.index \in Slots(hashes[l.main])
        /\ Passed(hashes[l.main], Slot(t, l.main), l.index, {Null})
    BY DEF StandsAt, InsertingAt
  <2> QED
    BY <2>1, SlotKept, PassedStays
<1> QED
  BY <1>1, <1>2, <1>3, <1>4 DEF StandsAt

\* A step of t keeps the invariant of the others.
LEMMA Together ==
  ASSUME Inv, NEW t \in Threads, NEW k \in {t, Null}, TypeOK', Grows(k),
         \A u \in Threads \ {t} : pc'[u] = pc[u] /\ loc'[u] = loc[u] /\ mine'[u] = mine[u],
         ThreadInv(t)'
  PROVE  Inv'
<1>1. ASSUME NEW u \in Threads \ {t} PROVE ThreadInv(u)'
  <2>1. u # k /\ TypeOK /\ ThreadInv(u) /\ mine'[u] = mine[u] /\ loc[u] \in Locals
    BY ImplicitProducerHashAssumption DEF Inv, TypeOK
  <2>2. EntriesOf(u)'
    BY <2>1, EntriesKept DEF ThreadInv
  <2>3. StandsAt(u, pc[u], loc[u])'
    <3> DEFINE p == pc[u]
               l == loc[u]
    <3>1. /\ StandsAt(u, p, l) /\ pc'[u] = p /\ loc'[u] = l
      BY <2>1 DEF ThreadInv
    <3> HIDE DEF p, l
    <3> QED
      BY <3>1, <2>1, StandsKept
  <2> QED
    BY <2>1, <2>2, <2>3 DEF ThreadInv, MineOf
<1> QED
  BY <1>1 DEF Inv

-----------------------------------------------------------------------------
(* The steps.                                                              *)

LEMMA LocalsType ==
  ASSUME NEW l \in Locals
  PROVE  /\ l.main \in Nat /\ l.hash \in Nat /\ l.index \in Nat /\ l.newCount \in Int
         /\ l.value \in Producers
  BY DEF Locals

LEMMA NoLocalsType == NoLocals \in Locals
  BY DEF NoLocals, Locals, Producers

LEMMA Domain ==
  ASSUME TypeOK
  PROVE  /\ Len(hashes) \in Nat \ {0} /\ DOMAIN hashes = 1 .. Len(hashes)
         /\ Len(hashes) \in DOMAIN hashes
<1>1. hashes \in Seq(Table) /\ hashes # << >>
  BY DEF TypeOK
<1> QED
  BY <1>1

LEMMA GoType ==
  ASSUME TypeOK, NEW t \in Threads, NEW to \in Positions, NEW l \in Locals, Go(t, to, l)
  PROVE  /\ pc' \in [Threads -> Positions] /\ loc' \in [Threads -> Locals]
         /\ pc'[t] = to /\ loc'[t] = l
         /\ \A u \in Threads \ {t} : pc'[u] = pc[u] /\ loc'[u] = loc[u]
  BY DEF TypeOK, Go

\* A step of t to another place in its call that leaves the tables alone.
LEMMA Moved ==
  ASSUME Inv, NEW t \in Threads, NEW to \in Positions, NEW l \in Locals, Go(t, to, l),
         UNCHANGED <<hashes, mine>>, created' \in [Threads -> Nat], failures' \in Nat,
         implicitProducerHashCount' \in Int, implicitProducerHashResizeInProgress' \in BOOLEAN,
         StandsAt(t, to, l)
  PROVE  Inv'
<1>1. TypeOK /\ ThreadInv(t)
  BY DEF Inv
<1>2. TypeOK'
  BY <1>1, GoType DEF TypeOK
<1>3. Grows(Null)
  BY <1>1, Domain DEF Grows
<1>4. t # Null
  BY ImplicitProducerHashAssumption
<1>5. EntriesOf(t)'
  BY <1>1, <1>2, <1>3, <1>4, EntriesKept DEF ThreadInv
<1>6. StandsAt(t, to, l)'
  BY <1>1, <1>2, <1>3, <1>4, StandsKept
<1>7. StandsAt(t, pc[t], loc[t])'
  <2>1. pc'[t] = to /\ loc'[t] = l
    BY <1>1, GoType
  <2> QED
    BY <1>6, <2>1
<1>8. ThreadInv(t)'
  BY <1>1, <1>5, <1>7 DEF ThreadInv, MineOf
<1> QED
  BY <1>1, <1>2, <1>3, <1>8, GoType, Together

\* The place where t is idle, or gives up, needs nothing.
LEMMA StandsIdle ==
  ASSUME Inv, NEW t \in Threads, NEW l, pc[t] # "probe" \/ \E h \in DOMAIN hashes : Has(t, h)
  PROVE  StandsAt(t, "idle", l) /\ StandsAt(t, "give up", l)
<1>1. TypeOK /\ ThreadInv(t)
  BY DEF Inv
<1>2. mine[t] # NoProducer => \E h \in 1 .. Len(hashes) : Has(t, h)
  BY <1>1, Domain DEF ThreadInv, StandsAt, KnownAt
<1> QED
  BY <1>2 DEF StandsAt, KnownAt, ProbingAt, AddingAt, InsertingAt

\* While it is adding itself t has no producer.
LEMMA StandsAdding ==
  ASSUME NEW t \in Threads, NEW l, NEW p \in {"count", "lock", "resize", "unlock", "room"},
         mine[t] = NoProducer, l.main \in DOMAIN hashes
  PROVE  StandsAt(t, p, l)
  BY DEF StandsAt, KnownAt, ProbingAt, AddingAt, InsertingAt

LEMMA InitInv == Init => Inv
<1> SUFFICES ASSUME Init PROVE Inv
  OBVIOUS
<1>1. PICK size \in InitialSizes : hashes = <<EmptyHash(size)>>
  BY DEF Init
<1>2. size \in Nat \ {0}
  BY ImplicitProducerHashAssumption
<1>3. EmptyHash(size) \in Table
  BY <1>2, TableIntro DEF EmptyHash, Producers
<1>4. hashes \in Seq(Table) /\ hashes # << >> /\ DOMAIN hashes = {1} /\ hashes[1] = EmptyHash(size)
  BY <1>1, <1>3
<1>5. TypeOK
  <2>1. /\ created \in [Threads -> Nat] /\ failures \in Nat
        /\ pc \in [Threads -> Positions] /\ mine \in [Threads -> Producers]
        /\ implicitProducerHashCount \in Int
    BY DEF Init, Positions, Producers
  <2>2. loc \in [Threads -> Locals] /\ implicitProducerHashResizeInProgress \in BOOLEAN
    BY NoLocalsType DEF Init
  <2> QED
    BY <1>4, <2>1, <2>2 DEF TypeOK
<1>6. ASSUME NEW t \in Threads PROVE ThreadInv(t)
  <2>1. mine[t] = NoProducer /\ pc[t] = "idle"
    BY DEF Init
  <2>2. EntriesOf(t)
    <3>1. \A i \in Slots(hashes[1]) : hashes[1].key[i] = Null
      BY <1>4 DEF EmptyHash, Slots
    <3> QED
      BY <1>4, <3>1, ImplicitProducerHashAssumption DEF EntriesOf
  <2> QED
    BY <2>1, <2>2 DEF ThreadInv, MineOf, StandsAt, KnownAt, ProbingAt, AddingAt, InsertingAt
<1> QED
  BY <1>5, <1>6 DEF Inv

LEMMA StartStep ==
  ASSUME Inv, NEW t \in Threads, Start(t)
  PROVE  Inv' /\ UNCHANGED mine
<1> DEFINE n == Len(hashes)
           l == [NoLocals EXCEPT !.main = n, !.hash = n, !.index = Slot(t, n)]
<1>1. TypeOK /\ ThreadInv(t) /\ pc[t] = "idle"
  BY DEF Inv, Start
<1>2. n \in Nat \ {0} /\ n \in DOMAIN hashes /\ hashes[n] \in Table /\ Slot(t, n) \in Slots(hashes[n])
  BY <1>1, Domain, SlotType
<1>3. Slot(t, n) \in Nat
  BY <1>2, TableType DEF Slots
<1>4. l \in Locals /\ l.main = n /\ l.hash = n /\ l.index = Slot(t, n)
  BY <1>2, <1>3, NoLocalsType DEF Locals
<1>5. /\ Go(t, "probe", l)
      /\ UNCHANGED <<hashes, implicitProducerHashCount, implicitProducerHashResizeInProgress,
                     created, failures, mine>>
  BY DEF Start
<1> HIDE DEF l
<1>6. StandsAt(t, "probe", l)
  <2>1. Passed(hashes[n], Slot(t, n), Slot(t, n), {Null, t})
    BY <1>2, PassedStart
  <2>2. KnownAt(t, "probe", l)
    BY <1>1, <1>4 DEF ThreadInv, StandsAt, KnownAt
  <2> QED
    BY <1>2, <1>4, <2>1, <2>2 DEF StandsAt, ProbingAt, AddingAt, InsertingAt
<1> QED
  BY <1>1, <1>4, <1>5, <1>6, Moved DEF TypeOK, Positions

LEMMA ProbeStep ==
  ASSUME Inv, NEW t \in Threads, Probe(t)
  PROVE  Inv' /\ mine' = mine
<1> DEFINE l == loc[t]
           T == hashes[l.hash]
           key == T.key[l.index]
<1>1. TypeOK /\ ThreadInv(t) /\ pc[t] = "probe" /\ l \in Locals /\ t # Null
  BY ImplicitProducerHashAssumption DEF Inv, Probe, TypeOK
<1>2. /\ l.main \in DOMAIN hashes /\ l.hash \in 1 .. l.main /\ l.index \in Slots(T)
      /\ Passed(T, Slot(t, l.hash), l.index, {Null, t})
  BY <1>1 DEF ThreadInv, StandsAt, ProbingAt
<1>3. l.hash \in DOMAIN hashes /\ l.main \in Nat /\ l.hash \in Nat
  BY <1>1, <1>2, Domain, LocalsType
<1>4. /\ T \in Table /\ Slot(t, l.hash) \in Slots(T)
      /\ hashes[l.main] \in Table /\ Slot(t, l.main) \in Slots(hashes[l.main])
      /\ Slot(t, l.main) \in Nat
  BY <1>1, <1>2, <1>3, SlotType, TableType DEF Slots
<1>5. UNCHANGED <<hashes, implicitProducerHashCount, implicitProducerHashResizeInProgress,
                  created, failures>>
  BY DEF Probe
<1>6. /\ created' \in [Threads -> Nat] /\ failures' \in Nat /\ implicitProducerHashCount' \in Int
      /\ implicitProducerHashResizeInProgress' \in BOOLEAN
  BY <1>1, <1>5 DEF TypeOK
<1>7. CASE key = t /\ l.hash = l.main
  <2>1. Give(t, T.value[l.index])
    BY <1>7 DEF Probe
  <2>2. T.value[l.index] = mine[t] /\ Has(t, l.hash)
    BY <1>1, <1>2, <1>3, <1>7 DEF ThreadInv, EntriesOf, Has
  <2>3. mine' = mine /\ Go(t, "idle", NoLocals)
    BY <1>1, <2>1, <2>2 DEF Give, Go, TypeOK
  <2>4. StandsAt(t, "idle", NoLocals)
    BY <1>3, <2>2, StandsIdle
  <2> QED
    BY <1>5, <1>6, <2>3, <2>4, NoLocalsType, Moved DEF Positions
<1>8. CASE key = t /\ l.hash # l.main
  <2> DEFINE v == T.value[l.index]
             m == [l EXCEPT !.value = v, !.index = Slot(t, l.main)]
  <2>1. mine' = mine /\ Go(t, "insert", m)
    BY <1>1, <1>8 DEF Probe
  <2>2. v = mine[t] /\ Has(t, l.hash) /\ mine[t] # NoProducer
    BY <1>1, <1>2, <1>3, <1>8 DEF ThreadInv, EntriesOf, Has
  <2>3. v \in {t} \X Nat /\ v \in Producers
    BY <1>1, <2>2 DEF ThreadInv, MineOf, TypeOK
  <2>4. m \in Locals /\ m.main = l.main /\ m.value = v /\ m.index = Slot(t, l.main)
    BY <1>1, <1>4, <2>3 DEF Locals
  <2> HIDE DEF m
  <2>5. StandsAt(t, "insert", m)
    <3>1. KnownAt(t, "insert", m)
      BY <1>1, <1>3, <2>2, Domain DEF KnownAt
    <3>2. InsertingAt(t, "insert", m)
      BY <1>2, <1>4, <2>2, <2>3, <2>4, PassedStart DEF InsertingAt
    <3> QED
      BY <3>1, <3>2 DEF StandsAt, ProbingAt, AddingAt
  <2> QED
    BY <1>5, <1>6, <2>1, <2>4, <2>5, Moved DEF Positions
<1>9. ASSUME key = Null PROVE \A j \in Slots(T) : T.key[j] # t
  <2>1. \A j \in Slots(T) : T.key[j] = t => Prefix(T, Slot(t, l.hash), j, {Null})
    BY <1>1, <1>3 DEF ThreadInv, EntriesOf
  <2> QED
    BY <1>1, <1>2, <1>4, <1>9, <2>1, NotMissed
<1>10. CASE key = Null /\ l.hash = 1
  <2>1. mine' = mine /\ Go(t, "count", l)
    BY <1>1, <1>10 DEF Probe
  <2>2. mine[t] = NoProducer
    <3>1. ~ Has(t, 1)
      BY <1>9, <1>10 DEF Has
    <3>2. mine[t] # NoProducer => \E h \in 1 .. 1 : Has(t, h)
      BY <1>1, <1>10 DEF ThreadInv, StandsAt, KnownAt
    <3> QED
      BY <3>1, <3>2
  <2>3. StandsAt(t, "count", l)
    BY <1>2, <2>2, StandsAdding
  <2> QED
    BY <1>1, <1>5, <1>6, <2>1, <2>3, Moved DEF Positions
<1>11. CASE key = Null /\ l.hash # 1
  <2> DEFINE g == l.hash - 1
             m == [l EXCEPT !.hash = g, !.index = Slot(t, g)]
  <2>1. l.hash > 1
    BY <1>2, <1>3, <1>11
  <2>2. mine' = mine /\ Go(t, "probe", m)
    <3>1. m = [l EXCEPT !.hash = @ - 1, !.index = Slot(t, l.hash - 1)]
      OBVIOUS
    <3> QED
      BY <1>1, <1>11, <2>1, <3>1 DEF Probe
  <2>3. g \in DOMAIN hashes /\ g \in 1 .. l.main /\ g \in Nat
    BY <1>1, <1>2, <1>3, <2>1, Domain
  <2>4. hashes[g] \in Table /\ Slot(t, g) \in Slots(hashes[g]) /\ Slot(t, g) \in Nat
    BY <1>1, <2>3, SlotType, TableType DEF Slots
  <2>5. m \in Locals /\ m.main = l.main /\ m.hash = g /\ m.index = Slot(t, g)
    BY <1>1, <2>3, <2>4 DEF Locals
  <2>6. mine[t] # NoProducer => \E h \in 1 .. g : Has(t, h)
    <3>1. mine[t] # NoProducer => \E h \in 1 .. l.hash : Has(t, h)
      BY <1>1 DEF ThreadInv, StandsAt, KnownAt
    <3>2. ~ Has(t, l.hash)
      BY <1>9, <1>11 DEF Has
    <3>3. \A h \in 1 .. l.hash : h = l.hash \/ h \in 1 .. g
      BY <1>3
    <3> QED
      BY <3>1, <3>2, <3>3
  <2> HIDE DEF m, g
  <2>7. StandsAt(t, "probe", m)
    <3>1. KnownAt(t, "probe", m)
      BY <2>5, <2>6 DEF KnownAt
    <3>2. ProbingAt(t, "probe", m)
      BY <1>2, <2>3, <2>4, <2>5, PassedStart DEF ProbingAt
    <3> QED
      BY <3>1, <3>2 DEF StandsAt, InsertingAt, AddingAt
  <2> QED
    BY <1>5, <1>6, <2>2, <2>5, <2>7, Moved DEF Positions
<1>12. CASE key # t /\ key # Null
  <2> DEFINE i == After(l.index, l.hash)
             m == [l EXCEPT !.index = i]
  <2>1. mine' = mine /\ Go(t, "probe", m)
    BY <1>12 DEF Probe
  <2>2. i \in Slots(T) /\ Passed(T, Slot(t, l.hash), i, {Null, t})
    BY <1>2, <1>4, <1>12, PassedNext DEF After
  <2>3. i \in Nat
    BY <1>4, <2>2, TableType DEF Slots
  <2>4. m \in Locals /\ m.main = l.main /\ m.hash = l.hash /\ m.index = i
    BY <1>1, <2>3 DEF Locals
  <2> HIDE DEF m, i
  <2>5. StandsAt(t, "probe", m)
    <3>1. KnownAt(t, "probe", m)
      BY <1>1, <2>4 DEF ThreadInv, StandsAt, KnownAt
    <3>2. ProbingAt(t, "probe", m)
      BY <1>2, <2>2, <2>4 DEF ProbingAt
    <3> QED
      BY <3>1, <3>2 DEF StandsAt, InsertingAt, AddingAt
  <2> QED
    BY <1>5, <1>6, <2>1, <2>4, <2>5, Moved DEF Positions
<1> QED
  BY <1>7, <1>8, <1>10, <1>11, <1>12

\* What entering t in a slot makes of the tables.
EntersAt(t, h, i, v) == hashes' = [hashes EXCEPT ![h] = Enter(hashes[h], i, t, v)]

LEMMA Entered ==
  ASSUME TypeOK, NEW t \in Threads, NEW h \in DOMAIN hashes, NEW i \in Slots(hashes[h]),
         NEW v \in Producers, EntersAt(t, h, i, v)
  PROVE  /\ hashes' \in Seq(Table) /\ Len(hashes') = Len(hashes)
         /\ \A g \in DOMAIN hashes \ {h} : hashes'[g] = hashes[g]
         /\ hashes'[h].capacity = hashes[h].capacity
         /\ \A j \in Slots(hashes[h]) \ {i} : /\ hashes'[h].key[j] = hashes[h].key[j]
                                             /\ hashes'[h].value[j] = hashes[h].value[j]
         /\ hashes'[h].key[i] = t /\ hashes'[h].value[i] = v
<1> DEFINE T == hashes[h]
           T2 == Enter(T, i, t, v)
<1>1. T \in Table
  BY DEF TypeOK
<1>2. T.capacity \in Nat \ {0} /\ T.key \in [Slots(T) -> Threads \cup {Null}]
      /\ T.value \in [Slots(T) -> Producers]
  BY <1>1, TableType
<1>3. T2 \in Table
  BY <1>2, TableIntro DEF Enter, Slots
<1>4. /\ T2.capacity = T.capacity /\ T2.key[i] = t /\ T2.value[i] = v
      /\ \A j \in Slots(T) \ {i} : T2.key[j] = T.key[j] /\ T2.value[j] = T.value[j]
  BY <1>2 DEF Enter
<1>5. hashes \in Seq(Table) /\ hashes' = [hashes EXCEPT ![h] = T2]
  BY DEF TypeOK, EntersAt
<1> HIDE DEF T2
<1>6. hashes' \in Seq(Table) /\ Len(hashes') = Len(hashes) /\ hashes'[h] = T2
      /\ \A g \in DOMAIN hashes \ {h} : hashes'[g] = hashes[g]
  BY <1>3, <1>5
<1> QED
  BY <1>4, <1>6

\* Entering t in an empty slot.
LEMMA EnterStep ==
  ASSUME Inv, NEW t \in Threads, NEW h \in DOMAIN hashes, NEW i \in Slots(hashes[h]),
         NEW k \in Nat, NEW v, v = <<t, k>>,
         hashes[h].key[i] = Null, Passed(hashes[h], Slot(t, h), i, {Null}),
         mine[t] \in {NoProducer, v},
         EntersAt(t, h, i, v), Give(t, v),
         UNCHANGED <<implicitProducerHashCount, implicitProducerHashResizeInProgress,
                     created, failures>>
  PROVE  /\ Inv'
         /\ mine' # mine => mine[t] = NoProducer /\ \A u \in Threads \ {t} : mine'[u] = mine[u]
<1> DEFINE T == hashes[h]
<1>1. TypeOK /\ ThreadInv(t) /\ t # Null
  BY ImplicitProducerHashAssumption DEF Inv
<1>2. T \in Table /\ Slot(t, h) \in Slots(T)
  BY <1>1, SlotType
<1>3. v \in Producers /\ v \in {t} \X Nat /\ v # NoProducer
  BY DEF Producers, NoProducer
<1>4. /\ mine' \in [Threads -> Producers] /\ mine'[t] = v
      /\ \A u \in Threads \ {t} : mine'[u] = mine[u]
  BY <1>1, <1>3 DEF Give, TypeOK
<1>5. Go(t, "idle", NoLocals)
  BY DEF Give, Go
<1>6. /\ pc' \in [Threads -> Positions] /\ loc' \in [Threads -> Locals] /\ pc'[t] = "idle"
      /\ \A u \in Threads \ {t} : pc'[u] = pc[u] /\ loc'[u] = loc[u]
  BY <1>1, <1>5, GoType, NoLocalsType DEF Positions
<1>7. /\ hashes' \in Seq(Table) /\ Len(hashes') = Len(hashes)
      /\ \A g \in DOMAIN hashes \ {h} : hashes'[g] = hashes[g]
      /\ hashes'[h].capacity = T.capacity
      /\ \A j \in Slots(T) \ {i} : hashes'[h].key[j] = T.key[j] /\ hashes'[h].value[j] = T.value[j]
      /\ hashes'[h].key[i] = t /\ hashes'[h].value[i] = v
  BY <1>1, <1>3, Entered
<1>8. DOMAIN hashes' = DOMAIN hashes /\ hashes' # << >>
  BY <1>1, <1>7, Domain
<1>9. TypeOK'
  BY <1>1, <1>4, <1>6, <1>7, <1>8 DEF TypeOK
<1>10. Grows(t)
  <2>1. \A j \in Slots(T) :
          \/ hashes'[h].key[j] = T.key[j] /\ hashes'[h].value[j] = T.value[j]
          \/ T.key[j] = Null /\ hashes'[h].key[j] = t
    BY <1>7
  <2>2. \A g \in DOMAIN hashes :
          /\ hashes'[g].capacity = hashes[g].capacity
          /\ \A j \in Slots(hashes[g]) :
               \/ hashes'[g].key[j] = hashes[g].key[j] /\ hashes'[g].value[j] = hashes[g].value[j]
               \/ hashes[g].key[j] = Null /\ hashes'[g].key[j] = t
    BY <1>7, <2>1
  <2>3. Len(hashes) <= Len(hashes') /\ DOMAIN hashes' \ DOMAIN hashes = {}
    BY <1>1, <1>7, <1>8, Domain
  <2> QED
    BY <2>2, <2>3 DEF Grows
<1>11. \A g \in DOMAIN hashes :
         /\ hashes[g] \in Table /\ hashes'[g] \in Table /\ Slot(t, g)' = Slot(t, g)
         /\ Slots(hashes'[g]) = Slots(hashes[g]) /\ Slot(t, g) \in Slots(hashes[g])
         /\ hashes'[g].capacity = hashes[g].capacity
         /\ \A j \in Slots(hashes[g]) :
              hashes[g].key[j] \notin {Null} => hashes'[g].key[j] \notin {Null}
  BY <1>1, <1>9, <1>10, SlotKept DEF Grows
<1>12. EntriesOf(t)'
  <2> SUFFICES ASSUME NEW g \in DOMAIN hashes, NEW j \in Slots(hashes'[g]), hashes'[g].key[j] = t
               PROVE  hashes'[g].value[j] = v /\ Prefix(hashes[g], Slot(t, g), j, {Null})'
    BY <1>3, <1>4, <1>8 DEF EntriesOf
  <2>1. j \in Slots(hashes[g])
    BY <1>11
  <2>2. hashes'[g].value[j] = v /\ Prefix(hashes[g], Slot(t, g), j, {Null})
    <3>1. CASE g = h /\ j = i
      BY <1>7, <3>1 DEF Passed
    <3>2. CASE ~ (g = h /\ j = i)
      <4>1. hashes[g].key[j] = t /\ hashes'[g].value[j] = hashes[g].value[j]
        BY <1>7, <2>1, <3>2
      <4>2. /\ mine[t] # NoProducer /\ hashes[g].value[j] = mine[t]
            /\ Prefix(hashes[g], Slot(t, g), j, {Null})
        BY <1>1, <2>1, <4>1 DEF ThreadInv, EntriesOf
      <4> QED
        BY <4>1, <4>2
    <3> QED
      BY <3>1, <3>2
  <2>3. Prefix(hashes'[g], Slot(t, g), j, {Null})
    BY <1>11, <2>1, <2>2, PassedKept
  <2> QED
    BY <1>11, <2>2, <2>3
<1>13. StandsAt(t, pc[t], loc[t])'
  <2>1. Has(t, h)'
    BY <1>7, <1>11 DEF Has
  <2>2. h \in 1 .. Len(hashes')
    BY <1>1, <1>7, Domain
  <2>3. KnownAt(t, pc[t], loc[t])'
    BY <1>6, <2>1, <2>2 DEF KnownAt
  <2> QED
    BY <1>6, <2>3 DEF StandsAt, ProbingAt, AddingAt, InsertingAt
<1>14. ThreadInv(t)'
  BY <1>3, <1>4, <1>12, <1>13 DEF ThreadInv, MineOf
<1>15. Inv'
  BY <1>4, <1>6, <1>9, <1>10, <1>14, Together
<1>16. mine[t] = v => mine' = mine
  BY <1>1 DEF Give, TypeOK
<1> QED
  BY <1>4, <1>15, <1>16

LEMMA InsertStep ==
  ASSUME Inv, NEW t \in Threads, Insert(t)
  PROVE  /\ Inv'
         /\ mine' # mine => mine[t] = NoProducer /\ \A u \in Threads \ {t} : mine'[u] = mine[u]
<1> DEFINE l == loc[t]
           T == hashes[l.main]
           s == Slot(t, l.main)
<1>1. TypeOK /\ ThreadInv(t) /\ pc[t] = "insert" /\ l \in Locals
  BY DEF Inv, Insert, TypeOK
<1>2. /\ l.main \in DOMAIN hashes /\ l.index \in Slots(T)
      /\ Passed(T, s, l.index, {Null})
      /\ l.value \in {t} \X Nat /\ mine[t] \in {NoProducer, l.value}
  BY <1>1 DEF ThreadInv, StandsAt, InsertingAt
<1>3. T \in Table /\ s \in Slots(T)
  BY <1>1, <1>2, SlotType
<1>4. UNCHANGED <<implicitProducerHashCount, implicitProducerHashResizeInProgress,
                  created, failures>>
  BY DEF Insert
<1>5. CASE T.key[l.index] = Null
  <2>1. EntersAt(t, l.main, l.index, l.value) /\ Give(t, l.value)
    BY <1>5 DEF Insert, EntersAt
  <2>2. PICK k \in Nat : l.value = <<t, k>>
    BY <1>2
  <2> QED
    BY <1>2, <1>4, <1>5, <2>1, <2>2, EnterStep
<1>6. CASE T.key[l.index] # Null
  <2> DEFINE i == After(l.index, l.main)
             m == [l EXCEPT !.index = i]
  <2>1. Go(t, "insert", m) /\ UNCHANGED <<hashes, mine>>
    BY <1>6 DEF Insert
  <2>2. i \in Slots(T) /\ Passed(T, s, i, {Null})
    BY <1>2, <1>3, <1>6, PassedNext DEF After
  <2>3. i \in Nat
    BY <1>3, <2>2, TableType DEF Slots
  <2>4. m \in Locals /\ m.main = l.main /\ m.value = l.value /\ m.index = i
    BY <1>1, <2>3 DEF Locals
  <2> HIDE DEF m, i
  <2>5. StandsAt(t, "insert", m)
    <3>1. KnownAt(t, "insert", m)
      BY <1>1 DEF ThreadInv, StandsAt, KnownAt
    <3>2. InsertingAt(t, "insert", m)
      BY <1>2, <2>2, <2>4 DEF InsertingAt
    <3> QED
      BY <3>1, <3>2 DEF StandsAt, ProbingAt, AddingAt
  <2> QED
    BY <1>1, <1>4, <2>1, <2>4, <2>5, Moved DEF TypeOK, Positions
<1> QED
  BY <1>5, <1>6

\* A table is replaced by one some times as large.
LEMMA NewCapacityType ==
  ASSUME TypeOK, NEW t \in Threads, NEW d \in NewCapacities(t)
  PROVE  \E factor \in Nat \ {0} : d = hashes[Len(hashes)].capacity * factor
<1>1. loc[t].newCount \in Int
  BY DEF TypeOK, Locals
<1>2. PICK factor \in 2 .. 4 * loc[t].newCount + 3 : d = hashes[Len(hashes)].capacity * factor
  BY DEF NewCapacities
<1> QED
  BY <1>1, <1>2

LEMMA Product ==
  ASSUME NEW c \in Nat \ {0}, NEW f \in Nat \ {0}
  PROVE  c * f \in Nat \ {0} /\ c <= c * f
  OBVIOUS

LEMMA ResizeStep ==
  ASSUME Inv, NEW t \in Threads, Resize(t)
  PROVE  Inv' /\ mine' = mine
<1> DEFINE l == loc[t]
           n == Len(hashes)
<1>1. TypeOK /\ ThreadInv(t) /\ pc[t] = "resize" /\ l \in Locals /\ t # Null
  BY ImplicitProducerHashAssumption DEF Inv, Resize, TypeOK
<1>2. mine[t] = NoProducer
  BY <1>1 DEF ThreadInv, StandsAt, AddingAt
<1>3. UNCHANGED <<implicitProducerHashCount, implicitProducerHashResizeInProgress,
                  created, failures, mine>>
  BY DEF Resize
<1>4. n \in Nat \ {0} /\ n \in DOMAIN hashes /\ DOMAIN hashes = 1 .. n
  BY <1>1, Domain
<1>5. CASE HalfFull(t, n)
  <2> DEFINE m == [l EXCEPT !.main = n + 1]
  <2>1. PICK d \in NewCapacities(t) : hashes' = Append(hashes, EmptyHash(d))
    BY <1>5 DEF Resize
  <2>2. Go(t, "unlock", m)
    BY <1>5 DEF Resize
  <2>3. d \in Nat \ {0}
    <3>1. hashes[n].capacity \in Nat \ {0}
      BY <1>1, <1>4, TableType DEF TypeOK
    <3>2. PICK factor \in Nat \ {0} : d = hashes[n].capacity * factor
      BY <1>1, <2>1, NewCapacityType
    <3> QED
      BY <3>1, <3>2, Product
  <2>4. EmptyHash(d) \in Table /\ \A i \in Slots(EmptyHash(d)) : EmptyHash(d).key[i] = Null
    BY <2>3, TableIntro DEF EmptyHash, Producers, Slots
  <2>5. /\ hashes' \in Seq(Table) /\ Len(hashes') = n + 1 /\ hashes'[n + 1] = EmptyHash(d)
        /\ \A h \in 1 .. n : hashes'[h] = hashes[h]
    <3>1. hashes \in Seq(Table)
      BY <1>1 DEF TypeOK
    <3> QED
      BY <2>1, <2>4, <3>1
  <2>6. DOMAIN hashes' = 1 .. n + 1 /\ hashes' # << >>
    BY <1>4, <2>5
  <2>7. Grows(Null)
    BY <1>4, <2>4, <2>5, <2>6 DEF Grows
  <2>8. m \in Locals /\ m.main = n + 1
    BY <1>1, <1>4 DEF Locals
  <2> HIDE DEF m
  <2>9. /\ pc' \in [Threads -> Positions] /\ loc' \in [Threads -> Locals]
        /\ pc'[t] = "unlock" /\ loc'[t] = m
        /\ \A u \in Threads \ {t} : pc'[u] = pc[u] /\ loc'[u] = loc[u]
    BY <1>1, <2>2, <2>8, GoType DEF Positions
  <2>10. TypeOK'
    BY <1>1, <1>3, <2>5, <2>6, <2>9 DEF TypeOK
  <2>11. EntriesOf(t)'
    BY <1>1, <1>3, <2>7, <2>10, EntriesKept DEF ThreadInv
  <2>12. StandsAt(t, pc[t], loc[t])'
    BY <1>2, <1>3, <1>4, <2>6, <2>8, <2>9
       DEF StandsAt, KnownAt, ProbingAt, AddingAt, InsertingAt
  <2>13. ThreadInv(t)'
    BY <1>1, <1>3, <2>11, <2>12 DEF ThreadInv, MineOf
  <2> QED
    BY <1>3, <2>7, <2>9, <2>10, <2>13, Together
<1>6. CASE ~ HalfFull(t, n)
  <2> DEFINE m == [l EXCEPT !.main = n]
  <2>1. Go(t, "unlock", m) /\ UNCHANGED hashes
    BY <1>6 DEF Resize
  <2>2. m \in Locals /\ m.main = n
    BY <1>1, <1>4 DEF Locals
  <2> HIDE DEF m
  <2>3. StandsAt(t, "unlock", m)
    BY <1>2, <1>4, <2>2, StandsAdding
  <2> QED
    BY <1>1, <1>3, <2>1, <2>2, <2>3, Moved DEF TypeOK, Positions
<1> QED
  BY <1>5, <1>6

LEMMA InvStep ==
  ASSUME Inv, [Next]_vars
  PROVE  /\ Inv'
         /\ \A t \in Threads : mine'[t] # mine[t] => mine[t] = NoProducer
<1>1. ASSUME NEW t \in Threads, Start(t) \/ Probe(t) \/ Resize(t)
      PROVE  Inv' /\ mine' = mine
  BY <1>1, StartStep, ProbeStep, ResizeStep
<1>2. ASSUME NEW t \in Threads, Insert(t)
      PROVE  Inv' /\ \A u \in Threads : mine'[u] # mine[u] => mine[u] = NoProducer
  BY <1>2, InsertStep
<1>3. ASSUME NEW t \in Threads,
             Count(t) \/ TryLock(t) \/ Unlock(t) \/ Create(t) \/ Wait(t) \/ Fail(t)
      PROVE  Inv' /\ mine' = mine
  <2> DEFINE l == loc[t]
  <2>1. TypeOK /\ ThreadInv(t) /\ l \in Locals
    BY DEF Inv, TypeOK
  <2>2. UNCHANGED <<hashes, mine>>
    BY <1>3 DEF Count, TryLock, Unlock, Create, Wait, Fail
  <2>3. pc[t] \in {"count", "lock", "resize", "unlock", "room"} =>
          mine[t] = NoProducer /\ l.main \in DOMAIN hashes
    BY <2>1 DEF ThreadInv, StandsAt, AddingAt
  <2>4. CASE Count(t)
    <3> DEFINE m == [l EXCEPT !.newCount = implicitProducerHashCount + 1]
    <3>1. /\ pc[t] = "count" /\ Go(t, "lock", m)
          /\ implicitProducerHashCount' = implicitProducerHashCount + 1
          /\ UNCHANGED <<implicitProducerHashResizeInProgress, created, failures>>
      BY <2>4 DEF Count
    <3>2. implicitProducerHashCount \in Int
      BY <2>1 DEF TypeOK
    <3>3. m \in Locals /\ m.main = l.main
      BY <2>1, <3>2 DEF Locals
    <3> HIDE DEF m
    <3>4. StandsAt(t, "lock", m)
      BY <2>3, <3>1, <3>3, StandsAdding
    <3>5. created' \in [Threads -> Nat] /\ failures' \in Nat /\ implicitProducerHashCount' \in Int
      BY <2>1, <3>1, <3>2 DEF TypeOK
    <3>6. implicitProducerHashResizeInProgress' \in BOOLEAN
      BY <2>1, <3>1, Zenon DEF TypeOK
    <3> QED
      BY <2>2, <3>1, <3>3, <3>4, <3>5, <3>6, Moved DEF Positions
  <2>5. CASE TryLock(t)
    <3>1. /\ pc[t] = "lock"
          /\ Go(t, "resize", l) \/ Go(t, "room", l)
          /\ UNCHANGED <<implicitProducerHashCount, created, failures>>
      BY <2>5 DEF TryLock
    <3>2. implicitProducerHashResizeInProgress' \in BOOLEAN
      BY <2>1, <2>5 DEF TryLock, TypeOK
    <3>3. StandsAt(t, "resize", l) /\ StandsAt(t, "room", l)
      BY <2>3, <3>1, StandsAdding
    <3>4. created' \in [Threads -> Nat] /\ failures' \in Nat /\ implicitProducerHashCount' \in Int
      BY <2>1, <3>1 DEF TypeOK
    <3>5. CASE Go(t, "resize", l)
      BY <2>1, <2>2, <3>2, <3>3, <3>4, <3>5, Moved DEF Positions
    <3>6. CASE Go(t, "room", l)
      BY <2>1, <2>2, <3>2, <3>3, <3>4, <3>6, Moved DEF Positions
    <3> QED
      BY <3>1, <3>5, <3>6
  <2>6. CASE Unlock(t)
    <3>1. /\ pc[t] \in {"unlock", "give up"}
          /\ UNCHANGED <<implicitProducerHashCount, created, failures>>
      BY <2>6 DEF Unlock
    <3>2. implicitProducerHashResizeInProgress' \in BOOLEAN
      BY <2>6 DEF Unlock
    <3>3. created' \in [Threads -> Nat] /\ failures' \in Nat /\ implicitProducerHashCount' \in Int
      BY <2>1, <3>1 DEF TypeOK
    <3>4. CASE pc[t] = "unlock"
      <4>1. Go(t, "room", l)
        BY <2>6, <3>4 DEF Unlock
      <4>2. StandsAt(t, "room", l)
        BY <2>3, <3>4, StandsAdding
      <4> QED
        BY <2>1, <2>2, <3>2, <3>3, <4>1, <4>2, Moved DEF Positions
    <3>5. CASE pc[t] = "give up"
      <4>1. Go(t, "idle", NoLocals)
        BY <2>6, <3>5 DEF Unlock
      <4>2. StandsAt(t, "idle", NoLocals)
        BY <3>5, StandsIdle
      <4> QED
        BY <2>2, <3>2, <3>3, <4>1, <4>2, NoLocalsType, Moved DEF Positions
    <3> QED
      BY <3>1, <3>4, <3>5
  <2>7. CASE Create(t)
    <3> DEFINE v == <<t, created'[t]>>
               m == [l EXCEPT !.value = v, !.index = Slot(t, l.main)]
    <3>1. /\ pc[t] = "room" /\ Go(t, "insert", m)
          /\ created' = [created EXCEPT ![t] = @ + 1]
          /\ UNCHANGED <<implicitProducerHashCount, implicitProducerHashResizeInProgress,
                         failures>>
      BY <2>7 DEF Create
    <3>2. created' \in [Threads -> Nat]
      BY <2>1, <3>1 DEF TypeOK
    <3>3. v \in {t} \X Nat /\ v \in Producers
      BY <3>2 DEF Producers
    <3>4. mine[t] = NoProducer /\ l.main \in DOMAIN hashes
      BY <2>3, <3>1
    <3>5. hashes[l.main] \in Table /\ Slot(t, l.main) \in Slots(hashes[l.main])
      BY <2>1, <3>4, SlotType
    <3>6. Slot(t, l.main) \in Nat
      BY <3>5, TableType DEF Slots
    <3>7. m \in Locals /\ m.main = l.main /\ m.value = v /\ m.index = Slot(t, l.main)
      BY <2>1, <3>3, <3>6 DEF Locals
    <3> HIDE DEF m, v
    <3>8. StandsAt(t, "insert", m)
      <4>1. InsertingAt(t, "insert", m)
        BY <3>3, <3>4, <3>5, <3>7, PassedStart DEF InsertingAt
      <4> QED
        BY <3>4, <4>1 DEF StandsAt, KnownAt, ProbingAt, AddingAt
    <3> QED
      BY <2>1, <2>2, <3>1, <3>2, <3>7, <3>8, Moved DEF TypeOK, Positions
  <2>8. CASE Wait(t)
    <3> DEFINE m == [l EXCEPT !.main = Len(hashes)]
    <3>1. /\ pc[t] = "room" /\ Go(t, "lock", m)
          /\ UNCHANGED <<implicitProducerHashCount, implicitProducerHashResizeInProgress,
                         created, failures>>
      BY <2>8 DEF Wait
    <3>2. Len(hashes) \in Nat /\ Len(hashes) \in DOMAIN hashes
      BY <2>1, Domain
    <3>3. m \in Locals /\ m.main = Len(hashes)
      BY <2>1, <3>2 DEF Locals
    <3> HIDE DEF m
    <3>4. StandsAt(t, "lock", m)
      BY <2>3, <3>1, <3>2, <3>3, StandsAdding
    <3> QED
      BY <2>1, <2>2, <3>1, <3>3, <3>4, Moved DEF TypeOK, Positions
  <2>9. CASE Fail(t)
    <3>1. /\ pc[t] # "probe"
          /\ Go(t, "give up", NoLocals) \/ Go(t, "idle", NoLocals)
          /\ UNCHANGED <<implicitProducerHashResizeInProgress, created>>
      BY <2>9 DEF Fail
    <3>2. StandsAt(t, "give up", NoLocals) /\ StandsAt(t, "idle", NoLocals)
      BY <3>1, StandsIdle
    <3>3. /\ created' \in [Threads -> Nat] /\ failures' \in Nat
          /\ implicitProducerHashCount' \in Int
      <4>1. failures' = failures + 1 /\ implicitProducerHashCount' = implicitProducerHashCount - 1
        BY <2>9 DEF Fail
      <4>2. created \in [Threads -> Nat] /\ failures \in Nat /\ implicitProducerHashCount \in Int
        BY <2>1 DEF TypeOK
      <4>3. created' \in [Threads -> Nat]
        BY <3>1, <4>2
      <4> QED
        BY <4>1, <4>2, <4>3
    <3>4. implicitProducerHashResizeInProgress' \in BOOLEAN
      BY <2>1, <3>1, Zenon DEF TypeOK
    <3>5. CASE Go(t, "give up", NoLocals)
      BY <2>2, <3>2, <3>3, <3>4, <3>5, NoLocalsType, Moved DEF Positions
    <3>6. CASE Go(t, "idle", NoLocals)
      BY <2>2, <3>2, <3>3, <3>4, <3>6, NoLocalsType, Moved DEF Positions
    <3> QED
      BY <3>1, <3>5, <3>6
  <2> QED
    BY <1>3, <2>2, <2>4, <2>5, <2>6, <2>7, <2>8, <2>9
<1>4. ASSUME UNCHANGED vars PROVE Inv' /\ mine' = mine
  <2>1. /\ UNCHANGED <<hashes, implicitProducerHashCount, implicitProducerHashResizeInProgress>>
        /\ UNCHANGED <<created, failures, pc, loc, mine>>
    BY <1>4 DEF vars
  <2>2. TypeOK /\ TypeOK'
    BY <2>1 DEF Inv, TypeOK
  <2>3. Grows(Null)
    BY <2>1, <2>2, Domain DEF Grows
  <2>4. ASSUME NEW t \in Threads PROVE ThreadInv(t)'
    <3>1. ThreadInv(t) /\ t # Null /\ loc[t] \in Locals /\ mine'[t] = mine[t]
      BY <2>1, <2>2, ImplicitProducerHashAssumption DEF Inv, TypeOK
    <3>2. EntriesOf(t)'
      BY <2>2, <2>3, <3>1, EntriesKept DEF ThreadInv
    <3>3. StandsAt(t, pc[t], loc[t])'
      <4> DEFINE p == pc[t]
                 l == loc[t]
      <4>1. StandsAt(t, p, l) /\ l \in Locals /\ pc'[t] = p /\ loc'[t] = l
        BY <2>1, <3>1 DEF ThreadInv
      <4> HIDE DEF p, l
      <4> QED
        BY <2>2, <2>3, <3>1, <4>1, StandsKept
    <3> QED
      BY <3>1, <3>2, <3>3 DEF ThreadInv, MineOf
  <2> QED
    BY <2>1, <2>2, <2>4 DEF Inv
<1> QED
  BY <1>1, <1>2, <1>3, <1>4 DEF Next, get_or_add_implicit_producer

LEMMA InvAlways == Spec => []Inv
<1>1. Inv /\ [Next]_vars => Inv'
  BY InvStep
<1> QED
  BY <1>1, InitInv, PTL DEF Spec

\* The tables stay tables and every thread's locals name slots and producers
\* that exist.
THEOREM TypeCorrect == Spec => []TypeOK
  BY InvAlways, PTL DEF Inv

\* get_or_add_implicit_producer: for any number of threads, any hash function,
\* and whatever tables and producers could not be allocated, a thread is given
\* the same producer in every call and nobody else's.
THEOREM OwnProducerAlways == Spec => OwnProducer
<1> DEFINE Own == \A t \in Threads : mine'[t] # mine[t] =>
                    /\ mine[t] = NoProducer
                    /\ \A u \in Threads \ {t} : mine'[u] # mine'[t]
<1>1. Inv /\ [Next]_vars => [Own]_vars
  <2> SUFFICES ASSUME Inv, [Next]_vars, NEW t \in Threads, mine'[t] # mine[t]
               PROVE  mine[t] = NoProducer /\ \A u \in Threads \ {t} : mine'[u] # mine'[t]
    OBVIOUS
  <2>1. mine[t] = NoProducer /\ Inv'
    BY InvStep
  <2>2. \A u \in Threads : mine'[u] \in {NoProducer} \cup ({u} \X Nat)
    BY <2>1 DEF Inv, ThreadInv, MineOf
  <2>3. PICK k \in Nat : mine'[t] = <<t, k>>
    BY <2>1, <2>2
  <2>4. ASSUME NEW u \in Threads \ {t}, mine'[u] = mine'[t] PROVE FALSE
    BY <2>1, <2>2, <2>3, <2>4
  <2> QED
    BY <2>1, <2>4
<1> QED
  BY <1>1, InvAlways, PTL DEF Spec, OwnProducer

-----------------------------------------------------------------------------
(* A slot is free in every table.                                          *)

Adding == {"lock", "resize", "unlock", "room"}

\* The threads that implicitProducerHashCount counts.
Counted(t) == mine[t] # NoProducer \/ pc[t] \in Adding \cup {"insert"}
AllCounted == {t \in Threads : Counted(t)}

\* A thread creates its producer for table h with a count below this.
RoomOf(h) == (hashes[h].capacity \div 2) + (hashes[h].capacity \div 4)

Entrant(t, h) == Has(t, h) \/ (pc[t] = "insert" /\ loc[t].main = h)

\* n is the count that each thread was given when it was counted.  The
\* threads with a count of at most m are at most m, although counts are given
\* again after failures; and who is in a table, or about to be, had a count
\* for which there was room in it.
Ranked(n) ==
  /\ n \in [Threads -> Nat]
  /\ \A t \in Threads : pc[t] \in Adding => n[t] = loc[t].newCount
  /\ \A m \in Nat : Cardinality({t \in AllCounted : n[t] <= m}) <= m
  /\ \A h \in DOMAIN hashes, t \in Threads : Entrant(t, h) => Counted(t) /\ n[t] < RoomOf(h)

CountInv == implicitProducerHashCount = Cardinality(AllCounted)

CapacityInv == \A g, h \in DOMAIN hashes : g < h => hashes[g].capacity <= hashes[h].capacity

\* No table has a thread twice, and none gets it a second time.
OnceOf(t) ==
  /\ \A h \in DOMAIN hashes : \A i, j \in Slots(hashes[h]) :
       hashes[h].key[i] = t /\ hashes[h].key[j] = t => i = j
  /\ pc[t] = "insert" => ~ Has(t, loc[t].main)
  /\ pc[t] = "probe" => \A h \in DOMAIN hashes :
                          h > loc[t].hash /\ h <= loc[t].main => ~ Has(t, h)

RoomInv ==
  /\ CountInv /\ CapacityInv /\ \A t \in Threads : OnceOf(t)
  /\ \E n \in [Threads -> Nat] : Ranked(n)

\* The others stand still in a step of t.
Still(t) ==
  \A u \in Threads \ {t} : pc'[u] = pc[u] /\ loc'[u] = loc[u] /\ mine'[u] = mine[u]

\* A larger capacity has more room, and less room than slots.
LEMMA RoomArithmetic ==
  ASSUME NEW c \in Nat, NEW d \in Nat
  PROVE  /\ (c \div 2) + (c \div 4) \in Nat
         /\ (c \div 2) + (c \div 4) <= c
         /\ c <= d => (c \div 2) + (c \div 4) <= (d \div 2) + (d \div 4)
  OBVIOUS

\* Who is in a table has a producer.
LEMMA HasMine ==
  ASSUME Inv, NEW t \in Threads, NEW h \in DOMAIN hashes, Has(t, h)
  PROVE  mine[t] # NoProducer /\ Counted(t)
  BY DEF Inv, ThreadInv, EntriesOf, Has, Counted

\* The room in an earlier table is no more than in a later one.
LEMMA RoomGrows ==
  ASSUME Inv, CapacityInv, NEW g \in DOMAIN hashes, NEW h \in DOMAIN hashes, g <= h
  PROVE  RoomOf(g) \in Nat /\ RoomOf(h) \in Nat /\ RoomOf(g) <= RoomOf(h)
<1>1. TypeOK
  BY DEF Inv
<1>2. hashes[g] \in Table /\ hashes[h] \in Table /\ g \in Nat /\ h \in Nat
  BY <1>1, Domain DEF TypeOK
<1>3. hashes[g].capacity \in Nat /\ hashes[h].capacity \in Nat
  BY <1>2, TableType
<1>4. hashes[g].capacity <= hashes[h].capacity
  BY <1>2, <1>3 DEF CapacityInv
<1> QED
  BY <1>3, <1>4, RoomArithmetic DEF RoomOf

\* The ranks stay good in a step of t that counts nobody.
LEMMA RankStep ==
  ASSUME NEW n, Ranked(n), NEW t \in Threads, Still(t), Counted(t)' => Counted(t),
         pc'[t] \in Adding => n[t] = loc'[t].newCount,
         \A h \in DOMAIN hashes', u \in Threads : Entrant(u, h)' => Counted(u)' /\ n[u] < RoomOf(h)'
  PROVE  Ranked(n)'
<1>1. \A u \in Threads : Counted(u)' => Counted(u)
  BY DEF Still, Counted
<1>2. ASSUME NEW m \in Nat PROVE Cardinality({u \in AllCounted : n[u] <= m})' <= m
  <2> DEFINE A == {u \in AllCounted : n[u] <= m}
             B == {u \in AllCounted' : n[u] <= m}
  <2>1. B \subseteq A /\ A \subseteq Threads
    BY <1>1 DEF AllCounted
  <2>2. IsFiniteSet(A)
    BY <2>1, FS_Subset, ImplicitProducerHashAssumption
  <2>3. Cardinality(A) <= m
    BY DEF Ranked
  <2> HIDE DEF A, B
  <2>4. IsFiniteSet(B) /\ Cardinality(B) <= Cardinality(A)
    BY <2>1, <2>2, FS_Subset
  <2>5. Cardinality(A) \in Nat /\ Cardinality(B) \in Nat
    BY <2>2, <2>4, FS_CardinalityType
  <2>6. Cardinality(B) <= m
    BY <2>3, <2>4, <2>5
  <2> QED
    BY <2>6 DEF B
<1>3. \A u \in Threads : pc'[u] \in Adding => n[u] = loc'[u].newCount
  BY DEF Ranked, Still
<1>4. n \in [Threads -> Nat]
  BY DEF Ranked
<1> QED
  BY <1>2, <1>3, <1>4 DEF Ranked

\* A step of t to another place in its call that leaves the tables, the count
\* and what is counted alone.
LEMMA RoomMoved ==
  ASSUME Inv, RoomInv, NEW t \in Threads, Still(t),
         UNCHANGED <<hashes, mine, implicitProducerHashCount>>,
         Counted(t)' <=> Counted(t),
         pc'[t] \in Adding => pc[t] \in Adding /\ loc'[t].newCount = loc[t].newCount,
         pc'[t] = "insert" =>
           /\ loc'[t].main \in DOMAIN hashes /\ ~ Has(t, loc'[t].main)
           /\ \/ \E h \in DOMAIN hashes : h <= loc'[t].main /\ Entrant(t, h)
              \/ pc[t] \in Adding /\ loc[t].newCount < RoomOf(loc'[t].main),
         pc'[t] = "probe" => \A h \in DOMAIN hashes :
                               h > loc'[t].hash /\ h <= loc'[t].main => ~ Has(t, h)
  PROVE  RoomInv'
<1>1. \A u \in Threads, h \in DOMAIN hashes : (Has(u, h)' <=> Has(u, h)) /\ RoomOf(h)' = RoomOf(h)
  BY DEF Has, RoomOf
<1>2. \A u \in Threads : Counted(u)' <=> Counted(u)
  BY DEF Still, Counted
<1>3. CountInv'
  <2>1. AllCounted' = AllCounted
    BY <1>2 DEF AllCounted
  <2> QED
    BY <2>1 DEF RoomInv, CountInv
<1>4. CapacityInv'
  BY DEF RoomInv, CapacityInv
<1>5. ASSUME NEW u \in Threads PROVE OnceOf(u)'
  <2>1. OnceOf(u)
    BY DEF RoomInv
  <2>2. CASE u # t
    <3>1. pc'[u] = pc[u] /\ loc'[u] = loc[u]
      BY <2>2 DEF Still
    <3> QED
      BY <2>1, <3>1 DEF OnceOf, Has
  <2>3. CASE u = t
    <3>1. \A h \in DOMAIN hashes' : \A i, j \in Slots(hashes'[h]) :
            hashes'[h].key[i] = t /\ hashes'[h].key[j] = t => i = j
      BY <2>1, <2>3 DEF OnceOf
    <3>2. pc'[t] = "insert" => ~ Has(t, loc[t].main)'
      BY <1>1 DEF Has
    <3>3. pc'[t] = "probe" => \A h \in DOMAIN hashes' :
                               h > loc'[t].hash /\ h <= loc'[t].main => ~ Has(t, h)'
      BY <1>1
    <3> QED
      BY <2>3, <3>1, <3>2, <3>3 DEF OnceOf
  <2> QED
    BY <2>2, <2>3
<1>6. PICK n \in [Threads -> Nat] : Ranked(n)
  BY DEF RoomInv
<1>7. ASSUME NEW h \in DOMAIN hashes, NEW u \in Threads, Entrant(u, h)'
      PROVE  Counted(u)' /\ n[u] < RoomOf(h)'
  <2>1. CASE Has(u, h)' \/ u # t
    <3>1. Entrant(u, h)
      BY <1>1, <1>7, <2>1 DEF Entrant, Still
    <3> QED
      BY <1>1, <1>2, <1>6, <3>1 DEF Ranked
  <2>2. CASE u = t /\ ~ Has(u, h)'
    <3>1. pc'[t] = "insert" /\ loc'[t].main = h
      BY <1>7, <2>2 DEF Entrant
    <3>2. CASE \E g \in DOMAIN hashes : g <= h /\ Entrant(t, g)
      <4>1. PICK g \in DOMAIN hashes : g <= h /\ Entrant(t, g)
        BY <3>2
      <4>2. Counted(t) /\ n[t] < RoomOf(g) /\ n[t] \in Nat
        BY <1>6, <4>1 DEF Ranked
      <4>3. RoomOf(g) \in Nat /\ RoomOf(h) \in Nat /\ RoomOf(g) <= RoomOf(h)
        BY <4>1, RoomGrows DEF RoomInv
      <4> QED
        BY <1>1, <1>2, <2>2, <4>2, <4>3
    <3>3. CASE pc[t] \in Adding /\ loc[t].newCount < RoomOf(h)
      <4>1. Counted(t) /\ n[t] = loc[t].newCount
        BY <1>6, <3>3 DEF Ranked, Counted
      <4> QED
        BY <1>1, <1>2, <2>2, <3>3, <4>1
    <3> QED
      BY <3>1, <3>2, <3>3
  <2> QED
    BY <2>1, <2>2
<1>8. pc'[t] \in Adding => n[t] = loc'[t].newCount
  BY <1>6 DEF Ranked
<1>9. Ranked(n)'
  BY <1>6, <1>7, <1>8, RankStep
<1> QED
  BY <1>3, <1>4, <1>5, <1>6, <1>9 DEF RoomInv

\* The first table has nobody in it.
LEMMA RoomInit == Init => RoomInv
<1> SUFFICES ASSUME Init PROVE RoomInv
  OBVIOUS
<1>1. PICK size \in InitialSizes : hashes = <<EmptyHash(size)>>
  BY DEF Init
<1>2. size \in Nat \ {0}
  BY ImplicitProducerHashAssumption
<1>3. DOMAIN hashes = {1} /\ \A i \in Slots(hashes[1]) : hashes[1].key[i] = Null
  BY <1>1, <1>2 DEF EmptyHash, Slots
<1>4. \A t \in Threads : mine[t] = NoProducer /\ pc[t] = "idle" /\ ~ Has(t, 1)
  BY <1>3, ImplicitProducerHashAssumption DEF Init, Has
<1>5. AllCounted = {} /\ Cardinality({}) = 0
  BY <1>4, FS_EmptySet DEF AllCounted, Counted, Adding
<1>6. CountInv
  BY <1>5 DEF CountInv, Init
<1>7. CapacityInv
  BY <1>3 DEF CapacityInv
<1>8. \A t \in Threads : OnceOf(t)
  BY <1>3, <1>4, ImplicitProducerHashAssumption DEF OnceOf
<1> DEFINE n == [t \in Threads |-> 0]
<1>9. Ranked(n)
  <2>1. n \in [Threads -> Nat]
    OBVIOUS
  <2> HIDE DEF n
  <2>2. \A m \in Nat : {t \in AllCounted : n[t] <= m} = {}
    BY <1>5
  <2>3. \A m \in Nat : Cardinality({t \in AllCounted : n[t] <= m}) <= m
    BY <1>5, <2>2
  <2> QED
    BY <1>3, <1>4, <2>1, <2>3 DEF Ranked, Entrant, Adding
<1>10. n \in [Threads -> Nat]
  OBVIOUS
<1> QED
  BY <1>6, <1>7, <1>8, <1>9, <1>10 DEF RoomInv

\* A thread is counted: it gets the number of all who are.
LEMMA RoomCount ==
  ASSUME Inv, RoomInv, NEW t \in Threads, Count(t)
  PROVE  RoomInv'
<1> DEFINE N == implicitProducerHashCount
<1>1. /\ pc[t] = "count" /\ pc'[t] = "lock" /\ N' = N + 1 /\ loc'[t].newCount = N + 1 /\ Still(t)
      /\ UNCHANGED <<hashes, mine>> /\ mine[t] = NoProducer
  <2>1. TypeOK /\ mine[t] = NoProducer /\ loc[t] \in Locals /\ pc[t] = "count"
    BY DEF Inv, ThreadInv, StandsAt, AddingAt, Count, TypeOK
  <2> DEFINE l == [loc[t] EXCEPT !.newCount = N + 1]
  <2>2. Go(t, "lock", l) /\ N' = N + 1 /\ UNCHANGED <<hashes, mine>>
    BY DEF Count
  <2>3. l.newCount = N + 1
    BY <2>1 DEF Locals
  <2>4. pc'[t] = "lock" /\ loc'[t] = l /\ Still(t)
    BY <2>1, <2>2 DEF Go, TypeOK, Still
  <2> QED
    BY <2>1, <2>2, <2>3, <2>4
<1>2. ~ Counted(t) /\ Counted(t)' /\ \A u \in Threads \ {t} : Counted(u)' <=> Counted(u)
  BY <1>1 DEF Counted, Adding, Still
<1>3. AllCounted' = AllCounted \cup {t} /\ t \notin AllCounted /\ AllCounted \subseteq Threads
  BY <1>2 DEF AllCounted
<1>4. IsFiniteSet(AllCounted)
  BY <1>3, FS_Subset, ImplicitProducerHashAssumption
<1>5. /\ IsFiniteSet(AllCounted') /\ Cardinality(AllCounted') = Cardinality(AllCounted) + 1
      /\ Cardinality(AllCounted) \in Nat /\ N = Cardinality(AllCounted)
  BY <1>3, <1>4, FS_AddElement, FS_CardinalityType DEF RoomInv, CountInv
<1>6. CountInv'
  BY <1>1, <1>5 DEF CountInv
<1>7. CapacityInv'
  BY <1>1 DEF RoomInv, CapacityInv
<1>8. \A u \in Threads, h \in DOMAIN hashes : (Has(u, h)' <=> Has(u, h)) /\ RoomOf(h)' = RoomOf(h)
  BY <1>1 DEF Has, RoomOf
<1>9. ASSUME NEW u \in Threads PROVE OnceOf(u)'
  <2>1. OnceOf(u)
    BY DEF RoomInv
  <2>2. CASE u # t
    BY <1>1, <2>1, <2>2 DEF OnceOf, Has, Still
  <2>3. CASE u = t
    BY <1>1, <2>1, <2>3 DEF OnceOf
  <2> QED
    BY <2>2, <2>3
<1>10. PICK n \in [Threads -> Nat] : Ranked(n)
  BY DEF RoomInv
<1>11. PICK r \in Nat : r = N + 1
  BY <1>5
<1> DEFINE q == [n EXCEPT ![t] = r]
<1>12. q \in [Threads -> Nat] /\ q[t] = r /\ \A u \in Threads \ {t} : q[u] = n[u]
  BY <1>10
<1> HIDE DEF q
<1>13. ASSUME NEW m \in Nat PROVE Cardinality({u \in AllCounted : q[u] <= m})' <= m
  <2> DEFINE A == {u \in AllCounted : n[u] <= m}
             B == {u \in AllCounted' : q[u] <= m}
  <2>1. Cardinality(A) <= m
    BY <1>10 DEF Ranked
  <2>2. CASE m < r
    <3>1. B = A
      BY <1>3, <1>12, <2>2
    <3> QED
      BY <2>1, <3>1
  <2>3. CASE ~ (m < r)
    <3>1. Cardinality(B) <= Cardinality(AllCounted') /\ Cardinality(B) \in Nat
      BY <1>5, FS_Subset, FS_CardinalityType
    <3> HIDE DEF A, B
    <3>2. Cardinality(B) <= m
      BY <1>5, <1>11, <2>3, <3>1
    <3> QED
      BY <3>2 DEF B
  <2> QED
    BY <2>2, <2>3
<1>14. \A u \in Threads : pc'[u] \in Adding => q[u] = loc'[u].newCount
  BY <1>1, <1>10, <1>11, <1>12 DEF Ranked, Still
<1>15. ASSUME NEW h \in DOMAIN hashes, NEW u \in Threads, Entrant(u, h)'
       PROVE  Counted(u)' /\ q[u] < RoomOf(h)'
  <2>1. u # t /\ Entrant(u, h)
    <3>1. ~ Has(t, h)
      BY <1>1, HasMine
    <3> QED
      BY <1>1, <1>8, <1>15, <3>1 DEF Entrant, Still
  <2> QED
    BY <1>2, <1>8, <1>10, <1>12, <2>1 DEF Ranked
<1>16. Ranked(q)'
  BY <1>1, <1>12, <1>13, <1>14, <1>15 DEF Ranked
<1> QED
  BY <1>6, <1>7, <1>9, <1>12, <1>16 DEF RoomInv

\* An allocation fails: the thread is not counted any more.
LEMMA RoomFail ==
  ASSUME Inv, RoomInv, NEW t \in Threads, Fail(t)
  PROVE  RoomInv'
<1> DEFINE N == implicitProducerHashCount
<1>1. /\ pc[t] \in Adding /\ pc'[t] \in {"give up", "idle"} /\ N' = N - 1 /\ Still(t)
      /\ UNCHANGED <<hashes, mine>> /\ mine[t] = NoProducer
  <2>1. TypeOK /\ pc[t] \in {"resize", "room"}
    BY DEF Inv, Fail
  <2>2. mine[t] = NoProducer
    BY <2>1 DEF Inv, ThreadInv, StandsAt, AddingAt
  <2>3. (Go(t, "give up", NoLocals) \/ Go(t, "idle", NoLocals)) /\ N' = N - 1 /\ UNCHANGED <<hashes, mine>>
    BY DEF Fail
  <2>4. pc'[t] \in {"give up", "idle"} /\ Still(t)
    BY <2>1, <2>3 DEF Go, TypeOK, Still
  <2> QED
    BY <2>1, <2>2, <2>3, <2>4 DEF Adding
<1>2. Counted(t) /\ ~ Counted(t)' /\ \A u \in Threads \ {t} : Counted(u)' <=> Counted(u)
  BY <1>1 DEF Counted, Adding, Still
<1>3. AllCounted' = AllCounted \ {t} /\ t \in AllCounted /\ AllCounted \subseteq Threads
  BY <1>2 DEF AllCounted
<1>4. IsFiniteSet(AllCounted)
  BY <1>3, FS_Subset, ImplicitProducerHashAssumption
<1>5. CountInv'
  <2>1. Cardinality(AllCounted') = Cardinality(AllCounted) - 1 /\ N = Cardinality(AllCounted)
    BY <1>3, <1>4, FS_RemoveElement DEF RoomInv, CountInv
  <2> QED
    BY <1>1, <2>1 DEF CountInv
<1>6. CapacityInv'
  BY <1>1 DEF RoomInv, CapacityInv
<1>7. \A u \in Threads, h \in DOMAIN hashes : (Has(u, h)' <=> Has(u, h)) /\ RoomOf(h)' = RoomOf(h)
  BY <1>1 DEF Has, RoomOf
<1>8. ASSUME NEW u \in Threads PROVE OnceOf(u)'
  <2>1. OnceOf(u)
    BY DEF RoomInv
  <2>2. CASE u # t
    BY <1>1, <2>1, <2>2 DEF OnceOf, Has, Still
  <2>3. CASE u = t
    BY <1>1, <2>1, <2>3 DEF OnceOf
  <2> QED
    BY <2>2, <2>3
<1>9. PICK n \in [Threads -> Nat] : Ranked(n)
  BY DEF RoomInv
<1>10. ASSUME NEW h \in DOMAIN hashes, NEW u \in Threads, Entrant(u, h)'
       PROVE  Counted(u)' /\ n[u] < RoomOf(h)'
  <2>1. u # t /\ Entrant(u, h)
    <3>1. ~ Has(t, h)
      BY <1>1, HasMine
    <3> QED
      BY <1>1, <1>7, <1>10, <3>1 DEF Entrant, Still
  <2> QED
    BY <1>2, <1>7, <1>9, <2>1 DEF Ranked
<1>11. Ranked(n)'
  <2>1. ~ (pc'[t] \in Adding)
    BY <1>1 DEF Adding
  <2>2. \A h \in DOMAIN hashes', u \in Threads : Entrant(u, h)' => Counted(u)' /\ n[u] < RoomOf(h)'
    BY <1>1, <1>10
  <2> QED
    BY <1>1, <1>2, <1>9, <2>1, <2>2, RankStep
<1> QED
  BY <1>5, <1>6, <1>8, <1>9, <1>11 DEF RoomInv

LEMMA RoomGo ==
  ASSUME Inv, RoomInv, NEW t \in Threads, NEW to, NEW l, Go(t, to, l),
         UNCHANGED <<hashes, mine, implicitProducerHashCount>>,
         \/ mine[t] # NoProducer
         \/ to \in Adding \cup {"insert"} <=> pc[t] \in Adding \cup {"insert"},
         to \in Adding => pc[t] \in Adding /\ l.newCount = loc[t].newCount,
         to = "insert" =>
           /\ l.main \in DOMAIN hashes /\ ~ Has(t, l.main)
           /\ \/ \E h \in DOMAIN hashes : h <= l.main /\ Entrant(t, h)
              \/ pc[t] \in Adding /\ loc[t].newCount < RoomOf(l.main),
         to = "probe" => \A h \in DOMAIN hashes : h > l.hash /\ h <= l.main => ~ Has(t, h)
  PROVE  RoomInv'
<1>1. pc'[t] = to /\ loc'[t] = l /\ Still(t)
  BY DEF Inv, TypeOK, Go, Still
<1>2. Counted(t)' <=> Counted(t)
  BY <1>1 DEF Counted
<1> QED
  BY <1>1, <1>2, RoomMoved

LEMMA RoomStart ==
  ASSUME Inv, RoomInv, NEW t \in Threads, Start(t)
  PROVE  RoomInv'
<1> DEFINE n == Len(hashes)
           l == [NoLocals EXCEPT !.main = n, !.hash = n, !.index = Slot(t, n)]
<1>1. TypeOK /\ pc[t] = "idle"
  BY DEF Inv, Start
<1>2. n \in Nat /\ DOMAIN hashes = 1 .. n
  BY <1>1, Domain
<1>3. l.main = n /\ l.hash = n
  BY DEF NoLocals
<1>4. Go(t, "probe", l) /\ UNCHANGED <<hashes, mine, implicitProducerHashCount>>
  BY DEF Start
<1> HIDE DEF l
<1>5. \A h \in DOMAIN hashes : ~ (h > l.hash)
  BY <1>2, <1>3
<1> QED
  BY <1>1, <1>4, <1>5, RoomGo DEF Adding

LEMMA RoomProbe ==
  ASSUME Inv, RoomInv, NEW t \in Threads, Probe(t)
  PROVE  RoomInv'
<1> DEFINE l == loc[t]
           T == hashes[l.hash]
           key == T.key[l.index]
<1>1. TypeOK /\ ThreadInv(t) /\ pc[t] = "probe" /\ l \in Locals /\ t # Null
  BY ImplicitProducerHashAssumption DEF Inv, Probe, TypeOK
<1>2. /\ l.main \in DOMAIN hashes /\ l.hash \in 1 .. l.main /\ l.index \in Slots(T)
      /\ Passed(T, Slot(t, l.hash), l.index, {Null, t})
  BY <1>1 DEF ThreadInv, StandsAt, ProbingAt
<1>3. l.hash \in DOMAIN hashes /\ l.main \in Nat /\ l.hash \in Nat /\ l.hash <= l.main
  BY <1>1, <1>2, Domain, LocalsType
<1>4. T \in Table /\ Slot(t, l.hash) \in Slots(T)
  BY <1>1, <1>3, SlotType
<1>5. UNCHANGED <<hashes, mine, implicitProducerHashCount>>
  BY ProbeStep DEF Probe
<1>6. \A h \in DOMAIN hashes : h > l.hash /\ h <= l.main => ~ Has(t, h)
  BY <1>1 DEF RoomInv, OnceOf
<1>7. CASE key = t
  <2>1. Has(t, l.hash)
    BY <1>2, <1>7 DEF Has
  <2>2. mine[t] # NoProducer
    BY <1>3, <2>1, HasMine
  <2>3. CASE l.hash = l.main
    <3>1. Go(t, "idle", NoLocals)
      BY <1>7, <2>3 DEF Probe, Give, Go
    <3> QED
      BY <1>5, <2>2, <3>1, RoomGo DEF Adding
  <2>4. CASE l.hash # l.main
    <3> DEFINE m == [l EXCEPT !.value = T.value[l.index], !.index = Slot(t, l.main)]
    <3>1. Go(t, "insert", m)
      BY <1>1, <1>7, <2>4 DEF Probe
    <3>2. m.main = l.main
      BY <1>1 DEF Locals
    <3> HIDE DEF m
    <3>3. ~ Has(t, m.main) /\ m.main \in DOMAIN hashes
      BY <1>2, <1>3, <1>6, <2>4, <3>2
    <3>4. \E h \in DOMAIN hashes : h <= m.main /\ Entrant(t, h)
      BY <1>3, <2>1, <3>2 DEF Entrant
    <3> QED
      BY <1>5, <2>2, <3>1, <3>3, <3>4, RoomGo DEF Adding
  <2> QED
    BY <2>3, <2>4
<1>8. ASSUME key = Null PROVE ~ Has(t, l.hash)
  <2>1. \A j \in Slots(T) : T.key[j] = t => Prefix(T, Slot(t, l.hash), j, {Null})
    BY <1>1, <1>3 DEF ThreadInv, EntriesOf
  <2>2. \A j \in Slots(T) : T.key[j] # t
    BY <1>1, <1>2, <1>4, <1>8, <2>1, NotMissed
  <2> QED
    BY <2>2 DEF Has
<1>9. CASE key = Null /\ l.hash = 1
  <2>1. Go(t, "count", l)
    BY <1>1, <1>9 DEF Probe
  <2> QED
    BY <1>1, <1>5, <2>1, RoomGo DEF Adding
<1>10. CASE key = Null /\ l.hash # 1
  <2> DEFINE g == l.hash - 1
             m == [l EXCEPT !.hash = g, !.index = Slot(t, g)]
  <2>1. l.hash > 1
    BY <1>2, <1>3, <1>10
  <2>2. Go(t, "probe", m)
    <3>1. m = [l EXCEPT !.hash = @ - 1, !.index = Slot(t, l.hash - 1)]
      OBVIOUS
    <3> QED
      BY <1>1, <1>10, <2>1, <3>1 DEF Probe
  <2>3. m.main = l.main /\ m.hash = g
    BY <1>1 DEF Locals
  <2> HIDE DEF m
  <2>4. \A h \in DOMAIN hashes : h > m.hash /\ h <= m.main => ~ Has(t, h)
    <3>1. \A h \in DOMAIN hashes : h > g => h = l.hash \/ h > l.hash
      BY <1>1, <1>3, Domain
    <3> QED
      BY <1>6, <1>8, <1>10, <2>3, <3>1
  <2> QED
    BY <1>1, <1>5, <2>2, <2>4, RoomGo DEF Adding
<1>11. CASE key # t /\ key # Null
  <2> DEFINE m == [l EXCEPT !.index = After(l.index, l.hash)]
  <2>1. Go(t, "probe", m)
    BY <1>11 DEF Probe
  <2>2. m.main = l.main /\ m.hash = l.hash
    BY <1>1 DEF Locals
  <2> HIDE DEF m
  <2> QED
    BY <1>1, <1>5, <1>6, <2>1, <2>2, RoomGo DEF Adding
<1> QED
  BY <1>7, <1>9, <1>10, <1>11

\* The steps of adding that leave the tables alone.
LEMMA RoomAdding ==
  ASSUME Inv, RoomInv, NEW t \in Threads, TryLock(t) \/ Unlock(t) \/ Create(t) \/ Wait(t)
  PROVE  RoomInv'
<1> DEFINE l == loc[t]
<1>1. TypeOK /\ l \in Locals /\ UNCHANGED <<hashes, mine, implicitProducerHashCount>>
  BY DEF Inv, TypeOK, TryLock, Unlock, Create, Wait
<1>2. CASE TryLock(t)
  <2>1. pc[t] = "lock" /\ (Go(t, "resize", l) \/ Go(t, "room", l))
    BY <1>2 DEF TryLock
  <2>2. CASE Go(t, "resize", l)
    BY <1>1, <2>1, <2>2, RoomGo DEF Adding
  <2>3. CASE Go(t, "room", l)
    BY <1>1, <2>1, <2>3, RoomGo DEF Adding
  <2> QED
    BY <2>1, <2>2, <2>3
<1>3. CASE Unlock(t)
  <2>1. CASE pc[t] = "unlock"
    <3>1. Go(t, "room", l)
      BY <1>3, <2>1 DEF Unlock
    <3> QED
      BY <1>1, <2>1, <3>1, RoomGo DEF Adding
  <2>2. CASE pc[t] = "give up"
    <3>1. Go(t, "idle", NoLocals)
      BY <1>3, <2>2 DEF Unlock
    <3> QED
      BY <1>1, <2>2, <3>1, RoomGo DEF Adding
  <2> QED
    BY <1>3, <2>1, <2>2 DEF Unlock
<1>4. CASE Create(t)
  <2> DEFINE m == [l EXCEPT !.value = <<t, created'[t]>>, !.index = Slot(t, l.main)]
  <2>1. pc[t] = "room" /\ Go(t, "insert", m) /\ l.newCount < RoomOf(l.main)
    BY <1>4 DEF Create, HasRoom, RoomOf
  <2>2. mine[t] = NoProducer /\ l.main \in DOMAIN hashes
    BY <2>1 DEF Inv, ThreadInv, StandsAt, AddingAt
  <2>3. ~ Has(t, l.main)
    BY <2>2, HasMine
  <2>4. m.main = l.main
    BY <1>1 DEF Locals
  <2> HIDE DEF m
  <2> QED
    BY <1>1, <2>1, <2>2, <2>3, <2>4, RoomGo DEF Adding
<1>5. CASE Wait(t)
  <2> DEFINE m == [l EXCEPT !.main = Len(hashes)]
  <2>1. pc[t] = "room" /\ Go(t, "lock", m)
    BY <1>5 DEF Wait
  <2>2. m.newCount = l.newCount
    BY <1>1 DEF Locals
  <2> HIDE DEF m
  <2> QED
    BY <1>1, <2>1, <2>2, RoomGo DEF Adding
<1> QED
  BY <1>2, <1>3, <1>4, <1>5

\* Who enters a table was counted among its entrants already.
LEMMA RoomEnter ==
  ASSUME Inv, RoomInv, NEW t \in Threads, NEW h \in DOMAIN hashes, NEW i \in Slots(hashes[h]),
         NEW v \in Producers, v # NoProducer, pc[t] = "insert", loc[t].main = h,
         hashes[h].key[i] = Null, EntersAt(t, h, i, v), Give(t, v),
         UNCHANGED implicitProducerHashCount
  PROVE  RoomInv'
<1>1. TypeOK /\ t # Null
  BY ImplicitProducerHashAssumption DEF Inv
<1>2. /\ hashes' \in Seq(Table) /\ Len(hashes') = Len(hashes)
      /\ \A g \in DOMAIN hashes \ {h} : hashes'[g] = hashes[g]
      /\ hashes'[h].capacity = hashes[h].capacity
      /\ \A j \in Slots(hashes[h]) \ {i} : hashes'[h].key[j] = hashes[h].key[j]
      /\ hashes'[h].key[i] = t
  BY <1>1, Entered
<1>3. DOMAIN hashes' = DOMAIN hashes /\ \A g \in DOMAIN hashes : g \in Nat
  BY <1>1, <1>2, Domain
<1>4. /\ pc'[t] = "idle" /\ mine'[t] = v /\ Still(t)
  BY <1>1 DEF Give, TypeOK, Still
<1>5. \A g \in DOMAIN hashes : /\ hashes'[g].capacity = hashes[g].capacity
                               /\ Slots(hashes'[g]) = Slots(hashes[g])
                               /\ RoomOf(g)' = RoomOf(g)
  BY <1>2 DEF Slots, RoomOf
<1>6. \A g \in DOMAIN hashes : \A j \in Slots(hashes[g]) :
        \/ hashes'[g].key[j] = hashes[g].key[j]
        \/ g = h /\ j = i /\ hashes'[g].key[j] = t
  BY <1>2
<1>7. \A u \in Threads, g \in DOMAIN hashes : Has(u, g)' => Has(u, g) \/ (u = t /\ g = h)
  BY <1>5, <1>6 DEF Has
<1>8. \A u \in Threads : Counted(u)' <=> Counted(u)
  BY <1>4 DEF Counted, Still
<1>9. CountInv'
  <2>1. AllCounted' = AllCounted
    BY <1>8 DEF AllCounted
  <2> QED
    BY <2>1 DEF RoomInv, CountInv
<1>10. CapacityInv'
  BY <1>3, <1>5 DEF RoomInv, CapacityInv
<1>11. ASSUME NEW u \in Threads PROVE OnceOf(u)'
  <2>1. OnceOf(u) /\ ~ Has(t, h)
    BY DEF RoomInv, OnceOf
  <2>2. \A j \in Slots(hashes[h]) : hashes[h].key[j] # t
    BY <2>1 DEF Has
  <2>3. ASSUME NEW g \in DOMAIN hashes', NEW j \in Slots(hashes'[g]), NEW k \in Slots(hashes'[g]),
               hashes'[g].key[j] = u, hashes'[g].key[k] = u
        PROVE  j = k
    <3>1. g \in DOMAIN hashes /\ j \in Slots(hashes[g]) /\ k \in Slots(hashes[g])
      BY <1>3, <1>5
    <3>2. CASE g = h /\ u = t
      <4>1. j = i /\ k = i
        BY <1>2, <2>2, <2>3, <3>1, <3>2
      <4> QED
        BY <4>1
    <3>3. CASE ~ (g = h /\ u = t)
      <4>1. hashes[g].key[j] = u /\ hashes[g].key[k] = u
        BY <1>6, <2>3, <3>1, <3>3
      <4> QED
        BY <2>1, <3>1, <4>1 DEF OnceOf
    <3> QED
      BY <3>2, <3>3
  <2>4. CASE u = t
    BY <1>4, <2>3, <2>4 DEF OnceOf
  <2>5. CASE u # t
    <3>1. pc'[u] = pc[u] /\ loc'[u] = loc[u]
      BY <1>4, <2>5 DEF Still
    <3>2. pc[u] = "insert" => loc[u].main \in DOMAIN hashes
      BY DEF Inv, ThreadInv, StandsAt, InsertingAt
    <3>3. pc'[u] = "insert" => ~ Has(u, loc[u].main)'
      <4>1. PICK g : g = loc[u].main
        OBVIOUS
      <4>2. loc'[u].main = g /\ (pc[u] = "insert" => g \in DOMAIN hashes /\ ~ Has(u, g))
        BY <2>1, <3>1, <3>2, <4>1 DEF OnceOf
      <4>3. pc'[u] = "insert" => ~ Has(u, g)'
        BY <1>7, <2>5, <3>1, <4>2
      <4> QED
        BY <4>2, <4>3 DEF Has
    <3>4. pc'[u] = "probe" => \A g \in DOMAIN hashes' :
                               g > loc'[u].hash /\ g <= loc'[u].main => ~ Has(u, g)'
      BY <1>3, <1>7, <2>1, <2>5, <3>1 DEF OnceOf
    <3> QED
      BY <2>3, <3>3, <3>4 DEF OnceOf
  <2> QED
    BY <2>4, <2>5
<1>12. PICK n \in [Threads -> Nat] : Ranked(n)
  BY DEF RoomInv
<1>13. ASSUME NEW g \in DOMAIN hashes', NEW u \in Threads, Entrant(u, g)'
       PROVE  Counted(u)' /\ n[u] < RoomOf(g)'
  <2>1. g \in DOMAIN hashes /\ Entrant(u, g)
    BY <1>3, <1>4, <1>7, <1>13 DEF Entrant, Still
  <2> QED
    BY <1>5, <1>8, <1>12, <2>1 DEF Ranked
<1>14. Ranked(n)'
  <2>1. ~ (pc'[t] \in Adding)
    BY <1>4 DEF Adding
  <2> QED
    BY <1>4, <1>8, <1>12, <1>13, <2>1, RankStep
<1> QED
  BY <1>9, <1>10, <1>11, <1>12, <1>14 DEF RoomInv

LEMMA RoomInsert ==
  ASSUME Inv, RoomInv, NEW t \in Threads, Insert(t)
  PROVE  RoomInv'
<1> DEFINE l == loc[t]
<1>1. TypeOK /\ ThreadInv(t) /\ pc[t] = "insert" /\ l \in Locals
      /\ UNCHANGED implicitProducerHashCount
  BY DEF Inv, Insert, TypeOK
<1>2. /\ l.main \in DOMAIN hashes /\ l.index \in Slots(hashes[l.main]) /\ l.value \in {t} \X Nat
  BY <1>1 DEF ThreadInv, StandsAt, InsertingAt
<1>3. CASE hashes[l.main].key[l.index] = Null
  <2>1. EntersAt(t, l.main, l.index, l.value) /\ Give(t, l.value)
    BY <1>3 DEF Insert, EntersAt
  <2>2. PICK k \in Nat : l.value = <<t, k>>
    BY <1>2
  <2>3. l.value \in Producers /\ l.value # NoProducer
    BY <2>2 DEF Producers, NoProducer
  <2> QED
    BY <1>1, <1>2, <1>3, <2>1, <2>3, RoomEnter
<1>4. CASE hashes[l.main].key[l.index] # Null
  <2> DEFINE m == [l EXCEPT !.index = After(l.index, l.main)]
  <2>1. Go(t, "insert", m) /\ UNCHANGED <<hashes, mine>>
    BY <1>4 DEF Insert
  <2>2. m.main = l.main
    BY <1>1 DEF Locals
  <2> HIDE DEF m
  <2>3. ~ Has(t, l.main) /\ Entrant(t, l.main) /\ l.main <= l.main
    BY <1>1, LocalsType DEF RoomInv, OnceOf, Entrant
  <2> QED
    BY <1>1, <1>2, <2>1, <2>2, <2>3, RoomGo DEF Adding
<1> QED
  BY <1>3, <1>4

\* A larger table is empty, and nobody is about to enter it.
LEMMA RoomResize ==
  ASSUME Inv, RoomInv, NEW t \in Threads, Resize(t)
  PROVE  RoomInv'
<1> DEFINE l == loc[t]
<1>1. TypeOK /\ pc[t] = "resize" /\ l \in Locals /\ UNCHANGED <<implicitProducerHashCount, mine>>
  BY DEF Inv, Resize, TypeOK
<1>2. PICK n \in Nat \ {0} : n = Len(hashes) /\ n \in DOMAIN hashes /\ DOMAIN hashes = 1 .. n
  BY <1>1, Domain
<1>3. CASE ~ HalfFull(t, n)
  <2> DEFINE m == [l EXCEPT !.main = n]
  <2>1. Go(t, "unlock", m) /\ UNCHANGED hashes
    BY <1>2, <1>3 DEF Resize
  <2>2. m.newCount = l.newCount
    BY <1>1 DEF Locals
  <2> HIDE DEF m
  <2> QED
    BY <1>1, <2>1, <2>2, RoomGo DEF Adding
<1>4. CASE HalfFull(t, n)
  <2> DEFINE m == [l EXCEPT !.main = n + 1]
  <2>1. PICK d \in NewCapacities(t) : hashes' = Append(hashes, EmptyHash(d))
    BY <1>2, <1>4 DEF Resize
  <2>2. Go(t, "unlock", m) /\ m.newCount = l.newCount
    BY <1>1, <1>2, <1>4 DEF Resize, Locals
  <2> HIDE DEF m
  <2>3. pc'[t] = "unlock" /\ loc'[t] = m /\ Still(t)
    BY <1>1, <2>2 DEF Go, TypeOK, Still
  <2>4. hashes[n].capacity \in Nat /\ d \in Nat \ {0} /\ hashes[n].capacity <= d
    <3>1. hashes[n].capacity \in Nat \ {0}
      BY <1>1, <1>2, TableType DEF TypeOK
    <3>2. PICK factor \in Nat \ {0} : d = hashes[n].capacity * factor
      BY <1>1, <1>2, <2>1, NewCapacityType
    <3> QED
      BY <3>1, <3>2, Product
  <2>5. /\ EmptyHash(d) \in Table /\ EmptyHash(d).capacity = d
        /\ \A i \in Slots(EmptyHash(d)) : EmptyHash(d).key[i] = Null
    BY <2>4, TableIntro DEF EmptyHash, Producers, Slots
  <2>6. /\ hashes' \in Seq(Table) /\ Len(hashes') = n + 1 /\ hashes'[n + 1] = EmptyHash(d)
        /\ \A h \in 1 .. n : hashes'[h] = hashes[h]
    <3>1. hashes \in Seq(Table)
      BY <1>1 DEF TypeOK
    <3> QED
      BY <1>2, <2>1, <2>5, <3>1
  <2>7. DOMAIN hashes' = 1 .. n + 1
    BY <1>2, <2>6
  <2>8. \A h \in DOMAIN hashes' : h = n + 1 \/ (h \in DOMAIN hashes /\ hashes'[h] = hashes[h])
    BY <1>2, <2>6, <2>7
  <2>9. \A u \in Threads : ~ Has(u, n + 1)'
    BY <2>5, <2>6, ImplicitProducerHashAssumption DEF Has
  <2>10. \A u \in Threads, h \in DOMAIN hashes :
           (Has(u, h)' <=> Has(u, h)) /\ RoomOf(h)' = RoomOf(h)
    BY <1>2, <2>6 DEF Has, RoomOf
  <2>11. \A u \in Threads : Counted(u)' <=> Counted(u)
    BY <1>1, <2>3 DEF Counted, Still, Adding
  <2>12. CountInv'
    <3>1. AllCounted' = AllCounted
      BY <2>11 DEF AllCounted
    <3> QED
      BY <1>1, <3>1 DEF RoomInv, CountInv
  <2>13. CapacityInv'
    <3>1. ASSUME NEW g \in DOMAIN hashes', NEW h \in DOMAIN hashes', g < h
          PROVE  hashes'[g].capacity <= hashes'[h].capacity
      <4>1. g \in DOMAIN hashes /\ hashes'[g] = hashes[g]
        BY <1>2, <2>6, <2>7, <3>1
      <4>2. CASE h \in DOMAIN hashes
        BY <1>2, <2>6, <3>1, <4>1, <4>2 DEF RoomInv, CapacityInv
      <4>3. CASE h = n + 1
        <5>1. hashes[g].capacity <= hashes[n].capacity
          <6>1. hashes[g].capacity \in Nat
            BY <1>1, <4>1, TableType DEF TypeOK
          <6>2. g = n \/ g < n
            BY <1>2, <4>1
          <6> QED
            BY <1>2, <2>4, <4>1, <6>1, <6>2 DEF RoomInv, CapacityInv
        <5>2. hashes[g].capacity \in Nat
          BY <1>1, <4>1, TableType DEF TypeOK
        <5> QED
          BY <2>4, <2>5, <2>6, <4>1, <4>3, <5>1, <5>2
      <4> QED
        BY <2>8, <4>2, <4>3
    <3> QED
      BY <3>1 DEF CapacityInv
  <2>14. ASSUME NEW u \in Threads
         PROVE  /\ pc[u] = "insert" => loc[u].main \in DOMAIN hashes
                /\ pc[u] = "probe" => loc[u].main \in DOMAIN hashes
    BY DEF Inv, ThreadInv, StandsAt, InsertingAt, ProbingAt
  <2>15. ASSUME NEW u \in Threads PROVE OnceOf(u)'
    <3>1. OnceOf(u) /\ u # Null
      BY ImplicitProducerHashAssumption DEF RoomInv
    <3>2. \A h \in DOMAIN hashes' : \A i, j \in Slots(hashes'[h]) :
            hashes'[h].key[i] = u /\ hashes'[h].key[j] = u => i = j
      BY <2>5, <2>6, <2>8, <3>1 DEF OnceOf
    <3>3. pc'[u] \in {"insert", "probe"} => u # t /\ pc'[u] = pc[u] /\ loc'[u] = loc[u]
      BY <2>3 DEF Still
    <3>4. pc'[u] = "insert" => ~ Has(u, loc[u].main)'
      <4>1. PICK g : g = loc[u].main
        OBVIOUS
      <4>2. pc'[u] = "insert" => loc'[u].main = g /\ g \in DOMAIN hashes /\ ~ Has(u, g)
        BY <2>14, <3>1, <3>3, <4>1 DEF OnceOf
      <4>3. pc'[u] = "insert" => ~ Has(u, g)'
        BY <2>10, <4>2
      <4> QED
        BY <4>2, <4>3 DEF Has
    <3>5. pc'[u] = "probe" => \A h \in DOMAIN hashes' :
                               h > loc'[u].hash /\ h <= loc'[u].main => ~ Has(u, h)'
      BY <2>8, <2>9, <2>10, <3>1, <3>3 DEF OnceOf
    <3> QED
      BY <3>2, <3>4, <3>5 DEF OnceOf
  <2>16. PICK r \in [Threads -> Nat] : Ranked(r)
    BY DEF RoomInv
  <2>17. ASSUME NEW h \in DOMAIN hashes', NEW u \in Threads, Entrant(u, h)'
         PROVE  Counted(u)' /\ r[u] < RoomOf(h)'
    <3>1. CASE h = n + 1
      <4>1. pc'[u] = "insert" /\ loc'[u].main = n + 1
        BY <2>9, <2>17, <3>1 DEF Entrant
      <4>2. pc[u] = "insert" /\ loc[u].main = n + 1
        BY <2>3, <4>1 DEF Still
      <4> QED
        BY <1>2, <2>14, <4>2
    <3>2. CASE h \in DOMAIN hashes
      <4>1. Entrant(u, h)
        BY <2>3, <2>10, <2>17, <3>2 DEF Entrant, Still
      <4> QED
        BY <2>10, <2>11, <2>16, <3>2, <4>1 DEF Ranked
    <3> QED
      BY <2>8, <3>1, <3>2
  <2>18. Ranked(r)'
    <3>1. r[t] = loc'[t].newCount
      BY <1>1, <2>2, <2>3, <2>16 DEF Ranked, Adding
    <3> QED
      BY <2>3, <2>11, <2>16, <2>17, <3>1, RankStep
  <2> QED
    BY <2>12, <2>13, <2>15, <2>16, <2>18 DEF RoomInv
<1> QED
  BY <1>3, <1>4

LEMMA RoomStep == Inv /\ RoomInv /\ [Next]_vars => RoomInv'
<1> SUFFICES ASSUME Inv, RoomInv, [Next]_vars PROVE RoomInv'
  OBVIOUS
<1>1. ASSUME NEW t \in Threads, Start(t) \/ get_or_add_implicit_producer(t) PROVE RoomInv'
  BY <1>1, RoomStart, RoomProbe, RoomInsert, RoomCount, RoomAdding, RoomResize, RoomFail
     DEF get_or_add_implicit_producer
<1>2. CASE UNCHANGED vars
  <2>1. /\ UNCHANGED <<hashes, implicitProducerHashCount, implicitProducerHashResizeInProgress>>
        /\ UNCHANGED <<created, failures, pc, loc, mine>>
    BY <1>2 DEF vars
  <2> QED
    BY <2>1 DEF RoomInv, CountInv, CapacityInv, OnceOf, Ranked, AllCounted, Counted, Entrant, Has, RoomOf
<1> QED
  BY <1>1, <1>2 DEF Next

\* Fewer threads than slots have a count for which there is room.
LEMMA RoomSlot ==
  ASSUME Inv, RoomInv
  PROVE  SlotFree
<1> SUFFICES ASSUME NEW h \in DOMAIN hashes, \A i \in DOMAIN hashes[h].key : hashes[h].key[i] # Null
             PROVE  FALSE
  BY DEF SlotFree
<1> DEFINE c == hashes[h].capacity
           key == hashes[h].key
           r == RoomOf(h)
<1>1. PICK n \in [Threads -> Nat] : Ranked(n)
  BY DEF RoomInv
<1>2. hashes[h] \in Table
  BY DEF Inv, TypeOK
<1>3. c \in Nat \ {0} /\ key \in [0 .. c - 1 -> Threads \cup {Null}]
  BY <1>2, TableType DEF Slots
<1>4. r \in Nat /\ r <= c
  BY <1>3, RoomArithmetic DEF RoomOf
<1>5. \A i \in 0 .. c - 1 : key[i] \in Threads /\ Has(key[i], h)
  BY <1>3 DEF Has, Slots
<1>6. \A i \in 0 .. c - 1 : key[i] \in AllCounted /\ n[key[i]] < r
  BY <1>1, <1>5 DEF Ranked, Entrant, AllCounted
<1>7. \A i, j \in 0 .. c - 1 : key[i] = key[j] => i = j
  BY <1>5 DEF RoomInv, OnceOf, Slots
<1>8. r > 0
  BY <1>1, <1>3, <1>4, <1>5, <1>6
<1>9. PICK m \in Nat : m = r - 1
  BY <1>4, <1>8
<1> DEFINE S == {t \in AllCounted : n[t] <= m}
<1>10. Cardinality(S) <= m
  BY <1>1 DEF Ranked
<1>11. IsFiniteSet(S)
  BY FS_Subset, ImplicitProducerHashAssumption DEF AllCounted
<1>12. \A i \in 0 .. c - 1 : key[i] \in S
  BY <1>1, <1>4, <1>5, <1>6, <1>9
<1> HIDE DEF S, c, key, r
<1>13. key \in Injection(0 .. c - 1, S)
  BY <1>3, <1>7, <1>12 DEF Injection, IsInjective
<1>14. IsFiniteSet(0 .. c - 1) /\ Cardinality(0 .. c - 1) = c
  BY <1>3, FS_Interval
<1>15. Cardinality(0 .. c - 1) <= Cardinality(S)
  BY <1>11, <1>13, FS_Injection
<1>16. Cardinality(S) \in Nat
  BY <1>11, FS_CardinalityType
<1> QED
  BY <1>3, <1>4, <1>9, <1>10, <1>14, <1>15, <1>16

\* get_or_add_implicit_producer: `Not an infinite loop because at least one
\* slot is free in the hash table', for any number of threads, whichever of
\* the tables they still hold, and however often a count is given again after
\* an allocation failed.
THEOREM SlotFreeAlways == Spec => []SlotFree
<1>1. Inv /\ RoomInv /\ [Next]_vars => RoomInv'
  BY RoomStep
<1>2. Inv /\ RoomInv => SlotFree
  BY RoomSlot
<1> QED
  BY <1>1, <1>2, InvAlways, RoomInit, PTL DEF Spec
=============================================================================
