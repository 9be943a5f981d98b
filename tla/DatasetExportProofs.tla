------------------------ MODULE DatasetExportProofs ------------------------
(***************************************************************************)
(* Proofs about DatasetExport, for every database and every chunk size:    *)
(* the types, that nothing unrelated is exported, that stations and the    *)
(* programs of events are exported with what belongs to them, that the     *)
(* dump holds each id once, and that good data are exported.               *)
(***************************************************************************)
EXTENDS DatasetExport, FiniteSetTheorems, TLAPS

-----------------------------------------------------------------------------
(* chunkedList and the lists it cuts.                                      *)

\* max(1, count) and the smaller of two bounds.
LEMMA MaxOne ==
  ASSUME NEW count \in Nat
  PROVE  Max({1, count}) \in Nat \ {0}
<1>1. \E x \in {1, count} : \A y \in {1, count} : x >= y
  <2>1. CASE count >= 1
    BY <2>1
  <2>2. CASE ~(count >= 1)
    BY <2>2
  <2> QED BY <2>1, <2>2
<1>2. Max({1, count}) \in {1, count} /\ \A y \in {1, count} : Max({1, count}) >= y
  BY <1>1 DEF Max
<1> QED BY <1>2

LEMMA MinOfTwo ==
  ASSUME NEW a \in Int, NEW b \in Int
  PROVE  Min({a, b}) = IF a <= b THEN a ELSE b
<1>1. \E x \in {a, b} : \A y \in {a, b} : x =< y
  <2>1. CASE a <= b
    BY <2>1
  <2>2. CASE ~(a <= b)
    BY <2>2
  <2> QED BY <2>1, <2>2
<1>2. Min({a, b}) \in {a, b} /\ \A y \in {a, b} : Min({a, b}) =< y
  BY <1>1 DEF Min
<1> QED BY <1>2

\* Division by a positive number.
LEMMA Division ==
  ASSUME NEW a \in Nat, NEW c \in Nat \ {0}
  PROVE  /\ a \div c \in Nat
         /\ (a \div c) * c <= a
         /\ a < (a \div c) * c + c
  OBVIOUS

LEMMA Times ==
  ASSUME NEW i \in Nat \ {0}, NEW c \in Nat \ {0}
  PROVE  /\ (i - 1) * c \in Nat
         /\ i * c \in Nat
         /\ i * c = (i - 1) * c + c
  OBVIOUS

\* A chunk holds elements of the list.
LEMMA ChunksType ==
  ASSUME NEW S, NEW list \in Seq(S), NEW count \in Nat
  PROVE  chunkedList(list, count) \in Seq(Seq(S))
<1> DEFINE c == Max({1, count})
           n == (Len(list) + c - 1) \div c
<1>1. c \in Nat \ {0}
  BY MaxOne
<1>2. Len(list) + c - 1 \in Nat
  BY <1>1
<1> HIDE DEF c
<1>3. n \in Nat
  BY <1>1, <1>2, Division
<1> HIDE DEF n
<1>4. ASSUME NEW i \in 1 .. n
      PROVE  SubSeq(list, (i - 1) * c + 1, Min({i * c, Len(list)})) \in Seq(S)
  <2>1. (i - 1) * c \in Nat /\ i * c \in Nat
    BY <1>1, <1>3, Times
  <2> DEFINE m == (i - 1) * c + 1
             l == Min({i * c, Len(list)})
  <2>2. l = IF i * c <= Len(list) THEN i * c ELSE Len(list)
    BY <2>1, MinOfTwo
  <2> HIDE DEF l
  <2>3. m \in Nat \ {0} /\ l \in Nat /\ l <= Len(list)
    BY <2>1, <2>2
  <2> HIDE DEF m
  <2>4. SubSeq(list, m, l) \in Seq(S)
    BY <2>3
  <2> QED BY <2>4 DEF m, l
<1>5. [i \in 1 .. n |-> SubSeq(list, (i - 1) * c + 1, Min({i * c, Len(list)}))]
        \in Seq(Seq(S))
  BY <1>3, <1>4
<1> QED BY <1>5 DEF chunkedList, n, c

\* No element of the list is left out of the chunks.
LEMMA ChunksCover ==
  ASSUME NEW S, NEW list \in Seq(S), NEW count \in Nat,
         NEW j \in 1 .. Len(list)
  PROVE  \E i \in DOMAIN chunkedList(list, count) :
           list[j] \in ToSet(chunkedList(list, count)[i])
<1> DEFINE c == Max({1, count})
           n == (Len(list) + c - 1) \div c
           k == (j - 1) \div c
<1>1. c \in Nat \ {0}
  BY MaxOne
<1> HIDE DEF c
<1>0. j - 1 \in Nat /\ Len(list) + c - 1 \in Nat
  BY <1>1
<1>2. k \in Nat /\ k * c <= j - 1 /\ j - 1 < k * c + c
  BY <1>0, <1>1, Division
<1>3. n \in Nat /\ n * c <= Len(list) + c - 1 /\ Len(list) + c - 1 < n * c + c
  BY <1>0, <1>1, Division
<1> HIDE DEF k, n
<1>4. k * c < n * c
  BY <1>1, <1>2, <1>3
<1>5. k < n
  <2>1. ASSUME n <= k PROVE FALSE
    <3>1. n * c <= k * c
      BY <1>1, <1>2, <1>3, <2>1
    <3> QED BY <1>1, <1>2, <1>3, <1>4, <3>1
  <2> QED BY <1>2, <1>3, <2>1
<1>6. PICK i \in 1 .. n : i = k + 1
  BY <1>2, <1>3, <1>5
<1>7. (i - 1) * c = k * c /\ i * c = k * c + c
  BY <1>1, <1>2, <1>6
<1> DEFINE m == (i - 1) * c + 1
           l == Min({i * c, Len(list)})
<1>8. list[j] \in ToSet(SubSeq(list, m, l))
  <2>1. k * c \in Nat
    BY <1>1, <1>2
  <2>2. l = IF i * c <= Len(list) THEN i * c ELSE Len(list)
    BY <1>1, <1>7, <2>1, MinOfTwo
  <2> HIDE DEF l
  <2>3. m \in Nat /\ l \in Nat /\ m >= 1 /\ m <= j /\ j <= l /\ l <= Len(list)
    BY <1>1, <1>2, <1>7, <2>1, <2>2
  <2> HIDE DEF m
  <2>4. j - m + 1 \in 1 .. l - m + 1
    BY <2>3
  <2>5. SubSeq(list, m, l)[j - m + 1] = list[j]
    BY <2>3, <2>4
  <2>6. j - m + 1 \in DOMAIN SubSeq(list, m, l)
    BY <2>3, <2>4
  <2> QED BY <2>5, <2>6, Zenon DEF ToSet
<1>9. chunkedList(list, count) =
        [h \in 1 .. n |-> SubSeq(list, (h - 1) * c + 1, Min({h * c, Len(list)}))]
  BY Zenon DEF chunkedList, c, n
<1>10. DOMAIN chunkedList(list, count) = 1 .. n
  BY <1>9, Zenon
<1>11. chunkedList(list, count)[i] = SubSeq(list, m, l)
  BY <1>9, Zenon
<1> QED BY <1>8, <1>10, <1>11, Zenon

\* list(ids) holds the ids, each of them.
LEMMA ListOfSet ==
  ASSUME NEW S, IsFiniteSet(S), NEW list \in SetToSeqs(S)
  PROVE  /\ list \in Seq(S)
         /\ \A s \in S : \E j \in 1 .. Len(list) : list[j] = s
<1> DEFINE n == Cardinality(S)
<1>1. n \in Nat
  BY FS_CardinalityType
<1>2. list \in [1 .. n -> S] /\ \A i, j \in 1 .. n : i # j => list[i] # list[j]
  BY DEF SetToSeqs
<1>3. IsFiniteSet(1 .. n) /\ Cardinality(1 .. n) = n
  BY <1>1, FS_Interval
<1> HIDE DEF n
<1>4. list \in Injection(1 .. n, S)
  BY <1>2 DEF Injection, IsInjective
<1>5. list \in Surjection(1 .. n, S)
  BY <1>3, <1>4, FS_Injection DEF n
<1>6. \A s \in S : \E j \in 1 .. n : list[j] = s
  BY <1>5 DEF Surjection
<1>7. list \in Seq(S) /\ Len(list) = n
  BY <1>1, <1>2
<1> QED BY <1>6, <1>7

\* What is in a chunk: the elements at its place in the list, at least one.
LEMMA ChunkElements ==
  ASSUME NEW S, NEW list \in Seq(S), NEW count \in Nat
  PROVE  \E c \in Nat \ {0} : \A i \in DOMAIN chunkedList(list, count) :
           /\ i \in Nat \ {0}
           /\ (i - 1) * c + 1 \in 1 .. Len(list)
           /\ \A x : x \in ToSet(chunkedList(list, count)[i]) <=>
                \E j \in 1 .. Len(list) : (i - 1) * c < j /\ j <= i * c /\ x = list[j]
<1> DEFINE c == Max({1, count})
           n == (Len(list) + c - 1) \div c
<1>1. c \in Nat \ {0}
  BY MaxOne
<1>2. Len(list) \in Nat /\ Len(list) + c - 1 \in Nat
  BY <1>1
<1>3. chunkedList(list, count) =
        [h \in 1 .. n |-> SubSeq(list, (h - 1) * c + 1, Min({h * c, Len(list)}))]
  BY Zenon DEF chunkedList
<1> HIDE DEF c
<1>4. n \in Nat /\ n * c <= Len(list) + c - 1
  BY <1>1, <1>2, Division
<1> HIDE DEF n
<1>5. DOMAIN chunkedList(list, count) = 1 .. n
  BY <1>3, Zenon
<1>6. ASSUME NEW i \in 1 .. n
      PROVE  /\ i \in Nat \ {0}
             /\ (i - 1) * c + 1 \in 1 .. Len(list)
             /\ \A x : x \in ToSet(chunkedList(list, count)[i]) <=>
                  \E j \in 1 .. Len(list) : (i - 1) * c < j /\ j <= i * c /\ x = list[j]
  <2> DEFINE m == (i - 1) * c + 1
             l == Min({i * c, Len(list)})
  <2>0. i \in Nat \ {0}
    BY <1>4
  <2>1. (i - 1) * c \in Nat /\ i * c \in Nat /\ i * c = (i - 1) * c + c
    BY <1>1, <2>0, Times
  <2>2. i * c <= n * c
    BY <1>1, <1>4, <2>0
  <2>3. (i - 1) * c + 1 \in 1 .. Len(list)
    <3>1. n * c \in Nat
      BY <1>1, <1>4
    <3> QED BY <1>1, <1>2, <1>4, <2>1, <2>2, <3>1
  <2>4. l = IF i * c <= Len(list) THEN i * c ELSE Len(list)
    BY <1>2, <2>1, MinOfTwo
  <2>5. chunkedList(list, count)[i] = SubSeq(list, m, l)
    BY <1>3, Zenon
  <2> HIDE DEF l
  <2>6. m \in 1 .. Len(list) /\ l \in 1 .. Len(list) /\ m <= l
    BY <1>1, <1>2, <2>1, <2>3, <2>4
  <2>7. \A j \in 1 .. Len(list) : (i - 1) * c < j /\ j <= i * c <=> m <= j /\ j <= l
    BY <1>2, <2>1, <2>4
  <2> HIDE DEF m
  <2>8. DOMAIN SubSeq(list, m, l) = 1 .. l - m + 1
    BY <2>6
  <2>9. \A k \in 1 .. l - m + 1 : SubSeq(list, m, l)[k] = list[m + k - 1]
    BY <2>6
  <2>10. \A x : x \in ToSet(SubSeq(list, m, l)) <=>
           \E k \in 1 .. l - m + 1 : x = list[m + k - 1]
    BY <2>8, <2>9 DEF ToSet
  <2>11. ASSUME NEW x
         PROVE  (\E k \in 1 .. l - m + 1 : x = list[m + k - 1]) <=>
                  \E j \in 1 .. Len(list) : m <= j /\ j <= l /\ x = list[j]
    <3>1. ASSUME NEW k \in 1 .. l - m + 1, x = list[m + k - 1]
          PROVE  \E j \in 1 .. Len(list) : m <= j /\ j <= l /\ x = list[j]
      <4>1. m + k - 1 \in 1 .. Len(list) /\ m <= m + k - 1 /\ m + k - 1 <= l
        BY <2>6
      <4> QED BY <3>1, <4>1
    <3>2. ASSUME NEW j \in 1 .. Len(list), m <= j, j <= l, x = list[j]
          PROVE  \E k \in 1 .. l - m + 1 : x = list[m + k - 1]
      <4>1. j - m + 1 \in 1 .. l - m + 1 /\ m + (j - m + 1) - 1 = j
        BY <2>6, <3>2
      <4> QED BY <3>2, <4>1
    <3> QED BY <3>1, <3>2
  <2> QED BY <2>0, <2>3, <2>5, <2>7, <2>10, <2>11
<1> QED BY <1>1, <1>5, <1>6

\* Two chunks of a list without repetitions have nothing in common.
LEMMA ChunksApart ==
  ASSUME NEW S, NEW list \in Seq(S), NEW count \in Nat,
         \A j, k \in 1 .. Len(list) : list[j] = list[k] => j = k,
         NEW h \in DOMAIN chunkedList(list, count), NEW i \in DOMAIN chunkedList(list, count),
         NEW x \in ToSet(chunkedList(list, count)[h]) \cap ToSet(chunkedList(list, count)[i])
  PROVE  h = i
<1>1. PICK c \in Nat \ {0} : \A g \in DOMAIN chunkedList(list, count) :
           /\ g \in Nat \ {0}
           /\ (g - 1) * c + 1 \in 1 .. Len(list)
           /\ \A y : y \in ToSet(chunkedList(list, count)[g]) <=>
                \E j \in 1 .. Len(list) : (g - 1) * c < j /\ j <= g * c /\ y = list[j]
  BY ChunkElements, Zenon
<1>2. PICK j \in 1 .. Len(list) : (h - 1) * c < j /\ j <= h * c /\ x = list[j]
  BY <1>1
<1>3. PICK k \in 1 .. Len(list) : (i - 1) * c < k /\ k <= i * c /\ x = list[k]
  BY <1>1
<1>4. j = k /\ h \in Nat \ {0} /\ i \in Nat \ {0}
  BY <1>1, <1>2, <1>3
<1>5. ASSUME NEW a \in Nat \ {0}, NEW b \in Nat \ {0}, a < b PROVE a * c <= (b - 1) * c
  <2>1. b - 1 - a \in Nat /\ b - 1 = a + (b - 1 - a)
    BY <1>5
  <2>2. \A d \in Nat : d * c \in Nat /\ (a + d) * c = a * c + d * c /\ a * c \in Nat
    OBVIOUS
  <2>3. (b - 1) * c = a * c + (b - 1 - a) * c /\ (b - 1 - a) * c \in Nat /\ a * c \in Nat
    BY <2>1, <2>2
  <2> QED BY <2>3
<1>6. j \in Nat /\ h * c \in Nat /\ i * c \in Nat /\ (h - 1) * c \in Nat /\ (i - 1) * c \in Nat
  BY <1>4
<1>7. ~ (h < i) /\ ~ (i < h)
  <2>1. ASSUME h < i PROVE FALSE
    <3>1. h * c <= (i - 1) * c
      BY <1>4, <1>5, <2>1
    <3> QED BY <1>2, <1>3, <1>4, <1>6, <3>1
  <2>2. ASSUME i < h PROVE FALSE
    <3>1. i * c <= (h - 1) * c
      BY <1>4, <1>5, <2>2
    <3> QED BY <1>2, <1>3, <1>4, <1>6, <3>1
  <2> QED BY <2>1, <2>2
<1> QED BY <1>4, <1>7

\* list(ids), in the order SetToSeq chooses.
LEMMA ChosenList ==
  ASSUME NEW S, IsFiniteSet(S)
  PROVE  /\ SetToSeq(S) \in Seq(S)
         /\ \A s \in S : \E j \in 1 .. Len(SetToSeq(S)) : SetToSeq(S)[j] = s
         /\ \A j, k \in 1 .. Len(SetToSeq(S)) : SetToSeq(S)[j] = SetToSeq(S)[k] => j = k
<1> DEFINE n == Cardinality(S)
           list == SetToSeq(S)
<1>1. n \in Nat /\ ExistsBijection(1 .. n, S)
  BY FS_CardinalityType
<1>2. \E f \in [1 .. n -> S] : IsInjective(f)
  BY <1>1 DEF ExistsBijection, Bijection, Injection
<1>3. list \in [1 .. n -> S] /\ IsInjective(list)
  BY <1>2 DEF SetToSeq
<1> HIDE DEF n, list
<1>4. list \in Seq(S) /\ Len(list) = n
  BY <1>1, <1>3
<1>5. IsFiniteSet(1 .. n) /\ Cardinality(1 .. n) = n
  BY <1>1, FS_Interval
<1>6. list \in Injection(1 .. n, S)
  BY <1>3 DEF Injection
<1>7. list \in Surjection(1 .. n, S)
  BY <1>5, <1>6, FS_Injection DEF n
<1>8. \A s \in S : \E j \in 1 .. n : list[j] = s
  BY <1>7 DEF Surjection
<1>9. \A j, k \in 1 .. n : list[j] = list[k] => j = k
  BY <1>3 DEF IsInjective
<1> QED BY <1>4, <1>8, <1>9 DEF list

-----------------------------------------------------------------------------
(* The frame of the handlers.                                              *)

\* The order of the calls, one by one.
LEMMA Order ==
  /\ After["collections"] = "affiliates" /\ After["affiliates"] = "teams"
  /\ After["teams"] = "universities" /\ After["universities"] = "conferences"
  /\ After["conferences"] = "lineups" /\ After["lineups"] = "schedules"
  /\ After["schedules"] = "programs" /\ After["programs"] = "persons"
  /\ After["persons"] = "stations" /\ After["stations"] = "write"
  /\ DOMAIN After = {"collections", "affiliates", "teams", "universities",
       "conferences", "lineups", "schedules", "programs", "persons", "stations"}
  /\ DOMAIN ChunkTopic = {"schedules", "programs", "persons", "stations"}
  /\ ChunkTopic["schedules"] = "station" /\ ChunkTopic["stations"] = "station"
  BY DEF After, ChunkTopic

\* What the queries return.
LEMMA QueryTypes ==
  ASSUME db \in Databases, NEW ids, NEW t
  PROVE  /\ Rows(t) \subseteq Objects
         /\ \A o \in Rows(t) : TopicOf[o] = t /\ o \in db.stored
         /\ Refs(ids, t) \subseteq Objects
         /\ \A o \in Refs(ids, t) :
              TopicOf[o] = t /\ \E p \in ids : <<p, o>> \in db.refs
  BY ExportAssumption DEF Rows, OfTopic, Refs

\* s is in a chunk the running handler has still to select.
Pending(s) == \E i \in DOMAIN todo : s \in ToSet(todo[i])

\* A handler starts with every id of its topic in its chunks.
LEMMA StartFacts ==
  ASSUME NEW step, exported' \subseteq Objects, Start(step)
  PROVE  /\ pc' = step
         /\ last' = None
         /\ todo' \in Seq(Seq(exported'))
         /\ step \in DOMAIN ChunkTopic =>
              \A s \in OfTopic(exported', ChunkTopic[step]) : Pending(s)'
<1>1. CASE step \in DOMAIN ChunkTopic
  <2> DEFINE S == OfTopic(exported', ChunkTopic[step])
  <2>1. PICK list \in SetToSeqs(S) : todo' = chunkedList(list, ChunkSize)
    BY <1>1 DEF Start
  <2>2. S \subseteq exported' /\ S \subseteq Objects
    BY DEF OfTopic
  <2>3. IsFiniteSet(S)
    BY <2>2, ExportAssumption, FS_Subset
  <2> HIDE DEF S
  <2>4. /\ list \in Seq(S)
        /\ \A s \in S : \E j \in 1 .. Len(list) : list[j] = s
    BY <2>1, <2>3, ListOfSet
  <2>5. list \in Seq(exported')
    BY <2>2, <2>4
  <2>6. todo' \in Seq(Seq(exported'))
    BY <2>1, <2>5, ChunksType, ExportAssumption
  <2>7. ASSUME NEW s \in S PROVE \E i \in DOMAIN todo' : s \in ToSet(todo'[i])
    <3>1. PICK j \in 1 .. Len(list) : list[j] = s
      BY <2>4
    <3>2. \E i \in DOMAIN chunkedList(list, ChunkSize) :
            list[j] \in ToSet(chunkedList(list, ChunkSize)[i])
      BY <2>4, ChunksCover, ExportAssumption
    <3> QED BY <2>1, <3>1, <3>2
  <2> QED BY <2>6, <2>7 DEF Start, Pending, S
<1>2. CASE step \notin DOMAIN ChunkTopic
  BY <1>2 DEF Start
<1> QED BY <1>1, <1>2

\* A chunk is done: its ids are collected ones, and what was pending is in it
\* or stays pending.
LEMMA ChunkFacts ==
  ASSUME TypeOK, todo # <<>>, NEW ids \in SUBSET Objects, NEW row, EndChunk(ids, row)
  PROVE  /\ Chunk \subseteq exported
         /\ todo' \in Seq(Seq(exported'))
         /\ \A s : Pending(s) => s \in Chunk \/ Pending(s)'
<1>1. todo \in Seq(Seq(exported)) /\ todo' = Tail(todo) /\ exported \subseteq exported'
  BY DEF TypeOK, EndChunk
<1>2. Head(todo) \in Seq(exported) /\ Tail(todo) \in Seq(Seq(exported))
  BY <1>1
<1>3. Chunk \subseteq exported
  BY <1>2 DEF Chunk, ToSet
<1>4. todo' \in Seq(Seq(exported'))
  <2>1. Seq(exported) \subseteq Seq(exported')
    BY <1>1
  <2> HIDE DEF Chunk
  <2> QED BY <1>1, <1>2, <2>1
<1>5. ASSUME NEW s, Pending(s), s \notin Chunk PROVE Pending(s)'
  <2>1. PICK i \in DOMAIN todo : s \in ToSet(todo[i])
    BY <1>5 DEF Pending
  <2>2. i # 1
    BY <1>1, <1>5, <2>1 DEF Chunk
  <2>3. i - 1 \in DOMAIN Tail(todo) /\ Tail(todo)[i - 1] = todo[i]
    BY <1>1, <2>1, <2>2
  <2> QED BY <1>1, <2>1, <2>3 DEF Pending
<1> QED BY <1>3, <1>4, <1>5

-----------------------------------------------------------------------------
(* Every step either leaves what was collected alone and stops the script, *)
(* or adds ids that belong to the request and moves one of the handlers on.*)

\* o belongs to the request if the ids of S do.
Related(o, S) ==
  \/ o \in db.stored /\ TopicOf[o] \in Collections \cup
                          {"affiliation", "team", "university", "conference"}
  \/ o \in db.requested
  \/ \E p \in S : <<p, o>> \in db.refs

\* A step that stops the script or has not started it.
Quiet ==
  /\ pc' \in {"collections", "exited", "failed", "crashed"}
  /\ UNCHANGED <<db, exported, todo, last, sql>>

\* A handler returns, or ends a chunk, having added ids.
Returns(step, ids) == pc = step /\ step \in DOMAIN After /\ Finish(step, ids)

Reads(step, ids, row) ==
  /\ pc = step
  /\ step \in DOMAIN ChunkTopic
  /\ todo # <<>>
  /\ EndChunk(ids, row)
  /\ row \in exported \cup {None}

\* The ids a handler may add.
Sound(ids) ==
  /\ ids \in SUBSET Objects
  /\ \A o \in ids : Related(o, exported \cup ids)

\* The days and the logos that go with a station.
DaysOf(s) == (Rows("day") \cap db.window \cap Refs({s}, "day")) \ db.empty

LogosOf(s) == IF s \in db.stored THEN Refs({s}, "image") ELSE {}

\* The stations of the lineups asked for.
LineupStations == Refs(Rows("lineup") \cap db.requested, "station")

\* The programs of a day's events, and what goes with a program.
EventsOf(d) == Refs({d}, "program")

MaterialOf(p) ==
  IF p \in Rows("program")
  THEN Refs({p}, "image") \cup Refs({p}, "program") \cup Refs({p}, "person") ELSE {}

\* A handler returns, having added what it is for.
Collects(step, ids) ==
  /\ Sound(ids)
  /\ Returns(step, ids)
  /\ OfTopic(ids, "day") = {}
  /\ step = "lineups" => LineupStations \subseteq ids
  /\ step \in DOMAIN ChunkTopic => todo = <<>> /\ ids = {}

\* A handler ends a chunk, having added what it is for.
Selects(step, ids, row) ==
  /\ Sound(ids)
  /\ Reads(step, ids, row)
  /\ \A o \in ids : TopicOf[o] # "station"
  /\ step = "schedules" => \A s \in Chunk : DaysOf(s) \subseteq ids
  /\ step = "stations" => \A s \in OfTopic(Chunk, "station") : LogosOf(s) \subseteq ids
  /\ step # "schedules" => OfTopic(ids, "day") = {}
  /\ \A d \in OfTopic(ids, "day") : EventsOf(d) \subseteq ids
  /\ step = "programs" => \A p \in Chunk : MaterialOf(p) \subseteq ids

\* The script is written, or nothing happens.
Closes ==
  /\ UNCHANGED <<db, exported, todo, last, sql>>
  /\ pc' = pc \/ (pc = "script" /\ pc' = "done")

\* Rows are related when their table is exported whole; what rows refer to is
\* related when they are exported.
LEMMA RelatedRefs ==
  ASSUME db \in Databases, NEW rows, NEW t, NEW S, rows \subseteq S
  PROVE  \A o \in Refs(rows, t) : Related(o, S)
  BY QueryTypes DEF Related

\* The handlers that read whole tables, and the ends of the chunked ones.
LEMMA TableHandlers ==
  ASSUME db \in Databases, TypeOK,
         handleFullCollection \/ handleAffiliates \/ handleTeams
           \/ handleUniversities \/ handleConferences \/ handleLineups
  PROVE  Quiet \/ \E step \in DOMAIN After : \E ids :
           /\ step \in {"collections", "affiliates", "teams", "universities",
                        "conferences", "lineups"}
           /\ Sound(ids)
           /\ Returns(step, ids)
           /\ OfTopic(ids, "day") = {}
           /\ step = "lineups" => LineupStations \subseteq ids
<1> USE Order
<1>1. CASE handleFullCollection
  <2> DEFINE ids == {o \in db.stored : TopicOf[o] \in Collections}
  <2>1. Sound(ids)
    BY ExportAssumption DEF Sound, Related
  <2>2. Returns("collections", ids)
    BY <1>1 DEF handleFullCollection, Returns
  <2>3. OfTopic(ids, "day") = {}
    BY ExportAssumption DEF OfTopic, SelectedTopics
  <2> QED BY <2>1, <2>2, <2>3
<1>2. CASE handleAffiliates
  <2> DEFINE rows == Rows("affiliation")
             ids == rows \cup Refs(rows, "station")
  <2>1. Sound(ids)
    <3>1. ids \in SUBSET Objects /\ \A o \in rows : Related(o, exported \cup ids)
      BY QueryTypes DEF Related
    <3> QED BY <3>1, RelatedRefs DEF Sound
  <2>2. Quiet \/ Returns("affiliates", ids)
    BY <1>2 DEF handleAffiliates, Returns, Quiet, Crash
  <2>3. OfTopic(ids, "day") = {}
    BY QueryTypes DEF OfTopic
  <2> QED BY <2>1, <2>2, <2>3
<1>3. CASE handleTeams
  <2> DEFINE rows == Rows("team")
             ids == rows \cup Refs(rows, "image")
  <2>1. Sound(ids)
    <3>1. ids \in SUBSET Objects /\ \A o \in rows : Related(o, exported \cup ids)
      BY QueryTypes DEF Related
    <3> QED BY <3>1, RelatedRefs DEF Sound
  <2>2. Quiet \/ Returns("teams", ids)
    BY <1>3 DEF handleTeams, Returns, Quiet, Crash
  <2>3. OfTopic(ids, "day") = {}
    BY QueryTypes DEF OfTopic
  <2> QED BY <2>1, <2>2, <2>3
<1>4. CASE handleUniversities
  <2> DEFINE rows == Rows("university")
             ids == rows \cup Refs(rows \ db.empty, "image")
  <2>1. Sound(ids)
    <3>1. ids \in SUBSET Objects /\ \A o \in rows : Related(o, exported \cup ids)
      BY QueryTypes DEF Related
    <3> QED BY <3>1, RelatedRefs DEF Sound
  <2>2. Returns("universities", ids)
    BY <1>4 DEF handleUniversities, Returns
  <2>3. OfTopic(ids, "day") = {}
    BY QueryTypes DEF OfTopic
  <2> QED BY <2>1, <2>2, <2>3
<1>5. CASE handleConferences
  <2> DEFINE rows == Rows("conference")
             ids == rows \cup Refs(rows \ db.empty, "image")
  <2>1. Sound(ids)
    <3>1. ids \in SUBSET Objects /\ \A o \in rows : Related(o, exported \cup ids)
      BY QueryTypes DEF Related
    <3> QED BY <3>1, RelatedRefs DEF Sound
  <2>2. Returns("conferences", ids)
    BY <1>5 DEF handleConferences, Returns
  <2>3. OfTopic(ids, "day") = {}
    BY QueryTypes DEF OfTopic
  <2> QED BY <2>1, <2>2, <2>3
<1>6. CASE handleLineups
  <2> DEFINE rows == Rows("lineup") \cap db.requested
             ids == rows \cup Refs(rows, "station") \cup Refs(rows, "headend")
  <2>1. Sound(ids)
    <3>1. ids \in SUBSET Objects /\ \A o \in rows : Related(o, exported \cup ids)
      BY QueryTypes DEF Related
    <3> QED BY <3>1, RelatedRefs DEF Sound
  <2>2. Quiet \/ Returns("lineups", ids)
    BY <1>6 DEF handleLineups, Returns, Quiet, Crash
  <2>3. OfTopic(ids, "day") = {}
    BY QueryTypes DEF OfTopic
  <2> QED BY <2>1, <2>2, <2>3 DEF LineupStations
<1> QED BY <1>1, <1>2, <1>3, <1>4, <1>5, <1>6

\* The handlers that work in chunks.
LEMMA ChunkHandlers ==
  ASSUME db \in Databases, TypeOK,
         handleSchedules \/ handlePrograms \/ handlePerson \/ handleStations
  PROVE  Quiet \/ \E step \in DOMAIN ChunkTopic : \E ids, row : Selects(step, ids, row)
<1> USE Order DEF Selects
<1>0. Chunk \subseteq exported
  <2>1. todo \in Seq(Seq(exported)) /\ todo # <<>>
    BY DEF TypeOK, handleSchedules, handlePrograms, handlePerson, handleStations
  <2>2. Head(todo) \in Seq(exported)
    BY <2>1
  <2> QED BY <2>2 DEF Chunk, ToSet
<1>1. CASE handleSchedules
  <2> DEFINE rows == Rows("day") \cap db.window \cap Refs(Chunk, "day")
             days == rows \ db.empty
             ids == days \cup Refs(days, "program")
  <2>1. Quiet \/ Reads("schedules", ids, None)
    BY <1>1 DEF handleSchedules, Reads, Quiet, Crash
  <2>2. \A o \in Refs(Chunk, "day") : Related(o, exported \cup ids)
    BY <1>0, RelatedRefs
  <2>3. \A o \in Refs(days, "program") : Related(o, exported \cup ids)
    BY RelatedRefs
  <2>4. Sound(ids) /\ \A o \in ids : TopicOf[o] # "station"
    <3>1. ids \in SUBSET Objects
      BY QueryTypes
    <3>2. \A o \in ids : TopicOf[o] # "station"
      BY QueryTypes
    <3> QED BY <3>1, <3>2, <2>2, <2>3 DEF Sound
  <2>5. \A s \in Chunk : DaysOf(s) \subseteq ids
    BY DEF DaysOf, Refs
  <2>6. \A d \in OfTopic(ids, "day") : EventsOf(d) \subseteq ids
    <3>1. \A d \in OfTopic(ids, "day") : d \in days
      BY QueryTypes DEF OfTopic
    <3> QED BY <3>1 DEF EventsOf, Refs
  <2> QED BY <2>1, <2>4, <2>5, <2>6
<1>2. CASE handlePrograms
  <2> DEFINE rows == Rows("program") \cap Chunk
             ids == Refs(rows, "image") \cup Refs(rows, "program")
                      \cup Refs(rows, "person")
  <2>1. \A row \in LastRow(rows) : row \in exported \cup {None}
    BY <1>0 DEF LastRow, TypeOK
  <2>2. Quiet \/ \E row : Reads("programs", ids, row)
    BY <1>2, <2>1 DEF handlePrograms, Reads, Quiet, Crash
  <2>3. \A o \in ids : Related(o, exported \cup ids)
    BY <1>0, RelatedRefs
  <2>4. Sound(ids) /\ \A o \in ids : TopicOf[o] # "station"
    <3>1. ids \in SUBSET Objects
      BY QueryTypes
    <3>2. \A o \in ids : TopicOf[o] # "station"
      BY QueryTypes
    <3> QED BY <3>1, <3>2, <2>3 DEF Sound
  <2>5. OfTopic(ids, "day") = {}
    BY QueryTypes DEF OfTopic
  <2>6. \A p \in Chunk : MaterialOf(p) \subseteq ids
    BY DEF MaterialOf, Refs
  <2> QED BY <2>2, <2>4, <2>5, <2>6
<1>3. CASE handlePerson
  <2>1. PICK row \in LastRow(Rows("person") \cap Chunk) :
          IF row = None \/ row \in db.empty
          THEN Crash
          ELSE EndChunk(Refs({row}, "image") \cup Refs({row}, "program"), row)
    BY <1>3 DEF handlePerson
  <2> DEFINE ids == Refs({row}, "image") \cup Refs({row}, "program")
  <2>2. row \in exported \cup {None}
    BY <1>0, <2>1 DEF LastRow, TypeOK
  <2>3. Quiet \/ (row # None /\ Reads("persons", ids, row))
    BY <1>3, <2>1, <2>2 DEF handlePerson, Reads, Quiet, Crash
  <2>4. row # None => \A o \in ids : Related(o, exported \cup ids)
    BY <2>2, RelatedRefs
  <2>5. row # None => Sound(ids) /\ \A o \in ids : TopicOf[o] # "station"
    <3>1. ids \in SUBSET Objects
      BY QueryTypes
    <3>2. \A o \in ids : TopicOf[o] # "station"
      BY QueryTypes
    <3> QED BY <3>1, <3>2, <2>4 DEF Sound
  <2>6. OfTopic(ids, "day") = {}
    BY QueryTypes DEF OfTopic
  <2> QED BY <2>3, <2>5, <2>6
<1>4. CASE handleStations
  <2> DEFINE rows == Rows("station") \cap Chunk
             ids == Refs(rows, "image")
  <2>1. Quiet \/ Reads("stations", ids, None)
    BY <1>4 DEF handleStations, Reads, Quiet, Crash
  <2>2. \A o \in ids : Related(o, exported \cup ids)
    BY <1>0, RelatedRefs
  <2>3. Sound(ids) /\ \A o \in ids : TopicOf[o] # "station"
    <3>1. ids \in SUBSET Objects
      BY QueryTypes
    <3>2. \A o \in ids : TopicOf[o] # "station"
      BY QueryTypes
    <3> QED BY <3>1, <3>2, <2>2 DEF Sound
  <2>4. \A s \in OfTopic(Chunk, "station") : LogosOf(s) \subseteq ids
    BY DEF LogosOf, Refs, Rows, OfTopic
  <2>5. OfTopic(ids, "day") = {}
    BY QueryTypes DEF OfTopic
  <2> QED BY <2>1, <2>3, <2>4, <2>5
<1> QED BY <1>1, <1>2, <1>3, <1>4

-----------------------------------------------------------------------------
(* The invariant and its preservation.                                     *)

\* How far the stations have come: days are collected, or still pending, from
\* the schedules on, logos from the stations on.
Handled ==
  /\ pc = "schedules" =>
       \A s \in OfTopic(exported, "station") : DaysOf(s) \subseteq exported \/ Pending(s)
  /\ pc \in {"programs", "persons", "stations", "write", "script", "done"} =>
       \A s \in OfTopic(exported, "station") : DaysOf(s) \subseteq exported
  /\ pc = "stations" =>
       \A s \in OfTopic(exported, "station") : LogosOf(s) \subseteq exported \/ Pending(s)
  /\ pc \in {"write", "script", "done"} =>
       \A s \in OfTopic(exported, "station") : LogosOf(s) \subseteq exported

IInv == db \in Databases /\ TypeOK /\ NothingUnrelated /\ Handled

\* Ids that belong to the request may be added.
LEMMA AddSound ==
  ASSUME IInv, NEW ids, Sound(ids), exported' = exported \cup ids, db' = db
  PROVE  exported' \subseteq Objects /\ NothingUnrelated'
  BY DEF IInv, TypeOK, NothingUnrelated, Sound, Related

\* What goes with a station depends on the database alone.
LEMMA SameDb ==
  ASSUME db' = db
  PROVE  \A s : DaysOf(s)' = DaysOf(s) /\ LogosOf(s)' = LogosOf(s)
  BY DEF DaysOf, LogosOf, Rows, Refs, OfTopic

\* Init and a step that stops or starts the script.
LEMMA InitIInv == Init => IInv
<1> SUFFICES ASSUME Init PROVE IInv
  OBVIOUS
<1>1. todo \in Seq(Seq(exported))
  BY DEF Init
<1> QED BY <1>1 DEF Init, IInv, TypeOK, Steps, NothingUnrelated, Handled

LEMMA QuietIInv ==
  ASSUME IInv, Quiet
  PROVE  IInv'
<1>1. pc' \in Steps
  BY Order DEF Quiet, Steps
<1>2. TypeOK'
  BY <1>1 DEF Quiet, IInv, TypeOK
<1>3. NothingUnrelated'
  BY DEF Quiet, IInv, NothingUnrelated
<1>4. Handled'
  BY DEF Quiet, Handled
<1> QED BY <1>2, <1>3, <1>4 DEF Quiet, IInv

\* A handler returns.
LEMMA ReturnsIInv ==
  ASSUME IInv, NEW step \in DOMAIN After, NEW ids, Collects(step, ids)
  PROVE  IInv'
<1> USE Order DEF Collects
<1>1. /\ exported' = exported \cup ids /\ db' = db /\ sql' = sql
      /\ Start(After[step]) /\ pc = step
  BY DEF Returns, Finish
<1>2. exported' \subseteq Objects /\ NothingUnrelated'
  BY <1>1, AddSound
<1>3. /\ pc' = After[step]
      /\ last' = None
      /\ todo' \in Seq(Seq(exported'))
      /\ After[step] \in DOMAIN ChunkTopic =>
           \A s \in OfTopic(exported', ChunkTopic[After[step]]) : Pending(s)'
  BY <1>1, <1>2, StartFacts
<1>4. pc' \in Steps
  BY <1>3 DEF Steps
<1>5. TypeOK'
  BY <1>1, <1>2, <1>3, <1>4 DEF IInv, TypeOK
<1>6. Handled'
  <2>1. \A s : DaysOf(s)' = DaysOf(s) /\ LogosOf(s)' = LogosOf(s)
    BY <1>1, SameDb
  <2>2. CASE pc' \in {"affiliates", "teams", "universities", "conferences", "lineups"}
    BY <2>2 DEF Handled
  <2>3. CASE pc' = "schedules"
    BY <1>3, <2>3 DEF Handled
  <2>4. CASE pc' \in {"programs", "persons", "stations", "write"}
    <3>1. exported' = exported /\ \A s : ~Pending(s)
      BY <1>1, <1>3, <2>4 DEF Pending
    <3>2. pc \in {"schedules", "programs", "persons", "stations"}
      BY <1>1, <1>3, <2>4
    <3>3. \A s \in OfTopic(exported, "station") : DaysOf(s) \subseteq exported
      BY <3>1, <3>2 DEF IInv, Handled
    <3>4. pc' = "stations" => \A s \in OfTopic(exported, "station") : Pending(s)'
      BY <1>3, <3>1
    <3>5. pc' = "write" => \A s \in OfTopic(exported, "station") : LogosOf(s) \subseteq exported
      BY <1>1, <1>3, <3>1 DEF IInv, Handled
    <3> QED BY <2>1, <2>4, <3>1, <3>3, <3>4, <3>5 DEF Handled, OfTopic
  <2> QED BY <1>1, <1>3, <2>2, <2>3, <2>4
<1> QED BY <1>1, <1>2, <1>5, <1>6 DEF IInv

\* A handler ends a chunk.
LEMMA ReadsIInv ==
  ASSUME IInv, NEW step \in DOMAIN ChunkTopic, NEW ids, NEW row, Selects(step, ids, row)
  PROVE  IInv'
<1> USE Order DEF Selects
<1>1. /\ exported' = exported \cup ids /\ db' = db /\ sql' = sql /\ last' = row
      /\ pc' = pc /\ pc = step
  BY DEF Reads, EndChunk
<1>2. exported' \subseteq Objects /\ NothingUnrelated'
  BY <1>1, AddSound
<1>3. /\ Chunk \subseteq exported
      /\ todo' \in Seq(Seq(exported'))
      /\ \A s : Pending(s) => s \in Chunk \/ Pending(s)'
  BY ChunkFacts DEF IInv, Reads, Sound
<1>4. TypeOK'
  BY <1>1, <1>2, <1>3 DEF IInv, TypeOK, Reads
<1>5. OfTopic(exported', "station") = OfTopic(exported, "station")
  BY <1>1 DEF OfTopic
<1>6. \A s : DaysOf(s)' = DaysOf(s) /\ LogosOf(s)' = LogosOf(s)
  BY <1>1, SameDb
<1>7. \A s \in OfTopic(exported, "station") : s \in Chunk => s \in OfTopic(Chunk, "station")
  BY DEF OfTopic
<1>8. pc = "schedules" => \A s \in OfTopic(exported, "station") :
        DaysOf(s) \subseteq exported' \/ Pending(s)'
  BY <1>1, <1>3 DEF IInv, Handled
<1>9. pc = "stations" => \A s \in OfTopic(exported, "station") :
        LogosOf(s) \subseteq exported' \/ Pending(s)'
  BY <1>1, <1>3, <1>7 DEF IInv, Handled
<1>10. pc \in {"programs", "persons", "stations"} =>
         \A s \in OfTopic(exported, "station") : DaysOf(s) \subseteq exported'
  BY <1>1 DEF IInv, Handled
<1>11. Handled'
  <2>1. OfTopic(exported, "station")' = OfTopic(exported, "station")
    BY <1>5 DEF OfTopic
  <2> QED BY <1>1, <1>6, <1>8, <1>9, <1>10, <2>1 DEF Handled
<1> QED BY <1>1, <1>2, <1>4, <1>11 DEF IInv

\* The commands are written.
LEMMA WriteIInv ==
  ASSUME IInv, exportAll
  PROVE  IInv'
<1>1. /\ pc = "write" /\ pc' = "script" /\ db' = db /\ exported' = exported
      /\ todo' = todo /\ last' = last
      /\ sql' = UNION {exportRecordsToFile(t) : t \in Topics}
  BY DEF exportAll
<1>2. ASSUME NEW t \in Topics, NEW c \in exportRecordsToFile(t)
      PROVE  c.topic \in Topics /\ c.file \in Nat /\ c.ids \subseteq exported
  <2> DEFINE S == OfTopic(exported, t)
             list == SetToSeq(S)
             chunks == chunkedList(list, FileSize)
  <2>1. S \subseteq exported /\ IsFiniteSet(S)
    BY ExportAssumption, FS_Subset DEF IInv, TypeOK, OfTopic
  <2>2. list \in Seq(S)
    BY <2>1, ChosenList
  <2> HIDE DEF S, list
  <2>3. chunks \in Seq(Seq(S))
    BY <2>2, ChunksType, ExportAssumption
  <2> HIDE DEF chunks
  <2>4. PICK i \in DOMAIN chunks :
          c = [topic |-> t, file |-> i - 1, ids |-> ToSet(chunks[i])]
    BY <1>2 DEF exportRecordsToFile, chunks, list, S
  <2>5. i - 1 \in Nat /\ chunks[i] \in Seq(S)
    BY <2>3
  <2>6. ToSet(chunks[i]) \subseteq S
    BY <2>5 DEF ToSet
  <2> QED BY <1>2, <2>1, <2>4, <2>5, <2>6
<1>3. TypeOK'
  BY <1>1, <1>2 DEF IInv, TypeOK, Steps
<1>4. NothingUnrelated'
  BY <1>1 DEF IInv, NothingUnrelated
<1>5. Handled'
  <2>1. \A s : DaysOf(s)' = DaysOf(s) /\ LogosOf(s)' = LogosOf(s)
    BY <1>1, SameDb
  <2>2. OfTopic(exported, "station")' = OfTopic(exported, "station")
    BY <1>1 DEF OfTopic
  <2> QED BY <1>1, <2>1, <2>2 DEF IInv, Handled
<1> QED BY <1>1, <1>3, <1>4, <1>5 DEF IInv

\* What a step can be.
LEMMA StepShape ==
  ASSUME IInv, [Next]_vars
  PROVE  \/ Quiet
         \/ \E step \in DOMAIN After : \E ids : Collects(step, ids)
         \/ \E step \in DOMAIN ChunkTopic : \E ids, row : Selects(step, ids, row)
         \/ exportAll
         \/ Closes
<1> USE Order
<1>0. db \in Databases /\ TypeOK /\ Sound({}) /\ OfTopic({}, "day") = {}
  BY DEF IInv, Sound, OfTopic
<1>1. CASE Connect \/ QueryFails
  BY <1>1 DEF Connect, QueryFails, Quiet
<1>2. CASE handleFullCollection \/ handleAffiliates \/ handleTeams
             \/ handleUniversities \/ handleConferences \/ handleLineups
  BY <1>0, <1>2, TableHandlers DEF Collects
<1>3. CASE handleSchedules \/ handlePrograms \/ handlePerson \/ handleStations
  BY <1>0, <1>3, ChunkHandlers
<1>4. CASE endSchedules
  <2>1. Quiet \/ (todo = <<>> /\ Returns("schedules", {}))
    BY <1>4 DEF endSchedules, Quiet, Crash, Returns
  <2> QED BY <1>0, <2>1 DEF Collects
<1>5. CASE endHandler
  <2>1. /\ pc \in {"programs", "persons", "stations"}
        /\ todo = <<>> /\ Returns(pc, {})
    BY <1>5 DEF endHandler, Returns
  <2> QED BY <1>0, <2>1 DEF Collects
<1>6. CASE UNCHANGED vars \/ createExportScript
  BY <1>6 DEF vars, createExportScript, Closes
<1> QED BY <1>1, <1>2, <1>3, <1>4, <1>5, <1>6 DEF Next

\* Every step preserves the invariant.
LEMMA NextIInv == IInv /\ [Next]_vars => IInv'
<1> SUFFICES ASSUME IInv, [Next]_vars PROVE IInv'
  OBVIOUS
<1>1. CASE Closes
  <2>1. TypeOK' /\ NothingUnrelated'
    BY <1>1 DEF Closes, IInv, TypeOK, NothingUnrelated, Steps
  <2>2. Handled'
    BY <1>1, SameDb DEF Closes, IInv, Handled, Pending, OfTopic
  <2> QED BY <1>1, <2>1, <2>2 DEF Closes, IInv
<1> QED BY <1>1, StepShape, QuietIInv, ReturnsIInv, ReadsIInv, WriteIInv

-----------------------------------------------------------------------------
(* The theorems.                                                           *)

\* For every database, request and chunk size, the chunks, the last row and
\* the commands name only ids that were collected.
THEOREM TypeCorrect == Spec => []TypeOK
<1>1. IInv => TypeOK
  BY DEF IInv
<1> QED BY <1>1, InitIInv, NextIInv, PTL DEF Spec

\* For every database and request, only what belongs to the request is
\* exported.
THEOREM NothingUnrelatedAlways == Spec => []NothingUnrelated
<1>1. IInv => NothingUnrelated
  BY DEF IInv
<1> QED BY <1>1, InitIInv, NextIInv, PTL DEF Spec

\* For every database, request and chunk size, an exported station comes with
\* its days and logos: no chunk is skipped and no station is added too late.
THEOREM StationsCompleteAlways == Spec => []StationsComplete
<1>1. IInv => StationsComplete
  BY DEF IInv, Handled, StationsComplete, DaysOf, LogosOf
<1> QED BY <1>1, InitIInv, NextIInv, PTL DEF Spec

-----------------------------------------------------------------------------
(* Programs.                                                               *)

\* A day is collected with its programs; what goes with them is collected, or
\* still pending, from the programs on.
EventInv ==
  /\ \A d \in OfTopic(exported, "day") : EventsOf(d) \subseteq exported
  /\ pc = "programs" =>
       \A d \in OfTopic(exported, "day") : \A p \in EventsOf(d) :
         MaterialOf(p) \subseteq exported \/ Pending(p)
  /\ pc \in {"persons", "stations", "write", "script", "done"} =>
       \A d \in OfTopic(exported, "day") : \A p \in EventsOf(d) :
         MaterialOf(p) \subseteq exported

\* What goes with a day and a program depends on the database alone.
LEMMA SameEvents ==
  ASSUME db' = db
  PROVE  \A o : EventsOf(o)' = EventsOf(o) /\ MaterialOf(o)' = MaterialOf(o)
<1>1. \A ids, t : Refs(ids, t)' = Refs(ids, t) /\ Rows(t)' = Rows(t)
  BY DEF Rows, Refs, OfTopic
<1> QED BY <1>1 DEF EventsOf, MaterialOf

\* No step collects a day without its programs, or passes one over.
LEMMA EventStep ==
  ASSUME IInv, EventInv, [Next]_vars
  PROVE  EventInv'
<1> USE Order
<1>1. ASSUME Quiet \/ Closes \/ exportAll PROVE EventInv'
  <2>1. db' = db /\ exported' = exported /\ todo' = todo
    BY <1>1 DEF Quiet, Closes, exportAll
  <2>2. /\ pc' = "programs" => pc = "programs"
        /\ pc' \in {"persons", "stations", "write", "script", "done"}
             => pc \in {"persons", "stations", "write", "script", "done"}
    BY <1>1 DEF Quiet, Closes, exportAll
  <2>3. \A o : EventsOf(o)' = EventsOf(o) /\ MaterialOf(o)' = MaterialOf(o)
    BY <2>1, SameEvents
  <2>4. OfTopic(exported, "day")' = OfTopic(exported, "day") /\ \A p : Pending(p)' <=> Pending(p)
    BY <2>1 DEF OfTopic, Pending
  <2> QED BY <2>1, <2>2, <2>3, <2>4 DEF EventInv
<1>2. ASSUME NEW step \in DOMAIN After, NEW ids, Collects(step, ids) PROVE EventInv'
  <2>1. /\ exported' = exported \cup ids /\ db' = db /\ Start(After[step]) /\ pc = step
    BY <1>2 DEF Collects, Returns, Finish
  <2>2. exported' \subseteq Objects
    BY <1>2, <2>1, AddSound DEF Collects
  <2>3. /\ pc' = After[step]
        /\ After[step] \in DOMAIN ChunkTopic =>
             \A s \in OfTopic(exported', ChunkTopic[After[step]]) : Pending(s)'
    BY <2>1, <2>2, StartFacts
  <2>4. \A o : EventsOf(o)' = EventsOf(o) /\ MaterialOf(o)' = MaterialOf(o)
    BY <2>1, SameEvents
  <2>5. OfTopic(exported, "day")' = OfTopic(exported, "day")
    BY <1>2, <2>1 DEF Collects, OfTopic
  <2>6. \A d \in OfTopic(exported, "day") : EventsOf(d) \subseteq exported'
    BY <2>1 DEF EventInv
  <2>7. ASSUME pc' = "programs", NEW d \in OfTopic(exported, "day"), NEW p \in EventsOf(d)
        PROVE  Pending(p)'
    <3>1. TopicOf[p] = "program" /\ p \in exported'
      BY <2>6, <2>7 DEF EventsOf, Refs
    <3>2. ChunkTopic["programs"] = "program"
      BY DEF ChunkTopic
    <3> QED BY <2>3, <2>7, <3>1, <3>2 DEF OfTopic
  <2>8. ASSUME pc' \in {"persons", "stations", "write", "script", "done"},
               NEW d \in OfTopic(exported, "day"), NEW p \in EventsOf(d)
        PROVE  MaterialOf(p) \subseteq exported'
    <3>1. pc \in {"programs", "persons", "stations"} /\ todo = <<>>
      BY <1>2, <2>1, <2>3, <2>8 DEF Collects
    <3>2. ~ Pending(p)
      BY <3>1 DEF Pending
    <3> QED BY <2>1, <3>1, <3>2 DEF EventInv
  <2> QED BY <2>4, <2>5, <2>6, <2>7, <2>8 DEF EventInv
<1>3. ASSUME NEW step \in DOMAIN ChunkTopic, NEW ids, NEW row, Selects(step, ids, row)
      PROVE  EventInv'
  <2>1. /\ exported' = exported \cup ids /\ db' = db /\ pc' = pc /\ pc = step
    BY <1>3 DEF Selects, Reads, EndChunk
  <2>2. \A s : Pending(s) => s \in Chunk \/ Pending(s)'
    BY <1>3, ChunkFacts DEF IInv, Selects, Reads, Sound
  <2>3. \A o : EventsOf(o)' = EventsOf(o) /\ MaterialOf(o)' = MaterialOf(o)
    BY <2>1, SameEvents
  <2>4. OfTopic(exported, "day")' = OfTopic(exported, "day") \cup OfTopic(ids, "day")
    BY <2>1 DEF OfTopic
  <2>5. \A d \in OfTopic(exported, "day")' : EventsOf(d) \subseteq exported'
    BY <1>3, <2>1, <2>4 DEF EventInv, Selects
  <2>6. pc \in {"programs", "persons", "stations"}
          => OfTopic(exported, "day")' = OfTopic(exported, "day")
    BY <1>3, <2>1, <2>4 DEF Selects
  <2>7. pc = "programs" => \A d \in OfTopic(exported, "day") : \A p \in EventsOf(d) :
          MaterialOf(p) \subseteq exported' \/ Pending(p)'
    BY <1>3, <2>1, <2>2 DEF EventInv, Selects
  <2>8. pc \in {"persons", "stations"} => \A d \in OfTopic(exported, "day") :
          \A p \in EventsOf(d) : MaterialOf(p) \subseteq exported'
    BY <2>1 DEF EventInv
  <2> QED BY <2>1, <2>3, <2>5, <2>6, <2>7, <2>8 DEF EventInv
<1> QED BY <1>1, <1>2, <1>3, StepShape

\* For every database, request and chunk size, a stored program of an exported
\* day comes with its images, related programs and persons, although
\* handlePrograms adds programs while it works on a snapshot of them.
THEOREM EventProgramsCompleteAlways == Spec => []EventProgramsComplete
<1>1. Init => IInv /\ EventInv
  BY InitIInv DEF Init, EventInv, OfTopic
<1>2. IInv /\ EventInv /\ [Next]_vars => EventInv'
  BY EventStep
<1>3. IInv /\ EventInv => EventProgramsComplete
  <2> SUFFICES ASSUME EventInv, pc \in {"persons", "stations", "write", "script", "done"},
                      NEW p \in Rows("program") \cap Refs(OfTopic(exported, "day"), "program")
               PROVE  Refs({p}, "image") \cup Refs({p}, "program") \cup Refs({p}, "person")
                        \subseteq exported
    BY DEF EventProgramsComplete
  <2>1. PICK d \in OfTopic(exported, "day") : p \in EventsOf(d)
    BY DEF EventsOf, Refs
  <2> QED BY <2>1 DEF EventInv, MaterialOf
<1> QED BY <1>1, <1>2, <1>3, NextIInv, PTL DEF Spec

-----------------------------------------------------------------------------
(* The dump.                                                               *)

\* The commands for one topic: each id of the topic is in one of them.
LEMMA RecordsOnce ==
  ASSUME IInv, NEW t \in Topics
  PROVE  /\ \A c \in exportRecordsToFile(t) : c.topic = t /\ c.ids \subseteq OfTopic(exported, t)
         /\ \A o \in OfTopic(exported, t) : \E c \in exportRecordsToFile(t) : o \in c.ids
         /\ \A c, d \in exportRecordsToFile(t) :
              (c.file = d.file \/ c.ids \cap d.ids # {}) => c = d
<1> DEFINE S == OfTopic(exported, t)
           list == SetToSeq(S)
           chunks == chunkedList(list, FileSize)
<1>1. IsFiniteSet(S)
  BY ExportAssumption, FS_Subset DEF IInv, TypeOK, OfTopic
<1> HIDE DEF S
<1>2. /\ list \in Seq(S)
      /\ \A s \in S : \E j \in 1 .. Len(list) : list[j] = s
      /\ \A j, k \in 1 .. Len(list) : list[j] = list[k] => j = k
  BY <1>1, ChosenList
<1> HIDE DEF list
<1>0. FileSize \in Nat
  BY ExportAssumption
<1>3. chunks \in Seq(Seq(S))
  BY <1>0, <1>2, ChunksType
<1>4. \A s \in S : \E i \in DOMAIN chunks : s \in ToSet(chunks[i])
  <2> SUFFICES ASSUME NEW s \in S PROVE \E i \in DOMAIN chunks : s \in ToSet(chunks[i])
    OBVIOUS
  <2>1. PICK j \in 1 .. Len(list) : list[j] = s
    BY <1>2
  <2>2. \E i \in DOMAIN chunks : list[j] \in ToSet(chunks[i])
    BY <1>0, <1>2, ChunksCover
  <2> QED BY <2>1, <2>2
<1>5. ASSUME NEW h \in DOMAIN chunks, NEW i \in DOMAIN chunks,
             ToSet(chunks[h]) \cap ToSet(chunks[i]) # {}
      PROVE  h = i
  <2>1. PICK x : x \in ToSet(chunks[h]) \cap ToSet(chunks[i])
    BY <1>5
  <2> QED BY <1>0, <1>2, <2>1, ChunksApart
<1> HIDE DEF chunks
<1>6. exportRecordsToFile(t) =
        {[topic |-> t, file |-> i - 1, ids |-> ToSet(chunks[i])] : i \in DOMAIN chunks}
  BY DEF exportRecordsToFile, chunks, list, S
<1>7. \A i \in DOMAIN chunks : i \in Nat /\ ToSet(chunks[i]) \subseteq S
  BY <1>3 DEF ToSet
<1>8. \A c \in exportRecordsToFile(t) : c.topic = t /\ c.ids \subseteq S
  BY <1>6, <1>7
<1>9. \A o \in S : \E c \in exportRecordsToFile(t) : o \in c.ids
  <2> SUFFICES ASSUME NEW o \in S PROVE \E c \in exportRecordsToFile(t) : o \in c.ids
    OBVIOUS
  <2>1. PICK i \in DOMAIN chunks : o \in ToSet(chunks[i])
    BY <1>4
  <2>2. [topic |-> t, file |-> i - 1, ids |-> ToSet(chunks[i])] \in exportRecordsToFile(t)
    BY <1>6
  <2> QED BY <2>1, <2>2
<1>10. ASSUME NEW c \in exportRecordsToFile(t), NEW d \in exportRecordsToFile(t),
              c.file = d.file \/ c.ids \cap d.ids # {}
       PROVE  c = d
  <2>1. PICK h \in DOMAIN chunks : c = [topic |-> t, file |-> h - 1, ids |-> ToSet(chunks[h])]
    BY <1>6
  <2>2. PICK i \in DOMAIN chunks : d = [topic |-> t, file |-> i - 1, ids |-> ToSet(chunks[i])]
    BY <1>6
  <2>3. c.file = h - 1 /\ c.ids = ToSet(chunks[h]) /\ d.file = i - 1 /\ d.ids = ToSet(chunks[i])
    BY <2>1, <2>2
  <2>4. h = i
    <3>1. CASE c.file = d.file
      BY <1>7, <2>3, <3>1
    <3>2. CASE c.ids \cap d.ids # {}
      BY <1>5, <2>3, <3>2
    <3> QED BY <1>10, <3>1, <3>2
  <2> QED BY <2>1, <2>2, <2>4
<1> QED BY <1>8, <1>9, <1>10 DEF S

\* Writing the commands writes each id once.
LEMMA WriteOnce ==
  ASSUME IInv, exportAll
  PROVE  WrittenOnce'
<1>1. exported' = exported /\ sql' = UNION {exportRecordsToFile(t) : t \in Topics}
  BY DEF exportAll
<1>2. \A o \in exported : TopicOf[o] \in Topics
  BY ExportAssumption DEF IInv, TypeOK
<1>3. ASSUME NEW c \in sql' PROVE c.topic \in Topics /\ c \in exportRecordsToFile(c.topic)
  <2>1. PICK t \in Topics : c \in exportRecordsToFile(t)
    BY <1>1
  <2>2. c.topic = t
    BY <2>1, RecordsOnce
  <2> QED BY <2>1, <2>2
<1>4. ASSUME NEW o \in exported
      PROVE  \E c \in sql' : {d \in sql' : o \in d.ids} = {c} /\ c.topic = TopicOf[o]
  <2>1. o \in OfTopic(exported, TopicOf[o])
    BY DEF OfTopic
  <2>2. PICK c \in exportRecordsToFile(TopicOf[o]) : o \in c.ids
    BY <1>2, <2>1, RecordsOnce
  <2>3. c \in sql' /\ c.topic = TopicOf[o]
    BY <1>1, <1>2, <2>2, RecordsOnce
  <2>4. ASSUME NEW d \in sql', o \in d.ids PROVE d = c
    <3>1. d.topic \in Topics /\ d \in exportRecordsToFile(d.topic)
      BY <1>3
    <3>2. d.topic = TopicOf[o]
      BY <2>4, <3>1, RecordsOnce DEF OfTopic
    <3> QED BY <1>2, <2>2, <2>4, <3>1, <3>2, RecordsOnce
  <2> QED BY <2>2, <2>3, <2>4
<1>5. ASSUME NEW o \in exported
      PROVE  /\ {c.topic : c \in {d \in sql' : o \in d.ids}} = {TopicOf[o]}
             /\ Cardinality({c \in sql' : o \in c.ids}) = 1
  <2>1. PICK c \in sql' : {d \in sql' : o \in d.ids} = {c} /\ c.topic = TopicOf[o]
    BY <1>4
  <2>2. Cardinality({c}) = 1
    BY FS_Singleton
  <2> QED BY <2>1, <2>2
<1>6. ASSUME NEW c \in sql', NEW d \in sql', c.topic = d.topic, c.file = d.file PROVE c = d
  BY <1>3, <1>6, RecordsOnce
<1> QED BY <1>1, <1>5, <1>6 DEF WrittenOnce

\* For every database, request and file size, the dump holds each collected id
\* once, in a file of its topic, and no file is written twice.
THEOREM WrittenOnceAlways == Spec => []WrittenOnce
<1>1. Init => IInv /\ WrittenOnce
  BY InitIInv DEF Init, WrittenOnce
<1>2. IInv /\ WrittenOnce /\ [Next]_vars => WrittenOnce'
  <2> SUFFICES ASSUME IInv, WrittenOnce, [Next]_vars PROVE WrittenOnce'
    OBVIOUS
  <2> USE Order
  <2>1. CASE Quiet
    BY <2>1 DEF Quiet, WrittenOnce
  <2>2. ASSUME NEW step \in DOMAIN After, NEW ids, Collects(step, ids) PROVE WrittenOnce'
    <3>1. pc' = After[step]
      BY <2>2 DEF Collects, Returns, Finish, Start
    <3>2. pc' \notin {"script", "done"}
      BY <3>1
    <3> QED BY <3>2 DEF WrittenOnce
  <2>3. ASSUME NEW step \in DOMAIN ChunkTopic, NEW ids, NEW row, Selects(step, ids, row)
        PROVE  WrittenOnce'
    <3>1. pc' \notin {"script", "done"}
      BY <2>3 DEF Selects, Reads, EndChunk
    <3> QED BY <3>1 DEF WrittenOnce
  <2>4. CASE Closes
    BY <2>4 DEF Closes, WrittenOnce
  <2> QED BY <2>1, <2>2, <2>3, <2>4, StepShape, WriteOnce
<1> QED BY <1>1, <1>2, NextIInv, PTL DEF Spec

-----------------------------------------------------------------------------
(* Good data.                                                              *)

\* A chunk holds an id, and ids of the topic the running handler reads.
ChunkInv ==
  \A i \in DOMAIN todo :
    /\ ToSet(todo[i]) # {}
    /\ pc \in DOMAIN ChunkTopic => ToSet(todo[i]) \subseteq OfTopic(Objects, ChunkTopic[pc])

\* On good data nothing has raised and, once the lineups are read, there is a
\* station.
GoodInv ==
  GoodData =>
    /\ pc # "crashed"
    /\ pc \in {"schedules", "programs", "persons", "stations"}
         => OfTopic(exported, "station") # {}

\* A handler starts with chunks of its topic, none of them empty.
LEMMA StartChunks ==
  ASSUME NEW step, exported' \subseteq Objects, Start(step)
  PROVE  \A i \in DOMAIN todo' :
           /\ ToSet(todo'[i]) # {}
           /\ step \in DOMAIN ChunkTopic =>
                ToSet(todo'[i]) \subseteq OfTopic(Objects, ChunkTopic[step])
<1>1. CASE step \in DOMAIN ChunkTopic
  <2> DEFINE S == OfTopic(exported', ChunkTopic[step])
  <2>1. PICK list \in SetToSeqs(S) : todo' = chunkedList(list, ChunkSize)
    BY <1>1 DEF Start
  <2>2. S \subseteq OfTopic(Objects, ChunkTopic[step]) /\ S \subseteq Objects
    BY DEF OfTopic
  <2>3. IsFiniteSet(S) /\ ChunkSize \in Nat
    BY <2>2, ExportAssumption, FS_Subset
  <2> HIDE DEF S
  <2>4. list \in Seq(S)
    BY <2>1, <2>3, ListOfSet
  <2>5. PICK c \in Nat \ {0} : \A i \in DOMAIN chunkedList(list, ChunkSize) :
           /\ i \in Nat \ {0}
           /\ (i - 1) * c + 1 \in 1 .. Len(list)
           /\ \A x : x \in ToSet(chunkedList(list, ChunkSize)[i]) <=>
                \E j \in 1 .. Len(list) : (i - 1) * c < j /\ j <= i * c /\ x = list[j]
    BY <2>3, <2>4, ChunkElements, Zenon
  <2>6. ASSUME NEW i \in DOMAIN todo'
        PROVE  ToSet(todo'[i]) # {} /\ ToSet(todo'[i]) \subseteq S
    <3>1. i \in Nat \ {0} /\ (i - 1) * c + 1 \in 1 .. Len(list)
      BY <2>1, <2>5
    <3>2. i * c = (i - 1) * c + c /\ (i - 1) * c \in Nat
      BY <3>1, Times
    <3>3. (i - 1) * c < (i - 1) * c + 1 /\ (i - 1) * c + 1 <= i * c
      BY <3>1, <3>2
    <3>4. list[(i - 1) * c + 1] \in ToSet(todo'[i])
      BY <2>1, <2>5, <3>1, <3>3
    <3>5. \A x \in ToSet(todo'[i]) : \E j \in 1 .. Len(list) : x = list[j]
      BY <2>1, <2>5
    <3>6. \A j \in 1 .. Len(list) : list[j] \in S
      BY <2>4
    <3> QED BY <3>4, <3>5, <3>6
  <2> QED BY <2>2, <2>6
<1>2. CASE step \notin DOMAIN ChunkTopic
  BY <1>2 DEF Start
<1> QED BY <1>1, <1>2

\* No step leaves an empty chunk or one of another topic.
LEMMA ChunkStep ==
  ASSUME IInv, ChunkInv, [Next]_vars
  PROVE  ChunkInv'
<1> USE Order
<1>1. ASSUME Quiet \/ Closes \/ exportAll PROVE ChunkInv'
  BY <1>1 DEF Quiet, Closes, exportAll, ChunkInv, OfTopic
<1>2. ASSUME NEW step \in DOMAIN After, NEW ids, Collects(step, ids) PROVE ChunkInv'
  <2>1. exported' = exported \cup ids /\ db' = db /\ Start(After[step])
    BY <1>2 DEF Collects, Returns, Finish
  <2>2. exported' \subseteq Objects
    BY <1>2, <2>1, AddSound DEF Collects
  <2>3. pc' = After[step]
    BY <2>1 DEF Start
  <2>4. \A i \in DOMAIN todo' :
           /\ ToSet(todo'[i]) # {}
           /\ After[step] \in DOMAIN ChunkTopic =>
                ToSet(todo'[i]) \subseteq OfTopic(Objects, ChunkTopic[After[step]])
    BY <2>1, <2>2, StartChunks
  <2> QED BY <2>3, <2>4 DEF ChunkInv
<1>3. ASSUME NEW step \in DOMAIN ChunkTopic, NEW ids, NEW row, Selects(step, ids, row)
      PROVE  ChunkInv'
  <2>1. todo # <<>> /\ todo' = Tail(todo) /\ pc' = pc
    BY <1>3 DEF Selects, Reads, EndChunk
  <2>2. todo \in Seq(Seq(exported))
    BY DEF IInv, TypeOK
  <2>3. \A i \in DOMAIN todo' : i + 1 \in DOMAIN todo /\ todo'[i] = todo[i + 1]
    BY <2>1, <2>2
  <2> QED BY <2>1, <2>3 DEF ChunkInv
<1> QED BY <1>1, <1>2, <1>3, StepShape

\* On good data, what is selected is there: every id that a handler selects in
\* chunks is referred to and so is stored.
LEMMA ChunkStored ==
  ASSUME IInv, ChunkInv, GoodData, todo # <<>>, pc \in {"programs", "persons"}
  PROVE  Rows(ChunkTopic[pc]) \cap Chunk # {}
<1> USE Order
<1>0. ChunkTopic["programs"] = "program" /\ ChunkTopic["persons"] = "person"
  BY DEF ChunkTopic
<1>1. todo \in Seq(Seq(exported)) /\ 1 \in DOMAIN todo /\ Head(todo) = todo[1]
  BY DEF IInv, TypeOK
<1>2. Head(todo) \in Seq(exported)
  BY <1>1
<1>3. Chunk \subseteq exported
  BY <1>2 DEF Chunk, ToSet
<1>4. Chunk # {} /\ Chunk \subseteq OfTopic(Objects, ChunkTopic[pc])
  BY <1>1 DEF Chunk, ChunkInv
<1>5. PICK o \in exported : o \in Chunk /\ TopicOf[o] \in {"program", "person"}
                             /\ TopicOf[o] = ChunkTopic[pc]
  BY <1>0, <1>3, <1>4 DEF OfTopic
<1>6. o \in db.stored
  <2>1. o \notin db.requested
    BY <1>5, ExportAssumption DEF IInv
  <2> QED BY <1>5, <2>1 DEF IInv, NothingUnrelated, GoodData
<1> QED BY <1>5, <1>6 DEF Rows, OfTopic

\* On good data no handler raises.
LEMMA NoCrash ==
  ASSUME IInv, ChunkInv, GoodInv, GoodData, [Next]_vars
  PROVE  pc' # "crashed"
<1> USE Order
<1>0. pc # "crashed" /\ db.empty = {}
  BY DEF GoodInv, GoodData
<1>1. CASE Connect \/ QueryFails \/ handleFullCollection \/ handleUniversities
             \/ handleConferences \/ endHandler \/ exportAll \/ createExportScript
  BY <1>1 DEF Connect, QueryFails, handleFullCollection, handleUniversities,
     handleConferences, endHandler, exportAll, createExportScript, Finish, Start
<1>2. CASE handleAffiliates \/ handleTeams
  BY <1>0, <1>2 DEF handleAffiliates, handleTeams, Finish, Start
<1>3. CASE handleLineups
  <2>1. db.requested # {}
    BY DEF GoodData, Refs
  <2> QED BY <1>0, <1>3, <2>1 DEF handleLineups, Finish, Start
<1>4. CASE handleSchedules
  <2>1. pc = "schedules"
    BY <1>4 DEF handleSchedules
  <2> QED BY <1>0, <1>4, <2>1 DEF handleSchedules, EndChunk
<1>5. CASE endSchedules
  BY <1>5 DEF endSchedules, GoodInv, Finish, Start
<1>6. CASE handlePrograms
  <2> DEFINE rows == Rows("program") \cap Chunk
  <2>1. rows # {}
    <3>1. ChunkTopic["programs"] = "program"
      BY DEF ChunkTopic
    <3> QED BY <1>6, <3>1, ChunkStored DEF handlePrograms
  <2>2. None \notin rows
    BY QueryTypes, ExportAssumption DEF IInv
  <2>3. \A row \in LastRow(rows) : row # None
    BY <2>1, <2>2 DEF LastRow
  <2>4. rows \cap db.empty = {}
    BY <1>0
  <2> QED BY <1>6, <2>3, <2>4 DEF handlePrograms, EndChunk
<1>7. CASE handlePerson
  <2> DEFINE rows == Rows("person") \cap Chunk
  <2>1. rows # {}
    <3>1. ChunkTopic["persons"] = "person"
      BY DEF ChunkTopic
    <3> QED BY <1>7, <3>1, ChunkStored DEF handlePerson
  <2>2. None \notin rows
    BY QueryTypes, ExportAssumption DEF IInv
  <2>3. \A row \in LastRow(rows) : row # None /\ row \notin db.empty
    BY <1>0, <2>1, <2>2 DEF LastRow
  <2> QED BY <1>7, <2>3 DEF handlePerson, EndChunk
<1>8. CASE handleStations
  BY <1>0, <1>8 DEF handleStations, EndChunk
<1>9. CASE UNCHANGED vars
  BY <1>0, <1>9 DEF vars
<1> QED BY <1>1, <1>2, <1>3, <1>4, <1>5, <1>6, <1>7, <1>8, <1>9 DEF Next

\* On good data the stations found stay found.
LEMMA GoodStep ==
  ASSUME IInv, ChunkInv, GoodInv, [Next]_vars
  PROVE  GoodInv'
<1> USE Order
<1>0. db' = db
  BY DEF Next, vars, Connect, QueryFails, handleFullCollection, handleAffiliates, handleTeams,
     handleUniversities, handleConferences, handleLineups, handleSchedules, endSchedules,
     handlePrograms, handlePerson, handleStations, endHandler, exportAll, createExportScript,
     Crash, Finish, EndChunk
<1>a. GoodData' <=> GoodData
  BY <1>0 DEF GoodData, Refs, Rows, OfTopic
<1>b. GoodData => pc' # "crashed"
  BY NoCrash
<1>c. OfTopic(exported, "station")' = OfTopic(exported', "station")
  BY DEF OfTopic
<1>1. SUFFICES ASSUME GoodData
               PROVE  pc' \in {"schedules", "programs", "persons", "stations"}
                        => OfTopic(exported', "station") # {}
  BY <1>a, <1>b, <1>c DEF GoodInv
<1>2. ASSUME exported \subseteq exported',
             pc \in {"schedules", "programs", "persons", "stations"}
      PROVE  OfTopic(exported', "station") # {}
  BY <1>1, <1>2 DEF GoodInv, OfTopic
<1>3. ASSUME Quiet \/ Closes \/ exportAll PROVE
        pc' \in {"schedules", "programs", "persons", "stations"}
                        => OfTopic(exported', "station") # {}
  BY <1>2, <1>3 DEF Quiet, Closes, exportAll
<1>4. ASSUME NEW step \in DOMAIN After, NEW ids, Collects(step, ids),
             pc' \in {"schedules", "programs", "persons", "stations"}
      PROVE  OfTopic(exported', "station") # {}
  <2>1. exported' = exported \cup ids /\ pc' = After[step] /\ pc = step
    BY <1>4 DEF Collects, Returns, Finish, Start
  <2>2. CASE step = "lineups"
    <3>1. LineupStations # {} /\ LineupStations \subseteq exported'
      BY <1>1, <1>4, <2>1, <2>2 DEF Collects, GoodData, LineupStations
    <3>2. PICK s \in LineupStations : s \in exported'
      BY <3>1
    <3>3. TopicOf[s] = "station"
      BY DEF LineupStations, Refs
    <3> QED BY <3>2, <3>3 DEF OfTopic
  <2>3. CASE step # "lineups"
    BY <1>2, <1>4, <2>1, <2>3
  <2> QED BY <2>2, <2>3
<1>5. ASSUME NEW step \in DOMAIN ChunkTopic, NEW ids, NEW row, Selects(step, ids, row)
      PROVE  OfTopic(exported', "station") # {}
  BY <1>2, <1>5 DEF Selects, Reads, EndChunk
<1> QED BY <1>3, <1>4, <1>5, StepShape

\* On good data, whatever the request and the chunk size, only the database can
\* stop the script.
THEOREM GoodDataExportsAlways == Spec => []GoodDataExports
<1>1. Init => IInv /\ ChunkInv /\ GoodInv
  BY InitIInv DEF Init, ChunkInv, GoodInv
<1>2. IInv /\ ChunkInv /\ GoodInv /\ [Next]_vars => ChunkInv' /\ GoodInv'
  BY ChunkStep, GoodStep
<1>3. GoodInv => GoodDataExports
  BY DEF GoodInv, GoodDataExports
<1> QED BY <1>1, <1>2, <1>3, NextIInv, PTL DEF Spec

=============================================================================
