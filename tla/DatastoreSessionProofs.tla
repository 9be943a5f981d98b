----------------------- MODULE DatastoreSessionProofs -----------------------
(***************************************************************************)
(* Proofs about DatastoreSession for every set of fetch sizes, every       *)
(* number of rows and every number of queries: the clean-up invariants for *)
(* any number of handles, the row invariants for clients that hold one     *)
(* handle at a time, as OneQueryAtATime says.                              *)
(***************************************************************************)
EXTENDS DatastoreSession, FiniteSetTheorems, TLAPS

\* The handles that are out, which mReference counts.
Held == {h \in Handles : handle[h] # "none"}
Counted == mReference = Cardinality(Held)

\* A cursor never gives more rows than it selects.
CursorInv == cursor.fetched <= cursor.total

TInv == TypeOK /\ Counted /\ CursorInv

\* Finitely many handles are out.
LEMMA HeldFinite == IsFiniteSet(Held) /\ Cardinality(Held) \in Nat
<1>1. IsFiniteSet(Held)
  BY DatastoreAssumption, FS_Subset DEF Held
<1> QED
  BY <1>1, FS_CardinalityType

\* The handle data() returns adds one to both sides of Counted.
LEMMA HandOutCounts ==
  ASSUME NEW h \in Handles, NEW n, TypeOK, Counted, handle[h] = "none", HandOut(h, n)
  PROVE  Counted' /\ mReference' \in Nat
<1>1. h \notin Held /\ Held' = Held \cup {h}
  BY DEF TypeOK, HandOut, Held
<1>2. Cardinality(Held') = Cardinality(Held) + 1
  BY <1>1, HeldFinite, FS_AddElement
<1> QED
  BY <1>2 DEF Counted, HandOut, TypeOK

\* Dropping a handle takes one from both, and one is there to take.
LEMMA DropCounts ==
  ASSUME NEW h \in Handles, TypeOK, Counted, Drop(h)
  PROVE  Counted' /\ mReference' \in Nat
<1>1. h \in Held /\ Held' = Held \ {h}
  BY DEF TypeOK, Drop, Held
<1>2. IsFiniteSet(Held') /\ Cardinality(Held') = Cardinality(Held) - 1
  BY <1>1, HeldFinite, FS_RemoveElement
<1>3. Cardinality(Held') \in Nat
  BY <1>2, FS_CardinalityType
<1> QED
  BY <1>2, <1>3 DEF Counted, Drop

\* The reference count is untouched while the clients' handles stay out.
LEMMA SameCount ==
  ASSUME TypeOK, Counted, mReference' = mReference, Held' = Held
  PROVE  Counted'
  BY DEF Counted

\* What closeAndReset makes of its arguments is well typed.
LEMMA ResetTypes ==
  ASSUME TypeOK, CursorInv,
         NEW state \in {"Ready", "Open"}, NEW err \in BOOLEAN,
         NEW res \in [kind : {"null", "bad", "tuples"}, first : Nat, count : Nat],
         NEW t \in {"idle", "active", "failed"},
         CloseAndReset(state, err, res, t)
  PROVE  /\ mState' = "Ready"
         /\ mResult' \in [kind : {"null", "bad", "tuples"}, first : Nat, count : Nat]
         /\ mWasError' \in BOOLEAN
         /\ tx' \in {"idle", "active", "failed"}
         /\ cursor' \in [open : BOOLEAN, total : Nat, fetched : Nat]
         /\ cursor'.fetched <= cursor'.total
<1>1. mResult' \in [kind : {"null", "bad", "tuples"}, first : Nat, count : Nat]
  BY DEF CloseAndReset, NullResult
<1>2. /\ cursor' \in [open : BOOLEAN, total : Nat, fetched : Nat]
      /\ cursor'.fetched <= cursor'.total
  BY DEF CloseAndReset, NoCursor, TypeOK, CursorInv
<1>3. mWasError' \in BOOLEAN
  BY DEF CloseAndReset
<1> QED
  BY <1>1, <1>2, <1>3 DEF CloseAndReset

\* Every step keeps the types, the count and the cursor's bound.
LEMMA TypeStep == TInv /\ [Next]_vars => TInv'
<1> SUFFICES ASSUME TInv, [Next]_vars PROVE TInv'
  OBVIOUS
<1> USE DatastoreAssumption
<1>0. TypeOK /\ Counted /\ CursorInv
  BY DEF TInv
<1>1. CASE LoseConnection
  <2>1. Held' = Held
    BY <1>1 DEF LoseConnection, Held, clients
  <2>2. Counted'
    BY <1>0, <1>1, <2>1, SameCount DEF LoseConnection, iterator
  <2> QED
    BY <1>0, <1>1, <2>2
       DEF TInv, TypeOK, CursorInv, LoseConnection, NoCursor, iterator, clients
<1>2. CASE Destroy
  <2>1. Held' = Held
    BY <1>2 DEF Destroy, Held, clients
  <2>2. Counted'
    BY <1>0, <1>2, <2>1, SameCount DEF Destroy
  <2> QED
    BY <1>0, <1>2, <2>2, ResetTypes DEF TInv, TypeOK, CursorInv, Destroy, clients
<1>3. ASSUME NEW h \in Handles, Query(h) PROVE TInv'
  <2> PICK n \in 0 .. MaxRows :
           \/ BeginFails(h, n)
           \/ \E v \in FetchSizes : DeclareFails(h, n, v) \/ QueryOpens(h, n, v)
    BY <1>3 DEF Query
  <2>1. handle[h] = "none" /\ HandOut(h, n) /\ queries < MaxQueries
    BY DEF BeginFails, DeclareFails, QueryOpens, MayQuery
  <2>2. Counted' /\ mReference' \in Nat
    BY <1>0, <2>1, HandOutCounts
  <2>3. /\ handle' \in [Handles -> {"none", "reading", "ended"}]
        /\ rows' \in [Handles -> 0 .. MaxRows]
        /\ delivered' \in [Handles -> Seq(Nat)]
        /\ queries' \in 0 .. MaxQueries
    BY <1>0, <2>1 DEF TypeOK, HandOut
  <2>4. CASE BeginFails(h, n)
    BY <1>0, <2>2, <2>3, <2>4
       DEF TInv, TypeOK, CursorInv, BeginFails, NullResult, session
  <2>5. ASSUME NEW v \in FetchSizes, DeclareFails(h, n, v) PROVE TInv'
    <3>1. CloseAndReset("Open", TRUE, NullResult, "failed")
      BY <2>5 DEF DeclareFails
    <3>2. NullResult \in [kind : {"null", "bad", "tuples"}, first : Nat, count : Nat]
      BY DEF NullResult
    <3>3. /\ mState' \in {"Ready", "Open"}
          /\ mResult' \in [kind : {"null", "bad", "tuples"}, first : Nat, count : Nat]
          /\ mWasError' \in BOOLEAN
          /\ tx' \in {"idle", "active", "failed"}
          /\ cursor' \in [open : BOOLEAN, total : Nat, fetched : Nat]
          /\ cursor'.fetched <= cursor'.total
      BY <1>0, <3>1, <3>2, ResetTypes
    <3>4. fetchSize' \in Nat /\ mResultOffset' \in Nat /\ conn' = conn
      BY <2>5 DEF DeclareFails, AtLeastOne
    <3> QED
      BY <1>0, <2>2, <2>3, <3>3, <3>4 DEF TInv, TypeOK, CursorInv
  <2>6. ASSUME NEW v \in FetchSizes, QueryOpens(h, n, v) PROVE TInv'
    BY <1>0, <2>2, <2>3, <2>6
       DEF TInv, TypeOK, CursorInv, QueryOpens, NullResult, AtLeastOne
  <2> QED
    BY <2>4, <2>5, <2>6
<1>4. ASSUME NEW h \in Handles, NextFromBatch(h) PROVE TInv'
  <2>1. Held' = Held
    BY <1>4 DEF NextFromBatch, Held
  <2>2. Counted'
    BY <1>0, <1>4, <2>1, SameCount DEF NextFromBatch
  <2>3. delivered' \in [Handles -> Seq(Nat)]
    BY <1>0, <1>4 DEF TypeOK, NextFromBatch, Deliver
  <2> QED
    BY <1>0, <1>4, <2>2, <2>3 DEF TInv, TypeOK, CursorInv, NextFromBatch, session
<1>5. ASSUME NEW h \in Handles, NextFetches(h) PROVE TInv'
  <2>1. Held' = Held
    BY <1>5 DEF NextFetches, Held
  <2>2. Counted'
    BY <1>0, <1>5, <2>1, SameCount DEF NextFetches
  <2>3. delivered' \in [Handles -> Seq(Nat)]
    BY <1>0, <1>5 DEF TypeOK, NextFetches, Deliver
  <2>4. FetchCount \in Nat /\ cursor.fetched + FetchCount <= cursor.total
    BY <1>0 DEF TypeOK, CursorInv, FetchCount, Least
  <2>5. mResult' \in [kind : {"null", "bad", "tuples"}, first : Nat, count : Nat]
    BY <1>0, <1>5, <2>4 DEF TypeOK, NextFetches, Tuples
  <2>6. /\ cursor' \in [open : BOOLEAN, total : Nat, fetched : Nat]
        /\ cursor'.fetched <= cursor'.total
    <3>1. cursor' = [cursor EXCEPT !.fetched = cursor.fetched + FetchCount]
      BY <1>5 DEF NextFetches
    <3>2. cursor \in [open : BOOLEAN, total : Nat, fetched : Nat]
      BY <1>0 DEF TypeOK
    <3> QED
      BY <2>4, <3>1, <3>2
  <2> QED
    BY <1>0, <1>5, <2>2, <2>3, <2>5, <2>6 DEF TInv, TypeOK, CursorInv, NextFetches
<1>6. ASSUME NEW h \in Handles, NextEnds(h) \/ NextFails(h) PROVE TInv'
  <2>1. Held' = Held
    BY <1>0, <1>6 DEF TypeOK, NextEnds, NextFails, ReturnNull, Held
  <2>2. Counted'
    BY <1>0, <1>6, <2>1, SameCount DEF NextEnds, NextFails
  <2>3. PICK err \in BOOLEAN,
             res \in [kind : {"null", "bad", "tuples"}, first : Nat, count : Nat],
             t \in {"idle", "active", "failed"} : CloseAndReset(mState, err, res, t)
    <3>1. CASE NextEnds(h)
      <4>1. CloseAndReset(mState, mWasError, Tuples(0, 0), tx)
        BY <3>1 DEF NextEnds
      <4>2. /\ mWasError \in BOOLEAN /\ tx \in {"idle", "active", "failed"}
            /\ Tuples(0, 0) \in [kind : {"null", "bad", "tuples"}, first : Nat, count : Nat]
        BY <1>0 DEF TypeOK, Tuples
      <4> QED
        BY <4>1, <4>2
    <3>2. CASE NextFails(h)
      <4> DEFINE t == IF tx = "active" THEN "failed" ELSE tx
      <4>1. CloseAndReset(mState, TRUE, BadResult, t)
        BY <3>2 DEF NextFails
      <4>2. /\ TRUE \in BOOLEAN /\ t \in {"idle", "active", "failed"}
            /\ BadResult \in [kind : {"null", "bad", "tuples"}, first : Nat, count : Nat]
        BY <1>0 DEF TypeOK, BadResult
      <4> HIDE DEF t
      <4> QED
        BY <4>1, <4>2
    <3> QED
      BY <1>6, <3>1, <3>2
  <2>4. /\ mState' \in {"Ready", "Open"}
        /\ mResult' \in [kind : {"null", "bad", "tuples"}, first : Nat, count : Nat]
        /\ mWasError' \in BOOLEAN
        /\ tx' \in {"idle", "active", "failed"}
        /\ cursor' \in [open : BOOLEAN, total : Nat, fetched : Nat]
        /\ cursor'.fetched <= cursor'.total
    BY <1>0, <2>3, ResetTypes DEF TypeOK
  <2>5. ReturnNull(h) /\ mResultOffset' = 0 /\ UNCHANGED <<conn, fetchSize, mReference>>
    BY <1>6 DEF NextEnds, NextFails
  <2> QED
    BY <1>0, <2>2, <2>4, <2>5 DEF TInv, TypeOK, CursorInv, ReturnNull
<1>7. ASSUME NEW h \in Handles, Drop(h) PROVE TInv'
  <2>1. Counted' /\ mReference' \in Nat
    BY <1>0, <1>7, DropCounts
  <2>2. /\ handle' \in [Handles -> {"none", "reading", "ended"}]
        /\ rows' \in [Handles -> 0 .. MaxRows]
        /\ delivered' \in [Handles -> Seq(Nat)]
    BY <1>0, <1>7 DEF TypeOK, Drop
  <2>3. CASE mReference - 1 = 0
    BY <1>0, <1>7, <2>1, <2>2, <2>3, ResetTypes DEF TInv, TypeOK, CursorInv, Drop
  <2>4. CASE mReference - 1 # 0
    BY <1>0, <1>7, <2>1, <2>2, <2>4 DEF TInv, TypeOK, CursorInv, Drop
  <2> QED
    BY <2>3, <2>4
<1>8. CASE UNCHANGED vars
  BY <1>0, <1>8
     DEF TInv, TypeOK, CursorInv, Counted, Held, vars, session, iterator, clients
<1> QED
  BY <1>1, <1>2, <1>3, <1>4, <1>5, <1>6, <1>7, <1>8 DEF Next, NextRow

\* They hold when the Datastore has been constructed.
LEMMA InitTyped == Init => TInv
<1> SUFFICES ASSUME Init PROVE TInv
  OBVIOUS
<1>1. Held = {}
  BY DEF Init, Held
<1>2. Counted
  BY <1>1, FS_EmptySet DEF Init, Counted
<1>3. TypeOK
  <2>1. NoCursor \in [open : BOOLEAN, total : Nat, fetched : Nat]
    BY DEF NoCursor
  <2>2. NullResult \in [kind : {"null", "bad", "tuples"}, first : Nat, count : Nat]
    BY DEF NullResult
  <2>3. <<>> \in Seq(Nat)
    OBVIOUS
  <2>4. 0 \in 0 .. MaxRows /\ 0 \in 0 .. MaxQueries
    BY DatastoreAssumption
  <2>5. /\ rows \in [Handles -> 0 .. MaxRows]
        /\ delivered \in [Handles -> Seq(Nat)]
        /\ handle \in [Handles -> {"none", "reading", "ended"}]
    BY <2>3, <2>4 DEF Init
  <2> QED
    BY <2>1, <2>2, <2>4, <2>5 DEF Init, TypeOK
<1> QED
  BY <1>2, <1>3 DEF Init, TInv, CursorInv, NoCursor

\* Every reachable state of the datastore is well typed; in particular the
\* reference count of the iterator never drops below zero.
THEOREM TypeCorrect == Spec => []TypeOK
<1>1. TInv => TypeOK
  BY DEF TInv
<1> QED
  BY <1>1, InitTyped, TypeStep, PTL DEF Spec

\* mReference is the number of handles that are out, through every query,
\* failure and release: the last release, and no other, brings it to zero.
THEOREM ReferencesCounted == Spec => []Counted
<1>1. TInv => Counted
  BY DEF TInv
<1> QED
  BY <1>1, InitTyped, TypeStep, PTL DEF Spec

-----------------------------------------------------------------------------
(* Cleaning up.                                                            *)

\* No transaction without a query, no query without a handle.
CleanInv == SessionIdleWhenReady /\ UnheldIsReady

\* Every step keeps the session clean.
LEMMA CleanStep == TypeOK /\ TypeOK' /\ CleanInv /\ [Next]_vars => CleanInv'
<1> SUFFICES ASSUME TypeOK, TypeOK', CleanInv, [Next]_vars PROVE CleanInv'
  OBVIOUS
<1> USE DEF CleanInv, SessionIdleWhenReady, UnheldIsReady
<1>1. CASE LoseConnection
  BY <1>1 DEF LoseConnection, iterator
<1>2. CASE Destroy
  BY <1>2 DEF Destroy, CloseAndReset
<1>3. ASSUME NEW h \in Handles, Query(h) PROVE CleanInv'
  <2> PICK n \in 0 .. MaxRows :
           \/ BeginFails(h, n)
           \/ \E v \in FetchSizes : DeclareFails(h, n, v) \/ QueryOpens(h, n, v)
    BY <1>3 DEF Query
  <2>0. HandOut(h, n)
    BY DEF BeginFails, DeclareFails, QueryOpens
  <2>1. mReference' # 0
    BY <2>0 DEF TypeOK, HandOut
  <2>2. CASE BeginFails(h, n)
    BY <2>1, <2>2 DEF BeginFails, session
  <2>3. ASSUME NEW v \in FetchSizes, DeclareFails(h, n, v) PROVE CleanInv'
    BY <2>1, <2>3 DEF DeclareFails, CloseAndReset, NoCursor
  <2>4. ASSUME NEW v \in FetchSizes, QueryOpens(h, n, v) PROVE CleanInv'
    BY <2>1, <2>4 DEF QueryOpens
  <2> QED
    BY <2>2, <2>3, <2>4
<1>4. ASSUME NEW h \in Handles, NextFromBatch(h) PROVE CleanInv'
  BY <1>4 DEF NextFromBatch, session
<1>5. ASSUME NEW h \in Handles, NextFetches(h) PROVE CleanInv'
  <2>1. mState # "Ready"
    BY <1>5 DEF NextFetches, CanFetch
  <2> QED
    BY <1>5, <2>1 DEF NextFetches
<1>6. ASSUME NEW h \in Handles, NextEnds(h) \/ NextFails(h) PROVE CleanInv'
  <2>1. CASE NextEnds(h)
    BY <2>1 DEF TypeOK, NextEnds, CloseAndReset, NoCursor
  <2>2. CASE NextFails(h)
    BY <2>2 DEF TypeOK, NextFails, CloseAndReset, NoCursor
  <2> QED
    BY <1>6, <2>1, <2>2
<1>7. ASSUME NEW h \in Handles, Drop(h) PROVE CleanInv'
  <2>1. CASE mReference - 1 = 0
    BY <1>7, <2>1 DEF TypeOK, Drop, CloseAndReset, NoCursor
  <2>2. CASE mReference - 1 # 0
    BY <1>7, <2>2 DEF Drop
  <2> QED
    BY <2>1, <2>2
<1>8. CASE UNCHANGED vars
  BY <1>8 DEF vars, session, iterator
<1> QED
  BY <1>1, <1>2, <1>3, <1>4, <1>5, <1>6, <1>7, <1>8 DEF Next, NextRow

LEMMA CleanInvAlways == Spec => []CleanInv
<1>1. Init => CleanInv
  BY DEF Init, CleanInv, SessionIdleWhenReady, UnheldIsReady, NoCursor
<1> QED
  BY <1>1, CleanStep, TypeCorrect, PTL DEF Spec

\* Whatever statement fails and however many clients share the iterator, an
\* iterator that data() may use again has no transaction and no cursor open.
THEOREM CleanAlways == Spec => []SessionIdleWhenReady
  BY CleanInvAlways, PTL DEF CleanInv

\* release() and the reference count: once nobody holds the iterator it is
\* ready for the next query, however the last one ended.
THEOREM UnheldIsReadyAlways == Spec => []UnheldIsReady
  BY CleanInvAlways, PTL DEF CleanInv

-----------------------------------------------------------------------------
(* The rows of a query.                                                    *)

\* No two handles at the same time.
OneHandle == \A g, h \in Handles : g = h

InOrder(s) == \A i \in 1 .. Len(s) : s[i] = i

\* Where a reading client stands: the rows it has are those before the batch
\* held and those taken from it, the batch is the last one the cursor gave,
\* and the cursor is that of the client's query.
Position(h) ==
  /\ mResult.kind \in {"null", "tuples"}
  /\ mResult.kind = "null" => mResultOffset = 0 /\ Len(delivered[h]) = 0
  /\ mResult.kind = "tuples" => Len(delivered[h]) = mResult.first - 1 + mResultOffset
  /\ CanFetch => /\ cursor.total = rows[h]
                 /\ fetchSize >= 1
                 /\ cursor.fetched = IF mResult.kind = "null" THEN 0
                                     ELSE mResult.first + mResult.count - 1

RowInv ==
  \A h \in Handles :
    /\ InOrder(delivered[h])
    /\ handle[h] = "none" => delivered[h] = <<>>
    /\ handle[h] = "reading" => Position(h)
    /\ (handle[h] = "ended" /\ ~ mWasError) => Len(delivered[h]) = rows[h]

\* A row with the next number keeps the rows in order.
LEMMA InOrderAppend ==
  ASSUME NEW s \in Seq(Nat), InOrder(s), NEW row \in Nat, row = Len(s) + 1
  PROVE  /\ InOrder(Append(s, row))
         /\ Len(Append(s, row)) = Len(s) + 1
<1>1. Len(Append(s, row)) = Len(s) + 1
  OBVIOUS
<1>2. \A i \in 1 .. Len(s) + 1 :
        Append(s, row)[i] = IF i <= Len(s) THEN s[i] ELSE row
  OBVIOUS
<1> QED
  BY <1>1, <1>2 DEF InOrder

\* Every step keeps the client's position.
LEMMA RowStep ==
  ASSUME OneHandle, TInv, TInv', SessionIdleWhenReady, RowInv, [Next]_vars
  PROVE  RowInv'
<1> SUFFICES ASSUME NEW g \in Handles
             PROVE  /\ InOrder(delivered'[g])
                    /\ handle'[g] = "none" => delivered'[g] = <<>>
                    /\ handle'[g] = "reading" => Position(g)'
                    /\ (handle'[g] = "ended" /\ ~ mWasError')
                         => Len(delivered'[g]) = rows'[g]
  BY DEF RowInv
<1>0. /\ TypeOK /\ Counted /\ CursorInv
      /\ InOrder(delivered[g])
      /\ handle[g] = "none" => delivered[g] = <<>>
      /\ handle[g] = "reading" => Position(g)
      /\ (handle[g] = "ended" /\ ~ mWasError) => Len(delivered[g]) = rows[g]
  BY DEF TInv, RowInv
<1>a. \A h \in Handles : h = g
  BY DEF OneHandle
<1>b. InOrder(<<>>) /\ Len(<<>>) = 0
  BY DEF InOrder
<1>1. CASE LoseConnection
  <2>1. ~ CanFetch'
    BY <1>1 DEF LoseConnection, CanFetch
  <2> QED
    BY <1>0, <1>1, <2>1 DEF LoseConnection, iterator, clients, Position
<1>2. CASE Destroy
  <2>1. Held = {}
    BY <1>0, <1>2, HeldFinite, FS_EmptySet DEF Destroy, Counted
  <2>2. handle[g] = "none"
    BY <2>1 DEF Held
  <2> QED
    BY <1>0, <1>2, <2>2 DEF Destroy, clients
<1>3. ASSUME NEW h \in Handles, Query(h) PROVE RowInv'
  <2> PICK n \in 0 .. MaxRows :
           \/ BeginFails(h, n)
           \/ \E v \in FetchSizes : DeclareFails(h, n, v) \/ QueryOpens(h, n, v)
    BY <1>3 DEF Query
  <2>1. /\ h = g /\ handle[g] = "none" /\ delivered' = delivered
        /\ handle' = [handle EXCEPT ![g] = "reading"]
        /\ rows' = [rows EXCEPT ![g] = n]
    BY <1>a DEF BeginFails, DeclareFails, QueryOpens, MayQuery, HandOut
  <2>2. handle'[g] = "reading" /\ delivered'[g] = <<>> /\ rows'[g] = n
    BY <1>0, <2>1 DEF TypeOK
  <2>3. mResult' = NullResult /\ mResultOffset' = 0
    BY DEF BeginFails, DeclareFails, QueryOpens, CloseAndReset
  <2>4. CanFetch' => /\ cursor'.total = n /\ cursor'.fetched = 0 /\ fetchSize' >= 1
    <3>1. CASE BeginFails(h, n)
      BY <3>1 DEF BeginFails, CanFetch, session
    <3>2. ASSUME NEW v \in FetchSizes, DeclareFails(h, n, v) PROVE ~ CanFetch'
      BY <3>2 DEF DeclareFails, CloseAndReset, CanFetch
    <3>3. ASSUME NEW v \in FetchSizes, QueryOpens(h, n, v)
          PROVE  cursor'.total = n /\ cursor'.fetched = 0 /\ fetchSize' >= 1
      BY <3>3, DatastoreAssumption DEF QueryOpens, AtLeastOne
    <3> QED
      BY <3>1, <3>2, <3>3
  <2>5. Position(g)'
    BY <1>b, <2>2, <2>3, <2>4 DEF Position, NullResult
  <2> QED
    BY <1>a, <1>b, <2>2, <2>5 DEF RowInv
<1>4. ASSUME NEW h \in Handles, NextFromBatch(h) PROVE RowInv'
  <2> DEFINE row == mResult.first + mResultOffset
  <2>1. /\ h = g /\ handle[g] = "reading" /\ handle' = handle /\ rows' = rows
        /\ mResult' = mResult /\ mResultOffset' = mResultOffset + 1
        /\ cursor' = cursor /\ conn' = conn /\ tx' = tx /\ fetchSize' = fetchSize
        /\ delivered' = [delivered EXCEPT ![g] = Append(delivered[g], row)]
    BY <1>4, <1>a DEF NextFromBatch, Deliver, session
  <2>2. Position(g) /\ mResult.kind = "tuples"
    BY <1>0, <1>4, <2>1 DEF NextFromBatch, NeedsFetch, Position
  <2>3. /\ delivered[g] \in Seq(Nat) /\ row \in Nat /\ row = Len(delivered[g]) + 1
        /\ mResult.first \in Nat /\ mResultOffset \in Nat
    <3>1. mResult.first \in Nat /\ mResultOffset \in Nat /\ delivered[g] \in Seq(Nat)
      BY <1>0 DEF TypeOK
    <3>2. Len(delivered[g]) = mResult.first - 1 + mResultOffset
      BY <2>2 DEF Position
    <3>3. mResult.first + mResultOffset = (mResult.first - 1 + mResultOffset) + 1
      BY <3>1
    <3>4. row \in Nat
      BY <3>1
    <3> QED
      BY <3>1, <3>2, <3>3, <3>4
  <2>4. delivered'[g] = Append(delivered[g], row)
    BY <1>0, <2>1 DEF TypeOK
  <2> HIDE DEF row
  <2>5. InOrder(delivered'[g]) /\ Len(delivered'[g]) = Len(delivered[g]) + 1
    BY <1>0, <2>3, <2>4, InOrderAppend
  <2>6. CanFetch' = CanFetch
    BY <2>1 DEF CanFetch
  <2>7. Position(g)'
    BY <2>1, <2>2, <2>3, <2>5, <2>6 DEF Position
  <2> QED
    BY <1>a, <2>1, <2>5, <2>7 DEF RowInv
<1>5. ASSUME NEW h \in Handles, NextFetches(h) PROVE RowInv'
  <2> DEFINE row == cursor.fetched + 1
  <2>1. /\ h = g /\ handle[g] = "reading" /\ handle' = handle /\ rows' = rows
        /\ NeedsFetch /\ CanFetch
        /\ mResult' = Tuples(row, FetchCount) /\ mResultOffset' = 1
        /\ cursor' = [cursor EXCEPT !.fetched = cursor.fetched + FetchCount]
        /\ fetchSize' = fetchSize
        /\ delivered' = [delivered EXCEPT ![g] = Append(delivered[g], row)]
    BY <1>5, <1>a DEF NextFetches, Deliver
  <2>2. Position(g)
    BY <1>0, <2>1
  <2>3. /\ cursor.fetched = Len(delivered[g])
        /\ delivered[g] \in Seq(Nat) /\ cursor.fetched \in Nat
    BY <1>0, <2>1, <2>2 DEF TypeOK, Position, NeedsFetch
  <2>4. FetchCount \in Nat
    BY <1>0 DEF TypeOK, CursorInv, FetchCount, Least
  <2>5. delivered'[g] = Append(delivered[g], row)
    BY <1>0, <2>1 DEF TypeOK
  <2>6. InOrder(delivered'[g]) /\ Len(delivered'[g]) = Len(delivered[g]) + 1
    BY <1>0, <2>3, <2>5, InOrderAppend
  <2>7. /\ cursor'.total = cursor.total
        /\ cursor'.fetched = cursor.fetched + FetchCount
    BY <1>0, <2>1 DEF TypeOK
  <2>8. mResult'.kind = "tuples" /\ mResult'.first = row /\ mResult'.count = FetchCount
    BY <2>1 DEF Tuples
  <2>9. Position(g)'
    <3>1. /\ cursor'.total = rows'[g] /\ fetchSize' >= 1
      BY <2>1, <2>2, <2>7 DEF Position
    <3>2. cursor'.fetched = mResult'.first + mResult'.count - 1
      BY <2>3, <2>4, <2>7, <2>8
    <3>3. Len(delivered'[g]) = mResult'.first - 1 + mResultOffset'
      BY <2>1, <2>3, <2>6, <2>8
    <3> QED
      BY <2>8, <3>1, <3>2, <3>3 DEF Position
  <2> QED
    BY <1>a, <2>1, <2>6, <2>9 DEF RowInv
<1>6. ASSUME NEW h \in Handles, NextEnds(h) \/ NextFails(h) PROVE RowInv'
  <2>1. /\ h = g /\ handle[g] = "reading" /\ NeedsFetch
        /\ handle' = [handle EXCEPT ![g] = "ended"] /\ rows' = rows
        /\ delivered' = delivered
    BY <1>6, <1>a DEF NextEnds, NextFails, ReturnNull
  <2>2. handle'[g] = "ended"
    BY <1>0, <2>1 DEF TypeOK
  <2>3. CASE NextFails(h)
    <3>1. mWasError'
      BY <2>3 DEF NextFails, CloseAndReset
    <3> QED
      BY <1>0, <1>a, <2>1, <2>2, <3>1 DEF RowInv
  <2>4. CASE NextEnds(h)
    <3>1. CanFetch /\ FetchCount = 0
      BY <2>4 DEF NextEnds
    <3>2. Position(g)
      BY <1>0, <2>1
    <3>3. cursor.total = rows[g] /\ cursor.fetched = cursor.total
      BY <1>0, <3>1, <3>2 DEF Position, FetchCount, Least, TypeOK, CursorInv
    <3>4. cursor.fetched = Len(delivered[g])
      BY <1>0, <2>1, <3>1, <3>2 DEF TypeOK, Position, NeedsFetch
    <3> QED
      BY <1>0, <1>a, <2>1, <2>2, <3>3, <3>4 DEF RowInv
  <2> QED
    BY <1>6, <2>3, <2>4
<1>7. ASSUME NEW h \in Handles, Drop(h) PROVE RowInv'
  <2>1. handle'[g] = "none" /\ delivered'[g] = <<>>
    BY <1>0, <1>7, <1>a DEF Drop, TypeOK
  <2> QED
    BY <1>a, <1>b, <2>1 DEF RowInv
<1>8. CASE UNCHANGED vars
  BY <1>0, <1>8 DEF vars, session, iterator, clients, Position, CanFetch
<1> QED
  BY <1>1, <1>2, <1>3, <1>4, <1>5, <1>6, <1>7, <1>8 DEF Next, NextRow, RowInv

\* With one client at a time, next() returns every row once and in order
\* whatever the fetch size, and null without an error only after the last one:
\* no failure at any point is mistaken for the end of the data.
THEOREM RowsCorrect ==
  ASSUME OneHandle PROVE Spec => [](RowsInOrder /\ NullMeansComplete)
<1>1. Init => RowInv
  BY DEF Init, RowInv, InOrder
<1>2. RowInv => RowsInOrder /\ NullMeansComplete
  BY DEF RowInv, InOrder, RowsInOrder, NullMeansComplete
<1>3. Init => TInv
  BY InitTyped
<1> QED
  BY <1>1, <1>2, <1>3, OneHandle, TypeStep, CleanAlways, RowStep, PTL DEF Spec
=============================================================================
