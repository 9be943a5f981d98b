-------------------------- MODULE DatastoreSession --------------------------
(***************************************************************************)
(* Datastore, DatastoreIterator and the intrusive reference count of the   *)
(* iterator, on top of a PostgreSQL session.  A Datastore owns one         *)
(* iterator; data() opens a cursor in a transaction and hands out a        *)
(* counted handle, next() reads the cursor batch by batch, and the         *)
(* transaction ends when the cursor is exhausted, when a statement fails   *)
(* or when the last handle goes.                                           *)
(*                                                                         *)
(* Clients behave as tools/dataDump does: setFetchSize, data, next until   *)
(* it returns null, hasError, drop the handle.  They may also drop it      *)
(* half way.  The Datastore is modelled as if the commented-out line of    *)
(* its constructor that creates the iterator were there.                   *)
(***************************************************************************)
EXTENDS Integers, FiniteSets, Sequences

CONSTANTS
  Handles,     \* client handles (DatastoreIteratorPtr variables)
  FetchSizes,  \* arguments of setFetchSize
  MaxRows,     \* bound: rows a query selects
  MaxQueries   \* bound: calls of data()

ASSUME DatastoreAssumption ==
  /\ IsFiniteSet(Handles)
  /\ FetchSizes \subseteq Nat
  /\ MaxRows \in Nat
  /\ MaxQueries \in Nat

VARIABLES
  \* The session, as libpq and the server present it.
  conn,           \* "up", "lost" or "finished"
  tx,             \* transaction status: "idle", "active" or "failed"
  cursor,         \* the open cursor: rows it selects and rows fetched
  \* DatastoreIterator
  mState,
  mResult,        \* the batch held: kind, first row, number of rows
  mResultOffset,
  mWasError,
  fetchSize,      \* the count in mFetchCommand
  mReference,
  \* Clients
  handle,         \* "none", "reading", or "ended" once next() returned null
  rows,           \* rows the handle's query selects
  delivered,      \* rows next() returned to the handle, in order
  queries         \* calls of data() so far

session  == <<conn, tx, cursor>>
iterator == <<mState, mResult, mResultOffset, mWasError, fetchSize, mReference>>
clients  == <<handle, rows, delivered, queries>>
vars     == <<session, iterator, clients>>

NoCursor  == [open |-> FALSE, total |-> 0, fetched |-> 0]
NullResult == [kind |-> "null", first |-> 0, count |-> 0]
BadResult  == [kind |-> "bad", first |-> 0, count |-> 0]
Tuples(first, count) == [kind |-> "tuples", first |-> first, count |-> count]

TypeOK ==
  /\ conn \in {"up", "lost", "finished"}
  /\ tx \in {"idle", "active", "failed"}
  /\ cursor \in [open : BOOLEAN, total : Nat, fetched : Nat]
  /\ mState \in {"Ready", "Open"}
  /\ mResult \in [kind : {"null", "bad", "tuples"}, first : Nat, count : Nat]
  /\ mResultOffset \in Nat
  /\ mWasError \in BOOLEAN
  /\ fetchSize \in Nat
  /\ mReference \in Nat
  /\ handle \in [Handles -> {"none", "reading", "ended"}]
  /\ rows \in [Handles -> 0 .. MaxRows]
  /\ delivered \in [Handles -> Seq(Nat)]
  /\ queries \in 0 .. MaxQueries

\* createConnection may fail, but the constructor's resetError() follows it.
Init ==
  /\ conn \in {"up", "lost"}
  /\ tx = "idle"
  /\ cursor = NoCursor
  /\ mState = "Ready"
  /\ mResult = NullResult
  /\ mResultOffset = 0
  /\ mWasError = FALSE
  /\ fetchSize = 0
  /\ mReference = 0
  /\ handle = [h \in Handles |-> "none"]
  /\ rows = [h \in Handles |-> 0]
  /\ delivered = [h \in Handles |-> <<>>]
  /\ queries = 0

-----------------------------------------------------------------------------
(* The session.                                                            *)

\* The server or the network goes away; the server rolls back.
LoseConnection ==
  /\ conn = "up"
  /\ conn' = "lost"
  /\ tx' = "idle"
  /\ cursor' = NoCursor
  /\ UNCHANGED <<iterator, clients>>

\* Mutant of CloseAndReset: CLOSE without END.
CloseAndResetNoEnd(state, err, res, t) ==
  /\ mState' = "Ready"
  /\ mResult' = IF state = "Open" THEN NullResult ELSE res
  /\ mWasError' = (err \/ (state = "Open" /\ (conn # "up" \/ t # "active")))
  /\ tx' = t
  /\ cursor' = IF state = "Open" /\ conn = "up" THEN NoCursor ELSE cursor

\* closeAndReset() called with the iterator in `state', the error flag at `err',
\* holding `res', and the session's transaction at `t': CLOSE succeeds only
\* inside a healthy transaction, END whenever the connection is up.
CloseAndReset(state, err, res, t) ==
  /\ mState' = "Ready"
  /\ mResult' = IF state = "Open" THEN NullResult ELSE res
  /\ mWasError' = (err \/ (state = "Open" /\ (conn # "up" \/ t # "active")))
  /\ tx' = IF state = "Open" /\ conn = "up" THEN "idle" ELSE t
  /\ cursor' = IF state = "Open" /\ conn = "up" THEN NoCursor ELSE cursor

-----------------------------------------------------------------------------
(* Datastore::data, called as in dataDump after setFetchSize(v).  With a   *)
(* busy iterator data() returns a null handle and nothing changes.         *)

MayQuery(h) ==
  /\ conn # "finished"
  /\ handle[h] = "none"
  /\ queries < MaxQueries
  /\ mState = "Ready"

\* The handle data() returns, for a query that selects n rows.
HandOut(h, n) ==
  /\ handle' = [handle EXCEPT ![h] = "reading"]
  /\ rows' = [rows EXCEPT ![h] = n]
  /\ mReference' = mReference + 1
  /\ queries' = queries + 1
  /\ UNCHANGED delivered

\* BEGIN fails: an error is noted, the iterator stays Ready and is handed out.
BeginFails(h, n) ==
  /\ MayQuery(h)
  /\ conn = "lost"
  /\ mResultOffset' = 0
  /\ mResult' = NullResult
  /\ mWasError' = TRUE
  /\ HandOut(h, n)
  /\ UNCHANGED <<session, mState, fetchSize>>

\* Mutant of AtLeastOne: no lower limit, FETCH 0 is possible.
AnySize(v) == v

\* setFetchSize's lower limit.
AtLeastOne(v) == IF v < 1 THEN 1 ELSE v

\* DECLARE fails: the transaction is closed again, the iterator handed out.
DeclareFails(h, n, v) ==
  /\ MayQuery(h)
  /\ conn = "up"
  /\ mResultOffset' = 0
  /\ fetchSize' = AtLeastOne(v)
  /\ CloseAndReset("Open", TRUE, NullResult, "failed")
  /\ HandOut(h, n)
  /\ UNCHANGED conn

QueryOpens(h, n, v) ==
  /\ MayQuery(h)
  /\ conn = "up"
  /\ mResultOffset' = 0
  /\ mResult' = NullResult
  /\ mState' = "Open"
  /\ fetchSize' = AtLeastOne(v)
  /\ tx' = "active"
  /\ cursor' = [open |-> TRUE, total |-> n, fetched |-> 0]
  /\ HandOut(h, n)
  /\ UNCHANGED <<conn, mWasError>>

-----------------------------------------------------------------------------
(* DatastoreIterator::next.                                                *)

\* The batch held is used up, or there is none.
NeedsFetch == mResult.kind = "null" \/ mResultOffset = mResult.count

\* FETCH can be answered.
CanFetch == conn = "up" /\ tx = "active" /\ cursor.open

Least(a, b) == IF a < b THEN a ELSE b

\* How many rows the next FETCH returns.
FetchCount == Least(fetchSize, cursor.total - cursor.fetched)

Deliver(h, row) == delivered' = [delivered EXCEPT ![h] = Append(@, row)]

\* A row of the batch held.
NextFromBatch(h) ==
  /\ handle[h] = "reading"
  /\ ~ NeedsFetch
  /\ Deliver(h, mResult.first + mResultOffset)
  /\ mResultOffset' = mResultOffset + 1
  /\ UNCHANGED <<session, mState, mResult, mWasError, fetchSize, mReference, handle, rows,
                 queries>>

\* The first row of a new batch.
NextFetches(h) ==
  /\ handle[h] = "reading"
  /\ NeedsFetch
  /\ CanFetch
  /\ FetchCount > 0
  /\ mResult' = Tuples(cursor.fetched + 1, FetchCount)
  /\ cursor' = [cursor EXCEPT !.fetched = @ + FetchCount]
  /\ Deliver(h, cursor.fetched + 1)
  /\ mResultOffset' = 1
  /\ UNCHANGED <<conn, tx, mState, mWasError, fetchSize, mReference, handle, rows, queries>>

ReturnNull(h) ==
  /\ handle' = [handle EXCEPT ![h] = "ended"]
  /\ UNCHANGED <<rows, delivered, queries>>

\* An empty batch: the end, next() returns null.
NextEnds(h) ==
  /\ handle[h] = "reading"
  /\ NeedsFetch
  /\ CanFetch
  /\ FetchCount = 0
  /\ mResultOffset' = 0
  /\ CloseAndReset(mState, mWasError, Tuples(0, 0), tx)
  /\ ReturnNull(h)
  /\ UNCHANGED <<conn, fetchSize, mReference>>

\* Mutant of NextFails: tries again instead of returning null.
NextFailsRetries(h) ==
  /\ handle[h] = "reading"
  /\ NeedsFetch
  /\ mResultOffset' = 0
  /\ CloseAndReset(mState, TRUE, BadResult, IF tx = "active" THEN "failed" ELSE tx)
  /\ UNCHANGED <<conn, fetchSize, mReference, clients>>

\* FETCH fails, for want of a connection, a transaction or a cursor or by an
\* error of its own, which also fails the transaction; next() returns null.
NextFails(h) ==
  /\ handle[h] = "reading"
  /\ NeedsFetch
  /\ mResultOffset' = 0
  /\ CloseAndReset(mState, TRUE, BadResult, IF tx = "active" THEN "failed" ELSE tx)
  /\ ReturnNull(h)
  /\ UNCHANGED <<conn, fetchSize, mReference>>

-----------------------------------------------------------------------------

\* Mutant of Drop: the count is tested before it goes down.
DropTestsFirst(h) ==
  /\ handle[h] # "none"
  /\ handle' = [handle EXCEPT ![h] = "none"]
  /\ rows' = [rows EXCEPT ![h] = 0]
  /\ delivered' = [delivered EXCEPT ![h] = <<>>]
  /\ mReference' = mReference - 1
  /\ IF mReference = 0
       THEN CloseAndReset(mState, mWasError, mResult, tx)
       ELSE UNCHANGED <<mState, mResult, mWasError, tx, cursor>>
  /\ UNCHANGED <<conn, mResultOffset, fetchSize, queries>>

(* The handle goes, read to the end or not.  intrusive_ptr_release calls   *)
(* Datastore::release for the last one, which calls closeAndReset.         *)
Drop(h) ==
  /\ handle[h] # "none"
  /\ handle' = [handle EXCEPT ![h] = "none"]
  /\ rows' = [rows EXCEPT ![h] = 0]
  /\ delivered' = [delivered EXCEPT ![h] = <<>>]
  /\ mReference' = mReference - 1
  /\ IF mReference - 1 = 0
       THEN CloseAndReset(mState, mWasError, mResult, tx)
       ELSE UNCHANGED <<mState, mResult, mWasError, tx, cursor>>
  /\ UNCHANGED <<conn, mResultOffset, fetchSize, queries>>

\* ~Datastore with no handle out: ~DatastoreIterator resets and PQfinish ends
\* the session.
Destroy ==
  /\ conn # "finished"
  /\ mReference = 0
  /\ CloseAndReset(mState, mWasError, mResult, tx)
  /\ conn' = "finished"
  /\ UNCHANGED <<mResultOffset, fetchSize, mReference, clients>>

Query(h) ==
  \E n \in 0 .. MaxRows :
    \/ BeginFails(h, n)
    \/ \E v \in FetchSizes : DeclareFails(h, n, v) \/ QueryOpens(h, n, v)

NextRow(h) == NextFromBatch(h) \/ NextFetches(h) \/ NextEnds(h) \/ NextFails(h)

Next ==
  \/ LoseConnection \/ Destroy
  \/ \E h \in Handles : Query(h) \/ NextRow(h) \/ Drop(h)

Spec == Init /\ [][Next]_vars

\* A client that reads goes on reading; nobody has to start a query.
FairSpec == Spec /\ \A h \in Handles : WF_vars(NextRow(h))

-----------------------------------------------------------------------------
(* Correctness.                                                            *)

\* An iterator that is Ready for the next query leaves no transaction open on
\* its connection, whichever statement failed before.
SessionIdleWhenReady == (mState = "Ready" /\ conn = "up") => tx = "idle" /\ ~ cursor.open

\* When no client holds the iterator it is Ready: a query abandoned half way
\* does not block the Datastore.
UnheldIsReady == mReference = 0 => mState = "Ready"

\* next() returns the rows of a query one by one, none twice and none skipped,
\* across every batch boundary.
RowsInOrder ==
  \A h \in Handles : \A i \in 1 .. Len(delivered[h]) : delivered[h][i] = i

\* When next() has returned null and hasError() is false, every row of the
\* query has been delivered: a lost connection or a failed statement is never
\* mistaken for the end of the data.
NullMeansComplete ==
  \A h \in Handles :
    (handle[h] = "ended" /\ ~ mWasError) => Len(delivered[h]) = rows[h]

\* A client that keeps calling next() gets null in the end.
ReadingEnds == \A h \in Handles : (handle[h] = "reading") ~> (handle[h] # "reading")

\* Datastore.cpp on data(): "an instance of Datastore can only do one query at a
\* time".  At most one client is waiting for rows of its query.
OneQueryAtATime == Cardinality({h \in Handles : handle[h] = "reading"}) <= 1
=============================================================================
