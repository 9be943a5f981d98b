# ApiPack2: a verification project

TLA+ models of ApiPack2, the HTTP server under `src/source` and the script under
`src/local/data` that prepares its sample data, with TLC runs on
small instances and TLAPS proofs for all instances. Every definition is a
translation of source lines; `PROJECT.json` ("map") says which.

## 1. The system

| Component | Files | State | Operations |
|---|---|---|---|
| BlockingConcurrentQueue | `utils/blockingconcurrentqueue.h` | `inner` items, `m_count`, kernel semaphore | `enqueue`, `try_dequeue`, `wait_dequeue_timed` |
| IOHandler (one per HTTP request) | `handler/IOHandler*.cpp` | `mStatus`, `mResponseQueue` | proxygen callbacks, `setResponseQueue` |
| LogicHandler (four workers) | `handler/LogicHandler*.{h,cpp}` | `mIsRunning`, `mRequestMap`, response queue | `start`, `stop`, `executor_func`, destructor |
| main | `server/main.cpp` | the workers, the server thread | start, serve, delete |
| Datastore / DatastoreIterator | `datastore/Datastore*.{h,cpp}` | `mState`, `mResult`, `mResultOffset`, `mWasError`, the PostgreSQL session | `data`, `next`, `closeAndReset`, `release` |
| IntrusiveTracked / intrusive_ptr | `utils/` | `mReference` | add_ref, release |
| dataDump | `tools/dataDump` | none | client of Datastore |
| DatastoreConnectionInfo, ScheduleDay | `datastore/` | last URI; packed id | round robin; pack and unpack |
| ObjectPool | `utils/ObjectPool.h` | free list, caches | `create`, `destroy`, `reset` |
| ConcurrentQueue (`inner` of the blocking queue) | `utils/concurrentqueue.h` | per producer four indices, a ring or list of blocks and a block index; the block pool and its free list; the hash of implicit producers; the list of producers; consumer tokens | `enqueue`, `enqueue_bulk`, `try_dequeue`, `try_dequeue_bulk`, tokens, destructors |
| ReaderWriterQueue, BlockingReaderWriterQueue | `utils/readerwriterqueue.h` | a ring of circular blocks, stale copies of positions, a semaphore | `enqueue`, `try_enqueue`, `try_dequeue`, `peek`, `pop`, `size_approx`, destructor |
| GridCache, SerializedDataObject, Message, timers, ThriftConverter, Topics | | stubs, tables, measurement, decoding | |
| exportDataSet.py | `local/data` | `exportedIds`, `export_data.sql` | one handler per topic, `exportRecordsToFile` |
| import scripts | `local/data` | none | concatenate and load the dumps |

How they interact. I/O threads (proxygen) create an IOHandler per request and,
at the end of the message, enqueue it on one request queue. Workers wait on that
queue with a timeout, keep accepted requests in `mRequestMap` and read their own
response queue, through which IOHandlers report Ready, Paused, Error and
Terminated. The main thread starts the workers, runs the server and deletes the
workers when it has ended. The datastore is not called by the server yet; its
client is dataDump. exportDataSet.py runs by itself: its handlers feed each other
through `exportedIds`, then the ids are written out as `\copy` commands.

Inside ConcurrentQueue, an enqueuing thread gets a producer from the producer
list (with a token) or through the hash (without), fills blocks that come from the
pool, and publishes them by its tail index. A dequeuing thread picks a producer
from the list, reserves an element by the optimistic and overcommit counters,
raises the head index, finds the block through the block index and, having taken
the last element of a block, flags it empty or gives it back to the pool.

What is hard here. The counter of the queue and the kernel semaphore are two
words that are updated one after the other by several threads, while consumers
time out; a post and a time-out may cross. ConcurrentQueue has no lock: counters
that overshoot and are corrected, blocks that are used again while a consumer may
still look their old index entry up, a free list whose nodes are taken and
returned at the same time, hash tables that are replaced under the threads that
probe them, indices that wrap around. `setResponseQueue` and the status
callbacks run on different threads over plain fields. The worker's drain of
responses sits inside the test for room. Each PostgreSQL statement may fail, and
the connection may be lost between any two. The export handlers walk snapshots of
sets they add to, in slices, and rely on being called in one order. The full list, with lines, is under
"hazards" in `PROJECT.json`.

## 2. Modules

| Module | Models | Remarks |
|---|---|---|
| `WorkQueue` | what users of the queue rely on | abstract: items, producers in enqueue, consumers in a call |
| `BlockingConcurrentQueue` | enqueue, try_dequeue, wait_dequeue_timed step by step | one action per atomic operation |
| `ProducerQueue` | ConcurrentQueue: the queue of one producer, explicit and implicit | one action per access to shared memory |
| `BlockPool` | ConcurrentQueue: initial pool, free list, heap | likewise |
| `ImplicitProducerHash` | ConcurrentQueue: get_or_add_implicit_producer | likewise |
| `ConcurrentQueueConstants` | consumers and bounds of `ProducerQueue` and `ProducerList` | constants only; lets one module extend both |
| `ProducerList` | ConcurrentQueue: producers, tokens, choice of a producer, rotation | likewise; queues as counts |
| `ReaderWriterQueue` | both classes of readerwriterqueue.h | likewise |
| `RequestPipeline` | IOHandler, LogicHandler, main | queues by the contract of `WorkQueue` |
| `DatastoreSession` | Datastore, DatastoreIterator, reference count, libpq session | |
| `DatasetExport` | local/data/exportDataSet.py | the source database as a graph of references |
| `ConcurrentQueueProofs` | theorems of `ProducerQueue` and `ProducerList` | |
| other `*Proofs` | theorems of the module of that name | |
| `MC*` | instances for TLC | |

Definitions introduced as mutants are wrong variants of the definition that
follows them. No specification uses them; each is the plausible slip one property
is there to catch, and replacing the definition by it makes TLC report that
property.

### BlockingConcurrentQueue

A producer is outside (`idle`), between `inner.enqueue` and `fetch_add` (`add`),
or about to `sem_post` (`post`). A consumer spins, decrements `m_count`, enters
`sem_timedwait`, sleeps, times out, loads `m_count` and re-adjusts, or is in the
final loop (`take`). The spin loop ends in one step, `Decrement`: its
compare-and-swap and the `fetch_sub` after it both subtract one and are told
apart only by the value they replace. An unsuccessful `tryWait` changes nothing.
`inner` is a set of `<<producer, number>>`, FIFO per producer: the contract of the
queue under it, whose parts the four modules after this one look into.
`rejected` counts the deadlines `sem_timedwait` has rejected: such a call goes on
as if it had been granted a unit. Every clock reading within a second is possible,
and a second is scaled to 4 microseconds of 2 nanoseconds in the instances; the
proofs do not fix the scale.

### The parts of ConcurrentQueue

Common to the four modules: every access to an atomic is a step, and the steps of
all threads interleave. The fences and acquire and release orders of the code are
taken to give the order in which it writes its accesses; what a weaker machine
could do beyond that is not modelled. `compare_exchange_weak` that fails for no
reason repeats the step and changes nothing.

`ProducerQueue`. `isExplicit` chooses between ExplicitProducer and
ImplicitProducer. An enqueue of n elements runs `Begin`, then one step per block
it needs (`ReuseAhead`, `GrowExplicit`, `NewBlock`, or `InsertEntry`,
`GrowImplicit`, `ImplicitBlock`), `FailExplicit` or `FailImplicit` if memory runs
out, `Fill` and `Publish`. A dequeue of up to n runs `Load`, `Count`, `Decide`,
`Surplus`, `Claim` (the optimistic protocol), `Locate` and `Find` (the block
index), `Take`, and for each block `ExplicitEmpty`, or `ImplicitEmpty`, `Clear`
and `Free`. `enqueue` and `try_dequeue` are the bulk operations with a count
of 1: they make the same accesses in the same order. The element constructed for
index i is i, so that a consumer that gets a wrong block shows. The indices are
taken modulo `IndexMod` and start at `StartIndex`, close to the wrap-around: in
the code they start at 0 and reach every multiple of the block size.
Any allocation may fail, that of the index in the explicit constructor included
(`NoIndex`). `undone` remembers whether an explicit `enqueue_bulk` has failed after
it had put blocks into the index: what goes wrong from then on is reported in section 5,
and `ReadsItsElement`, `NeverOverwritten` and `DestructorExact` speak of the
histories before. The implicit constructor whose index allocation fails leaves a
null pointer that the first enqueue follows (concurrentqueue.h:2338, 2807); the
model has no such producer. `Load`
reads the three counters of the first test in one step: reading them one after the
other can only make the wanted number smaller, as it is for a call that asks for
less.

`BlockPool`. The initial pool is an index into an array, the heap a set of blocks
not made yet. `freeListRefs` counts references and carries the flag
`SHOULD_BE_ON_FREELIST` in its top bit. `LoadHead`, `LoadRefs`, `AddRef`,
`LoadNext`, `PopHead`, `Got` and `DropRef` are the accesses of `try_get`;
`add`, `LoadTop`, `Link`, `PushNode` and `Undo` those of `add` and
`add_knowing_refcount_is_zero`. `Link` stores next and refs in one step: nobody
else holds a reference to the node then.

`ImplicitProducerHash`. The tables form a sequence, the last one current, each
with its keys and values. A thread probes the tables from the current one back,
enters what it finds in an older one into the current one, or counts itself,
resizes under a try-lock, waits for somebody else's resize, creates a producer and
inserts it. `mine` remembers what a thread was given. Thread ids hash as the
constant `hash_thread_id` says. `MOODYCAMEL_CPP11_THREAD_LOCAL_SUPPORTED` is left
undefined by concurrentqueue.h:191-204, so that no thread ever leaves a table.

`ProducerList`. Owners make producers (`Recycle`, `CreateProducer`, `LoadTail`,
`PushProducer`), enqueue, and leave them (`DestroyToken`). Two accesses share a
step in two places, `Recycle` (the load of `inactive` and its compare-and-swap) and
`Place` (the number of producers and the offset, lines 1302-1303): the first is
harmless because a failed swap changes nothing, the second because the two numbers
say only where a search begins. Consumers use
`try_dequeue` (`Score`, `DequeueBest`), the bulk form (`DequeueList`) or a
ConsumerToken (`Place`, `RotateLoadTail`, `DequeueCurrent`, `Turn`,
`LoadTailAround`, `DequeueOthers`). The contents of a producer's queue are a
number; a consumer that shares it with others may find less than there is.
Its specification is called `ListSpec`, and `next_prod` and `explicitProducer` are
`next` and `isExplicit` of the producers, to leave the shorter names to
`ProducerQueue`.

### ReaderWriterQueue

`pro` and `con` are the two threads with their positions. The producer reads its
block's `front` only when its copy `localFront` says full, then looks whether the
next block is the front block, then allocates if it may; the consumer does the
same with `tail` and the tail block, and looks at its block once more after it
has seen that there is a later one. `size_approx` may be called by either thread;
that of the blocking class is one load of the semaphore's count (`availableApprox`).
With `blocking` a permit of the semaphore comes before each removal and after each
enqueue; the semaphore itself is taken by its contract. The k-th element is k.

### RequestPipeline

`phase` is how far proxygen has brought a request; of proxygen only the order of
its callbacks is assumed (`MayReport`), and that its I/O threads have left the
callbacks when `server.start()` returns (`ServerEnds`). `Report` followed by
`HandleResponseNotification` is a status callback; `ReportLate` and `StatusLands`
are the same callback when its store of `mStatus` becomes visible after its load
of `mResponseQueue`. `SetResponseQueue` and `CheckStatus`, or `CheckStatusEarly`
and `QueueLands`, are the two orders on the other side. `reordered` remembers
which handlers were affected.

`setResponseQueue` has no caller in the repository. The constant `Attach` says
whether a worker calls it on the request it has just accepted, the only point
where the worker has both the handler and its queue in hand: FALSE is the program
as built (`pipeline_workers`), TRUE the use the method is written for.

The request queue is one step per call, by the contract of `WorkQueue` and with
the one way out of it that the blocking queue has: a worker that holds requests
waits for 50 ms, and if `sem_timedwait` rejects the deadline (`DeadlineRejected`)
it stays in the loop of `wait_dequeue_timed` until it gets a request. The kernel
unit that is left over does the same to a later call (`LeftOverUnit`). At most
`MaxRejected` deadlines are rejected.

Two responses sent by one thread keep their order, two sent by different threads
need not, hence `fromIO` and `fromWorker`. `mRequestMap.insert` never meets an
existing key because IOHandlers are never freed. `handleRequestLogic` is empty, so
the pass over the requests changes nothing; which requests it would pass over is
`stageCode`.

### DatastoreSession

`conn`, `tx` and `cursor` are the session as libpq shows it: a failed statement
aborts the transaction, in an aborted transaction CLOSE fails and END rolls back,
losing the connection rolls back. A query is the number of rows it selects.
`closeAndReset` is one operator because `next`, `executeQuery`, `release` and the
destructor all call it. The constructor of Datastore has the line that creates the
iterator commented out and could not run; the model takes it as if it were there.
Clients call `setFetchSize` before `data` and drop handles at any point, as
dataDump does. Destroying a Datastore while a handle is out is not modelled.

### DatasetExport

The database is a set of stored rows, some of them without an object, and the
references the Thrift records hold; an id may be referenced and not stored. `pc`
is the call of the main program that runs next. A handler that reads a whole
table is one action, since nothing can be seen of it before it returns; the four
that work in chunks have one action per chunk, for any order of `list(set)`, and
`last` is the row the loop over the cursor left behind. The collections of the
script that are copied whole stand for each other. The exceptions the script can
raise by itself (an object that is None, a division by zero in a progress line, a
variable that only a loop assigns, an empty IN list) lead to "crashed", a failing
query to "failed"; nothing catches either. One is left out: `len` of a list that
the Thrift record does not hold (None, at exportDataSet.py:172, 215, 257, 284 and
321) raises a TypeError; in the model such a list is empty. The indentation is read as Python 2
reads it, a tab going to the next multiple of eight.

## 3. Runs

| Run | Instance | Shows |
|---|---|---|
| `queue` | 2 producers, 2 consumers, 2 items each, both timeouts LogicHandler uses, deadlines rejected | `TokenBacked`, `NoLostWakeup`, `SemaphoreSettles`, `WaitReturns`, `EventuallyDelivered`, `ImplementsWorkQueue` |
| `producer_queue` | both forms, 2 consumers, 3 blocks of 2, 6 elements, bulks of 3, any allocation failing | `TypeOK`, `ReservationsBalance`, `NoOverrun`, `ReadsItsElement`, `FreeIsUnused`, `NeverOverwritten`, `DestructorExact` |
| `producer_queue_undo` | the same with 8 elements, 20 indices from 16 on | `ClaimsAreFound` is violated: see 5 |
| `block_pool` | 3 threads, 1 block in the pool, 1 on the heap | `OneOwner`, `TakenWasOnList`, `NothingLost` |
| `producer_hash` | 3 threads that collide, tables of 2 and 4, 1 failed allocation | `SlotFree`, `OwnProducer`, `CallsReturn` |
| `producer_list` | 2 owners, 2 consumers, one with a token | `OneOwner`, `TriesEveryQueue` |
| `rwq` | both classes, 3 capacities, blocks of 2, 6 elements | `TakesOldest`, `RefusesRightly`, `SizeIsBetween`, `DestructorExact` |
| `pipeline_workers` | the program as built: 2 workers, 3 requests, room for 2, 2 rejected deadlines | `OneOwner`, `QueuedIsAccepted`, `ShutdownCompletes` |
| `pipeline_responses` | with `setResponseQueue` called: 1 worker, 2 requests, every status, one pause each, 1 rejected deadline | `FinishIsHeard`, `OnlyFinishedLeave`, `FinishedLeaveWithRoom` |
| `pipeline_full` | the same with room for 1 and `Reports` Terminated | `ResponsesAreProcessed` is violated: see 5 |
| `datastore` | 1 handle, 3 queries, 0 to 4 rows, fetch sizes 0, 1, 2 | `SessionIdleWhenReady`, `UnheldIsReady`, `NullMeansComplete`, `ReadingEnds` |
| `export` | 28 ids, 859 databases, chunks of 2 | `NothingUnrelated`, `StationsComplete`, `EventProgramsComplete`, `WrittenOnce`, `GoodDataExports` |

The type invariants of the modules with proofs, and `RowsInOrder`, are proved for
all instances and have no run of their own.

Why the bounds are enough. Two producers and two consumers let a time-out of one
consumer cross with a post meant for the other, and two items per producer let a
producer come back while its first item is still unclaimed; the counter reaches
both -2 and 4.

In `producer_queue` blocks of two make every second element cross into a new
block, bulks of three cover two blocks at any offset, six elements fill the three
blocks or, the first being emptied meanwhile, use it again (seven, which also pass,
take four times as long), the block index starts with two entries and grows
once, the indices pass the wrap-around after four elements, and allocation fails
at three blocks or at an index of more than four entries. Two consumers are enough
for one to overcommit while the other claims, for an element of a block to be
taken out of order, and for a consumer to hold an index header or entry that is
replaced meanwhile. In `block_pool` three threads let one hold a stale head while
the second takes the node and returns it and the third takes it again. In
`producer_hash` a table of two is half full at the first thread and too full at
the second, so that threads wait for a resize, hold different tables, and enter
themselves again; all ids collide at the last slot, so that probes wrap around.
In `producer_list` two producers put the wanted one before or behind the
consumer's place, a quota of 1 makes consumers rotate after every element, and a
producer is abandoned and taken over in the middle of a scan. In `rwq` the capacities
give one and several initial blocks, a capacity that is and one that is not the
size of a block less one, and blocks that are added while the consumer is inside one.

Two workers and three requests let both workers hold requests, one
hold two and be full while the other takes the third, and shutdown begin in each
case; two rejected deadlines let both workers spin, and the unit left over by one
catch the other. More rejected deadlines than workers add nothing that the unit
left over does not. One worker suffices for
the response protocol because an IOHandler talks to one response queue only. Four
rows with fetch sizes 1 and 2 give batches that end at the last row and batches
that do not; three queries let an iterator be used again after a failure and
after a clean end. Three stations, programs and persons with chunks of two give
full, short and missing last chunks; the databases take every subset of nine
references, of eight rows not stored and of six rows without an object, so that
chunks without rows come first, last and twice.

Deadlock. The hash and the list of producers are checked for deadlock. Elsewhere the system may stop (all spinning in the
`queue` instance after a rejected deadline with the queue empty; the bounds
on elements used up in `producer_queue` and `rwq`; all blocks in use and no memory
left in `block_pool`; the server ended; the Datastore destroyed; the script
ended), so CHECK_DEADLOCK is FALSE.

Fairness. Threads inside a call keep running (weak fairness per thread, as an
operating system gives): `FairSpec`. `EventuallyDelivered` assumes `Served` besides:
some consumer calls again as long as one is outside, because `executor_func` does
nothing else. `WaitReturns` does not assume it, since it speaks of a
consumer that is alone. Nobody has to enqueue, send a request,
close a connection or stop the server. In `RequestPipeline` the request queue is
one step, and strong fairness of `Dequeue` is the liveness half of its contract,
which `EventuallyDelivered` establishes for the implementation, rejected deadlines
included. No deadline has to be rejected, and none has to be accepted:
`ShutdownCompletes` and `FinishedLeaveWithRoom` name the worker caught in the
request queue as the one exception. In
`DatastoreSession` a client that reads goes on reading. In `ImplicitProducerHash`
a thread inside `get_or_add_implicit_producer` keeps running and need not call
again; a thread that waits for a larger table depends on the one that holds the
resize lock, which `CallsReturn` shows to be enough.
A consumer that has timed out may be overtaken for ever in the re-adjustment loop
(another one changes `m_count` before its compare-and-swap, or takes the unit it
was after), so `WaitReturns` asks that they be out of the queue
from some point on.

## 4. Proofs

All theorems hold for every value of the constants that satisfies the ASSUMEs
(finite sets of threads and handles; natural numbers; at least one worker, room
for one request, a clock with at least one unit per second). Two of them deserve a
word. `DatasetExport` assumes that no topic exported in full is one of the topics
whose ids are followed: the 14 calls of `handleFullCollection`
(exportDataSet.py:440-453) name none of these. `BlockPool` assumes that the initial
pool is an array of distinct blocks, none of them on the heap, and that there are
fewer threads than the flag bit of `freeListRefs` can tell apart (2^31 in the
code). `ProducerQueue` assumes that fewer than `IndexMod` / 2 elements are ever
enqueued and that what all consumers can ask for at once, with the overcommit there
may be, is at most that: the indices are compared as `circular_less_than` does,
which means something only for indices less than half of the circle apart (2^63
in the code).

* `BlockingConcurrentQueueProofs`. `TokenBacked` is not inductive. `CountInv`
  relates `m_count` to the items, the producers that have not announced theirs
  and the consumers granted or waiting; `SemaInv` relates kernel units, present
  or about to be posted, to the registered consumers that `m_count` no longer
  counts, and to the deadlines rejected so far: each rejected call goes on
  without the unit it stands for, and that unit stays behind. Both hold for every
  set of timeouts (`CountCorrect` is the first), and from them follow
  `TokensBacked`, `NoWakeupLost` and `Settles`, which say how far off the rejected
  deadlines can put the queue. `DeadlinesValidIffWholeSeconds` says when no
  deadline can be rejected (`DeadlinesValid`): exactly if every timeout is a whole
  number of seconds; `ValidNeverRejected` that then none ever is. `Refinement`
  proves that the queue implements `WorkQueue` step by step, for every set of
  timeouts: the give-up case rests on `CountInv`.
* `RequestPipelineProofs`. `TypeCorrect`; `OneOwnerAlways`;
  `OnlyFinishedLeaveAlways`, whose invariant says that every terminal code on
  its way (in a callback, read by `setResponseQueue`, or in a queue) belongs to a
  handler whose `mStatus` is terminal and stays so. The proof covers delayed
  writes. `FinishIsHeardAlways` is the converse: the terminal code gets into a
  response queue. It is not inductive, since the callback and `setResponseQueue`
  each write one of `mStatus` and `mResponseQueue` and then read the other.
  `HeardInv` states it for the states in which both reads are over; it needs
  `AttachInv` (a handler is given a response queue only after it has left the
  request queue, and enters that once) and `LateInv` (a write that is still to
  become visible is one of the delayed ones, which the property excludes, and
  nothing is requested before the server has started).
* `DatastoreSessionProofs`. `TypeCorrect` and `ReferencesCounted` (`mReference` is
  the number of handles out) are inductive together; `CleanAlways` and `UnheldIsReadyAlways` (no transaction on a Ready
  iterator, no busy iterator without a holder) for any number of handles; `RowsCorrect` (rows in
  order, null without error means all rows) for one handle at a time, from an
  invariant that ties the rows delivered to the batch held and the cursor.
* `DatasetExportProofs`, for every finite database. `ChunksType`, `ChunksCover`
  and `ListOfSet` say that the slices hold the elements of the list and leave
  none out, the last by the pigeonhole principle for `list(set)`. `TypeCorrect`
  and `NothingUnrelatedAlways` are inductive together. `StationsCompleteAlways`
  needs `Handled`: between the handlers, every station has its days or is still
  in a chunk, and nothing after the lineups adds a station.
  `EventProgramsCompleteAlways` needs the same of the programs of the days
  (`EventInv`), although `handlePrograms` adds programs while it works on a
  snapshot of them. `WrittenOnceAlways` rests on what `chunkedList` makes of a list
  without repetitions: slices that have no id in common, numbered one by one.
  `GoodDataExportsAlways` needs that no chunk is empty and that a chunk holds ids of
  the topic its handler reads (`ChunkInv`), and that there is a station once the
  lineups are read (`GoodInv`): the statements behind the cursor loops find a row.
* `ConcurrentQueueProofs`, about `ProducerQueue` and `ProducerList`; the two
  share the lemmas about sums.
  + The queue of one producer, for any number of consumers, blocks and elements:
    `ReservationsAlwaysBalance` and `NeverOverruns`. The balance is an equation
    between sums over the consumers; the second does not follow from it, because
    a consumer decides with a tail loaded after it was counted and with an
    overcommit loaded before. The invariant `ResInv` gives each counted call a
    rank (how many elements were spoken for when it was counted) and says, for
    every tail t from the present one up, that what has been claimed and what the
    calls in progress would decide to take if they loaded t fit below t
    (`Covered`). The producer can then publish at any moment. What may still be
    given back is bounded (`Spare`, `Room`), so that no difference of indices
    reaches half of the circle, where `circular_less_than` would change its mind.
  + The list, for any number of owners, consumers and producers. `OneOwnerAlways`
    is inductive together with `ListTypeCorrect`, which says that pointers of
    owners lead to producers that exist: the compare-and-swap of
    `recycle_or_create_producer` finds `inactive` only where nobody owns, and a
    new producer is one nobody could hold yet. `EveryQueueTried` needs to know
    which producers a call has yet to try. `ListInv` says that there is a
    numbering of the producers on the list in the order of their insertion
    (`Linked`), which producers each call's pointers may name (`Standing`), and
    that for a call with no other beside it what it has got and the sizes of the
    producers that it has yet to try (`Untried`: those from its pointer on, or, for
    the walk of a token around the list, those `Between` pointer and start) are no
    less than what there was when it began (`Searching`). A producer added during
    the walk comes before all others and is empty then; the walk that starts again
    from the tail it has loaded passes every producer that was there.
* `ImplicitProducerHashProofs`, for any threads and any hash function, hence any
  collisions. `OwnProducerAlways` rests on four facts about each thread: every
  entry of its id holds the producer it was given; a probe from its home slot
  gets to that entry without passing an empty slot (`Prefix`); a thread that has a
  producer is in one of the tables it has not searched yet (`KnownAt`); a search
  that has got to a slot has passed neither an empty slot nor the id (`Passed`). So
  a search that ends at an empty slot has not missed the id (`NotMissed`), and a
  thread only adds itself if it has no producer. `Grows` says what a step may do
  to the tables; it leaves the four facts of all other threads true.
  `SlotFreeAlways` is about how full the tables are, with its own invariant
  `RoomInv`. `implicitProducerHashCount` is the number of threads that have a
  producer or are on the way to one (`CountInv`); but the test for room uses the
  value the counter had when the thread was counted, failures give that value out
  again, and threads enter tables much later, from older ones too. So `Ranked`
  keeps for each thread the count it was given: at most m threads have one of at
  most m, and whoever is in a table, or about to enter it, has a count below three
  quarters of the capacity. Entering a later table again is covered because
  capacities only grow (`CapacityInv`), and no table gets a thread twice
  (`OnceOf`). A full table would then be an injection of its slots into fewer
  threads.
* `BlockPoolProofs`, for any number of threads and blocks: `OneOwnerAlways`,
  `TakenWasOnListAlways` and `NothingLostAlways`. The invariant says that there are
  a sequence of blocks without repetitions that is the free list (`ListInv`), a
  place for each block (not handed out, owned, on the list, just taken, being
  pushed, flagged to be added) and a thread that has it there, which agree with
  the positions of all calls (`PlaceInv`); and that `freeListRefs` of a block is
  the number of calls that hold a reference, plus the list's own or the flag, as its
  place says (`CountInv`). A flagged block has a thread that adds it exactly when
  nobody holds a reference any more: the last one out adds it. The three are
  existentially quantified, not variables: each action's lemma gives the next
  values. A thread about to pop still has the link it read, because its reference
  keeps the block from being added again and the block's link cannot change while
  it is on the list: no ABA. `OneOwner` and `NothingLost` speak of the list as the
  recursive function `Nodes` that follows the links; `NodesAre` identifies it with
  the sequence by induction over the natural numbers, in the form of a set of
  naturals without a least counterexample (`Inductive`).
* `ReaderWriterQueueProofs`, for every number of blocks and elements, every
  constructor argument greater than zero and every `MAX_BLOCK_SIZE` that is a power
  of two, at least 2, as the constructor asserts (`size_t` itself does not overflow
  in the model): `TakesOldestAlways`, `RefusesRightlyAlways`, `SizeIsBetweenAlways` and
  `DestructorExactAlways`. The invariant says that there are an enumeration of the
  blocks in the order of their links, from the front block on (`RingInv`), the
  place of the tail block in it, and for each block the number of elements that
  went before its own (`OffsetInv`); from these follow which number each slot in
  use holds (`DataInv`). Blocks between front and tail block are full, those
  behind are empty, but for the one that holds an element whose block is not yet
  the tail block (`FillInv`). The stale copies err on the safe side (`BlockOK`):
  what the consumer has seen of a block is no more than there is, what the
  producer thinks is in it is no less. `ProInv` and `ConInv` keep, for each point
  between two loads, what the first is still good for: for example, that a
  consumer which finds front and tail block to be the same after an empty front
  block began its call with nothing in the queue, or (`again`) that an empty front
  block which is no longer the tail block stays empty. Refusal needs
  `CapacityInv`, from the constructor's arithmetic (`Parameters`): one block can be
  spared. That `ceilToPow2` has something to return (`PowerAbove`) is an induction,
  again by a least counterexample. For `size_approx` the invariant follows the sum
  around the ring while blocks are linked in and the front block moves past the caller (`ConSum`,
  `ProSum`). Each action has a lemma; `AddBlockStep` and `StoreFrontBlockStep` give
  the new enumeration (`Inserted`, `Turned`).

Only model-checked: all liveness (`WaitReturns`, `EventuallyDelivered`,
`QueuedIsAccepted`, `FinishedLeaveWithRoom`, `ShutdownCompletes`, `ReadingEnds`,
`CallsReturn`), which the prover cannot handle under fairness; and of
`ProducerQueue` what concerns its blocks (`TypeOK`, `ReadsItsElement`,
`FreeIsUnused`, `DestructorExact`, `NeverOverwritten`). Their invariant has to say
which block holds which indices, in every block index header that a consumer may
still have, while the ring of an explicit producer is re-used and the entries of an
implicit one are cleared, and which offsets of each block have been emptied; it has
not been worked out.

## 5. Findings

`pipeline_full`: the drain of the response queue is inside the test for room
(LogicHandler.cpp:97). A worker at `mMaxRequest` never takes the response that
would make room; this holds with a caller of `setResponseQueue` too.

`producer_queue_undo`: an explicit `enqueue_bulk` that fails half way winds
`pr_blockIndexSlotsUsed` back while the blocks it added stay in the ring
("undo changes (but keep injected blocks)", concurrentqueue.h:2012). A later
enqueue that comes to such a block re-uses it without counting it (1783:
"guaranteed to be room"), the index looks less full than it is, and a new block takes the slot of one that still holds elements: the
consumer of such an element is led to another block. It takes a failed allocation
in a bulk enqueue through a token; the server uses neither.

Further disagreements, each stated in a module and refuted by TLC on a small
instance; they concern what a comment says or what the program as built does:

| Property | Module, instance | What happens |
|---|---|---|
| `TimeoutExpires` | BlockingConcurrentQueue: 1 producer, 1 consumer, `MaxItems` 2, `Timeouts <- BusyTimeouts` | `timed_wait` carries nanoseconds into the seconds when `tv_nsec` is greater than 10^9 (blockingconcurrentqueue.h:218), and `sem_timedwait` rejects exactly 10^9 too. With LogicHandler's busy wait of 50 ms one clock reading in 10^9 gives that; EINVAL counts as success (227), and the worker spins at line 775 until a request arrives, unable to time out, drain responses or stop. The semaphore stays one off afterwards, so that a later call spins in turn |
| `DestructorAssertion` | ProducerQueue: as `producer_queue_undo` | an explicit `enqueue_bulk` that re-uses an empty block overwrites the index entry at the front; when a later allocation of the call fails the front and the count are wound back, the entry is not. A slot that still counts as used then names a base the queue has not reached; the destructor looks for the half dequeued block through these slots and stops at the wrong one, against its assertion at 1719 |
| `FinishedRequestsLeave` | RequestPipeline: `Attach` FALSE, 1 handler, 1 worker, `mMaxRequest` 2, `Reports` Error and Terminated | without a caller of `setResponseQueue`, finished requests are never removed; after 128 requests per worker the server accepts no more (the comment it goes by is the one `pipeline_full` refutes) |
| `ReadyIsPushed` | RequestPipeline: 1 handler, `Reports` Ready and Paused, `MaxPauses` 1 | an older Paused can overtake a newer Ready |
| `OneQueryAtATime` | DatastoreSession: 2 handles, `FetchSizes` {2}, `MaxRows` 2, `MaxQueries` 2 | a second query can take over an iterator whose first handle is still being read |
| `PersonsComplete` | DatasetExport: as `export` | by its indentation most of `handlePerson` runs once per chunk of 1000 persons, for the last row only; the images and award programs of the others are not exported |

Related programs and award programs are exported without what they refer to in
turn, which the script does by design (it walks one snapshot) and no property
speaks against.

## 6. Not modelled, and why

Of the blocking queue: the bulk, token and unbounded variants, which have no
caller, as have `stopAndWait` and `signalBusyMessage` of LogicHandler. Of
ConcurrentQueue: element types whose constructors or assignments throw (the
elements here are pointers), moving and swapping whole queues, the memory
statistics and debugging code, and the code for threads that exit, which this
build does not compile; machines that reorder beyond what the fences forbid. The
four parts are checked each against what it needs of the others (`requisition_block`
gives a block nobody uses, a producer has one enqueuing thread), not composed: the
product of their states is out of TLC's reach.

ObjectPool is included nowhere and does not compile as it stands. GridCache, SerializedDataObject and
Message are stubs. ThriftConverter, Topics and the timers have no state of their
own. Statement text, logging and headers carry no control. The import scripts take
no decision. The life time of row data behind `next()` is not modelled. The export
takes its database as fixed; rows deleted between the script and the run of its
commands are not modelled.

## 7. Plan

Done: the queue and its contract, the four parts of ConcurrentQueue, the
reader-writer queue, the request pipeline, the datastore session and the export
script. Next, in this order:

1. Proofs: `ReadsItsElement` and `FreeIsUnused` of `ProducerQueue`, on top of
   `ResInv`: the elements claimed and not yet taken keep their blocks.
2. The life time of row data handed out by `next()` and of PGresults (cleared
   once, never used afterwards), as an extension of `DatastoreSession`.
3. Pure algorithms against reference definitions: packing of ScheduleDay ids,
   round robin of DatastoreConnectionInfo, id lists.
4. `ObjectPool`: create, destroy and reset against its limit and its increments.
