-------------------------- MODULE RequestPipeline --------------------------
(***************************************************************************)
(* The server: IOHandler (one per HTTP request, driven by an I/O thread),  *)
(* the LogicHandler workers with their executor loops, and the main thread *)
(* that starts and stops them.                                             *)
(*                                                                         *)
(* Requests travel through one request queue, responses through a queue    *)
(* per worker.  Both are BlockingConcurrentQueues and are used here by     *)
(* their contract, WorkQueue: an operation is one step, a timed dequeue    *)
(* gives up only when every request present is claimed by another worker,  *)
(* and the order of two responses is kept only if one thread sent both.    *)
(* What the queue does with a deadline that sem_timedwait rejects is part  *)
(* of it: that call, and a later call for the kernel unit it left behind,  *)
(* spins until it gets a request (BlockingConcurrentQueue!TokenBacked and  *)
(* SemaphoreSettles).                                                      *)
(*                                                                         *)
(* mStatus and mResponseQueue of an IOHandler are plain fields.  The I/O   *)
(* thread writes the first and reads the second while the caller of        *)
(* setResponseQueue does the opposite, without synchronisation; each of    *)
(* the two writes may become visible to the other thread only after its    *)
(* writer's read (the store buffer of the processor).                      *)
(***************************************************************************)
EXTENDS Integers, FiniteSets, Sequences

CONSTANTS
  Handlers,     \* the IOHandlers made while the server runs; none is freed
  NumWorkers,   \* LogicHandlers main creates
  mMaxRequest,  \* requests a LogicHandler keeps at most
  Attach,       \* whether a worker calls setResponseQueue on what it accepts
  Reports,      \* bound: the status callbacks that happen
  MaxPauses,    \* bound: times egress pauses per request
  MaxRejected   \* bound: deadlines of the request queue that are rejected

ASSUME PipelineAssumption ==
  /\ NumWorkers \in Nat \ {0}
  /\ mMaxRequest \in Nat \ {0}
  /\ Attach \in BOOLEAN
  /\ Reports \subseteq {"Ready", "Error", "Terminated", "Paused"}
  /\ MaxPauses \in Nat
  /\ MaxRejected \in Nat

Workers == 1 .. NumWorkers
nullptr == 0

ResponseCode == {"Ready", "Error", "Terminated", "Paused"}
Terminal == {"Error", "Terminated"}

VARIABLES
  \* IOHandler
  phase,           \* how far proxygen has brought each request
  mStatus,         \* IOHandler::mStatus
  mResponseQueue,  \* IOHandler::mResponseQueue: the worker owning it, or nullptr
  iopc,            \* where the I/O thread is in a status callback
  ioCode,          \* the status that callback is about to make visible
  pauses,          \* pauses so far
  \* Queues
  requestQueue,    \* requests enqueued and not dequeued
  fromIO,          \* responses about a handler sent by its I/O thread
  fromWorker,      \* responses about a handler sent by setResponseQueue's caller
  \* LogicHandler
  mIsRunning,      \* the atomic flag
  mRequestMap,     \* requests a worker has accepted
  stageCode,       \* LogicHandlerRequestStage::ioCode of an accepted request
  wpc,             \* where each worker is in executor_func
  cur,             \* the request a worker is calling setResponseQueue on
  seen,            \* the mStatus that call has read ahead of its own write
  \* main
  mpc, mnext,      \* where the main thread is, and which worker it is at
  \* history
  reordered,       \* handlers one of whose unsynchronised writes was late
  rejected         \* deadlines sem_timedwait has rejected

ioVars     == <<phase, mStatus, iopc, ioCode, pauses>>
workerVars == <<mRequestMap, stageCode, wpc, cur, seen>>
mainVars   == <<mpc, mnext>>
vars == <<ioVars, mResponseQueue, requestQueue, fromIO, fromWorker, mIsRunning,
          workerVars, mainVars, reordered, rejected>>

TypeOK ==
  /\ phase \in [Handlers -> {"none", "open", "complete", "closed"}]
  /\ mStatus \in [Handlers -> ResponseCode]
  /\ mResponseQueue \in [Handlers -> Workers \cup {nullptr}]
  /\ iopc \in [Handlers -> {"idle", "notify", "land"}]
  /\ ioCode \in [Handlers -> ResponseCode]
  /\ pauses \in [Handlers -> 0 .. MaxPauses]
  /\ requestQueue \subseteq Handlers
  /\ fromIO \in [Handlers -> Seq(ResponseCode)]
  /\ fromWorker \in [Handlers -> Seq(ResponseCode)]
  /\ mIsRunning \in [Workers -> BOOLEAN]
  /\ mRequestMap \in [Workers -> SUBSET Handlers]
  /\ stageCode \in [Handlers -> ResponseCode]
  /\ wpc \in [Workers -> {"new", "loop", "wait", "spin", "attach", "check", "land",
                          "drain", "exited", "deleted"}]
  /\ cur \in [Workers -> Handlers \cup {nullptr}]
  /\ seen \in [Workers -> ResponseCode]
  /\ mpc \in {"start", "serve", "stop", "join", "done"}
  /\ mnext \in 1 .. NumWorkers + 1
  /\ reordered \subseteq Handlers
  /\ rejected \in 0 .. MaxRejected

Init ==
  /\ phase = [h \in Handlers |-> "none"]
  /\ mStatus = [h \in Handlers |-> "Ready"]
  /\ mResponseQueue = [h \in Handlers |-> nullptr]
  /\ iopc = [h \in Handlers |-> "idle"]
  /\ ioCode = [h \in Handlers |-> "Ready"]
  /\ pauses = [h \in Handlers |-> 0]
  /\ requestQueue = {}
  /\ fromIO = [h \in Handlers |-> <<>>]
  /\ fromWorker = [h \in Handlers |-> <<>>]
  /\ mIsRunning = [w \in Workers |-> FALSE]
  /\ mRequestMap = [w \in Workers |-> {}]
  /\ stageCode = [h \in Handlers |-> "Ready"]
  /\ wpc = [w \in Workers |-> "new"]
  /\ cur = [w \in Workers |-> nullptr]
  /\ seen = [w \in Workers |-> "Ready"]
  /\ mpc = "start"
  /\ mnext = 1
  /\ reordered = {}
  /\ rejected = 0

-----------------------------------------------------------------------------
(* main.                                                                   *)

\* new LogicHandler and start(), one after the other; the server starts when
\* the last one runs.
Start ==
  /\ mpc = "start"
  /\ mnext <= NumWorkers
  /\ mIsRunning' = [mIsRunning EXCEPT ![mnext] = TRUE]
  /\ wpc' = [wpc EXCEPT ![mnext] = "loop"]
  /\ mnext' = mnext + 1
  /\ UNCHANGED <<ioVars, mResponseQueue, requestQueue, fromIO, fromWorker,
                 mRequestMap, stageCode, cur, seen, mpc, reordered, rejected>>

Serve ==
  /\ mpc = "start"
  /\ mnext > NumWorkers
  /\ mpc' = "serve"
  /\ UNCHANGED <<ioVars, mResponseQueue, requestQueue, fromIO, fromWorker,
                 mIsRunning, workerVars, mnext, reordered, rejected>>

\* A signal ends server.start(), whose I/O threads have returned from their
\* callbacks by then; t.join() returns and the deletions begin.
ServerEnds ==
  /\ mpc = "serve"
  /\ \A h \in Handlers : iopc[h] = "idle"
  /\ mpc' = "stop"
  /\ mnext' = 1
  /\ UNCHANGED <<ioVars, mResponseQueue, requestQueue, fromIO, fromWorker,
                 mIsRunning, workerVars, reordered, rejected>>

\* ~LogicHandler: stop() ...
Stop ==
  /\ mpc = "stop"
  /\ mnext <= NumWorkers
  /\ mIsRunning' = [mIsRunning EXCEPT ![mnext] = FALSE]
  /\ mpc' = "join"
  /\ UNCHANGED <<ioVars, mResponseQueue, requestQueue, fromIO, fromWorker,
                 workerVars, mnext, reordered, rejected>>

\* ... then join the thread and delete the worker with its response queue.
Join ==
  /\ mpc = "join"
  /\ wpc[mnext] = "exited"
  /\ wpc' = [wpc EXCEPT ![mnext] = "deleted"]
  /\ mnext' = mnext + 1
  /\ mpc' = IF mnext = NumWorkers THEN "done" ELSE "stop"
  /\ UNCHANGED <<ioVars, mResponseQueue, requestQueue, fromIO, fromWorker,
                 mIsRunning, mRequestMap, stageCode, cur, seen, reordered, rejected>>

-----------------------------------------------------------------------------
(* IOHandler, called by its I/O thread.                                    *)

\* The factory's onRequest makes an IOHandler; its onRequest and onBody store
\* headers and body.
OnRequest(h) ==
  /\ mpc = "serve"
  /\ phase[h] = "none"
  /\ phase' = [phase EXCEPT ![h] = "open"]
  /\ UNCHANGED <<mStatus, iopc, ioCode, pauses, mResponseQueue, requestQueue, fromIO,
                 fromWorker, mIsRunning, workerVars, mainVars, reordered, rejected>>

OnEOM(h) ==
  /\ mpc = "serve"
  /\ phase[h] = "open"
  /\ phase' = [phase EXCEPT ![h] = "complete"]
  /\ requestQueue' = requestQueue \cup {h}
  /\ UNCHANGED <<mStatus, iopc, ioCode, pauses, mResponseQueue, fromIO, fromWorker,
                 mIsRunning, workerVars, mainVars, reordered, rejected>>

\* proxygen's order of the status callbacks: requestComplete or onError comes
\* last and once, pauses and resumptions alternate.  (Of proxygen only this
\* order is modelled.)
MayReport(h, code) ==
  /\ code \in Reports
  /\ mpc = "serve"
  /\ iopc[h] = "idle"
  /\ CASE code = "Terminated" -> phase[h] = "complete"
       [] code = "Error"      -> phase[h] \in {"open", "complete"}
       [] code = "Paused"     -> /\ phase[h] = "complete" /\ mStatus[h] = "Ready"
                                 /\ pauses[h] < MaxPauses
       [] code = "Ready"      -> phase[h] = "complete" /\ mStatus[h] = "Paused"

\* What proxygen has told the handler so far.
Reported(h, code) ==
  /\ phase' = [phase EXCEPT ![h] = IF code \in Terminal THEN "closed" ELSE @]
  /\ pauses' = [pauses EXCEPT ![h] = IF code = "Paused" THEN @ + 1 ELSE @]

\* requestComplete, onError, onEgressPaused, onEgressResumed: mStatus=code is
\* visible before handleResponseNotification reads mResponseQueue.
Report(h, code) ==
  /\ MayReport(h, code)
  /\ Reported(h, code)
  /\ mStatus' = [mStatus EXCEPT ![h] = code]
  /\ iopc' = [iopc EXCEPT ![h] = "notify"]
  /\ ioCode' = [ioCode EXCEPT ![h] = code]
  /\ UNCHANGED <<mResponseQueue, requestQueue, fromIO, fromWorker, mIsRunning,
                 workerVars, mainVars, reordered, rejected>>

HandleResponseNotification(h) ==
  /\ iopc[h] = "notify"
  /\ fromIO' = [fromIO EXCEPT ![h] = IF mResponseQueue[h] # nullptr
                                       THEN Append(@, ioCode[h]) ELSE @]
  /\ iopc' = [iopc EXCEPT ![h] = "idle"]
  /\ ioCode' = [ioCode EXCEPT ![h] = "Ready"]
  /\ UNCHANGED <<phase, mStatus, pauses, mResponseQueue, requestQueue, fromWorker,
                 mIsRunning, workerVars, mainVars, reordered, rejected>>

\* The same callbacks when mResponseQueue is read, as null, before mStatus=code
\* has left the store buffer.  (Read as non-null, the enqueue's atomic
\* operations make mStatus visible first, which is Report.)
ReportLate(h, code) ==
  /\ MayReport(h, code)
  /\ mResponseQueue[h] = nullptr
  /\ Reported(h, code)
  /\ iopc' = [iopc EXCEPT ![h] = "land"]
  /\ ioCode' = [ioCode EXCEPT ![h] = code]
  /\ reordered' = reordered \cup {h}
  /\ UNCHANGED <<mStatus, mResponseQueue, requestQueue, fromIO, fromWorker, mIsRunning,
                 workerVars, mainVars, rejected>>

StatusLands(h) ==
  /\ iopc[h] = "land"
  /\ mStatus' = [mStatus EXCEPT ![h] = ioCode[h]]
  /\ iopc' = [iopc EXCEPT ![h] = "idle"]
  /\ ioCode' = [ioCode EXCEPT ![h] = "Ready"]
  /\ UNCHANGED <<phase, pauses, mResponseQueue, requestQueue, fromIO, fromWorker,
                 mIsRunning, workerVars, mainVars, reordered, rejected>>

-----------------------------------------------------------------------------
(* LogicHandler::executor_func.                                            *)

Full(w) == Cardinality(mRequestMap[w]) >= mMaxRequest

\* Mutant of TestLoop: the test leaves the flag clear.
TestLoopClears(w) ==
  /\ wpc' = [wpc EXCEPT ![w] = IF ~ mIsRunning[w] THEN "exited"
                               ELSE IF Full(w) THEN "loop" ELSE "wait"]
  /\ mIsRunning' = [mIsRunning EXCEPT ![w] = FALSE]

\* Mutant of TestLoop: with a full map the flag is not looked at.
TestLoopFullFirst(w) ==
  /\ wpc' = [wpc EXCEPT ![w] = IF Full(w) THEN "loop"
                               ELSE IF ~ mIsRunning[w] THEN "exited" ELSE "wait"]
  /\ mIsRunning' = [mIsRunning EXCEPT ![w] = TRUE]

\* while (mIsRunning.test_and_set()) ... if (mRequestMap.size() < mMaxRequest):
\* with a full map the loop body is empty and the loop spins.
TestLoop(w) ==
  /\ wpc' = [wpc EXCEPT ![w] = IF ~ mIsRunning[w] THEN "exited"
                               ELSE IF Full(w) THEN "loop" ELSE "wait"]
  /\ mIsRunning' = [mIsRunning EXCEPT ![w] = TRUE]

Loop(w) ==
  /\ wpc[w] = "loop"
  /\ TestLoop(w)
  /\ UNCHANGED <<ioVars, mResponseQueue, requestQueue, fromIO, fromWorker,
                 mRequestMap, stageCode, cur, seen, mainVars, reordered, rejected>>

\* Mutant of Dequeue: the request is looked at and left in the queue.
DequeuePeeks(w) ==
  /\ wpc[w] \in {"wait", "spin"}
  /\ \E h \in requestQueue :
       /\ mRequestMap' = [mRequestMap EXCEPT ![w] = @ \cup {h}]
       /\ stageCode' = [stageCode EXCEPT ![h] = "Ready"]
       /\ cur' = [cur EXCEPT ![w] = IF Attach THEN h ELSE @]
  /\ wpc' = [wpc EXCEPT ![w] = IF Attach THEN "attach" ELSE "drain"]
  /\ UNCHANGED <<ioVars, mResponseQueue, requestQueue, fromIO, fromWorker, mIsRunning,
                 seen, mainVars, reordered, rejected>>

\* wait_dequeue_timed returns a request, which is inserted as Ready.  (With
\* Attach, setResponseQueue is then called on it, as its declaration expects
\* and no caller in the repository does.)
Dequeue(w) ==
  /\ wpc[w] \in {"wait", "spin"}
  /\ \E h \in requestQueue :
       /\ requestQueue' = requestQueue \ {h}
       /\ mRequestMap' = [mRequestMap EXCEPT ![w] = @ \cup {h}]
       /\ stageCode' = [stageCode EXCEPT ![h] = "Ready"]
       /\ cur' = [cur EXCEPT ![w] = IF Attach THEN h ELSE @]
  /\ wpc' = [wpc EXCEPT ![w] = IF Attach THEN "attach" ELSE "drain"]
  /\ UNCHANGED <<ioVars, mResponseQueue, fromIO, fromWorker, mIsRunning, seen,
                 mainVars, reordered, rejected>>

\* wait_dequeue_timed returns false, within WorkQueue's contract.
DequeueTimeout(w) ==
  /\ wpc[w] = "wait"
  /\ Cardinality(requestQueue)
       <= Cardinality({v \in Workers \ {w} : wpc[v] \in {"wait", "spin"}})
  /\ wpc' = [wpc EXCEPT ![w] = "drain"]
  /\ UNCHANGED <<ioVars, mResponseQueue, requestQueue, fromIO, fromWorker, mIsRunning,
                 mRequestMap, stageCode, cur, seen, mainVars, reordered, rejected>>

Spinning == {w \in Workers : wpc[w] = "spin"}

\* A worker that holds requests waits for 50 ms, and such a deadline may be one
\* sem_timedwait rejects: wait_dequeue_timed goes on without a request into
\* `while (!inner.try_dequeue(item))', whose only way out is Dequeue.
DeadlineRejected(w) ==
  /\ wpc[w] = "wait"
  /\ mRequestMap[w] # {}
  /\ rejected < MaxRejected
  /\ rejected' = rejected + 1
  /\ wpc' = [wpc EXCEPT ![w] = "spin"]
  /\ UNCHANGED <<ioVars, mResponseQueue, requestQueue, fromIO, fromWorker, mIsRunning,
                 mRequestMap, stageCode, cur, seen, mainVars, reordered>>

\* The kernel unit a rejected call left behind lets a later call, with either
\* timeout, into the same loop.
LeftOverUnit(w) ==
  /\ wpc[w] = "wait"
  /\ Cardinality(Spinning) < rejected
  /\ wpc' = [wpc EXCEPT ![w] = "spin"]
  /\ UNCHANGED <<ioVars, mResponseQueue, requestQueue, fromIO, fromWorker, mIsRunning,
                 mRequestMap, stageCode, cur, seen, mainVars, reordered, rejected>>

\* setResponseQueue(queue), first its write ...
SetResponseQueue(w) ==
  /\ wpc[w] = "attach"
  /\ mResponseQueue' = [mResponseQueue EXCEPT ![cur[w]] = w]
  /\ wpc' = [wpc EXCEPT ![w] = "check"]
  /\ UNCHANGED <<ioVars, requestQueue, fromIO, fromWorker, mIsRunning,
                 mRequestMap, stageCode, cur, seen, mainVars, reordered, rejected>>

\* Mutant of Notable: errors are forgotten.
NotableWithoutError == {"Paused", "Terminated"}

\* The statuses setResponseQueue passes on at once.
Notable == {"Paused", "Error", "Terminated"}

Notified(h, code) ==
  [fromWorker EXCEPT ![h] = IF code \in Notable THEN Append(@, code) ELSE @]

\* ... then its read of mStatus and the notification.
CheckStatus(w) ==
  /\ wpc[w] = "check"
  /\ fromWorker' = Notified(cur[w], mStatus[cur[w]])
  /\ wpc' = [wpc EXCEPT ![w] = "drain"]
  /\ cur' = [cur EXCEPT ![w] = nullptr]
  /\ UNCHANGED <<ioVars, mResponseQueue, requestQueue, fromIO, mIsRunning,
                 mRequestMap, stageCode, seen, mainVars, reordered, rejected>>

\* setResponseQueue when mStatus is read before the write is visible.
CheckStatusEarly(w) ==
  /\ wpc[w] = "attach"
  /\ seen' = [seen EXCEPT ![w] = mStatus[cur[w]]]
  /\ wpc' = [wpc EXCEPT ![w] = "land"]
  /\ reordered' = reordered \cup {cur[w]}
  /\ UNCHANGED <<ioVars, mResponseQueue, requestQueue, fromIO, fromWorker, mIsRunning,
                 mRequestMap, stageCode, cur, mainVars, rejected>>

QueueLands(w) ==
  /\ wpc[w] = "land"
  /\ mResponseQueue' = [mResponseQueue EXCEPT ![cur[w]] = w]
  /\ fromWorker' = Notified(cur[w], seen[w])
  /\ wpc' = [wpc EXCEPT ![w] = "drain"]
  /\ cur' = [cur EXCEPT ![w] = nullptr]
  /\ seen' = [seen EXCEPT ![w] = "Ready"]
  /\ UNCHANGED <<ioVars, requestQueue, fromIO, mIsRunning, mRequestMap, stageCode,
                 mainVars, reordered, rejected>>

\* Mutant of Apply: Paused falls through to the removal.
ApplyFallsThrough(w, h, code) ==
  /\ mRequestMap' = [mRequestMap EXCEPT ![w] = IF code # "Ready" THEN @ \ {h} ELSE @]
  /\ stageCode' = [stageCode EXCEPT ![h] =
                     IF h \in mRequestMap[w] /\ code \notin Terminal THEN code ELSE @]

\* Mutant of Apply: Error only updates the stage.
ApplyKeepsError(w, h, code) ==
  /\ mRequestMap' = [mRequestMap EXCEPT ![w] = IF code = "Terminated" THEN @ \ {h} ELSE @]
  /\ stageCode' = [stageCode EXCEPT ![h] =
                     IF h \in mRequestMap[w] /\ code # "Terminated" THEN code ELSE @]

\* One response taken off the worker's queue and applied.
Apply(w, h, code) ==
  /\ mRequestMap' = [mRequestMap EXCEPT ![w] = IF code \in Terminal THEN @ \ {h} ELSE @]
  /\ stageCode' = [stageCode EXCEPT ![h] =
                     IF h \in mRequestMap[w] /\ code \notin Terminal THEN code ELSE @]

Drain(w) ==
  /\ wpc[w] = "drain"
  /\ \E h \in Handlers :
       /\ mResponseQueue[h] = w
       /\ \/ /\ fromIO[h] # <<>>
             /\ Apply(w, h, Head(fromIO[h]))
             /\ fromIO' = [fromIO EXCEPT ![h] = Tail(@)]
             /\ UNCHANGED fromWorker
          \/ /\ fromWorker[h] # <<>>
             /\ Apply(w, h, Head(fromWorker[h]))
             /\ fromWorker' = [fromWorker EXCEPT ![h] = Tail(@)]
             /\ UNCHANGED fromIO
  /\ UNCHANGED <<ioVars, mResponseQueue, requestQueue, mIsRunning, wpc, cur, seen,
                 mainVars, reordered, rejected>>

Drained(w) == \A h \in Handlers : mResponseQueue[h] = w => fromIO[h] = <<>> /\ fromWorker[h] = <<>>

\* try_dequeue returns false; the pass over the requests that are not Paused
\* calls handleRequestLogic, which is empty; the loop is tested again.
DrainEnd(w) ==
  /\ wpc[w] = "drain"
  /\ Drained(w)
  /\ TestLoop(w)
  /\ UNCHANGED <<ioVars, mResponseQueue, requestQueue, fromIO, fromWorker,
                 mRequestMap, stageCode, cur, seen, mainVars, reordered, rejected>>

-----------------------------------------------------------------------------
MainStep == Start \/ Serve \/ Stop \/ Join

IOStep(h) == HandleResponseNotification(h) \/ StatusLands(h)

Proxygen(h) ==
  \/ OnRequest(h) \/ OnEOM(h)
  \/ \E code \in ResponseCode : Report(h, code) \/ ReportLate(h, code)

WorkerStep(w) ==
  \/ Loop(w) \/ Dequeue(w) \/ DequeueTimeout(w) \/ DeadlineRejected(w) \/ LeftOverUnit(w)
  \/ SetResponseQueue(w) \/ CheckStatus(w) \/ CheckStatusEarly(w) \/ QueueLands(w)
  \/ Drain(w) \/ DrainEnd(w)

Next ==
  \/ MainStep \/ ServerEnds
  \/ \E h \in Handlers : Proxygen(h) \/ IOStep(h)
  \/ \E w \in Workers : WorkerStep(w)

Spec == Init /\ [][Next]_vars

(***************************************************************************)
(* The main thread, the workers and I/O threads inside a callback run.     *)
(* Clients need not send anything and the server need not be stopped.      *)
(* Strong fairness of Dequeue is what the request queue guarantees: as     *)
(* long as consumers keep calling no item stays in it for ever             *)
(* (BlockingConcurrentQueue!EventuallyDelivered).                          *)
(***************************************************************************)
FairSpec ==
  /\ Spec
  /\ WF_vars(MainStep)
  /\ \A h \in Handlers : WF_vars(IOStep(h))
  /\ \A w \in Workers : WF_vars(WorkerStep(w))
  /\ SF_vars(\E w \in Workers : Dequeue(w))

-----------------------------------------------------------------------------
(* Correctness.                                                            *)

\* A request is waiting in the request queue or owned by one worker, never
\* both and never two workers: no request is worked on twice.
OneOwner ==
  /\ \A w \in Workers : mRequestMap[w] \cap requestQueue = {}
  /\ \A v, w \in Workers : v # w => mRequestMap[v] \cap mRequestMap[w] = {}

\* A worker lets go of a request only after its I/O side has finished with it,
\* however responses are reordered, and a request it let go of is not queued
\* again.
OnlyFinishedLeave ==
  [][\A w \in Workers : \A h \in mRequestMap[w] :
       h \notin mRequestMap'[w] => mStatus[h] \in Terminal /\ h \notin requestQueue']_vars

\* The codes of the responses in a queue.
Codes(queue) == {queue[i] : i \in 1 .. Len(queue)}

\* Once setResponseQueue and the callbacks are over, the worker that holds a
\* finished request has the news in its response queue, provided that every
\* write of mStatus and mResponseQueue was visible before its thread's read.
FinishIsHeard ==
  \A w \in Workers : \A h \in mRequestMap[w] :
    (/\ mResponseQueue[h] = w /\ cur[w] # h /\ iopc[h] = "idle"
     /\ mStatus[h] \in Terminal /\ h \notin reordered)
      => (Codes(fromIO[h]) \cup Codes(fromWorker[h])) \cap Terminal # {}

\* While the server runs, a queued request is eventually accepted by a worker,
\* or no worker has room.
QueuedIsAccepted ==
  \A h \in Handlers :
    h \in requestQueue
      ~> \/ h \notin requestQueue
         \/ \A w \in Workers : Full(w)
         \/ mpc # "serve"

\* A finished request that was given the worker's response queue leaves the
\* map of a worker that has room, provided that the writes of mStatus and
\* mResponseQueue were visible in time and that the worker does not spend the
\* rest of its life in the request queue's loop after a rejected deadline.
FinishedLeaveWithRoom ==
  \A w \in Workers : \A h \in Handlers :
    \/ (/\ h \in mRequestMap[w] /\ mResponseQueue[h] = w
        /\ mStatus[h] \in Terminal /\ h \notin reordered)
         ~> (h \notin mRequestMap[w] \/ h \in reordered \/ Full(w) \/ mpc # "serve")
    \/ <>[](wpc[w] = "spin")

\* Once the server has ended, main's deletions stop and join every worker,
\* including one that spins with a full map.  The one thing that keeps join
\* from returning is a worker that a rejected deadline left in the request
\* queue's loop with no request to come.
ShutdownCompletes ==
  (mpc = "stop") ~> \/ mpc = "done" /\ \A w \in Workers : wpc[w] = "deleted"
                    \/ requestQueue = {} /\ Spinning # {}

\* executor_func on its drain loop: "process IOResponses and update all requests
\* status values".  A response saying that a request is finished removes it as
\* long as the worker runs.
ResponsesAreProcessed ==
  \A w \in Workers : \A h \in Handlers :
    (h \in mRequestMap[w] /\ Codes(fromIO[h]) \cap Terminal # {})
      ~> (h \notin mRequestMap[w] \/ mpc # "serve")

\* The same comment, from the request's side: one whose client is done leaves.
FinishedRequestsLeave ==
  \A w \in Workers : \A h \in Handlers :
    (h \in mRequestMap[w] /\ mStatus[h] \in Terminal)
      ~> (h \notin mRequestMap[w] \/ mpc # "serve")

\* executor_func on its last loop: "everything that is not Paused will get their
\* data pushed  to the IOHandler".  A request whose connection stays ready is
\* not passed over as paused for ever, even if every write is visible in time.
ReadyIsPushed ==
  \A w \in Workers : \A h \in Handlers :
    (/\ h \in mRequestMap[w] /\ mStatus[h] = "Ready"
     /\ stageCode[h] = "Paused" /\ h \notin reordered)
      ~> (\/ h \notin mRequestMap[w] \/ mStatus[h] # "Ready"
          \/ stageCode[h] # "Paused" \/ h \in reordered \/ mpc # "serve")
=============================================================================
