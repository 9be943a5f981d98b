----------------------- MODULE RequestPipelineProofs -----------------------
(***************************************************************************)
(* Proofs about RequestPipeline for any number of workers and requests.    *)
(***************************************************************************)
EXTENDS RequestPipeline, TLAPS

-----------------------------------------------------------------------------
(* Types.                                                                  *)

\* A worker inside setResponseQueue is calling it on a handler.
CurInv == \A w \in Workers : wpc[w] \in {"attach", "check", "land"} => cur[w] \in Handlers

\* The worker main joins is one it created.
JoinInv == mpc = "join" => mnext <= NumWorkers

TInv == TypeOK /\ CurInv /\ JoinInv

\* What is left of a queue of responses, and what was taken from it.
LEMMA HeadTail ==
  ASSUME NEW q \in Seq(ResponseCode), q # <<>>
  PROVE  Head(q) \in ResponseCode /\ Tail(q) \in Seq(ResponseCode)
OBVIOUS

\* Every step keeps the state well typed.
LEMMA TypeStep == TInv /\ [Next]_vars => TInv'
<1> SUFFICES ASSUME TInv, [Next]_vars PROVE TInv'
  OBVIOUS
<1> USE PipelineAssumption DEF TInv, TypeOK, CurInv, JoinInv, ResponseCode, Terminal, Workers,
        nullptr, ioVars, workerVars, mainVars
<1>1. CASE Start
  BY <1>1 DEF Start
<1>2. CASE Serve \/ ServerEnds
  BY <1>2 DEF Serve, ServerEnds
<1>3. CASE Stop
  BY <1>3 DEF Stop
<1>4. CASE Join
  BY <1>4 DEF Join
<1>5. ASSUME NEW h \in Handlers, OnRequest(h) PROVE TInv'
  BY <1>5 DEF OnRequest
<1>5a. ASSUME NEW h \in Handlers, OnEOM(h) PROVE TInv'
  BY <1>5a DEF OnEOM
<1>6. ASSUME NEW h \in Handlers, NEW code \in ResponseCode, Report(h, code) PROVE TInv'
  <2>1. code = "Paused" => pauses[h] < MaxPauses
    BY <1>6 DEF Report, MayReport
  <2>2. pauses' \in [Handlers -> 0 .. MaxPauses]
    BY <1>6, <2>1 DEF Report, Reported
  <2>3. phase' \in [Handlers -> {"none", "open", "complete", "closed"}]
    BY <1>6 DEF Report, Reported
  <2> QED
    BY <1>6, <2>2, <2>3 DEF Report
<1>7. ASSUME NEW h \in Handlers, NEW code \in ResponseCode, ReportLate(h, code) PROVE TInv'
  <2>1. code = "Paused" => pauses[h] < MaxPauses
    BY <1>7 DEF ReportLate, MayReport
  <2>2. pauses' \in [Handlers -> 0 .. MaxPauses]
    BY <1>7, <2>1 DEF ReportLate, Reported
  <2>3. phase' \in [Handlers -> {"none", "open", "complete", "closed"}]
    BY <1>7 DEF ReportLate, Reported
  <2>4. reordered' \subseteq Handlers
    BY <1>7 DEF ReportLate
  <2>5. /\ iopc' \in [Handlers -> {"idle", "notify", "land"}]
        /\ ioCode' \in [Handlers -> ResponseCode]
    BY <1>7 DEF ReportLate
  <2>6. UNCHANGED <<mStatus, mResponseQueue, requestQueue, fromIO, fromWorker,
                    mIsRunning, workerVars, mainVars, rejected>>
    BY <1>7 DEF ReportLate
  <2> QED
    BY <2>2, <2>3, <2>4, <2>5, <2>6
<1>8. ASSUME NEW h \in Handlers, HandleResponseNotification(h) PROVE TInv'
  BY <1>8 DEF HandleResponseNotification
<1>9. ASSUME NEW h \in Handlers, StatusLands(h) PROVE TInv'
  BY <1>9 DEF StatusLands
<1>10. ASSUME NEW w \in Workers, Loop(w) PROVE TInv'
  BY <1>10 DEF Loop, TestLoop
<1>11. ASSUME NEW w \in Workers, Dequeue(w) PROVE TInv'
  BY <1>11 DEF Dequeue
<1>12. ASSUME NEW w \in Workers, DequeueTimeout(w) \/ DeadlineRejected(w) \/ LeftOverUnit(w)
       PROVE  TInv'
  <2>1. /\ \E pc \in {"drain", "spin"} : wpc' = [wpc EXCEPT ![w] = pc]
        /\ UNCHANGED <<ioVars, mResponseQueue, requestQueue, fromIO, fromWorker, mIsRunning,
                       mRequestMap, stageCode, cur, seen, mainVars, reordered>>
    BY <1>12 DEF DequeueTimeout, DeadlineRejected, LeftOverUnit
  <2>2. rejected' \in 0 .. MaxRejected
    BY <1>12 DEF DequeueTimeout, DeadlineRejected, LeftOverUnit
  <2> QED
    BY <2>1, <2>2
<1>13. ASSUME NEW w \in Workers, SetResponseQueue(w) PROVE TInv'
  BY <1>13 DEF SetResponseQueue
<1>14. ASSUME NEW w \in Workers, CheckStatus(w) PROVE TInv'
  <2>1. fromWorker' \in [Handlers -> Seq(ResponseCode)]
    BY <1>14 DEF CheckStatus, Notified
  <2> QED
    BY <1>14, <2>1 DEF CheckStatus
<1>15. ASSUME NEW w \in Workers, CheckStatusEarly(w) PROVE TInv'
  <2>1. /\ cur[w] \in Handlers
        /\ reordered' = reordered \cup {cur[w]}
        /\ seen' = [seen EXCEPT ![w] = mStatus[cur[w]]]
        /\ wpc' = [wpc EXCEPT ![w] = "land"]
    BY <1>15 DEF CheckStatusEarly
  <2>2. /\ reordered' \subseteq Handlers
        /\ seen' \in [Workers -> ResponseCode]
    BY <2>1
  <2>3. UNCHANGED <<ioVars, mResponseQueue, requestQueue, fromIO, fromWorker, mIsRunning,
                    mRequestMap, stageCode, cur, mainVars, rejected>>
    BY <1>15 DEF CheckStatusEarly
  <2> QED
    BY <2>1, <2>2, <2>3
<1>16. ASSUME NEW w \in Workers, QueueLands(w) PROVE TInv'
  <2>1. fromWorker' \in [Handlers -> Seq(ResponseCode)]
    BY <1>16 DEF QueueLands, Notified
  <2> QED
    BY <1>16, <2>1 DEF QueueLands
<1>17. ASSUME NEW w \in Workers, Drain(w) PROVE TInv'
  <2>1. PICK h \in Handlers :
          /\ mResponseQueue[h] = w
          /\ \/ /\ fromIO[h] # <<>>
                /\ Apply(w, h, Head(fromIO[h]))
                /\ fromIO' = [fromIO EXCEPT ![h] = Tail(@)]
                /\ UNCHANGED fromWorker
             \/ /\ fromWorker[h] # <<>>
                /\ Apply(w, h, Head(fromWorker[h]))
                /\ fromWorker' = [fromWorker EXCEPT ![h] = Tail(@)]
                /\ UNCHANGED fromIO
    BY <1>17 DEF Drain
  <2>2. UNCHANGED <<ioVars, mResponseQueue, requestQueue, mIsRunning, wpc, cur, seen,
                    mainVars, reordered, rejected>>
    BY <1>17 DEF Drain
  <2>3. CASE /\ fromIO[h] # <<>>
             /\ Apply(w, h, Head(fromIO[h]))
             /\ fromIO' = [fromIO EXCEPT ![h] = Tail(@)]
             /\ UNCHANGED fromWorker
    <3>1. Head(fromIO[h]) \in ResponseCode /\ Tail(fromIO[h]) \in Seq(ResponseCode)
      BY <2>3, HeadTail
    <3>2. /\ fromIO' \in [Handlers -> Seq(ResponseCode)]
          /\ fromWorker' \in [Handlers -> Seq(ResponseCode)]
      BY <2>3, <3>1
    <3>3. /\ mRequestMap' \in [Workers -> SUBSET Handlers]
          /\ stageCode' \in [Handlers -> ResponseCode]
      BY <2>3, <3>1 DEF Apply
    <3> QED
      BY <2>2, <3>2, <3>3
  <2>4. CASE /\ fromWorker[h] # <<>>
             /\ Apply(w, h, Head(fromWorker[h]))
             /\ fromWorker' = [fromWorker EXCEPT ![h] = Tail(@)]
             /\ UNCHANGED fromIO
    <3>1. Head(fromWorker[h]) \in ResponseCode /\ Tail(fromWorker[h]) \in Seq(ResponseCode)
      BY <2>4, HeadTail
    <3>2. /\ fromIO' \in [Handlers -> Seq(ResponseCode)]
          /\ fromWorker' \in [Handlers -> Seq(ResponseCode)]
      BY <2>4, <3>1
    <3>3. /\ mRequestMap' \in [Workers -> SUBSET Handlers]
          /\ stageCode' \in [Handlers -> ResponseCode]
      BY <2>4, <3>1 DEF Apply
    <3> QED
      BY <2>2, <3>2, <3>3
  <2> QED
    BY <2>1, <2>3, <2>4
<1>18. ASSUME NEW w \in Workers, DrainEnd(w) PROVE TInv'
  BY <1>18 DEF DrainEnd, TestLoop
<1>19. CASE UNCHANGED vars
  BY <1>19 DEF vars
<1> HIDE PipelineAssumption DEF TInv, TypeOK, CurInv, JoinInv, ResponseCode, Terminal,
         Workers, nullptr, ioVars, workerVars, mainVars
<1> QED
  BY <1>1, <1>2, <1>3, <1>4, <1>5, <1>5a, <1>6, <1>7, <1>8, <1>9, <1>10, <1>11, <1>12,
     <1>13, <1>14, <1>15, <1>16, <1>17, <1>18, <1>19
     DEF Next, MainStep, Proxygen, IOStep, WorkerStep

\* Every reachable state of the pipeline is well typed.
THEOREM TypeCorrect == Spec => []TypeOK
<1>1. Init => TInv
  BY PipelineAssumption
     DEF Init, TInv, TypeOK, CurInv, JoinInv, ResponseCode, Workers, nullptr
<1>2. TInv => TypeOK
  BY DEF TInv
<1> QED
  BY <1>1, <1>2, TypeStep, PTL DEF Spec

-----------------------------------------------------------------------------
(* Ownership.                                                              *)

\* A request is queued or accepted only after its end of message.
EomInv ==
  /\ \A h \in requestQueue : phase[h] \in {"complete", "closed"}
  /\ \A w \in Workers : \A h \in mRequestMap[w] : phase[h] \in {"complete", "closed"}

\* No step makes a second owner, or queues a request before its end of message.
LEMMA OwnerStep ==
  TInv /\ TInv' /\ EomInv /\ OneOwner /\ [Next]_vars => EomInv' /\ OneOwner'
<1> SUFFICES ASSUME TInv, TInv', EomInv, OneOwner, [Next]_vars
             PROVE  EomInv' /\ OneOwner'
  OBVIOUS
<1>t. /\ phase \in [Handlers -> {"none", "open", "complete", "closed"}]
      /\ requestQueue \subseteq Handlers
      /\ mRequestMap \in [Workers -> SUBSET Handlers]
  BY DEF TInv, TypeOK
<1>1. ASSUME UNCHANGED <<phase, requestQueue, mRequestMap>> PROVE EomInv' /\ OneOwner'
  BY <1>1 DEF EomInv, OneOwner
<1>2. ASSUME NEW h \in Handlers, OnRequest(h) PROVE EomInv' /\ OneOwner'
  BY <1>t, <1>2 DEF OnRequest, workerVars, EomInv, OneOwner
<1>3. ASSUME NEW h \in Handlers, OnEOM(h) PROVE EomInv' /\ OneOwner'
  BY <1>t, <1>3 DEF OnEOM, workerVars, EomInv, OneOwner
<1>4. ASSUME NEW h \in Handlers, NEW code \in ResponseCode,
             Report(h, code) \/ ReportLate(h, code)
      PROVE  EomInv' /\ OneOwner'
  <2>1. phase' = [phase EXCEPT ![h] = IF code \in Terminal THEN "closed" ELSE @]
    BY <1>4 DEF Report, ReportLate, Reported
  <2>2. UNCHANGED <<requestQueue, mRequestMap>>
    BY <1>4 DEF Report, ReportLate, workerVars
  <2> QED
    BY <1>t, <2>1, <2>2 DEF EomInv, OneOwner
<1>5. ASSUME NEW w \in Workers, Dequeue(w) PROVE EomInv' /\ OneOwner'
  <2>1. PICK h \in requestQueue :
          /\ requestQueue' = requestQueue \ {h}
          /\ mRequestMap' = [mRequestMap EXCEPT ![w] = @ \cup {h}]
    BY <1>5 DEF Dequeue
  <2>2. phase' = phase
    BY <1>5 DEF Dequeue, ioVars
  <2> QED
    BY <1>t, <2>1, <2>2 DEF EomInv, OneOwner
<1>6. ASSUME NEW w \in Workers, Drain(w) PROVE EomInv' /\ OneOwner'
  <2>1. \E D \in SUBSET Handlers : mRequestMap' = [mRequestMap EXCEPT ![w] = @ \ D]
    <3>0. PICK h \in Handlers : \E c : Apply(w, h, c)
      BY <1>6 DEF Drain
    <3>1. PICK code : Apply(w, h, code)
      BY <3>0
    <3>2. CASE code \in Terminal
      BY <3>1, <3>2 DEF Apply
    <3>3. CASE code \notin Terminal
      <4>1. mRequestMap' = [mRequestMap EXCEPT ![w] = @ \ {}]
        BY <3>1, <3>3 DEF Apply
      <4> QED
        BY <4>1
    <3> QED
      BY <3>2, <3>3
  <2>2. UNCHANGED <<phase, requestQueue>>
    BY <1>6 DEF Drain, ioVars
  <2> QED
    BY <1>t, <2>1, <2>2 DEF EomInv, OneOwner
<1>7. CASE MainStep \/ ServerEnds \/ UNCHANGED vars
  BY <1>1, <1>7
     DEF MainStep, Start, Serve, Stop, Join, ServerEnds, ioVars, workerVars, vars
<1>8. ASSUME NEW h \in Handlers, IOStep(h) PROVE EomInv' /\ OneOwner'
  BY <1>1, <1>8 DEF IOStep, HandleResponseNotification, StatusLands, workerVars
<1>9. ASSUME NEW w \in Workers,
             \/ Loop(w) \/ DequeueTimeout(w) \/ DeadlineRejected(w) \/ LeftOverUnit(w)
             \/ SetResponseQueue(w) \/ CheckStatus(w)
             \/ CheckStatusEarly(w) \/ QueueLands(w) \/ DrainEnd(w)
      PROVE  EomInv' /\ OneOwner'
  BY <1>1, <1>9 DEF Loop, DequeueTimeout, DeadlineRejected, LeftOverUnit, SetResponseQueue,
     CheckStatus,
                    CheckStatusEarly, QueueLands, DrainEnd, ioVars
<1> QED
  BY <1>2, <1>3, <1>4, <1>5, <1>6, <1>7, <1>8, <1>9
     DEF Next, Proxygen, WorkerStep

\* A request is queued or owned by one worker, whatever the interleaving of
\* I/O threads, workers and main.
THEOREM OneOwnerAlways == Spec => []OneOwner
<1>1. Init => TInv /\ EomInv /\ OneOwner
  BY PipelineAssumption
     DEF Init, TInv, TypeOK, CurInv, JoinInv, ResponseCode, Workers, nullptr, EomInv, OneOwner
<1> QED
  BY <1>1, OwnerStep, TypeStep, PTL DEF Spec

-----------------------------------------------------------------------------
(* News of the end of a request.                                           *)

\* A code appended to a queue is the only new one in it.
LEMMA CodesAppend ==
  ASSUME NEW queue \in Seq(ResponseCode), NEW code \in ResponseCode
  PROVE  Codes(Append(queue, code)) = Codes(queue) \cup {code}
  BY DEF Codes

\* Taking the head off a queue brings nothing new into it.
LEMMA CodesTail ==
  ASSUME NEW queue \in Seq(ResponseCode), queue # <<>>
  PROVE  /\ Codes(Tail(queue)) \subseteq Codes(queue)
         /\ Head(queue) \in Codes(queue)
         /\ Tail(queue) \in Seq(ResponseCode)
<1>1. Len(Tail(queue)) = Len(queue) - 1 /\ Len(queue) \in Nat \ {0}
  OBVIOUS
<1>2. \A i \in 1 .. Len(queue) - 1 : Tail(queue)[i] = queue[i + 1]
  OBVIOUS
<1>3. Head(queue) = queue[1]
  OBVIOUS
<1> QED
  BY <1>1, <1>2, <1>3 DEF Codes

Ended(h) == mStatus[h] \in Terminal

\* No callback follows the last one, and the one being carried out says what
\* mStatus says or is about to say.
CallbackInv ==
  \A h \in Handlers :
    /\ Ended(h) => phase[h] = "closed"
    /\ iopc[h] = "land" => ~ Ended(h) /\ (ioCode[h] \in Terminal => phase[h] = "closed")
    /\ iopc[h] = "notify" => ioCode[h] = mStatus[h]

\* Whatever says that a request has ended, says so truly.
NewsInv ==
  /\ \A h \in Handlers :
       (Codes(fromIO[h]) \cup Codes(fromWorker[h])) \cap Terminal # {} => Ended(h)
  /\ \A w \in Workers :
       wpc[w] = "land" /\ seen[w] \in Terminal => Ended(cur[w])

\* Callbacks keep their order, and an ended request stays ended.
LEMMA CallbackStep ==
  ASSUME TInv, CallbackInv, [Next]_vars
  PROVE  CallbackInv' /\ \A h \in Handlers : Ended(h) => Ended(h)'
<1> USE DEF Ended
<1>t. /\ phase \in [Handlers -> {"none", "open", "complete", "closed"}]
      /\ mStatus \in [Handlers -> ResponseCode]
      /\ iopc \in [Handlers -> {"idle", "notify", "land"}]
      /\ ioCode \in [Handlers -> ResponseCode]
  BY DEF TInv, TypeOK
<1> DEFINE Goal == CallbackInv' /\ \A h \in Handlers : Ended(h) => Ended(h)'
<1>1. ASSUME UNCHANGED <<phase, mStatus, iopc, ioCode>> PROVE Goal
  BY <1>1 DEF CallbackInv
<1>2. ASSUME NEW h \in Handlers, OnRequest(h) \/ OnEOM(h) PROVE Goal
  BY <1>t, <1>2 DEF OnRequest, OnEOM, CallbackInv, Terminal
<1>3. ASSUME NEW h \in Handlers, NEW code \in ResponseCode, Report(h, code) PROVE Goal
  <2>1. phase[h] # "closed" /\ iopc[h] = "idle"
    BY <1>3 DEF Report, MayReport, ResponseCode
  <2>2. phase' = [phase EXCEPT ![h] = IF code \in Terminal THEN "closed" ELSE @]
    BY <1>3 DEF Report, Reported
  <2> QED
    BY <1>t, <1>3, <2>1, <2>2 DEF Report, CallbackInv
<1>4. ASSUME NEW h \in Handlers, NEW code \in ResponseCode, ReportLate(h, code) PROVE Goal
  <2>1. phase[h] # "closed" /\ iopc[h] = "idle"
    BY <1>4 DEF ReportLate, MayReport, ResponseCode
  <2>2. phase' = [phase EXCEPT ![h] = IF code \in Terminal THEN "closed" ELSE @]
    BY <1>4 DEF ReportLate, Reported
  <2> QED
    BY <1>t, <1>4, <2>1, <2>2 DEF ReportLate, CallbackInv
<1>5. ASSUME NEW h \in Handlers, HandleResponseNotification(h) PROVE Goal
  BY <1>t, <1>5 DEF HandleResponseNotification, CallbackInv
<1>6. ASSUME NEW h \in Handlers, StatusLands(h) PROVE Goal
  BY <1>t, <1>6 DEF StatusLands, CallbackInv
<1>7. CASE MainStep \/ ServerEnds \/ UNCHANGED vars
  BY <1>1, <1>7 DEF MainStep, Start, Serve, Stop, Join, ServerEnds, ioVars, vars
<1>8. ASSUME NEW w \in Workers, WorkerStep(w) PROVE Goal
  BY <1>1, <1>8 DEF WorkerStep, Loop, Dequeue, DequeueTimeout, DeadlineRejected, LeftOverUnit,
     SetResponseQueue,
     CheckStatus, CheckStatusEarly, QueueLands, Drain, DrainEnd, ioVars
<1> QED
  BY <1>2, <1>3, <1>4, <1>5, <1>6, <1>7, <1>8 DEF Next, Proxygen, IOStep

\* News stays true, and only true news is added.
LEMMA NewsStep ==
  ASSUME TInv, CallbackInv, NewsInv, [Next]_vars
  PROVE  NewsInv'
<1>t. /\ fromIO \in [Handlers -> Seq(ResponseCode)]
      /\ fromWorker \in [Handlers -> Seq(ResponseCode)]
      /\ ioCode \in [Handlers -> ResponseCode]
      /\ mStatus \in [Handlers -> ResponseCode]
      /\ wpc \in [Workers -> {"new", "loop", "wait", "spin", "attach", "check", "land",
                               "drain", "exited", "deleted"}]
      /\ seen \in [Workers -> ResponseCode]
      /\ cur \in [Workers -> Handlers \cup {nullptr}]
      /\ CurInv
  BY DEF TInv, TypeOK
<1>s. \A h \in Handlers : Ended(h) => Ended(h)'
  BY CallbackStep
<1>1. ASSUME UNCHANGED <<fromIO, fromWorker, seen, cur>>,
             \A w \in Workers : wpc'[w] = "land" => wpc[w] = "land"
      PROVE  NewsInv'
  BY <1>1, <1>s, <1>t DEF NewsInv, CurInv
<1>2. ASSUME NEW h \in Handlers, HandleResponseNotification(h) PROVE NewsInv'
  <2>1. UNCHANGED <<fromWorker, seen, cur, wpc>> /\ ioCode[h] = mStatus[h]
    BY <1>2 DEF HandleResponseNotification, workerVars, CallbackInv
  <2>2. \/ fromIO' = fromIO
        \/ fromIO' = [fromIO EXCEPT ![h] = Append(@, ioCode[h])]
    BY <1>2, <1>t DEF HandleResponseNotification
  <2>3. CASE fromIO' = fromIO
    BY <1>1, <2>1, <2>3
  <2>4. CASE fromIO' = [fromIO EXCEPT ![h] = Append(@, ioCode[h])]
    <3>1. \A g \in Handlers : Codes(fromIO'[g]) =
            IF g = h THEN Codes(fromIO[g]) \cup {mStatus[h]} ELSE Codes(fromIO[g])
      BY <1>t, <2>1, <2>4, CodesAppend
    <3> QED
      BY <1>s, <1>t, <2>1, <3>1 DEF NewsInv, CurInv, Ended
  <2> QED
    BY <2>2, <2>3, <2>4
<1>3. ASSUME NEW w \in Workers, NEW h \in Handlers, NEW code \in ResponseCode,
             fromWorker' = Notified(h, code), fromIO' = fromIO,
             code \in Terminal => Ended(h)
      PROVE  \A g \in Handlers :
               (Codes(fromIO'[g]) \cup Codes(fromWorker'[g])) \cap Terminal # {} => Ended(g)'
  <2>1. CASE code \in Notable
    <3>1. fromWorker' = [fromWorker EXCEPT ![h] = Append(@, code)]
      BY <1>3, <2>1 DEF Notified
    <3>2. \A g \in Handlers : Codes(fromWorker'[g]) =
            IF g = h THEN Codes(fromWorker[g]) \cup {code} ELSE Codes(fromWorker[g])
      BY <1>t, <3>1, CodesAppend
    <3> QED
      BY <1>3, <1>s, <3>2 DEF NewsInv
  <2>2. CASE code \notin Notable
    <3>1. fromWorker' = fromWorker
      BY <1>3, <1>t, <2>2 DEF Notified
    <3> QED
      BY <1>3, <1>s, <3>1 DEF NewsInv
  <2> QED
    BY <2>1, <2>2
<1>4. ASSUME NEW w \in Workers, CheckStatus(w) PROVE NewsInv'
  <2>1. cur[w] \in Handlers
    BY <1>4, <1>t DEF CheckStatus, CurInv
  <2>2. \A v \in Workers : wpc'[v] = "land" => v # w /\ wpc[v] = "land" /\ cur'[v] = cur[v]
    BY <1>4, <1>t DEF CheckStatus
  <2>3. seen' = seen /\ fromIO' = fromIO /\ fromWorker' = Notified(cur[w], mStatus[cur[w]])
    BY <1>4 DEF CheckStatus
  <2>4. mStatus[cur[w]] \in ResponseCode
    BY <1>t, <2>1
  <2>5. \A g \in Handlers :
          (Codes(fromIO'[g]) \cup Codes(fromWorker'[g])) \cap Terminal # {} => Ended(g)'
    BY <1>3, <2>1, <2>3, <2>4 DEF Ended
  <2> QED
    BY <1>s, <1>t, <2>2, <2>3, <2>5 DEF NewsInv, CurInv, Ended
<1>5. ASSUME NEW w \in Workers, CheckStatusEarly(w) PROVE NewsInv'
  <2>1. cur[w] \in Handlers
    BY <1>5, <1>t DEF CheckStatusEarly, CurInv
  <2>2. UNCHANGED <<fromIO, fromWorker, cur>>
    BY <1>5 DEF CheckStatusEarly
  <2>3. seen' = [seen EXCEPT ![w] = mStatus[cur[w]]] /\ wpc' = [wpc EXCEPT ![w] = "land"]
    BY <1>5 DEF CheckStatusEarly
  <2> QED
    BY <1>s, <1>t, <2>1, <2>2, <2>3 DEF NewsInv, CurInv, Ended
<1>6. ASSUME NEW w \in Workers, QueueLands(w) PROVE NewsInv'
  <2>1. cur[w] \in Handlers /\ seen[w] \in ResponseCode
    BY <1>6, <1>t DEF QueueLands, CurInv
  <2>2. \A v \in Workers : wpc'[v] = "land" =>
          v # w /\ wpc[v] = "land" /\ cur'[v] = cur[v] /\ seen'[v] = seen[v]
    BY <1>6, <1>t DEF QueueLands
  <2>3. fromIO' = fromIO /\ fromWorker' = Notified(cur[w], seen[w])
    BY <1>6 DEF QueueLands
  <2>4. seen[w] \in Terminal => Ended(cur[w])
    BY <1>6 DEF QueueLands, NewsInv
  <2>5. \A g \in Handlers :
          (Codes(fromIO'[g]) \cup Codes(fromWorker'[g])) \cap Terminal # {} => Ended(g)'
    BY <1>3, <2>1, <2>3, <2>4
  <2> QED
    BY <1>s, <1>t, <2>2, <2>5 DEF NewsInv, CurInv
<1>7. ASSUME NEW w \in Workers, Drain(w) PROVE NewsInv'
  <2>1. UNCHANGED <<seen, cur, wpc>>
    BY <1>7 DEF Drain
  <2>2. PICK h \in Handlers :
          \/ /\ fromIO[h] # <<>> /\ fromWorker' = fromWorker
             /\ fromIO' = [fromIO EXCEPT ![h] = Tail(@)]
          \/ /\ fromWorker[h] # <<>> /\ fromIO' = fromIO
             /\ fromWorker' = [fromWorker EXCEPT ![h] = Tail(@)]
    BY <1>7 DEF Drain
  <2>3. \A g \in Handlers : /\ Codes(fromIO'[g]) \subseteq Codes(fromIO[g])
                            /\ Codes(fromWorker'[g]) \subseteq Codes(fromWorker[g])
    <3>1. CASE /\ fromIO[h] # <<>> /\ fromWorker' = fromWorker
               /\ fromIO' = [fromIO EXCEPT ![h] = Tail(@)]
      <4>1. Codes(Tail(fromIO[h])) \subseteq Codes(fromIO[h])
        BY <1>t, <3>1, CodesTail
      <4> QED
        BY <1>t, <3>1, <4>1
    <3>2. CASE /\ fromWorker[h] # <<>> /\ fromIO' = fromIO
               /\ fromWorker' = [fromWorker EXCEPT ![h] = Tail(@)]
      <4>1. Codes(Tail(fromWorker[h])) \subseteq Codes(fromWorker[h])
        BY <1>t, <3>2, CodesTail
      <4> QED
        BY <1>t, <3>2, <4>1
    <3> QED
      BY <2>2, <3>1, <3>2
  <2> QED
    BY <1>s, <1>t, <2>1, <2>3 DEF NewsInv, CurInv
<1>8. ASSUME NEW w \in Workers, Dequeue(w) PROVE NewsInv'
  <2>1. UNCHANGED <<fromIO, fromWorker, seen>>
    BY <1>8 DEF Dequeue
  <2>2. \A v \in Workers : wpc'[v] = "land" => wpc[v] = "land" /\ cur'[v] = cur[v]
    BY <1>8, <1>t DEF Dequeue
  <2> QED
    BY <1>s, <1>t, <2>1, <2>2 DEF NewsInv, CurInv
<1>9. CASE MainStep \/ ServerEnds \/ UNCHANGED vars
  BY <1>1, <1>9, <1>t
     DEF MainStep, Start, Serve, Stop, Join, ServerEnds, workerVars, vars
<1>10. ASSUME NEW h \in Handlers, Proxygen(h) \/ StatusLands(h) PROVE NewsInv'
  BY <1>1, <1>10 DEF Proxygen, OnRequest, OnEOM, Report, ReportLate, StatusLands, workerVars
<1>11. ASSUME NEW w \in Workers,
              \/ Loop(w) \/ DequeueTimeout(w) \/ DeadlineRejected(w) \/ LeftOverUnit(w)
              \/ SetResponseQueue(w) \/ DrainEnd(w)
       PROVE  NewsInv'
  BY <1>1, <1>11, <1>t DEF Loop, TestLoop, DequeueTimeout, DeadlineRejected, LeftOverUnit,
     SetResponseQueue, DrainEnd
<1> QED
  BY <1>2, <1>4, <1>5, <1>6, <1>7, <1>8, <1>9, <1>10, <1>11
     DEF Next, IOStep, WorkerStep

\* A worker lets go of a request only after its I/O side has finished with it,
\* and the request is not queued again: for any interleaving of the callbacks,
\* any delay of the unsynchronised writes and any order of the responses.
THEOREM OnlyFinishedLeaveAlways == Spec => OnlyFinishedLeave
<1> DEFINE Let == \A w \in Workers : \A h \in mRequestMap[w] :
                    h \notin mRequestMap'[w] => mStatus[h] \in Terminal /\ h \notin requestQueue'
<1>1. Init => TInv /\ CallbackInv /\ NewsInv
  <2> SUFFICES ASSUME Init PROVE TInv /\ CallbackInv /\ NewsInv
    OBVIOUS
  <2>1. TInv
    BY PipelineAssumption
       DEF Init, TInv, TypeOK, CurInv, JoinInv, ResponseCode, Workers, nullptr
  <2>2. CallbackInv
    BY DEF Init, CallbackInv, Ended, Terminal
  <2>3. NewsInv
    BY DEF Init, NewsInv, Codes
  <2> QED
    BY <2>1, <2>2, <2>3
<1>2. TInv /\ CallbackInv /\ NewsInv /\ [Next]_vars => TInv' /\ CallbackInv' /\ NewsInv'
  BY TypeStep, CallbackStep, NewsStep
<1>3. TInv /\ NewsInv /\ OneOwner /\ [Next]_vars => [Let]_vars
  <2> SUFFICES ASSUME TInv, NewsInv, OneOwner, Next,
                      NEW w \in Workers, NEW h \in mRequestMap[w], h \notin mRequestMap'[w]
               PROVE  mStatus[h] \in Terminal /\ h \notin requestQueue'
    OBVIOUS
  <2>t. /\ mRequestMap \in [Workers -> SUBSET Handlers]
        /\ fromIO \in [Handlers -> Seq(ResponseCode)]
        /\ fromWorker \in [Handlers -> Seq(ResponseCode)]
    BY DEF TInv, TypeOK
  <2>1. PICK v \in Workers : Dequeue(v) \/ Drain(v)
    <3>1. mRequestMap' # mRequestMap
      OBVIOUS
    <3> QED
      BY <3>1 DEF Next, MainStep, Start, Serve, Stop, Join, ServerEnds, Proxygen, OnRequest,
         OnEOM, Report, ReportLate, IOStep, HandleResponseNotification, StatusLands,
         WorkerStep, Loop, DequeueTimeout, DeadlineRejected, LeftOverUnit, SetResponseQueue,
         CheckStatus, CheckStatusEarly,
         QueueLands, DrainEnd, workerVars
  <2>2. ~ Dequeue(v)
    <3>1. ASSUME Dequeue(v) PROVE \A u \in Workers : mRequestMap[u] \subseteq mRequestMap'[u]
      <4>1. PICK g \in requestQueue : mRequestMap' = [mRequestMap EXCEPT ![v] = @ \cup {g}]
        BY <3>1 DEF Dequeue
      <4> QED
        BY <2>t, <4>1
    <3> QED
      BY <3>1
  <2>3. PICK g \in Handlers :
          \/ /\ fromIO[g] # <<>> /\ Apply(v, g, Head(fromIO[g]))
          \/ /\ fromWorker[g] # <<>> /\ Apply(v, g, Head(fromWorker[g]))
    BY <2>1, <2>2 DEF Drain
  <2>4. ASSUME NEW code, Apply(v, g, code) PROVE g = h /\ code \in Terminal
    BY <2>t, <2>4 DEF Apply
  <2>5. Ended(h)
    <3>1. CASE fromIO[g] # <<>> /\ Apply(v, g, Head(fromIO[g]))
      BY <2>t, <2>4, <3>1, CodesTail DEF NewsInv
    <3>2. CASE fromWorker[g] # <<>> /\ Apply(v, g, Head(fromWorker[g]))
      BY <2>t, <2>4, <3>2, CodesTail DEF NewsInv
    <3> QED
      BY <2>3, <3>1, <3>2
  <2>6. requestQueue' = requestQueue
    BY <2>1, <2>2 DEF Drain
  <2> QED
    BY <2>5, <2>6 DEF Ended, OneOwner
<1> QED
  BY <1>1, <1>2, <1>3, OneOwnerAlways, PTL DEF Spec, OnlyFinishedLeave

-----------------------------------------------------------------------------
(* The news reaches the worker.                                            *)

\* Taking the head off a queue takes only the head's code out of it.
LEMMA CodesOfTail ==
  ASSUME NEW queue \in Seq(ResponseCode), queue # <<>>
  PROVE  Codes(queue) \subseteq Codes(Tail(queue)) \cup {Head(queue)}
<1>1. Len(Tail(queue)) = Len(queue) - 1 /\ Len(queue) \in Nat \ {0}
  OBVIOUS
<1>2. \A i \in 1 .. Len(queue) - 1 : Tail(queue)[i] = queue[i + 1]
  OBVIOUS
<1>3. Head(queue) = queue[1]
  OBVIOUS
<1>4. ASSUME NEW i \in 1 .. Len(queue), i # 1 PROVE queue[i] \in Codes(Tail(queue))
  <2>1. i - 1 \in 1 .. Len(queue) - 1 /\ (i - 1) + 1 = i
    BY <1>1, <1>4
  <2>2. Tail(queue)[i - 1] = queue[i]
    BY <1>2, <2>1
  <2> QED
    BY <1>1, <2>1, <2>2 DEF Codes
<1> QED
  BY <1>3, <1>4 DEF Codes

\* The news that h has ended is in a response queue.
News(h) == (Codes(fromIO[h]) \cup Codes(fromWorker[h])) \cap Terminal # {}

\* A handler is given a response queue only after it has left the request
\* queue, which it enters once, at its end of message.
AttachInv ==
  /\ \A w \in Workers : wpc[w] \in {"attach", "check", "land"} =>
       cur[w] \notin requestQueue /\ phase[cur[w]] \in {"complete", "closed"}
  /\ \A h \in Handlers : mResponseQueue[h] # nullptr =>
       h \notin requestQueue /\ phase[h] \in {"complete", "closed"}

\* A write that is still to become visible is a late one, and no request is
\* made before the server has started.
LateInv ==
  /\ \A h \in Handlers : iopc[h] = "land" => h \in reordered
  /\ \A w \in Workers : wpc[w] = "land" => cur[w] \in reordered
  /\ mpc = "start" => \A h \in Handlers : phase[h] = "none"

\* The inductive form of FinishIsHeard: the news is there as soon as the two
\* threads have passed their reads.
HeardInv ==
  \A w \in Workers : \A h \in mRequestMap[w] :
    (/\ mResponseQueue[h] = w /\ ~ (wpc[w] = "check" /\ cur[w] = h) /\ iopc[h] # "notify"
     /\ Ended(h) /\ h \notin reordered)
      => News(h)

\* Response queues are handed over in order.
LEMMA AttachStep ==
  ASSUME TInv, EomInv, AttachInv, [Next]_vars
  PROVE  AttachInv'
<1>t. /\ phase \in [Handlers -> {"none", "open", "complete", "closed"}]
      /\ requestQueue \subseteq Handlers
      /\ mResponseQueue \in [Handlers -> Workers \cup {nullptr}]
      /\ wpc \in [Workers -> {"new", "loop", "wait", "spin", "attach", "check", "land",
                               "drain", "exited", "deleted"}]
      /\ cur \in [Workers -> Handlers \cup {nullptr}]
      /\ CurInv
  BY DEF TInv, TypeOK
<1>1. ASSUME UNCHANGED <<phase, requestQueue, mResponseQueue>>,
             \A w \in Workers : wpc'[w] \in {"attach", "check", "land"} =>
               wpc[w] \in {"attach", "check", "land"} /\ cur'[w] = cur[w]
      PROVE  AttachInv'
  BY <1>1 DEF AttachInv
<1>2. ASSUME NEW h \in Handlers, OnRequest(h) PROVE AttachInv'
  BY <1>t, <1>2 DEF OnRequest, workerVars, AttachInv, CurInv
<1>3. ASSUME NEW h \in Handlers, OnEOM(h) PROVE AttachInv'
  BY <1>t, <1>3 DEF OnEOM, workerVars, AttachInv, CurInv
<1>4. ASSUME NEW h \in Handlers, NEW code \in ResponseCode,
             Report(h, code) \/ ReportLate(h, code)
      PROVE  AttachInv'
  <2>1. phase' = [phase EXCEPT ![h] = IF code \in Terminal THEN "closed" ELSE @]
    BY <1>4 DEF Report, ReportLate, Reported
  <2>2. UNCHANGED <<requestQueue, mResponseQueue, wpc, cur>>
    BY <1>4 DEF Report, ReportLate, workerVars
  <2>3. \A g \in Handlers : phase[g] \in {"complete", "closed"}
                              => phase'[g] \in {"complete", "closed"}
    BY <1>t, <2>1
  <2> QED
    BY <1>t, <2>2, <2>3 DEF AttachInv, CurInv
<1>5. ASSUME NEW w \in Workers, Dequeue(w) PROVE AttachInv'
  <2>1. PICK h \in requestQueue :
          /\ requestQueue' = requestQueue \ {h}
          /\ cur' = [cur EXCEPT ![w] = IF Attach THEN h ELSE @]
    BY <1>5 DEF Dequeue
  <2>2. /\ wpc' = [wpc EXCEPT ![w] = IF Attach THEN "attach" ELSE "drain"]
        /\ UNCHANGED <<phase, mResponseQueue>>
    BY <1>5 DEF Dequeue, ioVars
  <2> QED
    BY <1>t, <2>1, <2>2 DEF EomInv, AttachInv
<1>6. ASSUME NEW w \in Workers, SetResponseQueue(w) \/ QueueLands(w) PROVE AttachInv'
  <2>1. /\ wpc[w] \in {"attach", "land"}
        /\ mResponseQueue' = [mResponseQueue EXCEPT ![cur[w]] = w]
        /\ UNCHANGED <<phase, requestQueue>>
    BY <1>6 DEF SetResponseQueue, QueueLands, ioVars
  <2>2. \A v \in Workers : wpc'[v] \in {"attach", "check", "land"} =>
               wpc[v] \in {"attach", "check", "land"} /\ cur'[v] = cur[v]
    BY <1>6, <1>t DEF SetResponseQueue, QueueLands
  <2> QED
    BY <1>t, <2>1, <2>2 DEF AttachInv, CurInv
<1>7. ASSUME NEW w \in Workers,
             \/ Loop(w) \/ DequeueTimeout(w) \/ DeadlineRejected(w) \/ LeftOverUnit(w)
             \/ CheckStatus(w) \/ CheckStatusEarly(w)
             \/ Drain(w) \/ DrainEnd(w)
      PROVE  AttachInv'
  BY <1>1, <1>7, <1>t DEF Loop, TestLoop, DequeueTimeout, DeadlineRejected, LeftOverUnit,
     CheckStatus, CheckStatusEarly, Drain,
     DrainEnd, ioVars
<1>8. CASE MainStep \/ ServerEnds \/ UNCHANGED vars
  BY <1>1, <1>8, <1>t
     DEF MainStep, Start, Serve, Stop, Join, ServerEnds, ioVars, workerVars, vars
<1>9. ASSUME NEW h \in Handlers, IOStep(h) PROVE AttachInv'
  BY <1>1, <1>9 DEF IOStep, HandleResponseNotification, StatusLands, workerVars
<1> QED
  BY <1>2, <1>3, <1>4, <1>5, <1>6, <1>7, <1>8, <1>9 DEF Next, Proxygen, WorkerStep

\* What is late is recorded as such.
LEMMA LateStep ==
  ASSUME TInv, LateInv, [Next]_vars
  PROVE  LateInv'
<1>t. /\ iopc \in [Handlers -> {"idle", "notify", "land"}]
      /\ wpc \in [Workers -> {"new", "loop", "wait", "spin", "attach", "check", "land",
                               "drain", "exited", "deleted"}]
      /\ cur \in [Workers -> Handlers \cup {nullptr}]
  BY DEF TInv, TypeOK
<1>1. ASSUME mpc' = "start" => mpc = "start" /\ phase' = phase,
             reordered \subseteq reordered',
             \A h \in Handlers : iopc'[h] = "land" => iopc[h] = "land" \/ h \in reordered',
             \A w \in Workers : wpc'[w] = "land" =>
               (wpc[w] = "land" \/ cur[w] \in reordered') /\ cur'[w] = cur[w]
      PROVE  LateInv'
  BY <1>1 DEF LateInv
<1>2. CASE MainStep \/ ServerEnds \/ UNCHANGED vars
  BY <1>1, <1>2, <1>t
     DEF MainStep, Start, Serve, Stop, Join, ServerEnds, ioVars, workerVars, mainVars, vars
<1>3. ASSUME NEW h \in Handlers, Proxygen(h) PROVE LateInv'
  <2>1. mpc' # "start"
    <3>1. \A code : MayReport(h, code) => mpc = "serve"
      BY DEF MayReport
    <3> QED
      BY <1>3, <3>1 DEF Proxygen, OnRequest, OnEOM, Report, ReportLate, mainVars
  <2> QED
    BY <1>1, <1>3, <1>t, <2>1
       DEF Proxygen, OnRequest, OnEOM, Report, ReportLate, workerVars
<1>4. ASSUME NEW h \in Handlers, IOStep(h) PROVE LateInv'
  BY <1>1, <1>4, <1>t
     DEF IOStep, HandleResponseNotification, StatusLands, workerVars, mainVars
<1>5. ASSUME NEW w \in Workers, WorkerStep(w) PROVE LateInv'
  <2>1. UNCHANGED <<phase, iopc, mpc>>
    BY <1>5 DEF WorkerStep, Loop, Dequeue, DequeueTimeout, DeadlineRejected, LeftOverUnit,
       SetResponseQueue, CheckStatus,
       CheckStatusEarly, QueueLands, Drain, DrainEnd, ioVars, mainVars
  <2>2. reordered \subseteq reordered'
    BY <1>5 DEF WorkerStep, Loop, Dequeue, DequeueTimeout, DeadlineRejected, LeftOverUnit,
       SetResponseQueue, CheckStatus,
       CheckStatusEarly, QueueLands, Drain, DrainEnd
  <2>3. \A v \in Workers : wpc'[v] = "land" =>
               (wpc[v] = "land" \/ cur[v] \in reordered') /\ cur'[v] = cur[v]
    BY <1>5, <1>t DEF WorkerStep, Loop, TestLoop, Dequeue, DequeueTimeout, DeadlineRejected,
       LeftOverUnit, SetResponseQueue,
       CheckStatus, CheckStatusEarly, QueueLands, Drain, DrainEnd
  <2> QED
    BY <1>1, <2>1, <2>2, <2>3
<1> QED
  BY <1>2, <1>3, <1>4, <1>5 DEF Next

\* News stays until it is acted upon, and nobody's last read misses it.
LEMMA HeardStep ==
  ASSUME TInv, TInv', EomInv, CallbackInv, AttachInv, LateInv, HeardInv, [Next]_vars
  PROVE  HeardInv'
<1>t. /\ mStatus \in [Handlers -> ResponseCode]
      /\ mResponseQueue \in [Handlers -> Workers \cup {nullptr}]
      /\ iopc \in [Handlers -> {"idle", "notify", "land"}]
      /\ ioCode \in [Handlers -> ResponseCode]
      /\ fromIO \in [Handlers -> Seq(ResponseCode)]
      /\ fromWorker \in [Handlers -> Seq(ResponseCode)]
      /\ requestQueue \subseteq Handlers
      /\ mRequestMap \in [Workers -> SUBSET Handlers]
      /\ wpc \in [Workers -> {"new", "loop", "wait", "spin", "attach", "check", "land",
                               "drain", "exited", "deleted"}]
      /\ cur \in [Workers -> Handlers \cup {nullptr}]
      /\ CurInv
  BY DEF TInv, TypeOK
<1>0. nullptr \notin Workers
  BY PipelineAssumption DEF Workers, nullptr
<1>1. ASSUME UNCHANGED <<mRequestMap, mResponseQueue>>, reordered \subseteq reordered',
             \A h \in Handlers : News(h) => News(h)',
             \A h \in Handlers : Ended(h)' /\ iopc'[h] # "notify" /\ h \notin reordered' =>
               Ended(h) /\ iopc[h] # "notify",
             \A w \in Workers : wpc[w] = "check" => wpc'[w] = "check" /\ cur'[w] = cur[w]
      PROVE  HeardInv'
  BY <1>1, <1>t DEF HeardInv
<1>2. ASSUME UNCHANGED <<fromIO, fromWorker>> PROVE \A h \in Handlers : News(h) => News(h)'
  BY <1>2 DEF News
<1>3. CASE Start
  <2>1. \A w \in Workers : mRequestMap'[w] = {}
    <3>1. mRequestMap' = mRequestMap /\ \A h \in Handlers : phase[h] = "none"
      BY <1>3 DEF Start, LateInv
    <3> QED
      BY <1>t, <3>1 DEF EomInv
  <2> QED
    BY <2>1 DEF HeardInv
<1>4. CASE Serve \/ Stop \/ Join \/ ServerEnds \/ UNCHANGED vars
  <2>1. UNCHANGED <<mRequestMap, mResponseQueue, fromIO, fromWorker, mStatus, iopc, reordered, cur>>
    BY <1>4 DEF Serve, Stop, Join, ServerEnds, ioVars, workerVars, vars
  <2>2. \A w \in Workers : wpc[w] = "check" => wpc'[w] = "check"
    BY <1>4, <1>t DEF Serve, Stop, Join, ServerEnds, workerVars, vars
  <2> QED
    BY <1>1, <1>2, <2>1, <2>2 DEF Ended
<1>5. ASSUME NEW h \in Handlers, OnRequest(h) \/ OnEOM(h) PROVE HeardInv'
  BY <1>1, <1>2, <1>5 DEF OnRequest, OnEOM, workerVars, Ended
<1>6. ASSUME NEW h \in Handlers, NEW code \in ResponseCode, Report(h, code) PROVE HeardInv'
  <2>1. UNCHANGED <<mRequestMap, mResponseQueue, fromIO, fromWorker, reordered, cur, wpc>>
    BY <1>6 DEF Report, workerVars
  <2>2. iopc' = [iopc EXCEPT ![h] = "notify"] /\ mStatus' = [mStatus EXCEPT ![h] = code]
    BY <1>6 DEF Report
  <2> QED
    BY <1>1, <1>2, <1>t, <2>1, <2>2 DEF Ended
<1>7. ASSUME NEW h \in Handlers, NEW code \in ResponseCode, ReportLate(h, code) PROVE HeardInv'
  <2>1. UNCHANGED <<mRequestMap, mResponseQueue, fromIO, fromWorker, mStatus, cur, wpc>>
    BY <1>7 DEF ReportLate, workerVars
  <2>2. iopc' = [iopc EXCEPT ![h] = "land"] /\ reordered' = reordered \cup {h}
    BY <1>7 DEF ReportLate
  <2> QED
    BY <1>1, <1>2, <1>t, <2>1, <2>2 DEF Ended
<1>8. ASSUME NEW h \in Handlers, StatusLands(h) PROVE HeardInv'
  <2>1. UNCHANGED <<mRequestMap, mResponseQueue, fromIO, fromWorker, reordered, cur, wpc>>
    BY <1>8 DEF StatusLands, workerVars
  <2>2. iopc' = [iopc EXCEPT ![h] = "idle"] /\ mStatus' = [mStatus EXCEPT ![h] = ioCode[h]]
    BY <1>8 DEF StatusLands
  <2>3. h \in reordered
    BY <1>8 DEF StatusLands, LateInv
  <2> QED
    BY <1>1, <1>2, <1>t, <2>1, <2>2, <2>3 DEF Ended
<1>9. ASSUME NEW h \in Handlers, HandleResponseNotification(h) PROVE HeardInv'
  <2>1. /\ UNCHANGED <<mRequestMap, mResponseQueue, fromWorker, mStatus, reordered, cur, wpc>>
        /\ iopc[h] = "notify" /\ iopc' = [iopc EXCEPT ![h] = "idle"]
        /\ fromIO' = [fromIO EXCEPT ![h] = IF mResponseQueue[h] # nullptr
                                             THEN Append(@, ioCode[h]) ELSE @]
    BY <1>9 DEF HandleResponseNotification, workerVars
  <2>2. ioCode[h] = mStatus[h]
    BY <2>1 DEF CallbackInv
  <2>3. CASE mResponseQueue[h] = nullptr
    <3>1. fromIO' = fromIO
      BY <1>t, <2>1, <2>3
    <3> QED
      BY <1>0, <1>t, <2>1, <2>3, <3>1 DEF HeardInv, Ended, News
  <2>4. CASE mResponseQueue[h] # nullptr
    <3>1. \A g \in Handlers : Codes(fromIO'[g]) =
            IF g = h THEN Codes(fromIO[g]) \cup {mStatus[h]} ELSE Codes(fromIO[g])
      BY <1>t, <2>1, <2>2, <2>4, CodesAppend
    <3> QED
      BY <1>t, <2>1, <3>1 DEF HeardInv, Ended, News
  <2> QED
    BY <2>3, <2>4
<1>10. ASSUME NEW w \in Workers, Dequeue(w) PROVE HeardInv'
  <2>1. PICK h \in requestQueue :
          /\ mRequestMap' = [mRequestMap EXCEPT ![w] = @ \cup {h}]
          /\ cur' = [cur EXCEPT ![w] = IF Attach THEN h ELSE @]
    BY <1>10 DEF Dequeue
  <2>2. /\ UNCHANGED <<mResponseQueue, fromIO, fromWorker, mStatus, iopc, reordered>>
        /\ wpc[w] \in {"wait", "spin"}
        /\ wpc' = [wpc EXCEPT ![w] = IF Attach THEN "attach" ELSE "drain"]
    BY <1>10 DEF Dequeue, ioVars
  <2>3. mResponseQueue[h] = nullptr
    BY <1>t, <2>1 DEF AttachInv
  <2> QED
    BY <1>0, <1>t, <2>1, <2>2, <2>3 DEF HeardInv, Ended, News
<1>11. ASSUME NEW w \in Workers, SetResponseQueue(w) PROVE HeardInv'
  <2>1. /\ UNCHANGED <<mRequestMap, fromIO, fromWorker, mStatus, iopc, reordered, cur>>
        /\ wpc[w] = "attach" /\ wpc' = [wpc EXCEPT ![w] = "check"]
        /\ mResponseQueue' = [mResponseQueue EXCEPT ![cur[w]] = w]
    BY <1>11 DEF SetResponseQueue, ioVars, workerVars
  <2> QED
    BY <1>t, <2>1 DEF HeardInv, CurInv, Ended, News
<1>12. ASSUME NEW w \in Workers, CheckStatus(w) PROVE HeardInv'
  <2>1. /\ UNCHANGED <<mRequestMap, mResponseQueue, fromIO, mStatus, iopc, reordered>>
        /\ wpc[w] = "check" /\ wpc' = [wpc EXCEPT ![w] = "drain"]
        /\ cur' = [cur EXCEPT ![w] = nullptr]
        /\ fromWorker' = Notified(cur[w], mStatus[cur[w]])
    BY <1>12 DEF CheckStatus, ioVars
  <2>2. PICK h \in Handlers : h = cur[w]
    BY <1>t, <2>1 DEF CurInv
  <2>3. fromWorker' = [fromWorker EXCEPT ![h] = IF mStatus[h] \in Notable
                                                THEN Append(@, mStatus[h]) ELSE @]
    BY <2>1, <2>2 DEF Notified
  <2>4. CASE mStatus[h] \in Notable
    <3>1. \A g \in Handlers : Codes(fromWorker'[g]) =
            IF g = h THEN Codes(fromWorker[g]) \cup {mStatus[h]} ELSE Codes(fromWorker[g])
      BY <1>t, <2>3, <2>4, CodesAppend
    <3>2. \A g \in Handlers : News(g) \/ (g = h /\ Ended(h)) => News(g)'
      BY <2>1, <3>1 DEF News, Ended
    <3>3. \A v \in Workers : wpc[v] = "check" =>
            v = w \/ (wpc'[v] = "check" /\ cur'[v] = cur[v])
      BY <1>t, <2>1
    <3> QED
      BY <1>t, <2>1, <2>2, <3>2, <3>3 DEF HeardInv, Ended
  <2>5. CASE mStatus[h] \notin Notable
    <3>1. fromWorker' = fromWorker /\ ~ Ended(h)
      BY <1>t, <2>3, <2>5 DEF Notable, Terminal, Ended
    <3> QED
      BY <1>t, <2>1, <2>2, <3>1 DEF HeardInv, Ended, News
  <2> QED
    BY <2>4, <2>5
<1>13. ASSUME NEW w \in Workers, CheckStatusEarly(w) PROVE HeardInv'
  <2>1. /\ UNCHANGED <<mRequestMap, mResponseQueue, fromIO, fromWorker, mStatus, iopc, cur>>
        /\ reordered \subseteq reordered'
        /\ wpc[w] = "attach" /\ wpc' = [wpc EXCEPT ![w] = "land"]
    BY <1>13 DEF CheckStatusEarly, ioVars
  <2>2. \A v \in Workers : wpc[v] = "check" => wpc'[v] = "check"
    BY <1>t, <2>1
  <2> QED
    BY <1>1, <1>2, <2>1, <2>2 DEF Ended
<1>14. ASSUME NEW w \in Workers, QueueLands(w) PROVE HeardInv'
  <2>1. /\ UNCHANGED <<mRequestMap, fromIO, mStatus, iopc, reordered>>
        /\ wpc[w] = "land" /\ wpc' = [wpc EXCEPT ![w] = "drain"]
        /\ cur' = [cur EXCEPT ![w] = nullptr]
        /\ mResponseQueue' = [mResponseQueue EXCEPT ![cur[w]] = w]
        /\ fromWorker' = Notified(cur[w], seen[w])
    BY <1>14 DEF QueueLands, ioVars
  <2>2. PICK h \in Handlers : h = cur[w]
    BY <1>t, <2>1 DEF CurInv
  <2>3. h \in reordered
    BY <2>1, <2>2 DEF LateInv
  <2>4. \A g \in Handlers \ {h} : mResponseQueue'[g] = mResponseQueue[g] /\ fromWorker'[g] = fromWorker[g]
    BY <1>t, <2>1, <2>2 DEF Notified
  <2>5. \A v \in Workers : wpc[v] = "check" => wpc'[v] = "check" /\ cur'[v] = cur[v]
    BY <1>t, <2>1
  <2>6. \A g \in Handlers \ {h} : News(g) => News(g)'
    BY <2>1, <2>4 DEF News
  <2> QED
    BY <1>t, <2>1, <2>3, <2>4, <2>5, <2>6 DEF HeardInv, Ended
<1>15. ASSUME NEW w \in Workers, Drain(w) PROVE HeardInv'
  <2>1. UNCHANGED <<mResponseQueue, mStatus, iopc, wpc, cur, reordered>>
    BY <1>15 DEF Drain, ioVars
  <2>2. PICK h \in Handlers :
          /\ mResponseQueue[h] = w
          /\ \/ /\ fromIO[h] # <<>>
                /\ Apply(w, h, Head(fromIO[h]))
                /\ fromIO' = [fromIO EXCEPT ![h] = Tail(@)]
                /\ fromWorker' = fromWorker
             \/ /\ fromWorker[h] # <<>>
                /\ Apply(w, h, Head(fromWorker[h]))
                /\ fromWorker' = [fromWorker EXCEPT ![h] = Tail(@)]
                /\ fromIO' = fromIO
    BY <1>15 DEF Drain
  <2>3. ASSUME NEW code, Apply(w, h, code),
               code \notin Terminal => (News(h) => News(h)'),
               \A g \in Handlers \ {h} : News(g) => News(g)'
        PROVE  HeardInv'
    <3>1. CASE code \in Terminal
      <4>1. mRequestMap' = [mRequestMap EXCEPT ![w] = @ \ {h}]
        BY <2>3, <3>1 DEF Apply
      <4> QED
        BY <1>t, <2>1, <2>2, <2>3, <4>1 DEF HeardInv, Ended
    <3>2. CASE code \notin Terminal
      <4>1. mRequestMap' = mRequestMap
        BY <1>t, <2>3, <3>2 DEF Apply
      <4> QED
        BY <1>t, <2>1, <2>3, <3>2, <4>1 DEF HeardInv, Ended
    <3> QED
      BY <3>1, <3>2
  <2>4. CASE /\ fromIO[h] # <<>>
             /\ Apply(w, h, Head(fromIO[h]))
             /\ fromIO' = [fromIO EXCEPT ![h] = Tail(@)]
             /\ fromWorker' = fromWorker
    <3>1. Codes(fromIO[h]) \subseteq Codes(fromIO'[h]) \cup {Head(fromIO[h])}
      BY <1>t, <2>4, CodesOfTail
    <3>2. \A g \in Handlers \ {h} : fromIO'[g] = fromIO[g]
      BY <1>t, <2>4
    <3> QED
      BY <2>3, <2>4, <3>1, <3>2 DEF News
  <2>5. CASE /\ fromWorker[h] # <<>>
             /\ Apply(w, h, Head(fromWorker[h]))
             /\ fromWorker' = [fromWorker EXCEPT ![h] = Tail(@)]
             /\ fromIO' = fromIO
    <3>1. Codes(fromWorker[h]) \subseteq Codes(fromWorker'[h]) \cup {Head(fromWorker[h])}
      BY <1>t, <2>5, CodesOfTail
    <3>2. \A g \in Handlers \ {h} : fromWorker'[g] = fromWorker[g]
      BY <1>t, <2>5
    <3> QED
      BY <2>3, <2>5, <3>1, <3>2 DEF News
  <2> QED
    BY <2>2, <2>4, <2>5
<1>16. ASSUME NEW w \in Workers,
              \/ Loop(w) \/ DequeueTimeout(w) \/ DeadlineRejected(w) \/ LeftOverUnit(w)
              \/ DrainEnd(w)
       PROVE  HeardInv'
  <2>1. UNCHANGED <<mRequestMap, mResponseQueue, fromIO, fromWorker, mStatus, iopc, reordered, cur>>
    BY <1>16 DEF Loop, DequeueTimeout, DeadlineRejected, LeftOverUnit, DrainEnd, ioVars
  <2>2. \A v \in Workers : wpc[v] = "check" => wpc'[v] = "check"
    BY <1>16, <1>t DEF Loop, TestLoop, DequeueTimeout, DeadlineRejected, LeftOverUnit, DrainEnd
  <2> QED
    BY <1>1, <1>2, <2>1, <2>2 DEF Ended
<1> QED
  BY <1>3, <1>4, <1>5, <1>6, <1>7, <1>8, <1>9, <1>10, <1>11, <1>12, <1>13, <1>14, <1>15, <1>16
     DEF Next, MainStep, Proxygen, IOStep, WorkerStep

\* A worker that holds a finished request has the news in its response queue
\* once setResponseQueue and the callbacks are over, whichever of the two came
\* first: provided that both threads' writes were visible before their reads,
\* the handshake over mStatus and mResponseQueue loses no final status.
THEOREM FinishIsHeardAlways == Spec => []FinishIsHeard
<1>1. Init => TInv /\ EomInv /\ OneOwner /\ CallbackInv /\ AttachInv /\ LateInv /\ HeardInv
  <2> SUFFICES ASSUME Init
               PROVE  TInv /\ EomInv /\ OneOwner /\ CallbackInv /\ AttachInv /\ LateInv /\ HeardInv
    OBVIOUS
  <2>1. TInv /\ EomInv /\ OneOwner
    BY PipelineAssumption
       DEF Init, TInv, TypeOK, CurInv, JoinInv, ResponseCode, Workers, nullptr, EomInv, OneOwner
  <2>2. CallbackInv /\ AttachInv /\ LateInv /\ HeardInv
    BY DEF Init, CallbackInv, Ended, Terminal, AttachInv, LateInv, HeardInv
  <2> QED
    BY <2>1, <2>2
<1>2. TInv /\ CallbackInv /\ [Next]_vars => CallbackInv'
  BY CallbackStep
<1>3. TInv /\ EomInv /\ AttachInv /\ [Next]_vars => AttachInv'
  BY AttachStep
<1>4. TInv /\ LateInv /\ [Next]_vars => LateInv'
  BY LateStep
<1>5. TInv /\ TInv' /\ EomInv /\ CallbackInv /\ AttachInv /\ LateInv /\ HeardInv /\ [Next]_vars
        => HeardInv'
  BY HeardStep
<1>6. HeardInv => FinishIsHeard
  BY DEF HeardInv, FinishIsHeard, Ended, News
<1> QED
  BY <1>1, <1>2, <1>3, <1>4, <1>5, <1>6, OwnerStep, TypeStep, PTL DEF Spec
=============================================================================
