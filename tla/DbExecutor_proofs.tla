---------------------------- MODULE DbExecutor_proofs ----------------------------
(***************************************************************************)
(* Proofs about PathService and about DbExecutor under it, for every       *)
(* number of requests, ping threads, pool objects and executor threads.    *)
(* PathService implements HealthySession (ServiceOverSession), whose       *)
(* invariants it inherits; ServiceInv adds what handlers, heartbeat and    *)
(* pings owe each other.  A step of DbExecutor is one of PathService with  *)
(* its bookkeeping (ExecutorSteps), so that what is proved of a layer      *)
(* holds of the whole service (WholeService).  ExecInv says what the queue *)
(* is: revoked entries, and the jobs that somebody waits for and no thread *)
(* has, each of them once; OneWait that a task waits for one job at a      *)
(* time, which bounds their number.                                        *)
(***************************************************************************)
EXTENDS DbExecutor, HealthySession_proofs, FiniteFacts

LEMMA HandlerSteps ==
  ASSUME NEW t \in Requests, Receive(t) \/ HandlerStep(t) \/ QueryStep(t)
  PROVE  Arrive(t) \/ Rest(t) \/ Call(t) \/ SessionStep(t) \/ UNCHANGED sessionVars
BY DEF Receive, HandlerStep, QueryStep, CallSearch, SearchReturns, NamesReturn, Unfiltered,
       TreeReturns, HealthPings, HealthAnswers, Finish

LEMMA HeartbeatSteps ==
  ASSUME NEW h \in Background, HbWakes(h) \/ HeartbeatStep(h)
  PROVE  BackgroundWakes(h) \/ BackgroundRuns(h)
BY DEF HbWakes, HeartbeatStep, HbLooks, HbHears, HbAsks, HbAsked, HbSleeps, BackgroundRuns

LEMMA PingThreads ==
  ASSUME NEW g \in Pingers, PingThread(g)
  PROVE  (PingStep(g) /\ UNCHANGED callVars) \/ UNCHANGED sessionVars
BY DEF PingThread, PingConnects, PingExecutes, PingStep, sessionVars

LEMMA ServiceNextIsSession ==
  ASSUME ServiceNext
  PROVE  [SessionNext]_sessionVars
<1>1. CASE \E t \in Requests : Receive(t) \/ HandlerStep(t) \/ QueryStep(t)
  BY <1>1, HandlerSteps DEF SessionNext
<1>2. CASE \E h \in Background : HbWakes(h) \/ HeartbeatStep(h)
  BY <1>2, HeartbeatSteps DEF SessionNext
<1>3. CASE \E t \in Tasks : ManagerStep(t) /\ Below
  BY <1>3 DEF SessionNext
<1>4. CASE ServiceShutdown
  BY <1>4 DEF ServiceShutdown, SessionNext
<1>5. CASE SessionLifespan /\ Below
  BY <1>5 DEF SessionNext
<1>6. CASE \E t \in Requests : QueryThread(t)
  BY <1>6 DEF QueryThread, SessionNext
<1>7. CASE \E g \in Pingers : PingThread(g)
  BY <1>7, PingThreads DEF SessionNext
<1>8. CASE \E p \in PoolIds : PoolJob(p)
  BY <1>8 DEF PoolJob, SessionNext
<1>9. CASE Environment /\ UNCHANGED callVars /\ Below
  BY <1>9 DEF SessionNext
<1> QED
  BY <1>1, <1>2, <1>3, <1>4, <1>5, <1>6, <1>7, <1>8, <1>9 DEF ServiceNext, LoopNext

\* The endpoints and the heartbeat reach the pool only through
\* _with_healthy_session and as its background task.
THEOREM ServiceOverSession == ServiceSpec => ImplementsSession
<1>1. ServiceInit => SessionInit
  BY DEF ServiceInit
<1>2. [ServiceNext]_serviceVars => [SessionNext]_sessionVars
  BY ServiceNextIsSession DEF serviceVars
<1> QED
  BY <1>1, <1>2, PTL DEF ServiceSpec, ImplementsSession, SessionSpec

-----------------------------------------------------------------------------
(***************************************************************************)
(* The invariant.  A request that is in no call has its outcome            *)
(* (IdleIsSettled), so no handler takes "pending" for an answer.           *)
(***************************************************************************)
IdleIsSettled == \A t \in Requests : pc[t] = "idle" => outcome[t] # "pending"

HandlerTypes ==
  /\ stage \in [Requests -> Stages]
  /\ answer \in [Requests -> {"unasked"} \cup NoAnswer \cup Answers]
  /\ resp \in [Requests -> {0, 200, 404, 500, 503}]

PingTypes ==
  /\ hb \in [Background -> {"sleep", "look", "ping", "failed", "asked", "rest"}]
  /\ ping \in [Pingers -> {"free", "run", "up", "down"}]
  /\ owner \in [Pingers -> Callers \cup {NoTask}]

ServiceInv == IdleIsSettled /\ HandlerTypes /\ PingTypes /\ OneAnswerPerPing

\* The handlers leave outcome to the calls.
LEMMA SettledStep ==
  ASSUME CallTypeOK, IdleIsSettled, [SessionNext]_sessionVars
  PROVE  IdleIsSettled'
<1>1. ASSUME NEW t \in Requests, Arrive(t) \/ Rest(t) \/ Call(t) \/ SessionStep(t) \/ JobRuns(t)
      PROVE  IdleIsSettled'
  <2> USE DEF IdleIsSettled, CallTypeOK, To
  <2>1. CASE Arrive(t) \/ Rest(t) \/ Call(t) \/ JobRuns(t)
    BY <2>1 DEF Arrive, Rest, Call, JobRuns, callVars
  <2>2. CASE Attempt(t) \/ Asked(t) \/ GetSession(t)
    BY <2>2 DEF Attempt, Asked, GetSession, Ask, Return
  <2>3. CASE Submit(t) \/ JobDone(t) \/ Failed(t)
    BY <2>3 DEF Submit, JobDone, Failed
  <2>4. CASE Retry(t) \/ Retried(t) \/ Release(t)
    BY <2>4 DEF Retry, Retried, Release, Ask
  <2> QED
    BY <1>1, <2>1, <2>2, <2>3, <2>4 DEF SessionStep
<1>2. ASSUME UNCHANGED callVars
      PROVE  IdleIsSettled'
  BY <1>2 DEF IdleIsSettled, callVars
<1> QED
  BY <1>1, <1>2
  DEF SessionNext, BackgroundWakes, BackgroundRuns, ManagerStep, ThreadStep, SessionShutdown,
      SessionLifespan, sessionVars

-----------------------------------------------------------------------------
(***************************************************************************)
(* Who waits for which ping.                                               *)
(***************************************************************************)
Pinging(t) ==
  \/ t \in Requests /\ stage[t] = "pinging"
  \/ t \in Background /\ hb[t] = "ping"

\* A ping gets an identity that is free.
LEMMA StartsFree ==
  ASSUME NEW t, StartPing(t)
  PROVE  \E g \in Pingers : /\ ping[g] = "free"
                            /\ ping' = [ping EXCEPT ![g] = "run"]
                            /\ owner' = [owner EXCEPT ![g] = t]
<1>1. PICK g : g = CHOOSE x \in Free : TRUE
  OBVIOUS
<1>2. g \in Free
  BY <1>1 DEF StartPing
<1> QED
  BY <1>1, <1>2 DEF StartPing, Free

\* A task that starts to ping waits for nothing yet, and then for one thread at most.
LEMMA StartsOne ==
  ASSUME PingTypes, OneAnswerPerPing, NEW t \in Callers, ~Pinging(t), Pinging(t)',
         \A u \in Callers : u # t => (Pinging(u)' <=> Pinging(u)), StartPing(t)
  PROVE  OneAnswerPerPing'
<1>1. \A g \in Pingers : owner[g] # t
  BY TaskAssumption DEF OneAnswerPerPing, Pinging, Tasks
<1> QED
  BY <1>1, StartsFree, TaskAssumption DEF PingTypes, OneAnswerPerPing, Pinging, Tasks

\* A task that has heard from its ping, or has lost patience, waits for none.
LEMMA StopsWaiting ==
  ASSUME PingTypes, OneAnswerPerPing, NEW t \in Callers, PingAnswer(t, "up") \/ PingFails(t)
  PROVE  /\ \A g \in Pingers : owner'[g] # t /\ owner'[g] \in {owner[g], NoTask}
         /\ ping' \in [Pingers -> {"free", "run", "up", "down"}]
         /\ owner' \in [Pingers -> Callers \cup {NoTask}]
<1>0. t # NoTask
  BY TaskAssumption DEF Tasks
<1>1. ASSUME NEW result, PingAnswer(t, result)
      PROVE  /\ \A g \in Pingers : owner'[g] # t /\ owner'[g] \in {owner[g], NoTask}
             /\ ping' \in [Pingers -> {"free", "run", "up", "down"}]
             /\ owner' \in [Pingers -> Callers \cup {NoTask}]
  BY <1>0, <1>1 DEF PingAnswer, PingTypes, OneAnswerPerPing
<1>2. ASSUME PingTimeout(t)
      PROVE  /\ \A g \in Pingers : owner'[g] # t /\ owner'[g] \in {owner[g], NoTask}
             /\ ping' \in [Pingers -> {"free", "run", "up", "down"}]
             /\ owner' \in [Pingers -> Callers \cup {NoTask}]
  BY <1>0, <1>2 DEF PingTimeout, Abandon, PingTypes
<1> QED
  BY <1>1, <1>2 DEF PingFails

LEMMA StopsOne ==
  ASSUME PingTypes, OneAnswerPerPing, NEW t \in Callers, PingAnswer(t, "up") \/ PingFails(t),
         \A u \in Callers : u # t => (Pinging(u)' <=> Pinging(u))
  PROVE  OneAnswerPerPing'
<1>1. \A g \in Pingers : owner'[g] # t /\ owner'[g] \in {owner[g], NoTask}
  BY StopsWaiting
<1> QED
  BY <1>1 DEF PingTypes, OneAnswerPerPing, Pinging

\* Nobody starts or stops waiting.
LEMMA StillWaiting ==
  ASSUME PingTypes, OneAnswerPerPing, UNCHANGED owner,
         \A u \in Callers : Pinging(u) => Pinging(u)'
  PROVE  OneAnswerPerPing'
BY DEF PingTypes, OneAnswerPerPing, Pinging

-----------------------------------------------------------------------------
LEMMA StartPingTypes ==
  ASSUME PingTypes, NEW t \in Callers, StartPing(t)
  PROVE  /\ ping' \in [Pingers -> {"free", "run", "up", "down"}]
         /\ owner' \in [Pingers -> Callers \cup {NoTask}]
BY StartsFree DEF PingTypes

\* The handlers of the endpoints.
LEMMA HandlerKeeps ==
  ASSUME CallTypeOK, ServiceInv, NEW t \in Requests, Receive(t) \/ HandlerStep(t)
  PROVE  HandlerTypes' /\ PingTypes' /\ OneAnswerPerPing'
<1> USE DEF ServiceInv, HandlerTypes, Stages, AllEndpoints, ToStage
<1>0. t \in Callers /\ t \notin Background /\ Background \subseteq Callers
  BY RequestAssumption, TaskAssumption
<1>1. CASE Receive(t)
  <2>1. HandlerTypes' /\ PingTypes'
    BY <1>1, EndpointAssumption DEF Receive, PingTypes, pingVars
  <2>2. OneAnswerPerPing'
    BY <1>1, StillWaiting DEF Receive, Pinging, pingVars
  <2> QED
    BY <2>1, <2>2
<1>2. CASE CallSearch(t) \/ Unfiltered(t) \/ NamesReturn(t) \/ Finish(t)
  <2>1. HandlerTypes' /\ PingTypes'
    BY <1>2 DEF CallSearch, Unfiltered, NamesReturn, Finish, Answer, PingTypes, pingVars
  <2>2. OneAnswerPerPing'
    BY <1>2, StillWaiting DEF CallSearch, Unfiltered, NamesReturn, Finish, Answer, Pinging, pingVars
  <2> QED
    BY <2>1, <2>2
<1>3. CASE SearchReturns(t) \/ TreeReturns(t)
  <2>1. HandlerTypes' /\ PingTypes'
    BY <1>3 DEF SearchReturns, TreeReturns, Answer, Keep, IdleIsSettled, CallTypeOK, NoAnswer, PingTypes, pingVars
  <2>2. OneAnswerPerPing'
    BY <1>3, StillWaiting DEF SearchReturns, TreeReturns, Answer, Pinging, pingVars
  <2> QED
    BY <2>1, <2>2
<1>4. CASE HealthPings(t)
  <2>1. HandlerTypes' /\ PingTypes'
    BY <1>0, <1>4, StartPingTypes DEF HealthPings, PingTypes
  <2>2. ~Pinging(t) /\ Pinging(t)' /\ \A u \in Callers : u # t => (Pinging(u)' <=> Pinging(u))
    BY <1>0, <1>4 DEF HealthPings, Pinging
  <2>3. OneAnswerPerPing'
    BY <1>0, <1>4, <2>2, StartsOne DEF HealthPings
  <2> QED
    BY <2>1, <2>3
<1>5. CASE HealthAnswers(t)
  <2>1. PingAnswer(t, "up") \/ PingFails(t)
    BY <1>5 DEF HealthAnswers
  <2>2. HandlerTypes'
    BY <1>5 DEF HealthAnswers, Answer
  <2>3. PingTypes'
    BY <1>0, <1>5, <2>1, StopsWaiting DEF HealthAnswers, PingTypes
  <2>4. \A u \in Callers : u # t => (Pinging(u)' <=> Pinging(u))
    BY <1>5 DEF HealthAnswers, Answer, Pinging
  <2>5. OneAnswerPerPing'
    BY <1>0, <2>1, <2>4, StopsOne
  <2> QED
    BY <2>2, <2>3, <2>5
<1> QED
  BY <1>1, <1>2, <1>3, <1>4, <1>5 DEF HandlerStep

\* The heartbeat.
LEMMA HeartbeatKeeps ==
  ASSUME ServiceInv, NEW h \in Background, HbWakes(h) \/ HeartbeatStep(h)
  PROVE  HandlerTypes' /\ PingTypes' /\ OneAnswerPerPing'
<1> USE DEF ServiceInv, HbTo, handlerVars, pingVars
<1>0. h \in Callers /\ h \notin Requests /\ Requests \subseteq Callers
  BY RequestAssumption, TaskAssumption
<1>1. HandlerTypes'
  BY DEF HandlerTypes, HeartbeatStep, HbWakes, HbLooks, HbHears, HbAsks, HbAsked, HbSleeps
<1>2. CASE HbWakes(h) \/ HbAsks(h) \/ HbAsked(h) \/ HbSleeps(h)
  <2>1. PingTypes'
    BY <1>2 DEF HbWakes, HbAsks, HbAsked, HbSleeps, PingTypes
  <2>2. OneAnswerPerPing'
    BY <1>2, StillWaiting DEF HbWakes, HbAsks, HbAsked, HbSleeps, Pinging, PingTypes
  <2> QED
    BY <1>1, <2>1, <2>2
<1>3. CASE HbLooks(h) /\ UNCHANGED pingVars
  <2>1. PingTypes'
    BY <1>3 DEF HbLooks, PingTypes
  <2>2. OneAnswerPerPing'
    BY <1>3, StillWaiting DEF HbLooks, Pinging, PingTypes
  <2> QED
    BY <1>1, <2>1, <2>2
<1>4. CASE HbLooks(h) /\ hb[h] = "look" /\ HbTo(h, "look", "ping") /\ StartPing(h)
  <2>1. PingTypes'
    BY <1>0, <1>4, StartPingTypes DEF PingTypes
  <2>2. ~Pinging(h) /\ Pinging(h)' /\ \A u \in Callers : u # h => (Pinging(u)' <=> Pinging(u))
    BY <1>0, <1>4 DEF HbLooks, Pinging, PingTypes
  <2>3. OneAnswerPerPing'
    BY <1>0, <1>4, <2>2, StartsOne
  <2> QED
    BY <1>1, <2>1, <2>3
<1>5. CASE HbHears(h)
  <2>1. PingAnswer(h, "up") \/ PingFails(h)
    BY <1>5 DEF HbHears
  <2>2. PingTypes'
    BY <1>0, <1>5, <2>1, StopsWaiting DEF HbHears, PingTypes
  <2>3. \A u \in Callers : u # h => (Pinging(u)' <=> Pinging(u))
    BY <1>5 DEF HbHears, Pinging, PingTypes
  <2>4. OneAnswerPerPing'
    BY <1>0, <2>1, <2>3, StopsOne
  <2> QED
    BY <1>1, <2>2, <2>4
<1> QED
  BY <1>2, <1>3, <1>4, <1>5 DEF HeartbeatStep, HbLooks

\* A ping thread changes its own job, never who waits for it.
LEMMA PingKeeps ==
  ASSUME ServiceInv, NEW g \in Pingers, PingThread(g)
  PROVE  HandlerTypes' /\ PingTypes' /\ OneAnswerPerPing'
<1> USE DEF ServiceInv, PingThread, PingConnects, PingExecutes, handlerVars
<1>1. HandlerTypes'
  BY DEF HandlerTypes
<1>2. PingTypes'
  BY DEF PingTypes, PingEnds
<1>3. OneAnswerPerPing'
  BY StillWaiting DEF Pinging
<1> QED
  BY <1>1, <1>2, <1>3

LEMMA ShutdownKeeps ==
  ASSUME ServiceInv, ServiceShutdown
  PROVE  HandlerTypes' /\ PingTypes' /\ OneAnswerPerPing'
<1> USE DEF ServiceInv, ServiceShutdown, handlerVars
<1>1. HandlerTypes'
  BY DEF HandlerTypes
<1>2. PingTypes' /\ \A g \in Pingers : owner'[g] = NoTask
  BY DEF PingTypes, Abandon
<1>3. OneAnswerPerPing'
  BY <1>2 DEF OneAnswerPerPing
<1> QED
  BY <1>1, <1>2, <1>3

LEMMA BelowKeeps ==
  ASSUME ServiceInv, Below
  PROVE  HandlerTypes' /\ PingTypes' /\ OneAnswerPerPing'
BY DEF ServiceInv, Below, handlerVars, pingVars, HandlerTypes, PingTypes, OneAnswerPerPing

LEMMA ServiceInvStep ==
  ASSUME CallTypeOK, ServiceInv, [ServiceNext]_serviceVars
  PROVE  ServiceInv'
<1>1. IdleIsSettled'
  BY SettledStep, ServiceNextIsSession DEF ServiceInv, serviceVars
<1>2. CASE \E t \in Requests : Receive(t) \/ HandlerStep(t) \/ QueryStep(t)
  BY <1>1, <1>2, HandlerKeeps, BelowKeeps DEF QueryStep, Below, ServiceInv
<1>3. CASE \E h \in Background : HbWakes(h) \/ HeartbeatStep(h)
  BY <1>1, <1>3, HeartbeatKeeps DEF ServiceInv
<1>4. CASE \E g \in Pingers : PingThread(g)
  BY <1>1, <1>4, PingKeeps DEF ServiceInv
<1>5. CASE ServiceShutdown
  BY <1>1, <1>5, ShutdownKeeps DEF ServiceInv
<1>6. CASE Below
  BY <1>1, <1>6, BelowKeeps DEF ServiceInv
<1> QED
  BY <1>2, <1>3, <1>4, <1>5, <1>6
  DEF ServiceNext, LoopNext, QueryThread, PoolJob, serviceVars, Below

LEMMA ServiceInvInitially == ServiceInit => ServiceInv
BY DEF ServiceInit, SessionInit, CallInit, ServiceInv, IdleIsSettled, HandlerTypes, Stages, PingTypes,
       OneAnswerPerPing

\* The invariants of all three layers hold together.
THEOREM ServiceInvariance == ServiceSpec => [](Inductive /\ CallInv /\ ServiceInv)
<1>1. ServiceSpec => [](Inductive /\ CallInv)
  <2>1. ServiceSpec => SessionSpec
    BY ServiceOverSession DEF ImplementsSession
  <2> QED
    BY <2>1, CallInvariance, PTL
<1>2. ServiceInit => ServiceInv
  BY ServiceInvInitially
<1>3. CallInv /\ ServiceInv /\ [ServiceNext]_serviceVars => ServiceInv'
  BY ServiceInvStep DEF CallInv
<1> QED
  BY <1>1, <1>2, <1>3, PTL DEF ServiceSpec

\* Handlers, heartbeat and pings keep their types: what a handler takes for the
\* answer of a query is never that of a call that is still going on.
THEOREM ServiceTypes == ServiceSpec => []ServiceTypeOK
<1>1. Inductive /\ CallInv /\ ServiceInv => ServiceTypeOK
  BY DEF Inductive, CallInv, ServiceInv, HandlerTypes, PingTypes, SessionTypeOK, ServiceTypeOK
<1> QED
  BY <1>1, ServiceInvariance, PTL

\* No answer of a ping that was given up reaches a later one, for any number of
\* requests and of ping threads.
THEOREM NoLateAnswer == ServiceSpec => []OneAnswerPerPing
<1>1. ServiceInv => OneAnswerPerPing
  BY DEF ServiceInv
<1> QED
  BY <1>1, ServiceInvariance, PTL

-----------------------------------------------------------------------------
(***************************************************************************)
(* The executor.                                                           *)
(***************************************************************************)
LEMMA ExecNextIsService ==
  ASSUME ExecNext
  PROVE  [ServiceNext]_serviceVars
<1>1. CASE LoopNext /\ Booked
  BY <1>1 DEF ServiceNext
<1>2. CASE ThreadTakes
  BY <1>2 DEF ThreadTakes
<1>3. ASSUME NEW j \in running, ThreadRuns(j)
      PROVE  ServiceNext
  BY <1>3 DEF ThreadRuns, ServiceNext
<1>4. CASE Outside
  BY <1>4 DEF Outside, ServiceNext
<1> QED
  BY <1>1, <1>2, <1>3, <1>4 DEF ExecNext

\* So a behaviour with the executor is one without, as far as PathService sees it.
LEMMA ExecutorSteps == ExecSpec => ServiceSpec
<1>1. ExecInit => ServiceInit
  BY DEF ExecInit
<1>2. [ExecNext]_execVars => [ServiceNext]_serviceVars
  BY ExecNextIsService DEF execVars
<1> QED
  BY <1>1, <1>2, PTL DEF ExecSpec, ServiceSpec

-----------------------------------------------------------------------------
(***************************************************************************)
(* What a step of the event loop does to the jobs of the executor.         *)
(***************************************************************************)
AtWork(p) == poolSt[p] \in {"initing", "closing"}
AwaitedPool(p) == \E t \in Tasks : target[t] = p
ShutsDown == phase = "serving" /\ phase' = "stopping"

\* The work on a pool is only ended by its thread; it is awaited from the start
\* until it is over or the service shuts down, and not again after that.
PoolMoves ==
  \A p \in PoolIds :
    /\ AtWork(p) => AtWork(p)'
    /\ AtWork(p)' /\ ~AtWork(p) => AwaitedPool(p)'
    /\ AtWork(p)' /\ AwaitedPool(p) => AwaitedPool(p)' \/ ShutsDown
    /\ AtWork(p) /\ AwaitedPool(p)' => AwaitedPool(p) /\ ~ShutsDown

LEMMA PoolsRest ==
  ASSUME UNCHANGED <<poolSt, target>>, ~ShutsDown
  PROVE  PoolMoves
BY DEF PoolMoves, AtWork, AwaitedPool

\* Taking the published pool away to close it.
LEMMA UnpublishMoves ==
  ASSUME Inductive, NEW t \in Tasks, pool # NoPool, target[t] = NoPool, Unpublish(t), phase' = phase
  PROVE  PoolMoves
<1>1. /\ pool \in PoolIds /\ poolSt[pool] = "open"
      /\ poolSt' = [poolSt EXCEPT ![pool] = "closing"]
      /\ target' = [target EXCEPT ![t] = pool]
      /\ poolSt \in [PoolIds -> PoolStates] /\ target \in [Tasks -> PoolIds \cup {NoPool}]
  BY DEF Inductive, TypeOK, PoolTypeOK, IInv, Published, Unpublish
<1>2. ASSUME NEW p \in PoolIds
      PROVE  /\ AtWork(p) => AtWork(p)'
             /\ AtWork(p)' /\ ~AtWork(p) => AwaitedPool(p)'
             /\ AtWork(p)' /\ AwaitedPool(p) => AwaitedPool(p)'
             /\ AtWork(p) /\ AwaitedPool(p)' => AwaitedPool(p)
  <2>1. p # NoPool
    BY NoPoolAssumption
  <2>2. CASE p = pool
    BY <1>1, <2>2 DEF AtWork, AwaitedPool
  <2>3. CASE p # pool
    <3>1. AtWork(p)' <=> AtWork(p)
      BY <1>1, <2>3 DEF AtWork
    <3>2. AwaitedPool(p)' <=> AwaitedPool(p)
      BY <1>1, <2>1, <2>3 DEF AwaitedPool
    <3> QED
      BY <3>1, <3>2
  <2> QED
    BY <2>2, <2>3
<1> QED
  BY <1>2 DEF PoolMoves, ShutsDown

\* A task whose pool is ready or closed lets go of it.
LEMMA LetsGoMoves ==
  ASSUME Inductive, NEW t \in Tasks, target[t] \in PoolIds, ~AtWork(target[t]),
         target' = [target EXCEPT ![t] = NoPool], UNCHANGED <<poolSt, phase>>
  PROVE  PoolMoves
<1>1. target \in [Tasks -> PoolIds \cup {NoPool}]
  BY DEF Inductive, TypeOK
<1>2. ASSUME NEW p \in PoolIds
      PROVE  /\ AtWork(p)' <=> AtWork(p)
             /\ AtWork(p) => (AwaitedPool(p)' <=> AwaitedPool(p))
  BY <1>1, NoPoolAssumption DEF AtWork, AwaitedPool
<1> QED
  BY <1>2 DEF PoolMoves, ShutsDown

LEMMA EnsureMoves ==
  ASSUME Inductive, NEW t \in Callers, EnsureStep(t)
  PROVE  PoolMoves
<1>0. t \in Tasks
  BY DEF Tasks
<1>1. CASE EnsureEnter(t) \/ LockGranted(t) \/ EnsureRecheck(t) \/ EnsureLeave(t)
  BY <1>1, PoolsRest DEF EnsureEnter, LockGranted, EnsureRecheck, EnsureLeave, poolVars, ShutsDown
<1>2. CASE ReinitStart(t)
  <2>1. CASE UNCHANGED <<poolVars, target>>
    BY <1>2, <2>1, PoolsRest DEF ReinitStart, poolVars, ShutsDown
  <2>2. CASE pool # NoPool /\ Unpublish(t)
    <3>1. epc[t] = "reinit"
      BY <1>2 DEF ReinitStart, Go, Suspend
    <3>2. target[t] = NoPool
      BY <1>0, <3>1 DEF Inductive, IInv, Targets
    <3> QED
      BY <1>0, <1>2, <2>2, <3>2, UnpublishMoves DEF ReinitStart
  <2> QED
    BY <1>2, <2>1, <2>2 DEF ReinitStart
<1> QED
  BY <1>1, <1>2 DEF EnsureStep

LEMMA ExecutorMoves ==
  ASSUME Inductive, NEW t \in Tasks, ExecutorStep(t)
  PROVE  PoolMoves
<1>1. CASE CloseDone(t)
  <2>1. target[t] \in PoolIds /\ ~AtWork(target[t])
    BY <1>1 DEF CloseDone, Inductive, IInv, Targets, AtWork
  <2> QED
    BY <1>1, <2>1, LetsGoMoves DEF CloseDone, poolVars
<1>2. CASE PoolCreated(t)
  <2>1. target[t] \in PoolIds /\ ~AtWork(target[t])
    BY <1>2 DEF PoolCreated, Inductive, IInv, Targets, AtWork
  <2> QED
    BY <1>2, <2>1, LetsGoMoves DEF PoolCreated, poolVars
<1> QED
  BY <1>1, <1>2 DEF ExecutorStep

LEMMA CreateMoves ==
  ASSUME Inductive, NEW t \in Tasks, NEW p \in FreePools, CreatePool(t, p)
  PROVE  PoolMoves
<1>1. /\ p \in PoolIds /\ poolSt[p] \in {"unused", "dead", "closed"}
      /\ poolSt' = [poolSt EXCEPT ![p] = "initing"]
      /\ target' = [target EXCEPT ![t] = p]
      /\ poolSt \in [PoolIds -> PoolStates] /\ target \in [Tasks -> PoolIds \cup {NoPool}]
      /\ epc[t] = "create" /\ phase' = phase
  BY DEF Inductive, TypeOK, PoolTypeOK, CreatePool, Suspend, FreePools, Reusable
<1>2. target[t] = NoPool
  BY <1>1 DEF Inductive, IInv, Targets
<1>3. ASSUME NEW q \in PoolIds
      PROVE  /\ AtWork(q) => AtWork(q)'
             /\ AtWork(q)' /\ ~AtWork(q) => AwaitedPool(q)'
             /\ AtWork(q)' /\ AwaitedPool(q) => AwaitedPool(q)'
             /\ AtWork(q) /\ AwaitedPool(q)' => AwaitedPool(q)
  <2>1. q # NoPool
    BY NoPoolAssumption
  <2>2. CASE q = p
    BY <1>1, <2>2 DEF AtWork, AwaitedPool
  <2>3. CASE q # p
    <3>1. AtWork(q)' <=> AtWork(q)
      BY <1>1, <2>3 DEF AtWork
    <3>2. AwaitedPool(q)' <=> AwaitedPool(q)
      BY <1>1, <1>2, <2>1, <2>3 DEF AwaitedPool
    <3> QED
      BY <3>1, <3>2
  <2> QED
    BY <2>2, <2>3
<1> QED
  BY <1>1, <1>3 DEF PoolMoves, ShutsDown

LEMMA LifespanMoves ==
  ASSUME Inductive, LifespanStep
  PROVE  PoolMoves
<1>0. Main \in Tasks
  BY DEF Tasks
<1>1. CASE Boot \/ Booted \/ Stopped
  BY <1>1, PoolsRest DEF Boot, Booted, Stopped, poolVars, ShutsDown
<1>2. CASE BeginShutdown
  BY <1>2, NoPoolAssumption DEF BeginShutdown, PoolMoves, AtWork, AwaitedPool, ShutsDown, poolVars
<1>3. CASE ClosePool
  <2>1. target[Main] = NoPool
    BY <1>0, <1>3 DEF ClosePool, Inductive, IInv, Targets
  <2> QED
    BY <1>0, <1>3, <2>1, UnpublishMoves DEF ClosePool
<1> QED
  BY <1>1, <1>2, <1>3 DEF LifespanStep

LEMMA ClientMoves ==
  ASSUME NEW t \in Callers, ClientStep(t)
  PROVE  PoolMoves
BY PoolsRest DEF ClientStep, Wake, Yield, CallEnsure, EnsureReturns, MarkUnhealthy, OpenSession,
                 CloseSession, poolVars, mgrVars, ShutsDown

LEMMA LoopPoolMoves ==
  ASSUME Inductive, LoopNext
  PROVE  PoolMoves
<1>1. ASSUME NEW t \in Tasks, ManagerStep(t)
      PROVE  PoolMoves
  BY <1>1, EnsureMoves, ExecutorMoves, CreateMoves DEF ManagerStep
<1>2. CASE \E t \in Requests : Receive(t) \/ HandlerStep(t) \/ QueryStep(t)
  <2>1. (\E u \in Callers : ClientStep(u)) \/ UNCHANGED vars
    BY <1>2, HandlerSteps, CallSteps DEF sessionVars
  <2> QED
    BY <2>1, ClientMoves, PoolsRest DEF vars, poolVars, mgrVars, ShutsDown
<1>3. CASE \E h \in Background : HbWakes(h) \/ HeartbeatStep(h)
  BY <1>3, HeartbeatSteps, BackgroundSteps, ClientMoves
<1>4. CASE ServiceShutdown \/ SessionLifespan
  BY <1>4, LifespanMoves DEF ServiceShutdown, SessionShutdown, SessionLifespan, LifespanStep
<1> QED
  BY <1>1, <1>2, <1>3, <1>4 DEF LoopNext

\* A queued or running ping is only given up by its own task, and it is begun by one.
PingMoves ==
  \A g \in Pingers :
    /\ ping[g] = "run" => \/ owner'[g] = owner[g] /\ ping'[g] = "run"
                          \/ owner[g] # NoTask /\ owner'[g] = NoTask
    /\ ping[g] # "run" /\ ping'[g] = "run" => owner'[g] # NoTask

LEMMA PingsRest ==
  ASSUME UNCHANGED pingVars
  PROVE  PingMoves
BY DEF pingVars, PingMoves

LEMMA StartMoves ==
  ASSUME PingTypes, NEW t \in Callers, StartPing(t)
  PROVE  PingMoves
BY StartsFree, TaskAssumption DEF PingMoves, PingTypes, Tasks

LEMMA AbandonMoves ==
  ASSUME PingTypes, NEW jobs, \A g \in jobs : g \in Pingers /\ owner[g] # NoTask, Abandon(jobs)
  PROVE  PingMoves
<1>1. owner' = [g \in Pingers |-> IF g \in jobs THEN NoTask ELSE owner[g]]
  BY DEF Abandon
<1>2. PICK queued \in SUBSET {g \in jobs : ping[g] = "run" /\ sess[g] = NoPool} :
        ping' = [g \in Pingers |->
                   IF g \in queued \/ (g \in jobs /\ ping[g] # "run") THEN "free" ELSE ping[g]]
  BY DEF Abandon
<1> QED
  BY <1>1, <1>2 DEF PingMoves

LEMMA HearsMoves ==
  ASSUME PingTypes, NEW t \in Callers, PingAnswer(t, "up") \/ PingFails(t)
  PROVE  PingMoves
<1>0. t # NoTask
  BY TaskAssumption DEF Tasks
<1>1. ASSUME NEW result \in {"up", "down"}, PingAnswer(t, result)
      PROVE  PingMoves
  BY <1>0, <1>1 DEF PingAnswer, PingMoves, PingTypes
<1>2. CASE PingTimeout(t)
  BY <1>0, <1>2, AbandonMoves DEF PingTimeout
<1> QED
  BY <1>1, <1>2 DEF PingFails

LEMMA LoopPingMoves ==
  ASSUME PingTypes, LoopNext
  PROVE  PingMoves
<1>1. ASSUME NEW t \in Requests, Receive(t) \/ HandlerStep(t) \/ QueryStep(t)
      PROVE  PingMoves
  <2>0. t \in Callers
    BY RequestsCall
  <2>1. CASE HealthPings(t)
    BY <2>0, <2>1, StartMoves DEF HealthPings
  <2>2. CASE HealthAnswers(t)
    BY <2>0, <2>2, HearsMoves DEF HealthAnswers
  <2>3. CASE UNCHANGED pingVars
    BY <2>3, PingsRest
  <2> QED
    BY <1>1, <2>1, <2>2, <2>3
    DEF HandlerStep, Receive, QueryStep, CallSearch, SearchReturns, NamesReturn, Unfiltered,
        TreeReturns, Finish
<1>2. ASSUME NEW h \in Background, HbWakes(h) \/ HeartbeatStep(h)
      PROVE  PingMoves
  <2>0. h \in Callers
    BY RequestsCall
  <2>1. CASE HbLooks(h)
    BY <2>0, <2>1, StartMoves, PingsRest DEF HbLooks
  <2>2. CASE HbHears(h)
    BY <2>0, <2>2, HearsMoves DEF HbHears
  <2> QED
    BY <1>2, <2>1, <2>2, PingsRest DEF HeartbeatStep, HbWakes, HbAsks, HbAsked, HbSleeps
<1>3. CASE ServiceShutdown
  BY <1>3, AbandonMoves DEF ServiceShutdown
<1>4. CASE Below
  BY <1>4, PingsRest DEF Below
<1> QED
  BY <1>1, <1>2, <1>3, <1>4 DEF LoopNext

\* Only its thread ends a query.
QueryMoves == \A t \in Requests : job[t] = "running" => job'[t] = "running"

LEMMA LoopQueryMoves ==
  ASSUME CallTypeOK, LoopNext
  PROVE  QueryMoves
<1>1. ASSUME NEW t \in Requests, Receive(t) \/ HandlerStep(t) \/ QueryStep(t)
      PROVE  QueryMoves
  <2>1. CASE QueryStep(t)
    BY <2>1 DEF QueryStep, SessionStep, Attempt, Asked, GetSession, Submit, JobDone, Failed, Retry,
                Retried, Release, CallTypeOK, QueryMoves
  <2>2. UNCHANGED job \/ QueryStep(t)
    BY <1>1 DEF HandlerStep, Receive, CallSearch, SearchReturns, NamesReturn, Unfiltered,
        TreeReturns, Finish, HealthPings, HealthAnswers, Call, Arrive, Rest, callVars, sessionVars
  <2> QED
    BY <2>1, <2>2 DEF QueryMoves
<1>2. CASE UNCHANGED callVars
  BY <1>2 DEF callVars, QueryMoves
<1>3. ASSUME NEW h \in Background, HbWakes(h) \/ HeartbeatStep(h)
      PROVE  UNCHANGED callVars
  BY <1>3 DEF HbWakes, HeartbeatStep, HbLooks, HbHears, HbAsks, HbAsked, HbSleeps, BackgroundWakes
<1> QED
  BY <1>1, <1>2, <1>3 DEF LoopNext, ManagerStep, ServiceShutdown, SessionShutdown, SessionLifespan

-----------------------------------------------------------------------------
(***************************************************************************)
(* The three kinds of job.                                                 *)
(***************************************************************************)
IsQuery(j) == \E t \in Requests : j = <<"query", t>> /\ job[t] = "running"
IsPool(j) == \E p \in PoolIds : j = <<"pool", p>> /\ AtWork(p)
IsPing(j) == \E g \in Pingers : j = <<"ping", g>> /\ ping[g] = "run"

LEMMA JobKinds == \A j : j \in Jobs <=> IsQuery(j) \/ IsPool(j) \/ IsPing(j)
BY DEF Jobs, IsQuery, IsPool, IsPing, AtWork

LEMMA JobKindsNext == \A j : j \in Jobs' <=> IsQuery(j)' \/ IsPool(j)' \/ IsPing(j)'
BY DEF Jobs, IsQuery, IsPool, IsPing, AtWork

IsAwaitedPool(j) == \E p \in PoolIds : j = <<"pool", p>> /\ AtWork(p) /\ AwaitedPool(p)
IsAwaitedPing(j) == \E g \in Pingers : j = <<"ping", g>> /\ ping[g] = "run" /\ owner[g] # NoTask

LEMMA AwaitedKinds == \A j : j \in Awaited <=> IsQuery(j) \/ IsAwaitedPool(j) \/ IsAwaitedPing(j)
<1> DEFINE T == {x \in Tasks : target[x] # NoPool /\ <<"pool", target[x]>> \in Jobs}
<1>1. ASSUME NEW j PROVE j \in {<<"pool", target[t]>> : t \in T} <=> IsAwaitedPool(j)
  <2>1. ASSUME NEW t \in T PROVE IsAwaitedPool(<<"pool", target[t]>>)
    <3>1. target[t] \in PoolIds /\ AtWork(target[t])
      BY JobKinds DEF IsQuery, IsPool, IsPing
    <3> QED
      BY <3>1 DEF IsAwaitedPool, AwaitedPool
  <2>2. ASSUME NEW p \in PoolIds, AtWork(p), NEW t \in Tasks, target[t] = p
        PROVE  t \in T
    <3>1. <<"pool", p>> \in Jobs
      BY <2>2, JobKinds DEF IsPool
    <3> QED
      BY <2>2, <3>1, NoPoolAssumption
  <2> HIDE DEF T
  <2> QED
    BY <2>1, <2>2 DEF IsAwaitedPool, AwaitedPool
<1> QED
  BY <1>1 DEF Awaited, IsQuery, IsAwaitedPing

LEMMA AwaitedKindsNext ==
  \A j : j \in Awaited' <=> IsQuery(j)' \/ IsAwaitedPool(j)' \/ IsAwaitedPing(j)'
<1> DEFINE T == {x \in Tasks : target'[x] # NoPool /\ <<"pool", target'[x]>> \in Jobs'}
<1>1. ASSUME NEW j PROVE j \in {<<"pool", target'[t]>> : t \in T} <=> IsAwaitedPool(j)'
  <2>1. ASSUME NEW t \in T PROVE IsAwaitedPool(<<"pool", target[t]>>)'
    <3>1. target'[t] \in PoolIds /\ AtWork(target[t])'
      BY JobKindsNext DEF IsQuery, IsPool, IsPing, AtWork
    <3> QED
      BY <3>1 DEF IsAwaitedPool, AwaitedPool, AtWork
  <2>2. ASSUME NEW p \in PoolIds, AtWork(p)', NEW t \in Tasks, target'[t] = p
        PROVE  t \in T
    <3>1. <<"pool", p>> \in Jobs'
      BY <2>2, JobKindsNext DEF IsPool
    <3> QED
      BY <2>2, <3>1, NoPoolAssumption
  <2> HIDE DEF T
  <2> QED
    BY <2>1, <2>2 DEF IsAwaitedPool, AwaitedPool
<1> QED
  BY <1>1 DEF Awaited, IsQuery, IsAwaitedPing

LEMMA CancelledKinds ==
  /\ \A t : ~Cancelled(<<"query", t>>)
  /\ \A p : Cancelled(<<"pool", p>>) <=> ShutsDown
  /\ \A g : Cancelled(<<"ping", g>>) <=> owner[g] # NoTask /\ owner'[g] = NoTask
BY DEF Cancelled, ShutsDown

LEMMA AwaitedAreJobs == Awaited \subseteq Jobs
BY JobKinds, AwaitedKinds DEF IsAwaitedPool, IsPool, IsAwaitedPing, IsPing

-----------------------------------------------------------------------------
(***************************************************************************)
(* The bookkeeping of a step of the event loop.                            *)
(***************************************************************************)
\* A thread keeps its job; a job that comes is awaited; an awaited job stays so unless it is
\* cancelled; no job that was given up is awaited again.
LoopJobs ==
  /\ running \subseteq Jobs'
  /\ Jobs' \ Jobs \subseteq Awaited'
  /\ \A j \in Awaited : j \in Awaited' <=> ~Cancelled(j)
  /\ Awaited' \cap Jobs \subseteq Awaited

LEMMA LoopKeepsJobs ==
  ASSUME Inductive, CallTypeOK, PingTypes, running \subseteq Jobs, LoopNext, Booked
  PROVE  LoopJobs
<1>1. PoolMoves /\ PingMoves /\ QueryMoves
  BY LoopPoolMoves, LoopPingMoves, LoopQueryMoves
<1>2. ASSUME NEW j \in running PROVE j \in Jobs'
  <2>1. CASE IsQuery(j)
    BY <1>1, <2>1, JobKindsNext DEF QueryMoves, IsQuery
  <2>2. CASE IsPool(j)
    BY <1>1, <2>2, JobKindsNext DEF PoolMoves, IsPool
  <2>3. CASE IsPing(j)
    <3>1. PICK g \in Pingers : j = <<"ping", g>> /\ ping[g] = "run"
      BY <2>3 DEF IsPing
    <3>2. ping'[g] = "run"
      BY <1>1, <3>1 DEF PingMoves, Booked
    <3> QED
      BY <3>1, <3>2, JobKindsNext DEF IsPing
  <2> QED
    BY <2>1, <2>2, <2>3, JobKinds
<1>3. ASSUME NEW j \in Jobs', j \notin Jobs PROVE j \in Awaited'
  <2>0. ~IsQuery(j) /\ ~IsPool(j) /\ ~IsPing(j)
    BY <1>3, JobKinds
  <2>1. CASE IsQuery(j)'
    BY <2>1, AwaitedKindsNext
  <2>2. CASE IsPool(j)'
    BY <1>1, <2>0, <2>2, AwaitedKindsNext DEF PoolMoves, IsPool, IsAwaitedPool
  <2>3. CASE IsPing(j)'
    BY <1>1, <2>0, <2>3, AwaitedKindsNext DEF PingMoves, IsPing, IsAwaitedPing
  <2> QED
    BY <2>1, <2>2, <2>3, JobKindsNext
<1>4. ASSUME NEW j \in Awaited PROVE j \in Awaited' <=> ~Cancelled(j)
  <2>1. CASE IsQuery(j)
    <3>1. ~Cancelled(j)
      BY <2>1, CancelledKinds DEF IsQuery
    <3>2. j \in Awaited'
      BY <1>1, <2>1, AwaitedKindsNext DEF QueryMoves, IsQuery
    <3> QED
      BY <3>1, <3>2
  <2>2. CASE IsAwaitedPool(j)
    <3>1. PICK p \in PoolIds : j = <<"pool", p>> /\ AtWork(p) /\ AwaitedPool(p)
      BY <2>2 DEF IsAwaitedPool
    <3>2. Cancelled(j) <=> ShutsDown
      BY <3>1, CancelledKinds
    <3>3. AtWork(p)' /\ (AwaitedPool(p)' <=> ~ShutsDown)
      BY <1>1, <3>1 DEF PoolMoves
    <3>4. j \in Awaited' <=> AwaitedPool(p)'
      <4>1. \A q : j = <<"pool", q>> => q = p
        BY <3>1
      <4>2. ~IsQuery(j)' /\ ~IsAwaitedPing(j)'
        BY <3>1 DEF IsQuery, IsAwaitedPing
      <4>3. IsAwaitedPool(j)' <=> AwaitedPool(p)'
        BY <3>1, <3>3, <4>1 DEF IsAwaitedPool
      <4> QED
        BY <4>2, <4>3, AwaitedKindsNext
    <3> QED
      BY <3>2, <3>3, <3>4
  <2>3. CASE IsAwaitedPing(j)
    <3>1. PICK g \in Pingers : j = <<"ping", g>> /\ ping[g] = "run" /\ owner[g] # NoTask
      BY <2>3 DEF IsAwaitedPing
    <3>2. Cancelled(j) <=> owner'[g] = NoTask
      BY <3>1, CancelledKinds
    <3>3. owner'[g] # NoTask => ping'[g] = "run"
      BY <1>1, <3>1 DEF PingMoves
    <3>4. j \in Awaited' <=> ping'[g] = "run" /\ owner'[g] # NoTask
      <4>1. \A q : j = <<"ping", q>> => q = g
        BY <3>1
      <4>2. ~IsQuery(j)' /\ ~IsAwaitedPool(j)'
        BY <3>1 DEF IsQuery, IsAwaitedPool
      <4>3. IsAwaitedPing(j)' <=> ping'[g] = "run" /\ owner'[g] # NoTask
        BY <3>1, <4>1 DEF IsAwaitedPing
      <4> QED
        BY <4>2, <4>3, AwaitedKindsNext
    <3> QED
      BY <3>2, <3>3, <3>4
  <2> QED
    BY <2>1, <2>2, <2>3, AwaitedKinds
<1>5. ASSUME NEW j \in Awaited', j \in Jobs PROVE j \in Awaited
  <2>1. CASE IsQuery(j)
    BY <2>1, AwaitedKinds
  <2>2. CASE IsPool(j)
    <3>1. PICK p \in PoolIds : j = <<"pool", p>> /\ AtWork(p)
      BY <2>2 DEF IsPool
    <3>2. AwaitedPool(p)'
      <4>1. \A q : j = <<"pool", q>> => q = p
        BY <3>1
      <4>2. ~IsQuery(j)' /\ ~IsAwaitedPing(j)'
        BY <3>1 DEF IsQuery, IsAwaitedPing
      <4>3. IsAwaitedPool(j)'
        BY <1>5, <4>2, AwaitedKindsNext
      <4> QED
        BY <4>1, <4>3 DEF IsAwaitedPool
    <3>3. AwaitedPool(p)
      BY <1>1, <3>1, <3>2 DEF PoolMoves
    <3> QED
      BY <3>1, <3>3, AwaitedKinds DEF IsAwaitedPool
  <2>3. CASE IsPing(j)
    <3>1. PICK g \in Pingers : j = <<"ping", g>> /\ ping[g] = "run"
      BY <2>3 DEF IsPing
    <3>2. owner'[g] # NoTask
      <4>1. \A q : j = <<"ping", q>> => q = g
        BY <3>1
      <4>2. ~IsQuery(j)' /\ ~IsAwaitedPool(j)'
        BY <3>1 DEF IsQuery, IsAwaitedPool
      <4>3. IsAwaitedPing(j)'
        BY <1>5, <4>2, AwaitedKindsNext
      <4> QED
        BY <4>1, <4>3 DEF IsAwaitedPing
    <3>3. owner[g] # NoTask
      BY <1>1, <3>1, <3>2 DEF PingMoves
    <3> QED
      BY <3>1, <3>3, AwaitedKinds DEF IsAwaitedPing
  <2> QED
    BY <1>5, <2>1, <2>2, <2>3, JobKinds
<1> QED
  BY <1>2, <1>3, <1>4, <1>5 DEF LoopJobs

-----------------------------------------------------------------------------
(***************************************************************************)
(* Queues that have each job once, beside revoked entries.                 *)
(***************************************************************************)
OnceEach(seq, S) ==
  /\ seq \in Seq(S \cup {Revoked})
  /\ \A i, k \in DOMAIN seq : seq[i] = seq[k] /\ seq[i] # Revoked => i = k
  /\ \A x \in S : \E i \in DOMAIN seq : seq[i] = x

LEMMA QueueEntries ==
  ASSUME NEW S, NEW seq, OnceEach(seq, S)
  PROVE  /\ Len(seq) \in Nat /\ DOMAIN seq = 1..Len(seq)
         /\ \A i \in DOMAIN seq : seq[i] \in S \cup {Revoked}
BY LenProperties, ElementOfSeq DEF OnceEach

\* Revoking some entries leaves the others.
LEMMA SomeRevoked ==
  ASSUME NEW S, NEW K \in SUBSET S, NEW seq, OnceEach(seq, S),
         NEW out, out = [i \in DOMAIN seq |-> out[i]],
         \A i \in DOMAIN seq : out[i] = IF seq[i] \in K THEN seq[i] ELSE Revoked
  PROVE  OnceEach(out, K)
<1>1. Len(seq) \in Nat /\ DOMAIN seq = 1..Len(seq) /\ DOMAIN out = DOMAIN seq
  BY QueueEntries
<1>2. out \in Seq(K \cup {Revoked})
  <2>1. \A i \in 1..Len(seq) : out[i] \in K \cup {Revoked}
    BY <1>1
  <2>2. out = [i \in 1..Len(seq) |-> out[i]]
    BY <1>1
  <2> QED
    BY <1>1, <2>1, <2>2
<1>3. ASSUME NEW i \in DOMAIN out, NEW k \in DOMAIN out, out[i] = out[k], out[i] # Revoked
      PROVE  i = k
  BY <1>1, <1>3 DEF OnceEach
<1>4. ASSUME NEW x \in K PROVE \E i \in DOMAIN out : out[i] = x
  BY <1>1 DEF OnceEach
<1> QED
  BY <1>2, <1>3, <1>4 DEF OnceEach

\* New jobs come to the end.
LEMMA SomeAdded ==
  ASSUME NEW S, NEW T, S \cap T = {}, NEW s, NEW t, OnceEach(s, S), EachOnce(t, T)
  PROVE  OnceEach(s \o t, S \cup T)
<1> DEFINE m == Len(s)
           n == Len(t)
           c == s \o t
           U == S \cup T \cup {Revoked}
<1>1. s \in Seq(U) /\ t \in Seq(U)
  <2>1. s \in Seq(S \cup {Revoked}) /\ t \in Seq(T)
    BY DEF OnceEach, EachOnce
  <2> QED
    BY <2>1, SeqMonotonic
<1>2. /\ c \in Seq(U) /\ Len(c) = m + n
      /\ \A i \in 1..m + n : c[i] = IF i <= m THEN s[i] ELSE t[i - m]
  BY <1>1, ConcatProperties
<1>3. /\ DOMAIN s = 1..m /\ DOMAIN t = 1..n /\ DOMAIN c = 1..m + n
      /\ m \in Nat /\ n \in Nat
  BY <1>1, <1>2, LenProperties
<1>4. (\A i \in 1..m : s[i] \in S \cup {Revoked}) /\ (\A i \in 1..n : t[i] \in T)
  BY <1>3, ElementOfSeq DEF OnceEach, EachOnce
<1> HIDE DEF m, n, c
<1>5. ASSUME NEW i \in DOMAIN c, NEW j \in DOMAIN c, c[i] = c[j], c[i] # Revoked PROVE i = j
  <2>1. i \in 1..m + n /\ j \in 1..m + n
    BY <1>3
  <2>2. CASE i <= m /\ j <= m
    <3>1. i \in 1..m /\ j \in 1..m
      BY <1>3, <2>1, <2>2
    <3> QED
      BY <1>2, <1>3, <1>5, <2>1, <2>2, <3>1 DEF OnceEach
  <2>3. CASE i > m /\ j > m
    <3>1. i - m \in 1..n /\ j - m \in 1..n
      BY <1>3, <2>1, <2>3
    <3>2. t[i - m] = t[j - m]
      BY <1>2, <1>3, <1>5, <2>1, <2>3
    <3>3. i - m = j - m
      BY <1>3, <3>1, <3>2 DEF EachOnce
    <3> QED
      BY <1>3, <2>1, <3>3
  <2>4. CASE i <= m /\ j > m
    <3>1. i \in 1..m /\ j - m \in 1..n
      BY <1>3, <2>1, <2>4
    <3>2. c[i] = s[i] /\ c[j] = t[j - m]
      BY <1>2, <1>3, <2>1, <2>4
    <3> QED
      BY <1>4, <1>5, <3>1, <3>2
  <2>5. CASE i > m /\ j <= m
    <3>1. j \in 1..m /\ i - m \in 1..n
      BY <1>3, <2>1, <2>5
    <3>2. c[j] = s[j] /\ c[i] = t[i - m]
      BY <1>2, <1>3, <2>1, <2>5
    <3> QED
      BY <1>4, <1>5, <3>1, <3>2
  <2> QED
    BY <1>3, <2>1, <2>2, <2>3, <2>4, <2>5
<1>6. ASSUME NEW x \in S \cup T PROVE \E i \in DOMAIN c : c[i] = x
  <2>1. CASE x \in S
    <3>1. PICK i \in 1..m : s[i] = x
      BY <1>3, <2>1 DEF OnceEach
    <3>2. i \in 1..m + n /\ i <= m
      BY <1>3
    <3> QED
      BY <1>2, <1>3, <3>1, <3>2
  <2>2. CASE x \in T
    <3>1. PICK i \in 1..n : t[i] = x
      BY <1>3, <2>2 DEF EachOnce
    <3>2. PICK k : k = i + m
      OBVIOUS
    <3>3. k \in 1..m + n /\ ~(k <= m) /\ k - m = i
      BY <1>3, <3>2
    <3>4. c[k] = t[k - m]
      BY <1>2, <3>3
    <3> QED
      BY <1>3, <3>1, <3>3, <3>4
  <2> QED
    BY <2>1, <2>2
<1>7. OnceEach(c, S \cup T)
  BY <1>2, <1>5, <1>6 DEF OnceEach
<1> QED
  BY <1>7 DEF c

\* The head leaves the queue.
LEMMA HeadGone ==
  ASSUME NEW S, Revoked \notin S, NEW seq, OnceEach(seq, S), seq # <<>>
  PROVE  /\ Head(seq) \in S \cup {Revoked}
         /\ OnceEach(Tail(seq), S \ {Head(seq)})
<1> DEFINE rest == Tail(seq)
           T == S \ {Head(seq)}
<1>1. /\ seq \in Seq(S \cup {Revoked}) /\ Len(seq) \in Nat \ {0} /\ DOMAIN seq = 1..Len(seq)
      /\ \A i \in 1..Len(seq) : seq[i] \in S \cup {Revoked}
  BY QueueEntries, EmptySeq DEF OnceEach
<1>2. /\ Head(seq) = seq[1] /\ rest \in Seq(S \cup {Revoked}) /\ Len(rest) = Len(seq) - 1
      /\ \A i \in 1..Len(rest) : rest[i] = seq[i + 1]
  BY <1>1, HeadTailProperties
<1>3. DOMAIN rest = 1..Len(seq) - 1
  BY <1>2, LenProperties
<1> HIDE DEF rest
<1>4. \A i \in DOMAIN rest : i + 1 \in DOMAIN seq /\ i + 1 # 1
  BY <1>1, <1>3
<1>5. ASSUME NEW i \in DOMAIN rest PROVE rest[i] \in T \cup {Revoked}
  <2>1. rest[i] = seq[i + 1]
    BY <1>2, <1>3
  <2>2. 1 \in DOMAIN seq
    BY <1>1
  <2>3. seq[i + 1] = seq[1] => seq[i + 1] = Revoked
    BY <1>4, <2>2 DEF OnceEach
  <2> QED
    BY <1>1, <1>2, <1>4, <2>1, <2>3
<1>6. rest \in Seq(T \cup {Revoked})
  <2>1. rest = [i \in 1..Len(seq) - 1 |-> rest[i]]
    BY <1>2, <1>3
  <2>2. Len(seq) - 1 \in Nat
    BY <1>1
  <2> HIDE DEF T
  <2> QED
    BY <1>3, <1>5, <2>1, <2>2
<1>7. ASSUME NEW i \in DOMAIN rest, NEW j \in DOMAIN rest, rest[i] = rest[j], rest[i] # Revoked
      PROVE  i = j
  <2>1. rest[i] = seq[i + 1] /\ rest[j] = seq[j + 1]
    BY <1>2, <1>3
  <2>2. /\ i + 1 \in DOMAIN seq /\ j + 1 \in DOMAIN seq
        /\ seq[i + 1] = seq[j + 1] /\ seq[i + 1] # Revoked
    BY <1>4, <1>7, <2>1
  <2>3. \A a, b \in DOMAIN seq : seq[a] = seq[b] /\ seq[a] # Revoked => a = b
    BY DEF OnceEach
  <2>4. i + 1 = j + 1
    BY <2>2, <2>3
  <2> QED
    BY <1>1, <1>3, <2>4
<1>8. ASSUME NEW x \in T PROVE \E i \in DOMAIN rest : rest[i] = x
  <2>1. PICK k \in DOMAIN seq : seq[k] = x
    BY DEF OnceEach
  <2>2. k # 1
    BY <1>2, <2>1
  <2>3. PICK i : i = k - 1
    OBVIOUS
  <2>4. i \in DOMAIN rest /\ i + 1 = k
    BY <1>1, <1>3, <2>2, <2>3
  <2> QED
    BY <1>2, <1>3, <2>1, <2>4
<1> QED
  BY <1>1, <1>2, <1>6, <1>7, <1>8 DEF OnceEach, rest

LEMMA NoneOnce == OnceEach(<<>>, {})
BY EmptySeq, NoPlaces DEF OnceEach

-----------------------------------------------------------------------------
(***************************************************************************)
(* The invariant of the executor: beside revoked entries the queue holds   *)
(* the jobs that somebody waits for and no thread has, each of them once.  *)
(***************************************************************************)
Queued == Awaited \ running

ExecInv == OnceEach(backlog, Queued) /\ running \subseteq Jobs

LEMMA RevokedIsNoJob == Revoked \notin Jobs
BY JobKinds DEF Revoked, IsQuery, IsPool, IsPing

\* Identities, tasks and ping threads are finite in number, and so are jobs.
LEMMA JobsFinite == IsFiniteSet(Jobs) /\ IsFiniteSet(Jobs')
<1> DEFINE All == ({"query"} \X Tasks) \cup ({"pool"} \X PoolIds) \cup ({"ping"} \X Pingers)
<1>1. IsFiniteSet(All)
  <2>1. \A x : IsFiniteSet({x})
    BY FS_Singleton
  <2>2. IsFiniteSet({"query"} \X Tasks) /\ IsFiniteSet({"pool"} \X PoolIds) /\ IsFiniteSet({"ping"} \X Pingers)
    BY <2>1, FiniteAssumption, FS_Product
  <2> QED
    BY <2>2, FS_Union
<1>2. Jobs \subseteq All /\ Jobs' \subseteq All
  <2>1. Requests \subseteq Tasks
    BY RequestsCall DEF Tasks
  <2> QED
    BY <2>1 DEF Jobs
<1> HIDE DEF All
<1> QED
  BY <1>1, <1>2, FS_Subset

LEMMA LoopBooks ==
  ASSUME Inductive, CallTypeOK, PingTypes, ExecInv, LoopNext, Booked
  PROVE  ExecInv'
<1> DEFINE kept == {j \in Queued : ~Cancelled(j)}
           marked == [i \in DOMAIN backlog |-> IF Cancelled(backlog[i]) THEN Revoked
                                              ELSE backlog[i]]
<1>1. LoopJobs /\ running' = running
  BY LoopKeepsJobs DEF ExecInv, Booked
<1>2. PICK new \in SetToSeqs(Jobs' \ Jobs) : backlog' = marked \o new
  BY DEF Booked
<1>3. \A i \in DOMAIN backlog :
        marked[i] = IF backlog[i] \in kept THEN backlog[i] ELSE Revoked
  <2>1. \A i \in DOMAIN backlog : backlog[i] \in Queued \cup {Revoked}
    BY QueueEntries DEF ExecInv
  <2> QED
    BY <2>1
<1>4. OnceEach(marked, kept)
  <2>1. kept \in SUBSET Queued
    OBVIOUS
  <2>2. marked = [i \in DOMAIN backlog |-> marked[i]]
    OBVIOUS
  <2> HIDE DEF kept, marked
  <2> QED
    BY <1>3, <2>1, <2>2, SomeRevoked DEF ExecInv
<1>5. EachOnce(new, Jobs' \ Jobs)
  <2>1. IsFiniteSet(Jobs' \ Jobs)
    BY JobsFinite, FS_Subset
  <2> QED
    BY <1>2, <2>1, OrderOfSet DEF EachOnce
<1>6. kept \cap (Jobs' \ Jobs) = {}
  BY AwaitedAreJobs DEF Queued
<1>7. OnceEach(backlog', kept \cup (Jobs' \ Jobs))
  <2> HIDE DEF kept, marked
  <2> QED
    BY <1>2, <1>4, <1>5, <1>6, SomeAdded
<1>8. kept \cup (Jobs' \ Jobs) = Queued'
  <2>1. running \subseteq Jobs
    BY DEF ExecInv
  <2>2. Queued' = Awaited' \ running
    BY <1>1 DEF Queued
  <2>3. ASSUME NEW j \in kept PROVE j \in Awaited' \ running
    BY <1>1 DEF LoopJobs, Queued
  <2>4. ASSUME NEW j \in Jobs', j \notin Jobs PROVE j \in Awaited' \ running
    BY <1>1, <2>1, <2>4 DEF LoopJobs
  <2>5. ASSUME NEW j \in Awaited', j \notin running PROVE j \in kept \cup (Jobs' \ Jobs)
    <3>1. CASE j \in Jobs
      BY <1>1, <2>5, <3>1 DEF LoopJobs, Queued
    <3>2. j \in Jobs'
      BY JobKindsNext, AwaitedKindsNext DEF IsAwaitedPool, IsPool, IsAwaitedPing, IsPing
    <3> QED
      BY <3>1, <3>2
  <2> QED
    BY <2>2, <2>3, <2>4, <2>5
<1> QED
  BY <1>1, <1>7, <1>8 DEF ExecInv, LoopJobs, OnceEach

LEMMA ThreadTakesOne ==
  ASSUME ExecInv, ThreadTakes
  PROVE  ExecInv'
<1>1. /\ backlog' = Tail(backlog) /\ backlog # <<>>
      /\ running' = running \cup ({Head(backlog)} \ {Revoked})
  BY DEF ThreadTakes
<1>2. Jobs' = Jobs /\ Awaited' = Awaited
  BY DEF ThreadTakes, serviceVars, sessionVars, vars, poolVars, mgrVars, callVars, pingVars, Jobs, Awaited
<1>3. Revoked \notin Queued
  BY RevokedIsNoJob, AwaitedAreJobs DEF Queued
<1>4. /\ Head(backlog) \in Queued \cup {Revoked}
      /\ OnceEach(Tail(backlog), Queued \ {Head(backlog)})
  BY <1>1, <1>3, HeadGone DEF ExecInv
<1>5. Queued' = Queued \ {Head(backlog)}
  BY <1>1, <1>2, <1>3 DEF Queued
<1>6. running' \subseteq Jobs'
  BY <1>1, <1>2, <1>4, AwaitedAreJobs DEF ExecInv, Queued
<1> QED
  BY <1>1, <1>4, <1>5, <1>6 DEF ExecInv, OnceEach

\* A thread ends no job but its own.
LEMMA ThreadEndsOwn ==
  ASSUME CallTypeOK, PingTypes, TypeOK, NEW j \in running, ThreadRuns(j)
  PROVE  /\ Jobs' \subseteq Jobs /\ Jobs \ {j} \subseteq Jobs'
         /\ Awaited' = Awaited \cap Jobs'
<1>1. ASSUME NEW t \in Requests, j = <<"query", t>>, QueryThread(t)
      PROVE  /\ \A k : IsQuery(k)' => IsQuery(k)
             /\ \A k : IsQuery(k) /\ k # j => IsQuery(k)'
             /\ UNCHANGED <<poolSt, target, ping, owner>>
  BY <1>1 DEF QueryThread, JobRuns, CallTypeOK, IsQuery, vars, poolVars, mgrVars, Below, pingVars
<1>2. ASSUME NEW p \in PoolIds, j = <<"pool", p>>, PoolJob(p)
      PROVE  /\ \A q \in PoolIds : AtWork(q)' => AtWork(q)
             /\ \A q \in PoolIds : AtWork(q) /\ q # p => AtWork(q)'
             /\ UNCHANGED <<job, target, ping, owner>>
  BY <1>2 DEF PoolJob, ThreadStep, PoolThread, InitRuns, CloseRuns, TypeOK, PoolTypeOK, AtWork,
              mgrVars, callVars, Below, pingVars
<1>3. ASSUME NEW g \in Pingers, j = <<"ping", g>>, PingThread(g)
      PROVE  /\ \A h \in Pingers : ping'[h] = "run" => ping[h] = "run"
             /\ \A h \in Pingers : ping[h] = "run" /\ h # g => ping'[h] = "run"
             /\ UNCHANGED <<job, target, poolSt, owner>>
  BY <1>3 DEF PingThread, PingConnects, PingExecutes, PingEnds, PingOpens, PingCloses, PingTypes, vars,
              poolVars, mgrVars, callVars
<1>4. ASSUME NEW k PROVE /\ k \in Jobs' => k \in Jobs
                         /\ k \in Jobs /\ k # j => k \in Jobs'
                         /\ k \in Awaited' <=> k \in Awaited /\ k \in Jobs'
  <2>1. CASE \E t \in Requests : j = <<"query", t>> /\ QueryThread(t)
    BY <1>1, <2>1, JobKinds, JobKindsNext, AwaitedKinds, AwaitedKindsNext
    DEF IsQuery, IsPool, IsPing, IsAwaitedPool, IsAwaitedPing, AtWork, AwaitedPool
  <2>2. CASE \E p \in PoolIds : j = <<"pool", p>> /\ PoolJob(p)
    BY <1>2, <2>2, JobKinds, JobKindsNext, AwaitedKinds, AwaitedKindsNext
    DEF IsQuery, IsPool, IsPing, IsAwaitedPool, IsAwaitedPing, AwaitedPool
  <2>3. CASE \E g \in Pingers : j = <<"ping", g>> /\ PingThread(g)
    BY <1>3, <2>3, JobKinds, JobKindsNext, AwaitedKinds, AwaitedKindsNext
    DEF IsQuery, IsPool, IsPing, IsAwaitedPool, IsAwaitedPing, AtWork, AwaitedPool
  <2> QED
    BY <2>1, <2>2, <2>3 DEF ThreadRuns
<1> QED
  BY <1>4

LEMMA ThreadRunsOne ==
  ASSUME CallTypeOK, PingTypes, TypeOK, ExecInv, NEW j \in running, ThreadRuns(j)
  PROVE  ExecInv'
<1>1. /\ Jobs' \subseteq Jobs /\ Jobs \ {j} \subseteq Jobs'
      /\ Awaited' = Awaited \cap Jobs'
  BY ThreadEndsOwn
<1>2. running' = running \cap Jobs' /\ backlog' = backlog
  BY DEF ThreadRuns
<1>3. Queued' = Queued
  BY <1>1, <1>2, AwaitedAreJobs DEF Queued
<1> QED
  BY <1>2, <1>3 DEF ExecInv, OnceEach

LEMMA ExecInvInitially == ExecInit => ExecInv
<1> SUFFICES ASSUME ExecInit PROVE ExecInv
  OBVIOUS
<1>1. \A j : ~IsQuery(j) /\ ~IsPool(j) /\ ~IsPing(j)
  BY DEF ExecInit, ServiceInit, SessionInit, CallInit, Init, PoolInit, IsQuery, IsPool, IsPing, AtWork
<1>2. Jobs = {}
  BY <1>1, JobKinds
<1>3. Queued = {}
  BY <1>2, AwaitedAreJobs DEF Queued
<1>4. running = {} /\ backlog = <<>>
  BY DEF ExecInit
<1> QED
  BY <1>3, <1>4, NoneOnce DEF ExecInv

LEMMA ExecInvStep ==
  ASSUME Inductive, CallInv, ServiceInv, ExecInv, [ExecNext]_execVars
  PROVE  ExecInv'
<1>0. CallTypeOK /\ PingTypes /\ TypeOK
  BY DEF CallInv, ServiceInv, Inductive
<1>1. CASE LoopNext /\ Booked
  BY <1>0, <1>1, LoopBooks
<1>2. CASE ThreadTakes
  BY <1>2, ThreadTakesOne
<1>3. ASSUME NEW j \in running, ThreadRuns(j)
      PROVE  ExecInv'
  BY <1>0, <1>3, ThreadRunsOne
<1>4. ASSUME UNCHANGED <<poolSt, target, callVars, pingVars, backlog, running>>
      PROVE  ExecInv'
  <2>1. Jobs' = Jobs /\ Awaited' = Awaited
    BY <1>4 DEF callVars, pingVars, Jobs, Awaited
  <2>2. Queued' = Queued
    BY <1>4, <2>1 DEF Queued
  <2> QED
    BY <1>4, <2>1, <2>2 DEF ExecInv, OnceEach
<1>5. CASE Outside
  BY <1>4, <1>5 DEF Outside, Environment, Tick, ServerChanges, poolVars, mgrVars, Below
<1>6. CASE UNCHANGED execVars
  BY <1>4, <1>6 DEF execVars, serviceVars, sessionVars, vars, poolVars, mgrVars
<1> QED
  BY <1>1, <1>2, <1>3, <1>5, <1>6 DEF ExecNext

-----------------------------------------------------------------------------
(***************************************************************************)
(* A task waits for one job at a time.                                     *)
(***************************************************************************)
QueryInCall == \A t \in Requests : job[t] = "running" => pc[t] = "job"

CallInStage ==
  \A t \in Requests : pc[t] # "idle" => stage[t] \in {"searching", "naming", "growing"}

AsksOutside == \A h \in Background : hb[h] # "asked" => epc[h] = "out"

OneWait == QueryInCall /\ CallInStage /\ AsksOutside

LEMMA OneWaitInitially == ServiceInit => OneWait
<1> SUFFICES ASSUME ServiceInit PROVE OneWait
  OBVIOUS
<1>1. QueryInCall /\ CallInStage
  BY DEF ServiceInit, SessionInit, CallInit, QueryInCall, CallInStage
<1>2. AsksOutside
  BY RequestsCall DEF ServiceInit, SessionInit, Init, AsksOutside, Tasks
<1> QED
  BY <1>1, <1>2 DEF OneWait

LEMMA QueryInCallStep ==
  ASSUME CallTypeOK, QueryInCall, [SessionNext]_sessionVars
  PROVE  QueryInCall'
<1>1. ASSUME NEW t \in Requests, Arrive(t) \/ Rest(t) \/ Call(t) \/ SessionStep(t) \/ JobRuns(t)
      PROVE  QueryInCall'
  <2> USE DEF QueryInCall, CallTypeOK, To
  <2>1. CASE Arrive(t) \/ Rest(t) \/ Call(t) \/ JobRuns(t)
    BY <2>1 DEF Arrive, Rest, Call, JobRuns, callVars
  <2>2. CASE Attempt(t) \/ Asked(t) \/ GetSession(t)
    BY <2>2 DEF Attempt, Asked, GetSession, Ask, Return, At
  <2>3. CASE Submit(t) \/ JobDone(t) \/ Failed(t)
    BY <2>3 DEF Submit, JobDone, Failed
  <2>4. CASE Retry(t) \/ Retried(t) \/ Release(t)
    BY <2>4 DEF Retry, Retried, Release, Ask
  <2> QED
    BY <1>1, <2>1, <2>2, <2>3, <2>4 DEF SessionStep
<1>2. ASSUME UNCHANGED callVars
      PROVE  QueryInCall'
  BY <1>2 DEF QueryInCall, callVars
<1> QED
  BY <1>1, <1>2
  DEF SessionNext, BackgroundWakes, BackgroundRuns, ManagerStep, ThreadStep, SessionShutdown,
      SessionLifespan, sessionVars

LEMMA HandlerStaysInStage ==
  ASSUME CallTypeOK, HandlerTypes, CallInStage, NEW t \in Requests,
         Receive(t) \/ HandlerStep(t) \/ QueryStep(t)
  PROVE  CallInStage'
<1> USE DEF CallInStage, CallTypeOK, HandlerTypes, ToStage, To
<1>1. CASE Receive(t) \/ HealthPings(t) \/ HealthAnswers(t) \/ Finish(t) \/ Unfiltered(t)
  <2>1. pc' = pc /\ \A u \in Requests : u # t => stage'[u] = stage[u]
    BY <1>1 DEF Receive, HealthPings, HealthAnswers, Finish, Unfiltered, Arrive, Rest, Answer, callVars,
                sessionVars
  <2>2. pc[t] = "idle"
    BY <1>1 DEF Receive, HealthPings, HealthAnswers, Finish, Unfiltered, Arrive, Rest, Answer
  <2> QED
    BY <2>1, <2>2
<1>2. CASE CallSearch(t) \/ SearchReturns(t) \/ NamesReturn(t) \/ TreeReturns(t)
  BY <1>2 DEF CallSearch, SearchReturns, NamesReturn, TreeReturns, Call, Answer, callVars, sessionVars
<1>3. CASE QueryStep(t)
  BY <1>3 DEF QueryStep, handlerVars, SessionStep, Attempt, Asked, GetSession, Ask, Return, At, Submit,
              JobDone, Failed, Retry, Retried, Release
<1> QED
  BY <1>1, <1>2, <1>3 DEF HandlerStep

LEMMA CallInStageStep ==
  ASSUME CallTypeOK, HandlerTypes, CallInStage, [ServiceNext]_serviceVars
  PROVE  CallInStage'
<1>1. ASSUME NEW t \in Requests, Receive(t) \/ HandlerStep(t) \/ QueryStep(t)
      PROVE  CallInStage'
  BY <1>1, HandlerStaysInStage
<1>2. ASSUME UNCHANGED <<pc, stage>>
      PROVE  CallInStage'
  BY <1>2 DEF CallInStage
<1>3. ASSUME NEW h \in Background, HbWakes(h) \/ HeartbeatStep(h)
      PROVE  UNCHANGED <<pc, stage>>
  BY <1>3 DEF HbWakes, HeartbeatStep, HbLooks, HbHears, HbAsks, HbAsked, HbSleeps, BackgroundWakes,
              callVars, handlerVars
<1>4. ASSUME NEW g \in Pingers, PingThread(g)
      PROVE  UNCHANGED <<pc, stage>>
  BY <1>4 DEF PingThread, PingConnects, PingExecutes, callVars, handlerVars
<1>5. CASE ServiceShutdown
  BY <1>2, <1>5 DEF ServiceShutdown, SessionShutdown, callVars, handlerVars
<1>6. ASSUME NEW t \in Requests, QueryThread(t)
      PROVE  UNCHANGED <<pc, stage>>
  BY <1>6 DEF QueryThread, JobRuns, Below, handlerVars
<1>7. CASE Below /\ UNCHANGED callVars
  BY <1>2, <1>7 DEF Below, callVars, handlerVars
<1>8. CASE UNCHANGED serviceVars
  BY <1>2, <1>8 DEF serviceVars, sessionVars, callVars, handlerVars
<1>9. CASE LoopNext
  BY <1>1, <1>2, <1>3, <1>5, <1>7, <1>9 DEF LoopNext, ManagerStep, SessionLifespan
<1> QED
  BY <1>2, <1>4, <1>6, <1>7, <1>8, <1>9 DEF ServiceNext, PoolJob, ThreadStep

\* A request's steps move nobody else inside ensure_healthy_pool.
LEMMA RequestLeavesBackground ==
  ASSUME TypeOK, NEW t \in Requests, NEW h \in Background,
         Arrive(t) \/ Rest(t) \/ Call(t) \/ SessionStep(t) \/ JobRuns(t)
  PROVE  epc'[h] = epc[h]
<1>0. h # t /\ h \in Tasks
  BY RequestAssumption, TaskAssumption DEF Tasks
<1> USE DEF TypeOK, vars, mgrVars, Wake, Yield, CallEnsure, EnsureReturns, Go
<1>1. CASE Arrive(t) \/ Rest(t) \/ Call(t) \/ JobRuns(t)
  BY <1>0, <1>1 DEF Arrive, Rest, Call, JobRuns
<1>2. CASE Attempt(t) \/ Asked(t)
  BY <1>0, <1>2 DEF Attempt, Asked, Ask
<1>3. CASE GetSession(t)
  BY <1>0, <1>3 DEF GetSession, Ask, OpenSession
<1>4. CASE Submit(t) \/ JobDone(t)
  BY <1>0, <1>4 DEF Submit, JobDone
<1>5. CASE Failed(t) \/ Retry(t) \/ Retried(t)
  BY <1>0, <1>5 DEF Failed, MarkUnhealthy, Retry, Retried, Ask
<1>6. CASE Release(t)
  BY <1>0, <1>6 DEF Release, CloseSession
<1> QED
  BY <1>1, <1>2, <1>3, <1>4, <1>5, <1>6 DEF SessionStep

\* Nobody gets into ensure_healthy_pool but by calling it.
LEMMA ManagerTakesNobody ==
  ASSUME TypeOK, NEW t \in Tasks, ManagerStep(t), NEW h \in Tasks, epc[h] = "out"
  PROVE  epc'[h] = "out"
<1> USE DEF TypeOK, Go, Suspend, Resume
<1>1. CASE t \in Callers /\ EnsureStep(t)
  BY <1>1 DEF EnsureStep, EnsureEnter, LockGranted, EnsureRecheck, ReinitStart, EnsureLeave
<1>2. CASE ExecutorStep(t)
  BY <1>2 DEF ExecutorStep, CloseDone, PoolCreated
<1>3. CASE \E p \in FreePools : CreatePool(t, p)
  BY <1>3 DEF CreatePool
<1> QED
  BY <1>1, <1>2, <1>3 DEF ManagerStep

LEMMA AsksOutsideStep ==
  ASSUME TypeOK, PingTypes, AsksOutside, [ServiceNext]_serviceVars
  PROVE  AsksOutside'
<1>0. Background \subseteq Tasks /\ Main \notin Background
  BY TaskAssumption DEF Tasks
<1>1. ASSUME NEW t \in Requests, Receive(t) \/ HandlerStep(t) \/ QueryStep(t)
      PROVE  AsksOutside'
  <2>1. hb' = hb
    BY <1>1 DEF Receive, HandlerStep, QueryStep, CallSearch, SearchReturns, NamesReturn, Unfiltered,
                TreeReturns, HealthPings, HealthAnswers, Finish
  <2>2. \A h \in Background : epc'[h] = epc[h]
    BY <1>1, HandlerSteps, RequestLeavesBackground DEF sessionVars, vars, mgrVars
  <2> QED
    BY <2>1, <2>2 DEF AsksOutside
<1>2. ASSUME NEW h \in Background, HbWakes(h) \/ HeartbeatStep(h)
      PROVE  AsksOutside'
  <2> USE DEF AsksOutside, TypeOK, PingTypes, HbTo
  <2>1. CASE HbWakes(h) \/ HbLooks(h) \/ HbHears(h) \/ HbSleeps(h)
    BY <1>0, <2>1 DEF HbWakes, HbLooks, HbHears, HbSleeps, BackgroundWakes, Wake, Yield
  <2>2. CASE HbAsks(h) \/ HbAsked(h)
    BY <1>0, <2>2 DEF HbAsks, HbAsked, CallEnsure, EnsureReturns, Go
  <2> QED
    BY <1>2, <2>1, <2>2 DEF HeartbeatStep
<1>3. ASSUME NEW t \in Tasks, ManagerStep(t), Below
      PROVE  AsksOutside'
  BY <1>0, <1>3, ManagerTakesNobody DEF AsksOutside, Below
<1>4. CASE ServiceShutdown
  BY <1>0, <1>4 DEF ServiceShutdown, SessionShutdown, BeginShutdown, AsksOutside
<1>5. CASE SessionLifespan /\ Below
  BY <1>0, <1>5 DEF SessionLifespan, Boot, Booted, ClosePool, Stopped, Resume, Below, AsksOutside, TypeOK
<1>6. ASSUME UNCHANGED <<epc, hb>>
      PROVE  AsksOutside'
  BY <1>6 DEF AsksOutside
<1>7. ASSUME NEW t \in Requests, QueryThread(t)
      PROVE  UNCHANGED <<epc, hb>>
  BY <1>7 DEF QueryThread, JobRuns, Below, vars, mgrVars
<1>8. ASSUME NEW g \in Pingers, PingThread(g)
      PROVE  UNCHANGED <<epc, hb>>
  BY <1>8 DEF PingThread, PingConnects, PingExecutes, PingOpens, PingCloses, vars, mgrVars
<1>9. ASSUME NEW p \in PoolIds, PoolJob(p)
      PROVE  UNCHANGED <<epc, hb>>
  BY <1>9 DEF PoolJob, ThreadStep, PoolThread, Below, mgrVars
<1>10. CASE Environment /\ Below
  BY <1>6, <1>10 DEF Environment, Tick, Below, mgrVars
<1>11. CASE UNCHANGED serviceVars
  BY <1>6, <1>11 DEF serviceVars, sessionVars, vars, mgrVars
<1>12. CASE LoopNext
  BY <1>1, <1>2, <1>3, <1>4, <1>5, <1>12 DEF LoopNext
<1> QED
  BY <1>6, <1>7, <1>8, <1>9, <1>10, <1>11, <1>12 DEF ServiceNext

LEMMA OneWaitStep ==
  ASSUME Inductive, CallInv, ServiceInv, OneWait, [ServiceNext]_serviceVars
  PROVE  OneWait'
<1>1. [SessionNext]_sessionVars
  BY ServiceNextIsSession DEF serviceVars
<1> QED
  BY <1>1, QueryInCallStep, CallInStageStep, AsksOutsideStep DEF OneWait, Inductive, CallInv, ServiceInv

-----------------------------------------------------------------------------
\* Whose job it is.
WaitsFor(t, j) ==
  \/ t \in Requests /\ job[t] = "running" /\ j = <<"query", t>>
  \/ target[t] \in PoolIds /\ j = <<"pool", target[t]>>
  \/ \E g \in Pingers : owner[g] = t /\ j = <<"ping", g>>

LEMMA SomebodyWaits ==
  ASSUME PingTypes, NEW j \in Awaited
  PROVE  \E t \in Tasks : WaitsFor(t, j)
<1>0. Requests \subseteq Tasks /\ Callers \subseteq Tasks
  BY RequestsCall DEF Tasks
<1>1. CASE IsQuery(j)
  BY <1>0, <1>1 DEF IsQuery, WaitsFor
<1>2. CASE IsAwaitedPool(j)
  BY <1>2 DEF IsAwaitedPool, AwaitedPool, WaitsFor
<1>3. CASE IsAwaitedPing(j)
  <2>1. PICK g \in Pingers : j = <<"ping", g>> /\ owner[g] # NoTask
    BY <1>3 DEF IsAwaitedPing
  <2>2. owner[g] \in Callers
    BY <2>1 DEF PingTypes
  <2> QED
    BY <1>0, <2>1, <2>2 DEF WaitsFor
<1> QED
  BY <1>1, <1>2, <1>3, AwaitedKinds

LEMMA WaitsForOne ==
  ASSUME Inductive, CallInv, ServiceInv, OneWait, NEW t \in Tasks, NEW j, NEW k,
         WaitsFor(t, j), WaitsFor(t, k)
  PROVE  j = k
<1>1. target[t] \in PoolIds => epc[t] \in {"closing", "initing"}
  BY NoPoolAssumption DEF Inductive, IInv, Targets
<1>2. ASSUME t \in Requests, job[t] = "running"
      PROVE  epc[t] = "out" /\ \A g \in Pingers : owner[g] # t
  <2>1. pc[t] = "job"
    BY <1>2 DEF OneWait, QueryInCall
  <2>2. stage[t] # "pinging"
    BY <1>2, <2>1 DEF OneWait, CallInStage
  <2>3. t # NoTask /\ t \notin Background
    BY TaskAssumption, RequestAssumption, <1>2
  <2> QED
    BY <1>2, <2>1, <2>2, <2>3 DEF CallInv, InsideOnlyAsked, ServiceInv, OneAnswerPerPing
<1>3. ASSUME NEW g \in Pingers, owner[g] = t
      PROVE  epc[t] = "out" /\ \A g2 \in Pingers : owner[g2] = t => g2 = g
  <2>1. t # NoTask
    BY TaskAssumption
  <2>2. CASE t \in Requests /\ stage[t] = "pinging"
    <3>1. pc[t] = "idle"
      BY <2>2 DEF OneWait, CallInStage
    <3> QED
      BY <1>3, <2>1, <2>2, <3>1 DEF CallInv, InsideOnlyAsked, ServiceInv, OneAnswerPerPing
  <2>3. CASE t \in Background /\ hb[t] = "ping"
    BY <1>3, <2>1, <2>3 DEF OneWait, AsksOutside, ServiceInv, OneAnswerPerPing
  <2> QED
    BY <1>3, <2>1, <2>2, <2>3 DEF ServiceInv, OneAnswerPerPing
<1> QED
  BY <1>1, <1>2, <1>3 DEF WaitsFor

LEMMA QueueFits ==
  ASSUME Inductive, CallInv, ServiceInv, OneWait, ExecInv
  PROVE  Cardinality(Unrevoked) <= Cardinality(Tasks)
<1> DEFINE waiter == [i \in Unrevoked |-> CHOOSE t \in Tasks : WaitsFor(t, backlog[i])]
<1>1. Unrevoked \subseteq DOMAIN backlog /\ \A i \in Unrevoked : backlog[i] \in Queued
  BY QueueEntries DEF ExecInv, Unrevoked
<1>2. ASSUME NEW i \in Unrevoked PROVE waiter[i] \in Tasks /\ WaitsFor(waiter[i], backlog[i])
  <2>1. \E t \in Tasks : WaitsFor(t, backlog[i])
    BY <1>1, SomebodyWaits DEF Queued, ServiceInv
  <2> QED
    BY <2>1
<1>3. ASSUME NEW i \in Unrevoked, NEW k \in Unrevoked, waiter[i] = waiter[k] PROVE i = k
  <2>1. backlog[i] = backlog[k]
    <3>1. waiter[i] \in Tasks /\ WaitsFor(waiter[i], backlog[i]) /\ WaitsFor(waiter[i], backlog[k])
      BY <1>2, <1>3
    <3> HIDE DEF waiter
    <3> QED
      BY <3>1, WaitsForOne
  <2> QED
    BY <1>1, <2>1 DEF ExecInv, OnceEach, Unrevoked
<1>4. waiter \in Injection(Unrevoked, Tasks)
  <2>1. waiter \in [Unrevoked -> Tasks]
    BY <1>2
  <2> HIDE DEF waiter
  <2> QED
    BY <1>3, <2>1 DEF Injection, IsInjective
<1> HIDE DEF waiter
<1> QED
  BY <1>4, FiniteAssumption, FS_Injection

-----------------------------------------------------------------------------
LEMMA ExecInvariance == ExecSpec => [](Inductive /\ CallInv /\ ServiceInv /\ OneWait /\ ExecInv)
<1>1. ExecSpec => [](Inductive /\ CallInv /\ ServiceInv) /\ ServiceSpec
  BY ExecutorSteps, ServiceInvariance, PTL
<1>2. ServiceSpec => ServiceInit /\ [][ServiceNext]_serviceVars
  BY DEF ServiceSpec
<1>3. ServiceInit => OneWait
  BY OneWaitInitially
<1>4. Inductive /\ CallInv /\ ServiceInv /\ OneWait /\ [ServiceNext]_serviceVars => OneWait'
  BY OneWaitStep
<1>5. ExecInit => ExecInv
  BY ExecInvInitially
<1>6. Inductive /\ CallInv /\ ServiceInv /\ ExecInv /\ [ExecNext]_execVars => ExecInv'
  BY ExecInvStep
<1> QED
  BY <1>1, <1>2, <1>3, <1>4, <1>5, <1>6, PTL DEF ExecSpec

\* However pings time out and the heartbeat is cancelled, no job that a coroutine
\* waits for disappears from queue and threads: for any number of requests, pings
\* and threads.
THEOREM NoJobIsLost == ExecSpec => []NoJobLost
<1>1. ExecInv => NoJobLost
  BY DEF ExecInv, OnceEach, Queued, NoJobLost
<1> QED
  BY <1>1, ExecInvariance, PTL

\* What the queue still has to give to threads are jobs that somebody waits for,
\* each of them once and no more than there are tasks, however many revoked
\* entries lie between them.
THEOREM RevokedNeverStarts == ExecSpec => []OnlyAwaitedStart
<1>1. Inductive /\ CallInv /\ ServiceInv /\ OneWait /\ ExecInv => OnlyAwaitedStart
  <2> SUFFICES ASSUME Inductive, CallInv, ServiceInv, OneWait, ExecInv PROVE OnlyAwaitedStart
    OBVIOUS
  <2>1. \A i \in Unrevoked : backlog[i] \in Queued
    BY QueueEntries DEF ExecInv, Unrevoked
  <2>2. \A i, k \in Unrevoked : backlog[i] = backlog[k] => i = k
    BY DEF ExecInv, OnceEach, Unrevoked
  <2> QED
    BY <2>1, <2>2, QueueFits DEF ExecInv, Queued, OnlyAwaitedStart
<1> QED
  BY <1>1, ExecInvariance, PTL

-----------------------------------------------------------------------------
\* The chain: with handlers, heartbeat, pings and executor in place, the promises of
\* pool manager, calls and pings hold in every state, and the pools of the whole
\* service live as PoolLifecycle says.
THEOREM WholeService ==
  ExecSpec => /\ [](IInv /\ RetryIsFresh /\ SessionsReturned /\ OneAnswerPerPing)
                  /\ SessionsFromHealthyPool
                  /\ ImplementsLifecycle
<1>1. SessionSpec => Spec
  BY SessionOverPool DEF ImplementsNebulaPool
<1>2. ServiceSpec => SessionSpec
  BY ServiceOverSession DEF ImplementsSession
<1>3. ExecSpec => ServiceSpec
  BY ExecutorSteps
<1>4. Inductive /\ CallInv /\ ServiceInv =>
        IInv /\ RetryIsFresh /\ SessionsReturned /\ OneAnswerPerPing
  BY DEF Inductive, CallInv, ServiceInv
<1> QED
  BY <1>1, <1>2, <1>3, <1>4, ServiceInvariance, TakesFromHealthy, Refinement, PTL
=============================================================================
