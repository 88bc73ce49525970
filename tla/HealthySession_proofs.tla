------------------------- MODULE HealthySession_proofs -------------------------
(***************************************************************************)
(* Proofs about HealthySession, for every number of requests, pools and    *)
(* retries.                                                                *)
(*                                                                         *)
(* A session behaviour is a behaviour of NebulaPool (SessionOverPool), so  *)
(* NebulaPool's invariant holds of it.  On top of that CallInv is          *)
(* inductive: a request is inside ensure_healthy_pool only where it awaits *)
(* it (InsideOnlyAsked), keeps the event loop from its look at the flag to *)
(* get_session (LooksAndTakes), and no session refers to a pool object     *)
(* that is being initialised (FreshTargets), which is why a retry cannot   *)
(* be handed the pool that failed.                                         *)
(***************************************************************************)
EXTENDS HealthySession, NebulaPool_proofs

LEMMA RequestsCall == Requests \subseteq Callers /\ Background \subseteq Callers
BY RequestAssumption, TaskAssumption

-----------------------------------------------------------------------------
(***************************************************************************)
(* HealthySession over NebulaPool: each step of a request is a step of the *)
(* most general client, or moves nothing but the request.                  *)
(***************************************************************************)
LEMMA CallSteps ==
  ASSUME NEW t \in Requests,
         Arrive(t) \/ Rest(t) \/ Call(t) \/ SessionStep(t) \/ JobRuns(t)
  PROVE  (\E u \in Callers : ClientStep(u)) \/ UNCHANGED vars
<1>0. t \in Callers
  BY RequestsCall
<1>1. CASE Arrive(t)
  BY <1>0, <1>1 DEF Arrive, ClientStep
<1>2. CASE Rest(t)
  BY <1>0, <1>2 DEF Rest, ClientStep
<1>3. CASE Call(t)
  BY <1>3 DEF Call
<1>4. CASE Attempt(t)
  BY <1>0, <1>4 DEF Attempt, Ask, ClientStep
<1>5. CASE Asked(t)
  BY <1>0, <1>5 DEF Asked, ClientStep
<1>6. CASE GetSession(t)
  BY <1>0, <1>6 DEF GetSession, Ask, ClientStep
<1>7. CASE Submit(t)
  BY <1>0, <1>7 DEF Submit, ClientStep
<1>8. CASE JobDone(t)
  BY <1>0, <1>8 DEF JobDone, ClientStep
<1>9. CASE Failed(t)
  BY <1>0, <1>9 DEF Failed, ClientStep
<1>10. CASE Retry(t)
  BY <1>0, <1>10 DEF Retry, Ask, ClientStep
<1>11. CASE Retried(t)
  BY <1>0, <1>11 DEF Retried, ClientStep
<1>12. CASE Release(t)
  BY <1>0, <1>12 DEF Release, ClientStep
<1>13. CASE JobRuns(t)
  BY <1>13 DEF JobRuns
<1> QED
  BY <1>1, <1>2, <1>3, <1>4, <1>5, <1>6, <1>7, <1>8, <1>9, <1>10, <1>11, <1>12, <1>13
  DEF SessionStep

LEMMA BackgroundSteps ==
  ASSUME NEW t \in Background, BackgroundWakes(t) \/ BackgroundRuns(t)
  PROVE  \E u \in Callers : ClientStep(u)
BY RequestsCall DEF BackgroundWakes, BackgroundRuns, ClientStep

LEMMA ManagerSteps ==
  ASSUME NEW t \in Tasks, ManagerStep(t)
  PROVE  Next
BY DEF ManagerStep, Next

LEMMA SessionNextIsNext ==
  ASSUME SessionNext
  PROVE  [Next]_vars
<1>1. CASE \E t \in Requests : Arrive(t) \/ Rest(t) \/ Call(t) \/ SessionStep(t) \/ JobRuns(t)
  BY <1>1, CallSteps DEF Next
<1>2. CASE \E t \in Background : BackgroundWakes(t) \/ BackgroundRuns(t)
  BY <1>2, BackgroundSteps DEF Next
<1>3. CASE \E t \in Tasks : ManagerStep(t)
  BY <1>3, ManagerSteps
<1>4. CASE \E g \in Pingers : PingStep(g) /\ UNCHANGED callVars
  BY <1>4 DEF Next
<1>5. CASE \E p \in PoolIds : ThreadStep(p)
  BY <1>5 DEF ThreadStep, Next
<1>6. CASE SessionShutdown
  BY <1>6 DEF SessionShutdown, LifespanStep, Next
<1>7. CASE SessionLifespan
  BY <1>7 DEF SessionLifespan, LifespanStep, Next
<1>8. CASE Environment /\ UNCHANGED callVars
  BY <1>8 DEF Next
<1> QED
  BY <1>1, <1>2, <1>3, <1>4, <1>5, <1>6, <1>7, <1>8 DEF SessionNext

\* Every behaviour of _with_healthy_session's callers is one of the pool
\* manager's most general client.
THEOREM SessionOverPool == SessionSpec => ImplementsNebulaPool
<1>1. SessionInit => Init
  BY DEF SessionInit
<1>2. [SessionNext]_sessionVars => [Next]_vars
  BY SessionNextIsNext DEF sessionVars
<1> QED
  BY <1>1, <1>2, PTL DEF SessionSpec, ImplementsNebulaPool, Spec

-----------------------------------------------------------------------------
(***************************************************************************)
(* The invariant of the calls.                                             *)
(***************************************************************************)
InsideOnlyAsked ==
  \A t \in Requests : pc[t] \notin {"asked", "asked_retry"} => epc[t] = "out"

LooksAndTakes == \A t \in Requests : pc[t] = "pool" => loop = t /\ healthy

FreshTargets ==
  \A u \in Tasks, h \in Holders : epc[u] = "initing" => sess[h] # target[u]

Again(t) ==
  \/ pc[t] \in {"retry", "asked_retry"}
  \/ pc[t] = "release" /\ outcome[t] = "pending"

AttemptsLeft ==
  \A t \in Requests : pc[t] = "top" \/ Again(t) => attempt[t] <= DB_RETRY_COUNT

CallInv ==
  /\ CallTypeOK
  /\ AttemptsLeft
  /\ InsideOnlyAsked
  /\ LooksAndTakes
  /\ FreshTargets
  /\ SessionsReturned
  /\ RetryIsFresh

LEMMA CallInvInitially == SessionInit => CallInv
<1> SUFFICES ASSUME SessionInit PROVE CallInv
  OBVIOUS
<1> USE DEF SessionInit, Init, CallInit
<1>1. CallTypeOK
  BY RetryAssumption DEF CallTypeOK, Labels
<1>2. AttemptsLeft /\ LooksAndTakes /\ RetryIsFresh
  BY RetryAssumption DEF AttemptsLeft, Again, LooksAndTakes, RetryIsFresh
<1>3. InsideOnlyAsked /\ FreshTargets
  BY RequestsCall DEF InsideOnlyAsked, FreshTargets, Tasks
<1>4. SessionsReturned
  BY RequestsCall DEF SessionsReturned, PoolInit, Holders
<1> QED
  BY <1>1, <1>2, <1>3, <1>4 DEF CallInv

LEMMA CallKeeps ==
  ASSUME Inductive, CallInv, NEW t \in Requests, Call(t)
  PROVE  CallInv'
<1> USE DEF Inductive, CallInv, CallTypeOK, To, Call, vars, poolVars, mgrVars
<1>0. t \in Callers /\ t \in Tasks /\ t \in Holders /\ t # Main
  BY RequestsCall, TaskAssumption DEF Tasks, Holders
<1>1. CallTypeOK'
  BY RetryAssumption DEF AttemptsLeft, Labels, Answers
<1>2. AttemptsLeft'
  BY RetryAssumption DEF AttemptsLeft, Again, Answers
<1>3. InsideOnlyAsked'
  BY <1>0 DEF InsideOnlyAsked, TypeOK
<1>4. LooksAndTakes'
  BY <1>0 DEF LooksAndTakes, InsideOnlyAsked, TypeOK
<1>5. FreshTargets'
  BY <1>0 DEF FreshTargets, TypeOK
<1>6. SessionsReturned'
  BY <1>0 DEF SessionsReturned
<1>7. RetryIsFresh'
  BY <1>0 DEF RetryIsFresh, Usable, Answers
<1> QED
  BY <1>1, <1>2, <1>3, <1>4, <1>5, <1>6, <1>7

LEMMA AttemptKeeps ==
  ASSUME Inductive, CallInv, NEW t \in Requests, Attempt(t)
  PROVE  CallInv'
<1> USE DEF Inductive, CallInv, CallTypeOK, To, Attempt, At, Ask, CallEnsure, Go, vars, poolVars, mgrVars
<1>0. t \in Callers /\ t \in Tasks /\ t \in Holders /\ t # Main
  BY RequestsCall, TaskAssumption DEF Tasks, Holders
<1>1. CallTypeOK'
  BY RetryAssumption DEF AttemptsLeft, Labels, Answers
<1>2. AttemptsLeft'
  BY RetryAssumption DEF AttemptsLeft, Again, Answers
<1>3. InsideOnlyAsked'
  <2>1. CASE ~healthy
    BY <1>0, <2>1, RequestsCall DEF InsideOnlyAsked, TypeOK, Tasks
  <2>2. CASE healthy
    BY <1>0, <2>2 DEF InsideOnlyAsked
  <2> QED
    BY <2>1, <2>2
<1>4. LooksAndTakes'
  BY <1>0 DEF LooksAndTakes, InsideOnlyAsked, TypeOK
<1>5. FreshTargets'
  BY <1>0 DEF FreshTargets, TypeOK
<1>6. SessionsReturned'
  BY <1>0 DEF SessionsReturned
<1>7. RetryIsFresh'
  BY <1>0 DEF RetryIsFresh, Usable, Answers
<1> QED
  BY <1>1, <1>2, <1>3, <1>4, <1>5, <1>6, <1>7

LEMMA AskedKeeps ==
  ASSUME Inductive, CallInv, NEW t \in Requests, Asked(t)
  PROVE  CallInv'
<1> USE DEF Inductive, CallInv, CallTypeOK, To, Asked, Return, EnsureReturns, Go, Result, poolVars
<1>0. t \in Callers /\ t \in Tasks /\ t \in Holders /\ t # Main
  BY RequestsCall, TaskAssumption DEF Tasks, Holders
<1>1. CallTypeOK'
  BY RetryAssumption DEF AttemptsLeft, Labels, Answers
<1>2. AttemptsLeft'
  BY RetryAssumption DEF AttemptsLeft, Again, Answers
<1>3. InsideOnlyAsked'
  BY <1>0 DEF InsideOnlyAsked, TypeOK
<1>4. LooksAndTakes'
  BY <1>0 DEF LooksAndTakes, IInv, VerdictNotStale, Usable, TypeOK
<1>5. FreshTargets'
  BY <1>0 DEF FreshTargets, TypeOK
<1>6. SessionsReturned'
  BY <1>0 DEF SessionsReturned
<1>7. RetryIsFresh'
  BY <1>0 DEF RetryIsFresh, Usable, Answers
<1> QED
  BY <1>1, <1>2, <1>3, <1>4, <1>5, <1>6, <1>7

LEMMA GetSessionKeeps ==
  ASSUME Inductive, CallInv, NEW t \in Requests, GetSession(t)
  PROVE  CallInv'
<1> USE DEF Inductive, CallInv, CallTypeOK, To, GetSession, At, Ask, Return, CallEnsure, OpenSession, TakeSession, CanServe, Go, vars, poolVars, mgrVars
<1>0. t \in Callers /\ t \in Tasks /\ t \in Holders /\ t # Main
  BY RequestsCall, TaskAssumption DEF Tasks, Holders
<1>1. CallTypeOK'
  BY RetryAssumption DEF AttemptsLeft, Labels, Answers
<1>2. AttemptsLeft'
  BY RetryAssumption DEF AttemptsLeft, Again, Answers
<1>3. InsideOnlyAsked'
  <2>1. CASE pool = NoPool
    BY <1>0, <2>1, RequestsCall DEF InsideOnlyAsked, TypeOK, Tasks
  <2>2. CASE pool # NoPool
    BY <1>0, <2>2 DEF InsideOnlyAsked
  <2> QED
    BY <2>1, <2>2
<1>4. LooksAndTakes'
  BY <1>0 DEF LooksAndTakes, InsideOnlyAsked, TypeOK
<1>5. FreshTargets'
  BY <1>0, NoPoolAssumption DEF FreshTargets, IInv, Published, TypeOK, PoolTypeOK
<1>6. SessionsReturned'
  <2>1. CASE pool = NoPool
    BY <1>0, <2>1 DEF SessionsReturned
  <2>2. CASE pool # NoPool /\ To(t, "pool", "session")
    BY <1>0, <2>2, RequestsCall, NoPoolAssumption
    DEF SessionsReturned, TypeOK, PoolTypeOK, Holders
  <2>3. CASE pool # NoPool /\ To(t, "pool", "idle")
    BY <1>0, <2>3 DEF SessionsReturned
  <2> QED
    BY <2>1, <2>2, <2>3
<1>7. RetryIsFresh'
  <2>1. CASE pool = NoPool
    BY <1>0, <2>1 DEF RetryIsFresh, Usable
  <2>2. CASE pool # NoPool /\ To(t, "pool", "session")
    BY <1>0, <2>2, RequestsCall DEF RetryIsFresh, Usable, TypeOK, PoolTypeOK, Holders
  <2>3. CASE pool # NoPool /\ To(t, "pool", "idle")
    BY <1>0, <2>3 DEF RetryIsFresh, Usable
  <2> QED
    BY <2>1, <2>2, <2>3
<1> QED
  BY <1>1, <1>2, <1>3, <1>4, <1>5, <1>6, <1>7

LEMMA SubmitKeeps ==
  ASSUME Inductive, CallInv, NEW t \in Requests, Submit(t)
  PROVE  CallInv'
<1> USE DEF Inductive, CallInv, CallTypeOK, To, Submit, Yield, poolVars
<1>0. t \in Callers /\ t \in Tasks /\ t \in Holders /\ t # Main
  BY RequestsCall, TaskAssumption DEF Tasks, Holders
<1>1. CallTypeOK'
  BY RetryAssumption DEF AttemptsLeft, Labels, Answers
<1>2. AttemptsLeft'
  BY RetryAssumption DEF AttemptsLeft, Again, Answers
<1>3. InsideOnlyAsked'
  BY <1>0 DEF InsideOnlyAsked, TypeOK
<1>4. LooksAndTakes'
  BY <1>0 DEF LooksAndTakes, InsideOnlyAsked, TypeOK
<1>5. FreshTargets'
  BY <1>0 DEF FreshTargets, TypeOK
<1>6. SessionsReturned'
  BY <1>0 DEF SessionsReturned
<1>7. RetryIsFresh'
  BY <1>0 DEF RetryIsFresh, Usable, Answers
<1> QED
  BY <1>1, <1>2, <1>3, <1>4, <1>5, <1>6, <1>7

LEMMA JobRunsKeeps ==
  ASSUME Inductive, CallInv, NEW t \in Requests, JobRuns(t)
  PROVE  CallInv'
<1> USE DEF Inductive, CallInv, CallTypeOK, To, JobRuns, vars, poolVars, mgrVars
<1>0. t \in Callers /\ t \in Tasks /\ t \in Holders /\ t # Main
  BY RequestsCall, TaskAssumption DEF Tasks, Holders
<1>1. CallTypeOK'
  BY RetryAssumption DEF AttemptsLeft, Labels, Answers
<1>2. AttemptsLeft'
  BY RetryAssumption DEF AttemptsLeft, Again, Answers
<1>3. InsideOnlyAsked'
  BY <1>0 DEF InsideOnlyAsked, TypeOK
<1>4. LooksAndTakes'
  BY <1>0 DEF LooksAndTakes, InsideOnlyAsked, TypeOK
<1>5. FreshTargets'
  BY <1>0 DEF FreshTargets, TypeOK
<1>6. SessionsReturned'
  BY <1>0 DEF SessionsReturned
<1>7. RetryIsFresh'
  BY <1>0 DEF RetryIsFresh, Usable, Answers
<1> QED
  BY <1>1, <1>2, <1>3, <1>4, <1>5, <1>6, <1>7

LEMMA JobDoneKeeps ==
  ASSUME Inductive, CallInv, NEW t \in Requests, JobDone(t)
  PROVE  CallInv'
<1> USE DEF Inductive, CallInv, CallTypeOK, To, JobDone, Wake, poolVars
<1>0. t \in Callers /\ t \in Tasks /\ t \in Holders /\ t # Main
  BY RequestsCall, TaskAssumption DEF Tasks, Holders
<1>1. CallTypeOK'
  BY RetryAssumption DEF AttemptsLeft, Labels, Answers
<1>2. AttemptsLeft'
  BY RetryAssumption DEF AttemptsLeft, Again, Answers
<1>3. InsideOnlyAsked'
  BY <1>0 DEF InsideOnlyAsked, TypeOK
<1>4. LooksAndTakes'
  BY <1>0, RequestsCall, TaskAssumption DEF LooksAndTakes, Tasks
<1>5. FreshTargets'
  BY <1>0 DEF FreshTargets, TypeOK
<1>6. SessionsReturned'
  BY <1>0 DEF SessionsReturned
<1>7. RetryIsFresh'
  BY <1>0 DEF RetryIsFresh, Usable, Answers
<1> QED
  BY <1>1, <1>2, <1>3, <1>4, <1>5, <1>6, <1>7

LEMMA FailedKeeps ==
  ASSUME Inductive, CallInv, NEW t \in Requests, Failed(t)
  PROVE  CallInv'
<1> USE DEF Inductive, CallInv, CallTypeOK, To, Failed, MarkUnhealthy, poolVars
<1>0. t \in Callers /\ t \in Tasks /\ t \in Holders /\ t # Main
  BY RequestsCall, TaskAssumption DEF Tasks, Holders
<1>1. CallTypeOK'
  BY RetryAssumption DEF AttemptsLeft, Labels, Answers
<1>2. AttemptsLeft'
  BY RetryAssumption DEF AttemptsLeft, Again, Answers
<1>3. InsideOnlyAsked'
  BY <1>0 DEF InsideOnlyAsked, TypeOK
<1>4. LooksAndTakes'
  BY <1>0 DEF LooksAndTakes, InsideOnlyAsked, TypeOK
<1>5. FreshTargets'
  BY <1>0 DEF FreshTargets, TypeOK
<1>6. SessionsReturned'
  BY <1>0 DEF SessionsReturned
<1>7. RetryIsFresh'
  BY <1>0 DEF RetryIsFresh, Usable
<1> QED
  BY <1>1, <1>2, <1>3, <1>4, <1>5, <1>6, <1>7

LEMMA RetryKeeps ==
  ASSUME Inductive, CallInv, NEW t \in Requests, Retry(t)
  PROVE  CallInv'
<1> USE DEF Inductive, CallInv, CallTypeOK, To, Retry, Ask, CallEnsure, Go, poolVars
<1>0. t \in Callers /\ t \in Tasks /\ t \in Holders /\ t # Main
  BY RequestsCall, TaskAssumption DEF Tasks, Holders
<1>1. CallTypeOK'
  BY RetryAssumption DEF AttemptsLeft, Labels, Answers
<1>2. AttemptsLeft'
  BY RetryAssumption DEF AttemptsLeft, Again, Answers
<1>3. InsideOnlyAsked'
  BY <1>0 DEF InsideOnlyAsked, TypeOK
<1>4. LooksAndTakes'
  BY <1>0 DEF LooksAndTakes, InsideOnlyAsked, TypeOK
<1>5. FreshTargets'
  BY <1>0 DEF FreshTargets, TypeOK
<1>6. SessionsReturned'
  BY <1>0 DEF SessionsReturned
<1>7. RetryIsFresh'
  BY <1>0 DEF RetryIsFresh, Usable, Answers
<1> QED
  BY <1>1, <1>2, <1>3, <1>4, <1>5, <1>6, <1>7

LEMMA RetriedKeeps ==
  ASSUME Inductive, CallInv, NEW t \in Requests, Retried(t)
  PROVE  CallInv'
<1> USE DEF Inductive, CallInv, CallTypeOK, To, Retried, EnsureReturns, Go, Result, poolVars
<1>0. t \in Callers /\ t \in Tasks /\ t \in Holders /\ t # Main
  BY RequestsCall, TaskAssumption DEF Tasks, Holders
<1>1. CallTypeOK'
  BY RetryAssumption DEF AttemptsLeft, Labels, Answers
<1>2. AttemptsLeft'
  BY RetryAssumption DEF AttemptsLeft, Again, Answers
<1>3. InsideOnlyAsked'
  BY <1>0 DEF InsideOnlyAsked, TypeOK
<1>4. LooksAndTakes'
  BY <1>0 DEF LooksAndTakes, InsideOnlyAsked, TypeOK
<1>5. FreshTargets'
  BY <1>0 DEF FreshTargets, TypeOK
<1>6. SessionsReturned'
  BY <1>0 DEF SessionsReturned
<1>7. RetryIsFresh'
  BY <1>0 DEF RetryIsFresh, Usable, Answers
<1> QED
  BY <1>1, <1>2, <1>3, <1>4, <1>5, <1>6, <1>7

LEMMA ReleaseKeeps ==
  ASSUME Inductive, CallInv, NEW t \in Requests, Release(t)
  PROVE  CallInv'
<1> USE DEF Inductive, CallInv, CallTypeOK, To, Release, CloseSession, GiveSession, mgrVars
<1>0. t \in Callers /\ t \in Tasks /\ t \in Holders /\ t # Main
  BY RequestsCall, TaskAssumption DEF Tasks, Holders
<1>1. CallTypeOK'
  BY RetryAssumption DEF AttemptsLeft, Labels, Answers
<1>2. AttemptsLeft'
  BY RetryAssumption DEF AttemptsLeft, Again, Answers
<1>3. InsideOnlyAsked'
  BY <1>0 DEF InsideOnlyAsked, TypeOK
<1>4. LooksAndTakes'
  BY <1>0 DEF LooksAndTakes, InsideOnlyAsked, TypeOK
<1>5. FreshTargets'
  BY <1>0, NoPoolAssumption DEF FreshTargets, IInv, Targets, TypeOK, PoolTypeOK
<1>6. SessionsReturned'
  BY <1>0, NoPoolAssumption DEF SessionsReturned, TypeOK, PoolTypeOK
<1>7. RetryIsFresh'
  BY <1>0 DEF RetryIsFresh, Usable, TypeOK, PoolTypeOK
<1> QED
  BY <1>1, <1>2, <1>3, <1>4, <1>5, <1>6, <1>7

LEMMA ArriveKeeps ==
  ASSUME Inductive, CallInv, NEW t \in Requests, Arrive(t)
  PROVE  CallInv'
<1> USE DEF Inductive, CallInv, CallTypeOK, To, Arrive, Wake, poolVars, callVars
<1>0. t \in Callers /\ t \in Tasks /\ t \in Holders /\ t # Main
  BY RequestsCall, TaskAssumption DEF Tasks, Holders
<1>1. CallTypeOK'
  BY RetryAssumption DEF AttemptsLeft, Labels, Answers
<1>2. AttemptsLeft'
  BY RetryAssumption DEF AttemptsLeft, Again, Answers
<1>3. InsideOnlyAsked'
  BY <1>0 DEF InsideOnlyAsked, TypeOK
<1>4. LooksAndTakes'
  BY <1>0, RequestsCall, TaskAssumption DEF LooksAndTakes, Tasks
<1>5. FreshTargets'
  BY <1>0 DEF FreshTargets, TypeOK
<1>6. SessionsReturned'
  BY <1>0 DEF SessionsReturned
<1>7. RetryIsFresh'
  BY <1>0 DEF RetryIsFresh, Usable, Answers
<1> QED
  BY <1>1, <1>2, <1>3, <1>4, <1>5, <1>6, <1>7

LEMMA RestKeeps ==
  ASSUME Inductive, CallInv, NEW t \in Requests, Rest(t)
  PROVE  CallInv'
<1> USE DEF Inductive, CallInv, CallTypeOK, To, Rest, Yield, poolVars
<1>0. t \in Callers /\ t \in Tasks /\ t \in Holders /\ t # Main
  BY RequestsCall, TaskAssumption DEF Tasks, Holders
<1>1. CallTypeOK'
  BY RetryAssumption DEF AttemptsLeft, Labels, Answers
<1>2. AttemptsLeft'
  BY RetryAssumption DEF AttemptsLeft, Again, Answers
<1>3. InsideOnlyAsked'
  BY <1>0 DEF InsideOnlyAsked, TypeOK
<1>4. LooksAndTakes'
  BY <1>0 DEF LooksAndTakes, InsideOnlyAsked, TypeOK
<1>5. FreshTargets'
  BY <1>0 DEF FreshTargets, TypeOK
<1>6. SessionsReturned'
  BY <1>0 DEF SessionsReturned
<1>7. RetryIsFresh'
  BY <1>0 DEF RetryIsFresh, Usable, Answers
<1> QED
  BY <1>1, <1>2, <1>3, <1>4, <1>5, <1>6, <1>7

-----------------------------------------------------------------------------
(***************************************************************************)
(* The steps of everybody else.  What a request relies on in them: nobody  *)
(* touches its session, takes it into the manager or the event loop from   *)
(* it, and the flag comes up only with a pool that was just built.         *)
(***************************************************************************)
LeavesRequests ==
  /\ \A t \in Requests : sess'[t] = sess[t] /\ (epc[t] = "out" => epc'[t] = "out")
  /\ \A t \in Requests : loop = t /\ epc[t] = "out" => loop' = t /\ (healthy => healthy')

TrustsOnlyNew ==
  Usable' => \/ Usable /\ pool' = pool
             \/ \E u \in Tasks : epc[u] = "initing" /\ pool' = target[u]

LEMMA OthersKeep ==
  ASSUME Inductive, CallInv, UNCHANGED callVars, LeavesRequests, TrustsOnlyNew, FreshTargets'
  PROVE  CallInv'
<1> USE DEF CallInv, callVars, LeavesRequests
<1>1. CallTypeOK' /\ AttemptsLeft'
  BY DEF CallTypeOK, AttemptsLeft, Again
<1>2. InsideOnlyAsked' /\ LooksAndTakes'
  BY DEF InsideOnlyAsked, LooksAndTakes
<1>3. SessionsReturned'
  BY DEF SessionsReturned
<1>4. RetryIsFresh'
  <2> SUFFICES ASSUME NEW t \in Requests, Again(t), Usable', pool' = sess'[t]
               PROVE  FALSE
    BY DEF RetryIsFresh, Again
  <2>1. ~(Usable /\ pool' = pool)
    BY DEF RetryIsFresh, Again
  <2>2. PICK u \in Tasks : epc[u] = "initing" /\ pool' = target[u]
    BY <2>1 DEF TrustsOnlyNew
  <2> QED
    BY <2>2, RequestsCall DEF FreshTargets, Holders
<1> QED
  BY <1>1, <1>2, <1>3, <1>4

\* Nothing in ensure_healthy_pool but pool.init's success raises the flag.
LEMMA EnsureLeavesRequests ==
  ASSUME Inductive, CallInv, NEW t \in Callers, EnsureStep(t)
  PROVE  LeavesRequests /\ TrustsOnlyNew /\ FreshTargets'
<1> USE DEF Inductive, CallInv
<1>0. t \in Tasks /\ t # NoTask /\ \A u \in Requests : u \in Tasks /\ u # NoTask
  BY RequestsCall, TaskAssumption DEF Tasks
<1>1. CASE EnsureEnter(t)
  BY <1>0, <1>1 DEF EnsureEnter, Go, Suspend, Result, LeavesRequests, TrustsOnlyNew, FreshTargets, Usable,
                    TypeOK, poolVars
<1>2. CASE LockGranted(t)
  BY <1>0, <1>2 DEF LockGranted, Resume, LeavesRequests, TrustsOnlyNew, FreshTargets, Usable,
                    TypeOK, poolVars
<1>3. CASE EnsureRecheck(t)
  BY <1>0, <1>3 DEF EnsureRecheck, Go, Result, LeavesRequests, TrustsOnlyNew, FreshTargets, Usable,
                    TypeOK, poolVars
<1>4. CASE ReinitStart(t)
  <2>1. LeavesRequests
    BY <1>0, <1>4 DEF ReinitStart, Unpublish, Go, Suspend, LeavesRequests, TypeOK, poolVars
  <2>2. TrustsOnlyNew
    BY <1>4 DEF ReinitStart, Unpublish, TrustsOnlyNew, Usable, poolVars
  <2>3. FreshTargets'
    BY <1>0, <1>4 DEF ReinitStart, Unpublish, Go, Suspend, FreshTargets, TypeOK, poolVars
  <2> QED
    BY <2>1, <2>2, <2>3
<1>5. CASE EnsureLeave(t)
  BY <1>0, <1>5 DEF EnsureLeave, Go, Result, LeavesRequests, TrustsOnlyNew, FreshTargets, Usable,
                    TypeOK, poolVars
<1> QED
  BY <1>1, <1>2, <1>3, <1>4, <1>5 DEF EnsureStep

\* A pool object that is about to be initialised belongs to no session.
LEMMA BuildingLeavesRequests ==
  ASSUME Inductive, CallInv, NEW t \in Tasks,
         ExecutorStep(t) \/ \E p \in FreePools : CreatePool(t, p)
  PROVE  LeavesRequests /\ TrustsOnlyNew /\ FreshTargets'
<1> USE DEF Inductive, CallInv
<1>0. \A u \in Requests : u \in Tasks /\ u # NoTask /\ u # Main
  BY RequestsCall, TaskAssumption DEF Tasks
<1>1. CASE CloseDone(t)
  BY <1>0, <1>1 DEF CloseDone, Resume, LeavesRequests, TrustsOnlyNew, FreshTargets, Usable, TypeOK, poolVars
<1>2. CASE PoolCreated(t)
  <2>1. LeavesRequests
    BY <1>0, <1>2 DEF PoolCreated, Resume, LeavesRequests, TypeOK, poolVars
  <2>2. TrustsOnlyNew
    BY <1>2 DEF PoolCreated, TrustsOnlyNew, Usable
  <2>3. FreshTargets'
    BY <1>2 DEF PoolCreated, Resume, FreshTargets, TypeOK, poolVars
  <2> QED
    BY <2>1, <2>2, <2>3
<1>3. ASSUME NEW p \in FreePools, CreatePool(t, p)
      PROVE  LeavesRequests /\ TrustsOnlyNew /\ FreshTargets'
  <2>1. LeavesRequests /\ TrustsOnlyNew
    BY <1>0, <1>3 DEF CreatePool, Suspend, LeavesRequests, TrustsOnlyNew, Usable, TypeOK
  <2>2. FreshTargets'
    BY <1>3 DEF CreatePool, Suspend, FreePools, Reusable, FreshTargets, TypeOK
  <2> QED
    BY <2>1, <2>2
<1> QED
  BY <1>1, <1>2, <1>3 DEF ExecutorStep

LEMMA BackgroundLeavesRequests ==
  ASSUME Inductive, CallInv, NEW t \in Background, BackgroundWakes(t) \/ BackgroundRuns(t)
  PROVE  LeavesRequests /\ TrustsOnlyNew /\ FreshTargets'
<1>0. t \in Tasks /\ t \notin Requests /\ \A u \in Requests : u \in Tasks /\ u # NoTask
  BY RequestAssumption, TaskAssumption DEF Tasks
<1> QED
  BY <1>0 DEF Inductive, CallInv, BackgroundWakes, BackgroundRuns, Wake, Yield, CallEnsure,
              EnsureReturns, Go, Result, LeavesRequests, TrustsOnlyNew, FreshTargets, Usable, TypeOK, poolVars

\* A ping's session is its own, and of the published pool.
LEMMA PingsLeaveRequests ==
  ASSUME Inductive, CallInv, NEW g \in Pingers, PingStep(g)
  PROVE  LeavesRequests /\ TrustsOnlyNew /\ FreshTargets'
<1> USE DEF Inductive, CallInv
<1>0. g \in Holders /\ \A u \in Requests : u # g /\ u \in Holders
  BY RequestsCall, HolderAssumption DEF Holders
<1>1. LeavesRequests /\ TrustsOnlyNew
  BY <1>0 DEF PingStep, PingOpens, PingCloses, TakeSession, GiveSession, mgrVars, LeavesRequests,
              TrustsOnlyNew, Usable, TypeOK, PoolTypeOK
<1>2. FreshTargets'
  BY <1>0, NoPoolAssumption
  DEF PingStep, PingOpens, PingCloses, TakeSession, GiveSession, CanServe, mgrVars, FreshTargets,
      IInv, Published, Targets, TypeOK, PoolTypeOK
<1> QED
  BY <1>1, <1>2

LEMMA LifespanLeavesRequests ==
  ASSUME Inductive, CallInv, LifespanStep
  PROVE  LeavesRequests /\ TrustsOnlyNew /\ FreshTargets'
<1> USE DEF Inductive, CallInv
<1>0. Main \in Tasks /\ \A u \in Requests : u \in Tasks /\ u # NoTask /\ u # Main
  BY RequestsCall, TaskAssumption DEF Tasks
<1>1. CASE Boot \/ Booted \/ Stopped
  BY <1>0, <1>1 DEF Boot, Booted, Stopped, Resume, Result, LeavesRequests, TrustsOnlyNew, FreshTargets,
                    Usable, TypeOK, poolVars
<1>2. CASE BeginShutdown
  BY <1>0, <1>2 DEF BeginShutdown, LeavesRequests, TrustsOnlyNew, FreshTargets, Usable, poolVars
<1>3. CASE ClosePool
  BY <1>0, <1>3 DEF ClosePool, Unpublish, LeavesRequests, TrustsOnlyNew, FreshTargets, Usable, TypeOK
<1> QED
  BY <1>1, <1>2, <1>3 DEF LifespanStep

LEMMA OutsideLeavesRequests ==
  ASSUME Inductive, CallInv, Environment \/ UNCHANGED vars \/ \E p \in PoolIds : PoolThread(p)
  PROVE  LeavesRequests /\ TrustsOnlyNew /\ FreshTargets'
BY DEF Inductive, CallInv, Environment, Tick, ServerChanges, PoolThread, InitRuns, CloseRuns, LeavesRequests,
       TrustsOnlyNew, FreshTargets, Usable, vars, poolVars, mgrVars

-----------------------------------------------------------------------------
\* One induction for the calls, in states where NebulaPool's invariant holds.
LEMMA CallInvStep ==
  ASSUME Inductive, CallInv, [SessionNext]_sessionVars
  PROVE  CallInv'
<1>1. ASSUME NEW t \in Requests, Arrive(t) \/ Rest(t) \/ Call(t) \/ SessionStep(t) \/ JobRuns(t)
      PROVE  CallInv'
  BY <1>1, ArriveKeeps, RestKeeps, CallKeeps, AttemptKeeps, AskedKeeps, GetSessionKeeps, SubmitKeeps,
     JobRunsKeeps, JobDoneKeeps, FailedKeeps, RetryKeeps, RetriedKeeps, ReleaseKeeps DEF SessionStep
<1>2. ASSUME NEW t \in Background, BackgroundWakes(t) \/ BackgroundRuns(t)
      PROVE  CallInv'
  BY <1>2, BackgroundLeavesRequests, OthersKeep DEF BackgroundWakes, BackgroundRuns
<1>3. ASSUME NEW t \in Tasks, ManagerStep(t)
      PROVE  CallInv'
  BY <1>3, EnsureLeavesRequests, BuildingLeavesRequests, OthersKeep DEF ManagerStep
<1>4. ASSUME NEW g \in Pingers, PingStep(g), UNCHANGED callVars
      PROVE  CallInv'
  BY <1>4, PingsLeaveRequests, OthersKeep
<1>5. CASE \E p \in PoolIds : ThreadStep(p)
  BY <1>5, OutsideLeavesRequests, OthersKeep DEF ThreadStep
<1>6. CASE SessionShutdown \/ SessionLifespan
  BY <1>6, LifespanLeavesRequests, OthersKeep DEF SessionShutdown, SessionLifespan, LifespanStep
<1>7. CASE (Environment /\ UNCHANGED callVars) \/ UNCHANGED sessionVars
  BY <1>7, OutsideLeavesRequests, OthersKeep DEF sessionVars
<1> QED
  BY <1>1, <1>2, <1>3, <1>4, <1>5, <1>6, <1>7 DEF SessionNext

\* The manager's invariant and that of the calls hold in every reachable state.
THEOREM CallInvariance == SessionSpec => [](Inductive /\ CallInv)
<1>1. SessionSpec => []Inductive
  <2>1. SessionSpec => Spec
    BY SessionOverPool DEF ImplementsNebulaPool
  <2>2. Inductive <=> TypeOK /\ IInv
    BY DEF Inductive
  <2> QED
    BY <2>1, <2>2, Invariance, PTL
<1>2. SessionInit => CallInv
  BY CallInvInitially
<1>3. Inductive /\ CallInv /\ [SessionNext]_sessionVars => CallInv'
  BY CallInvStep
<1> QED
  BY <1>1, <1>2, <1>3, PTL DEF SessionSpec

\* The variables of pool manager and calls keep their types: no attempt beyond
\* DB_RETRY_COUNT + 1, however often the pool is replaced under a call.
THEOREM SessionTypes == SessionSpec => []SessionTypeOK
<1>1. Inductive /\ CallInv => SessionTypeOK
  BY DEF Inductive, CallInv, SessionTypeOK
<1> QED
  BY <1>1, CallInvariance, PTL

\* A request that has seen a pool fail is never handed that pool again.
THEOREM FreshRetry == SessionSpec => []RetryIsFresh
<1>1. CallInv => RetryIsFresh
  BY DEF CallInv
<1> QED
  BY <1>1, CallInvariance, PTL

\* Whatever becomes of the query and of the pool, the session is given back when
\* the attempt is over, and not before.
THEOREM NoSessionLeaks == SessionSpec => []SessionsReturned
<1>1. CallInv => SessionsReturned
  BY DEF CallInv
<1> QED
  BY <1>1, CallInvariance, PTL

\* Who holds a session afterwards and did not before took it in GetSession, with the
\* loop in hand since its look at the flag.
LEMMA OnlyGetSessionTakes ==
  ASSUME Inductive, CallInv, [SessionNext]_sessionVars, NEW t \in Requests,
         sess[t] = NoPool, sess'[t] # NoPool
  PROVE  GetSession(t) /\ sess'[t] = pool /\ CanServe(pool)
<1> USE DEF Inductive, CallInv
<1>0. t \in Holders /\ \A u \in Callers \cup Pingers : u \in Holders
  BY RequestsCall DEF Holders
<1>1. ASSUME LeavesRequests
      PROVE  FALSE
  BY <1>1 DEF LeavesRequests
<1>2. ASSUME NEW u \in Requests, Arrive(u) \/ Rest(u) \/ Call(u) \/ SessionStep(u) \/ JobRuns(u)
      PROVE  GetSession(t) /\ sess'[t] = pool /\ CanServe(pool)
  <2>1. CASE GetSession(u)
    BY <1>0, <2>1, RequestsCall
    DEF GetSession, OpenSession, TakeSession, Ask, CallEnsure, vars, poolVars, TypeOK, PoolTypeOK
  <2>2. CASE Release(u)
    BY <1>0, <2>2, RequestsCall DEF Release, CloseSession, GiveSession, TypeOK, PoolTypeOK
  <2>3. CASE Arrive(u) \/ Rest(u) \/ Call(u) \/ JobRuns(u) \/ Submit(u) \/ JobDone(u)
    BY <2>3 DEF Arrive, Rest, Call, JobRuns, Submit, JobDone, Wake, Yield, vars, poolVars
  <2>4. CASE Attempt(u) \/ Asked(u) \/ Failed(u) \/ Retry(u) \/ Retried(u)
    BY <2>4 DEF Attempt, Asked, Failed, Retry, Retried, Ask, CallEnsure, EnsureReturns, MarkUnhealthy,
                vars, poolVars
  <2> QED
    BY <1>2, <2>1, <2>2, <2>3, <2>4 DEF SessionStep
<1>3. CASE \E u \in Background : BackgroundWakes(u) \/ BackgroundRuns(u)
  BY <1>1, <1>3, BackgroundLeavesRequests
<1>4. CASE \E u \in Tasks : ManagerStep(u)
  BY <1>1, <1>4, EnsureLeavesRequests, BuildingLeavesRequests DEF ManagerStep
<1>5. CASE \E g \in Pingers : PingStep(g)
  BY <1>1, <1>5, PingsLeaveRequests
<1>6. CASE SessionShutdown \/ SessionLifespan
  BY <1>1, <1>6, LifespanLeavesRequests DEF SessionShutdown, SessionLifespan, LifespanStep
<1>7. CASE Environment \/ (\E p \in PoolIds : ThreadStep(p)) \/ UNCHANGED sessionVars
  BY <1>1, <1>7, OutsideLeavesRequests DEF ThreadStep, sessionVars
<1> QED
  BY <1>2, <1>3, <1>4, <1>5, <1>6, <1>7 DEF SessionNext

\* get_session is only called on the published pool while it is trusted and open,
\* although the look at the flag may lie before an await.
THEOREM TakesFromHealthy == SessionSpec => SessionsFromHealthyPool
<1> DEFINE FromHealthy == \A t \in Requests : sess[t] = NoPool /\ sess'[t] # NoPool =>
                             /\ healthy
                             /\ sess'[t] = pool
                             /\ poolSt[pool] = "open"
<1>1. Inductive /\ CallInv /\ [SessionNext]_sessionVars => FromHealthy
  <2> SUFFICES ASSUME Inductive, CallInv, [SessionNext]_sessionVars, NEW t \in Requests,
                      sess[t] = NoPool, sess'[t] # NoPool
               PROVE  healthy /\ sess'[t] = pool /\ poolSt[pool] = "open"
    OBVIOUS
  <2>1. GetSession(t) /\ sess'[t] = pool /\ CanServe(pool)
    BY OnlyGetSessionTakes
  <2> QED
    BY <2>1 DEF GetSession, At, CallInv, LooksAndTakes, CanServe
<1>2. Inductive /\ CallInv /\ [SessionNext]_sessionVars => [FromHealthy]_sessionVars
  BY <1>1
<1> HIDE DEF FromHealthy
<1>3. SessionSpec => [][FromHealthy]_sessionVars
  BY <1>2, CallInvariance, PTL DEF SessionSpec
<1> QED
  BY <1>3 DEF FromHealthy, SessionsFromHealthyPool
=============================================================================
