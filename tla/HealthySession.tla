--------------------------- MODULE HealthySession ---------------------------
(***************************************************************************)
(* _with_healthy_session of app/db/nebula_queries.py: every query of every *)
(* request runs through it.  It gets a healthy pool, takes a session on    *)
(* the event loop, runs the query in an executor thread, and on an         *)
(* exception condemns the pool, has it replaced and tries again.           *)
(*                                                                         *)
(* Each step here is one step of NebulaPool's general client, or an        *)
(* executor thread's, or a local one: the module says in which order a     *)
(* request takes them.  The background task may ask for a healthy pool at  *)
(* any time.                                                               *)
(***************************************************************************)
EXTENDS NebulaPool

CONSTANTS Requests,         \* coroutines that run queries
          Poison,           \* requests whose query may fail of itself: a row
                            \* it cannot parse, a statement timeout
          DB_RETRY_COUNT

ASSUME RequestAssumption == Requests = Callers \ Background /\ Poison \subseteq Requests
ASSUME RetryAssumption == DB_RETRY_COUNT \in Nat

VARIABLES pc,        \* where each request is in _with_healthy_session
          attempt,
          job,       \* its query in the executor, and what became of it
          outcome    \* what the call returned

callVars == <<pc, attempt, job, outcome>>
sessionVars == <<vars, callVars>>

Labels == {"idle", "top", "asked", "pool", "session", "job", "failed",
           "retry", "asked_retry", "release"}
\* Rows, no rows, or a statement for which is_succeeded() is False.
Answers == {"value", "nothing", "rejected"}

CallTypeOK ==
  /\ pc \in [Requests -> Labels]
  /\ attempt \in [Requests -> 0..DB_RETRY_COUNT + 1]
  /\ job \in [Requests -> {"none", "running", "error"} \cup Answers]
  /\ outcome \in [Requests -> {"pending", "none", "raised"} \cup Answers]

SessionTypeOK == TypeOK /\ CallTypeOK

CallInit ==
  /\ pc = [t \in Requests |-> "idle"]
  /\ attempt = [t \in Requests |-> 0]
  /\ job = [t \in Requests |-> "none"]
  /\ outcome = [t \in Requests |-> "none"]

SessionInit == Init /\ CallInit

-----------------------------------------------------------------------------
At(t, from) == loop = t /\ pc[t] = from

To(t, from, to) == pc[t] = from /\ pc' = [pc EXCEPT ![t] = to]

Return(t, from, result) ==
  /\ To(t, from, "idle")
  /\ outcome' = [outcome EXCEPT ![t] = result]

\* await ensure_healthy_pool()
Ask(t, from, to) == To(t, from, to) /\ CallEnsure(t)

-----------------------------------------------------------------------------
(***************************************************************************)
(* Faulty variants, as in NebulaPool.                                      *)
(***************************************************************************)
\* The result of ensure_healthy_pool is ignored.
AskedIgnored(t) ==
  /\ To(t, "asked", "pool")
  /\ EnsureReturns(t)
  /\ UNCHANGED <<attempt, job, outcome>>

\* The pool is not condemned when a query fails on it.
FailedTrusting(t) ==
  /\ loop = t
  /\ IF attempt[t] > DB_RETRY_COUNT
       THEN To(t, "failed", "release") /\ outcome' = [outcome EXCEPT ![t] = "none"]
       ELSE To(t, "failed", "retry") /\ UNCHANGED outcome
  /\ UNCHANGED <<vars, attempt, job>>

\* One retry too many.
FailedOften(t) ==
  /\ MarkUnhealthy(t)
  /\ IF attempt[t] > DB_RETRY_COUNT + 1
       THEN /\ To(t, "failed", "release")
            /\ outcome' = [outcome EXCEPT ![t] = "none"]
       ELSE To(t, "failed", "retry") /\ UNCHANGED outcome
  /\ UNCHANGED <<attempt, job>>

\* The session is only released when the call returns.
ReleaseLate(t) ==
  /\ At(t, "release")
  /\ To(t, "release", IF outcome[t] = "pending" THEN "top" ELSE "idle")
  /\ IF outcome[t] = "pending" THEN UNCHANGED vars ELSE CloseSession(t)
  /\ UNCHANGED <<attempt, job, outcome>>

-----------------------------------------------------------------------------
\* A coroutine calls _with_healthy_session.
Call(t) ==
  /\ loop = t
  /\ To(t, "idle", "top")
  /\ attempt' = [attempt EXCEPT ![t] = 0]
  /\ outcome' = [outcome EXCEPT ![t] = "pending"]
  /\ UNCHANGED <<vars, job>>

\* An attempt starts; the flag decides whether the pool needs looking after.
Attempt(t) ==
  /\ At(t, "top")
  /\ attempt' = [attempt EXCEPT ![t] = @ + 1]
  /\ \/ ~healthy /\ Ask(t, "top", "asked")
     \/ healthy /\ To(t, "top", "pool") /\ UNCHANGED vars
  /\ UNCHANGED <<job, outcome>>

\* ensure_healthy_pool returned; without a healthy pool the call gives up.
Asked(t) ==
  /\ pc[t] = "asked"
  /\ EnsureReturns(t)
  /\ IF ok[t] THEN To(t, "asked", "pool") /\ UNCHANGED outcome
              ELSE Return(t, "asked", "none")
  /\ UNCHANGED <<attempt, job>>

\* get_nebula_pool (which asks again when there is no pool), then get_session:
\* on the event loop and outside the try, so what it raises ends the call.
GetSession(t) ==
  /\ At(t, "pool")
  /\ IF pool = NoPool
       THEN Ask(t, "pool", "asked") /\ UNCHANGED outcome
       ELSE \/ /\ OpenSession(t)
               /\ To(t, "pool", "session")
               /\ UNCHANGED outcome
            \/ /\ ~CanServe(pool)
               /\ Return(t, "pool", "raised")
               /\ UNCHANGED vars
  /\ UNCHANGED <<attempt, job>>

\* await coro_factory(session): the query goes to the executor.
Submit(t) ==
  /\ To(t, "session", "job")
  /\ Yield(t)
  /\ job' = [job EXCEPT ![t] = "running"]
  /\ UNCHANGED <<attempt, outcome>>

\* The executor thread runs the query on the request's session.  A statement
\* the server rejects counts as an answer; a lost connection or an error in
\* reading the rows is an exception.
JobRuns(t) ==
  /\ job[t] = "running"
  /\ \E r \in (IF CanExecute(t) THEN Answers ELSE {"error"})
              \cup (IF t \in Poison THEN {"error"} ELSE {}) :
       job' = [job EXCEPT ![t] = r]
  /\ UNCHANGED <<vars, pc, attempt, outcome>>

JobDone(t) ==
  /\ pc[t] = "job"
  /\ job[t] # "running"
  /\ Wake(t)
  /\ job' = [job EXCEPT ![t] = "none"]
  /\ \/ /\ job[t] \in Answers
        /\ To(t, "job", "release")
        /\ outcome' = [outcome EXCEPT ![t] = job[t]]
     \/ /\ job[t] = "error"
        /\ To(t, "job", "failed")
        /\ UNCHANGED outcome
  /\ UNCHANGED attempt

\* except: mark_pool_unhealthy, whichever pool is published by now.
Failed(t) ==
  /\ MarkUnhealthy(t)
  /\ IF attempt[t] > DB_RETRY_COUNT
       THEN /\ To(t, "failed", "release")
            /\ outcome' = [outcome EXCEPT ![t] = "none"]
       ELSE To(t, "failed", "retry") /\ UNCHANGED outcome
  /\ UNCHANGED <<attempt, job>>

Retry(t) ==
  /\ Ask(t, "retry", "asked_retry")
  /\ UNCHANGED <<attempt, job, outcome>>

\* The result of this ensure_healthy_pool is not looked at.
Retried(t) ==
  /\ To(t, "asked_retry", "release")
  /\ EnsureReturns(t)
  /\ UNCHANGED <<attempt, job, outcome>>

\* finally: session.release(), then the next attempt or the return.
Release(t) ==
  /\ To(t, "release", IF outcome[t] = "pending" THEN "top" ELSE "idle")
  /\ CloseSession(t)
  /\ UNCHANGED <<attempt, job, outcome>>

SessionStep(t) ==
  \/ Attempt(t)
  \/ Asked(t)
  \/ GetSession(t)
  \/ Submit(t)
  \/ JobDone(t)
  \/ Failed(t)
  \/ Retry(t)
  \/ Retried(t)
  \/ Release(t)

-----------------------------------------------------------------------------
\* A request that is in no call gets the event loop; when it gives it up, its
\* frames are gone.
Arrive(t) == pc[t] = "idle" /\ Wake(t) /\ UNCHANGED callVars

Rest(t) ==
  /\ pc[t] = "idle"
  /\ Yield(t)
  /\ attempt' = [attempt EXCEPT ![t] = 0]
  /\ outcome' = [outcome EXCEPT ![t] = "none"]
  /\ UNCHANGED <<pc, job>>

\* What any task does inside ensure_healthy_pool.
ManagerStep(t) ==
  /\ \/ t \in Callers /\ EnsureStep(t)
     \/ ExecutorStep(t)
     \/ \E p \in FreePools : CreatePool(t, p)
  /\ UNCHANGED callVars

BackgroundWakes(t) == Wake(t) /\ UNCHANGED callVars

BackgroundRuns(t) ==
  /\ CallEnsure(t) \/ EnsureReturns(t) \/ Yield(t)
  /\ UNCHANGED callVars

SessionShutdown ==
  /\ \A t \in Requests : pc[t] = "idle"
  /\ BeginShutdown
  /\ UNCHANGED callVars

SessionLifespan ==
  /\ Boot \/ Booted \/ ClosePool \/ Stopped
  /\ UNCHANGED callVars

ThreadStep(p) == PoolThread(p) /\ UNCHANGED callVars

SessionNext ==
  \/ \E t \in Requests : Arrive(t) \/ Rest(t) \/ Call(t) \/ SessionStep(t) \/ JobRuns(t)
  \/ \E t \in Background : BackgroundWakes(t) \/ BackgroundRuns(t)
  \/ \E t \in Tasks : ManagerStep(t)
  \/ \E g \in Pingers : PingStep(g) /\ UNCHANGED callVars
  \/ \E p \in PoolIds : ThreadStep(p)
  \/ SessionShutdown
  \/ SessionLifespan
  \/ Environment /\ UNCHANGED callVars

SessionSpec == SessionInit /\ [][SessionNext]_sessionVars

-----------------------------------------------------------------------------
\* A request that has seen a pool fail never gets to use it again: as long as
\* it keeps the failed session, its retry included, that pool is not trusted,
\* although any other task may have re-initialised in between.
RetryIsFresh ==
  \A t \in Requests :
    pc[t] \in {"retry", "asked_retry"} \/ (pc[t] = "release" /\ outcome[t] = "pending")
      => ~(Usable /\ pool = sess[t])

\* get_session is only called on the published pool, while it is trusted and
\* open: no await separates the look at the flag from the use of the pool.
SessionsFromHealthyPool ==
  [][\A t \in Requests : sess[t] = NoPool /\ sess'[t] # NoPool =>
       /\ healthy
       /\ sess'[t] = pool
       /\ poolSt[pool] = "open"]_sessionVars

\* A session is held exactly while its call is between get_session and the
\* finally clause, whatever became of the query and of the pool.
SessionsReturned ==
  \A t \in Requests :
    sess[t] # NoPool <=>
      pc[t] \in {"session", "job", "failed", "retry", "asked_retry", "release"}

\* A failed operation condemns the pool it failed on, not its replacement.
CondemnsOwnPool ==
  \A t \in Requests : pc[t] = "failed" => pool \in {sess[t], NoPool}

\* Requests reach the pool only through the interface NebulaPool describes.
ImplementsNebulaPool == Spec
=============================================================================
