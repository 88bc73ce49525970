----------------------------- MODULE NebulaPool -----------------------------
(***************************************************************************)
(* app/db/nebula_pool.py with the lifespan of app/main.py: the one         *)
(* published ConnectionPool of the process, the flag that says whether it  *)
(* can be trusted, and ensure_healthy_pool, which replaces it under an     *)
(* asyncio.Lock and at most once per cooldown.                             *)
(*                                                                         *)
(* Coroutines share one event loop.  `loop' is the task that is running:   *)
(* it keeps the loop until it suspends, so what the code does between two  *)
(* awaits is not interleaved with other coroutines, while the executor's   *)
(* threads (InitRuns, CloseRuns, the pings) run at any time.               *)
(*                                                                         *)
(* The coroutines that use the pool are the most general client: a task    *)
(* that has the loop may call ensure_healthy_pool, mark_pool_unhealthy and *)
(* get_session in any order.  HealthySession and PathService are clients.  *)
(***************************************************************************)
EXTENDS ConnectionPool, Sequences

CONSTANTS Background,   \* callers that lifespan cancels: the heartbeat
          Main,         \* the lifespan coroutine
          NoTask,       \* nobody runs
          COOLDOWN      \* DB_REINIT_COOLDOWN_SEC, in ticks

Tasks == Callers \cup {Main}

ASSUME TaskAssumption ==
  /\ Background \subseteq Callers
  /\ Main \notin Callers
  /\ NoTask \notin Tasks
ASSUME CooldownAssumption == COOLDOWN \in Nat

VARIABLES pool,       \* _nebula_pool
          healthy,    \* _pool_healthy
          elapsed,    \* time since _last_reinit_at, up to COOLDOWN
          lockQueue,  \* _reinit_async_lock: its holder, then its waiters
          epc,        \* where each task is inside this module's coroutines
          ok,         \* the result a task is returning with (FALSE between calls)
          target,     \* the pool object a task is closing or initialising
          loop,       \* the task that is running on the event loop
          phase       \* of the lifespan

mgrVars == <<pool, healthy, elapsed, lockQueue, epc, ok, target, loop, phase>>
vars == <<poolVars, mgrVars>>

Running == {"enter", "locked", "reinit", "create", "leave", "returned"}
Suspended == {"waiting", "closing", "initing"}

TypeOK ==
  /\ PoolTypeOK
  /\ pool \in PoolIds \cup {NoPool}
  /\ healthy \in BOOLEAN
  /\ elapsed \in 0..COOLDOWN
  /\ lockQueue \in Seq(Callers)
  /\ epc \in [Tasks -> {"out"} \cup Running \cup Suspended]
  /\ ok \in [Tasks -> BOOLEAN]
  /\ target \in [Tasks -> PoolIds \cup {NoPool}]
  /\ loop \in Tasks \cup {NoTask}
  /\ phase \in {"boot", "serving", "stopping", "stopped", "failed"}

\* _last_reinit_at is 0.0 while time.monotonic() is the uptime of the host, so
\* a process on a host that has just booted starts inside the cooldown.
Init ==
  /\ PoolInit
  /\ pool = NoPool
  /\ healthy = FALSE
  /\ elapsed \in 0..COOLDOWN
  /\ lockQueue = <<>>
  /\ epc = [t \in Tasks |-> "out"]
  /\ ok = [t \in Tasks |-> FALSE]
  /\ target = [t \in Tasks |-> NoPool]
  /\ loop = NoTask
  /\ phase = "boot"

-----------------------------------------------------------------------------
\* Moves of one task: inside its running segment, into a suspension at an
\* await, and out of one when what it awaited is there.
Go(t, from, to) ==
  /\ loop = t
  /\ epc[t] = from
  /\ epc' = [epc EXCEPT ![t] = to]
  /\ loop' = loop

Suspend(t, from, to) ==
  /\ loop = t
  /\ epc[t] = from
  /\ epc' = [epc EXCEPT ![t] = to]
  /\ loop' = NoTask

Resume(t, from, to) ==
  /\ loop = NoTask
  /\ epc[t] = from
  /\ epc' = [epc EXCEPT ![t] = to]
  /\ loop' = t

Result(t, value) == ok' = [ok EXCEPT ![t] = value]

Usable == pool # NoPool /\ healthy

-----------------------------------------------------------------------------
(***************************************************************************)
(* Faulty variants of the actions below, which no specification uses: each *)
(* is a slip in the code that one of the properties would catch.           *)
(***************************************************************************)
\* The fast path is followed by no lock at all.
EnsureEnterUnlocked(t) ==
  /\ Go(t, "enter", "locked")
  /\ lockQueue' = Append(lockQueue, t)
  /\ UNCHANGED <<poolVars, pool, healthy, elapsed, ok, target, phase>>

\* No second look under the lock.
EnsureRecheckBlind(t) ==
  /\ Go(t, "locked", "reinit")
  /\ UNCHANGED <<poolVars, pool, healthy, elapsed, lockQueue, ok, target, phase>>

\* The flag stays up when the pool is taken away.
UnpublishTrusting(t) ==
  /\ target' = [target EXCEPT ![t] = pool]
  /\ poolSt' = [poolSt EXCEPT ![pool] = "closing"]
  /\ pool' = NoPool
  /\ UNCHANGED <<sess, dbUp, healthy>>

\* _last_reinit_at gets the end of the cooldown instead of its start.
ReinitStartEarly(t) ==
  /\ elapsed >= COOLDOWN
  /\ elapsed' = 0 - COOLDOWN
  /\ Go(t, "reinit", "create")
  /\ UNCHANGED <<poolVars, pool, healthy, target, lockQueue, ok, phase>>

\* The old pool is dropped without being closed.
ReinitStartForgets(t) ==
  /\ elapsed >= COOLDOWN
  /\ elapsed' = 0
  /\ Go(t, "reinit", "create")
  /\ pool' = NoPool
  /\ healthy' = FALSE
  /\ UNCHANGED <<poolVars, target, lockQueue, ok, phase>>

\* The close is started but not awaited.
CloseNotAwaited(t) ==
  /\ Resume(t, "closing", IF t = Main THEN "returned" ELSE "create")
  /\ target' = [target EXCEPT ![t] = NoPool]
  /\ UNCHANGED <<poolVars, pool, healthy, elapsed, lockQueue, ok, phase>>

\* The answer of pool.init is not looked at.
PoolCreatedUnchecked(t) ==
  /\ epc[t] = "initing"
  /\ poolSt[target[t]] # "initing"
  /\ Resume(t, "initing", IF t = Main THEN "returned" ELSE "leave")
  /\ target' = [target EXCEPT ![t] = NoPool]
  /\ pool' = target[t]
  /\ healthy' = TRUE
  /\ Result(t, TRUE)
  /\ UNCHANGED <<poolVars, elapsed, lockQueue, phase>>

\* The new pool is published but the flag is not raised.
PoolCreatedUntrusted(t) ==
  /\ epc[t] = "initing"
  /\ poolSt[target[t]] # "initing"
  /\ Resume(t, "initing", IF t = Main THEN "returned" ELSE "leave")
  /\ target' = [target EXCEPT ![t] = NoPool]
  /\ pool' = IF poolSt[target[t]] = "open" THEN target[t] ELSE pool
  /\ Result(t, poolSt[target[t]] = "open")
  /\ UNCHANGED <<poolVars, healthy, elapsed, lockQueue, phase>>

\* ensure_healthy_pool returns True whenever the re-init did not raise.
EnsureLeaveSure(t) ==
  /\ Go(t, "leave", "returned")
  /\ Result(t, TRUE)
  /\ lockQueue' = Tail(lockQueue)
  /\ UNCHANGED <<poolVars, pool, healthy, elapsed, target, phase>>

\* Under the lock the re-init is repeated until the pool is healthy.
EnsureLeaveStubborn(t) ==
  /\ IF healthy
       THEN /\ Go(t, "leave", "returned")
            /\ Result(t, TRUE)
            /\ lockQueue' = Tail(lockQueue)
       ELSE Go(t, "leave", "reinit") /\ UNCHANGED <<ok, lockQueue>>
  /\ UNCHANGED <<poolVars, pool, healthy, elapsed, target, phase>>

-----------------------------------------------------------------------------
\* ensure_healthy_pool up to the lock: the fast path, or acquiring the lock.
\* asyncio.Lock serves its waiters in order and nobody overtakes them.
EnsureEnter(t) ==
  /\ \/ /\ Usable
        /\ Go(t, "enter", "returned")
        /\ Result(t, TRUE)
        /\ UNCHANGED lockQueue
     \/ /\ ~Usable
        /\ lockQueue' = Append(lockQueue, t)
        /\ IF lockQueue = <<>> THEN Go(t, "enter", "locked")
                               ELSE Suspend(t, "enter", "waiting")
        /\ UNCHANGED ok
  /\ UNCHANGED <<poolVars, pool, healthy, elapsed, target, phase>>

\* The previous holder has left: the first waiter wakes up with the lock.
LockGranted(t) ==
  /\ lockQueue # <<>>
  /\ Head(lockQueue) = t
  /\ Resume(t, "waiting", "locked")
  /\ UNCHANGED <<poolVars, pool, healthy, elapsed, lockQueue, ok, target, phase>>

\* The second look, under the lock: another task may have done the work.
EnsureRecheck(t) ==
  /\ \/ /\ Usable
        /\ Go(t, "locked", "returned")
        /\ Result(t, TRUE)
        /\ lockQueue' = Tail(lockQueue)
     \/ /\ ~Usable
        /\ Go(t, "locked", "reinit")
        /\ UNCHANGED <<ok, lockQueue>>
  /\ UNCHANGED <<poolVars, pool, healthy, elapsed, target, phase>>

\* pool = _nebula_pool; _nebula_pool = None; run_in_executor(pool.close)
Unpublish(t) ==
  /\ target' = [target EXCEPT ![t] = pool]
  /\ poolSt' = [poolSt EXCEPT ![pool] = "closing"]
  /\ pool' = NoPool
  /\ healthy' = FALSE
  /\ UNCHANGED <<sess, dbUp>>

\* reinit_nebula_pool up to its first await.
ReinitStart(t) ==
  /\ \/ /\ elapsed < COOLDOWN
        /\ Go(t, "reinit", "leave")
        /\ UNCHANGED <<poolVars, pool, healthy, elapsed, target>>
     \/ /\ elapsed >= COOLDOWN
        /\ elapsed' = 0
        /\ IF pool # NoPool
             THEN Unpublish(t) /\ Suspend(t, "reinit", "closing")
             ELSE /\ Go(t, "reinit", "create")
                  /\ healthy' = FALSE
                  /\ UNCHANGED <<poolVars, pool, target>>
  /\ UNCHANGED <<lockQueue, ok, phase>>

\* pool.close is over (or raised: the exception is caught and logged).
CloseDone(t) ==
  /\ epc[t] = "closing"
  /\ poolSt[target[t]] = "closed"
  /\ Resume(t, "closing", IF t = Main THEN "returned" ELSE "create")
  /\ target' = [target EXCEPT ![t] = NoPool]
  /\ UNCHANGED <<poolVars, pool, healthy, elapsed, lockQueue, ok, phase>>

\* Objects a new ConnectionPool() may take the identity of.
FreePools == {p \in Reusable : p # pool /\ \A t \in Tasks : target[t] # p}

\* create_nebula_pool up to its await: ConnectionPool() and pool.init.
CreatePool(t, p) ==
  /\ Suspend(t, "create", "initing")
  /\ poolSt' = [poolSt EXCEPT ![p] = "initing"]
  /\ target' = [target EXCEPT ![t] = p]
  /\ UNCHANGED <<sess, dbUp, pool, healthy, elapsed, lockQueue, ok, phase>>

\* pool.init is over: publish the pool, or RuntimeError, which reinit catches
\* and lifespan does not.
PoolCreated(t) ==
  /\ epc[t] = "initing"
  /\ Resume(t, "initing", IF t = Main THEN "returned" ELSE "leave")
  /\ target' = [target EXCEPT ![t] = NoPool]
  /\ \/ /\ poolSt[target[t]] = "open"
        /\ pool' = target[t]
        /\ healthy' = TRUE
        /\ Result(t, TRUE)
     \/ /\ poolSt[target[t]] = "dead"
        /\ healthy' = FALSE
        /\ Result(t, FALSE)
        /\ UNCHANGED pool
  /\ UNCHANGED <<poolVars, elapsed, lockQueue, phase>>

\* return _pool_healthy, leaving the lock.
EnsureLeave(t) ==
  /\ Go(t, "leave", "returned")
  /\ Result(t, healthy)
  /\ lockQueue' = Tail(lockQueue)
  /\ UNCHANGED <<poolVars, pool, healthy, elapsed, target, phase>>

EnsureStep(t) ==
  \/ EnsureEnter(t)
  \/ LockGranted(t)
  \/ EnsureRecheck(t)
  \/ ReinitStart(t)
  \/ EnsureLeave(t)

\* What every task awaiting the executor goes through.
ExecutorStep(t) == CloseDone(t) \/ PoolCreated(t)

-----------------------------------------------------------------------------
\* The lifespan: create the pool, serve, and on shutdown, when uvicorn has no
\* request left, cancel the background tasks and close the pool.
Boot ==
  /\ phase = "boot"
  /\ Resume(Main, "out", "create")
  /\ UNCHANGED <<poolVars, pool, healthy, elapsed, lockQueue, ok, target, phase>>

Booted ==
  /\ phase = "boot"
  /\ loop = Main
  /\ epc[Main] = "returned"
  /\ phase' = IF ok[Main] THEN "serving" ELSE "failed"
  /\ epc' = [epc EXCEPT ![Main] = "out"]
  /\ Result(Main, FALSE)
  /\ loop' = NoTask
  /\ UNCHANGED <<poolVars, pool, healthy, elapsed, lockQueue, target>>

\* A cancelled task gets CancelledError at its await; no handler in
\* nebula_pool.py catches it, the lock is released, and the executor job it
\* was waiting for goes on unobserved.
BeginShutdown ==
  /\ phase = "serving"
  /\ loop = NoTask
  /\ \A t \in Callers \ Background : epc[t] = "out" /\ sess[t] = NoPool
  /\ phase' = "stopping"
  /\ epc' = [t \in Tasks |-> "out"]
  /\ ok' = [t \in Tasks |-> FALSE]
  /\ target' = [t \in Tasks |-> NoPool]
  /\ lockQueue' = <<>>
  /\ UNCHANGED <<poolVars, pool, healthy, elapsed, loop>>

\* close_nebula_pool up to its await.
ClosePool ==
  /\ phase = "stopping"
  /\ loop = NoTask
  /\ epc[Main] = "out"
  /\ pool # NoPool
  /\ Unpublish(Main)
  /\ epc' = [epc EXCEPT ![Main] = "closing"]
  /\ UNCHANGED <<elapsed, lockQueue, ok, loop, phase>>

Stopped ==
  /\ phase = "stopping"
  /\ \/ loop = Main /\ epc[Main] = "returned"
     \/ loop = NoTask /\ epc[Main] = "out" /\ pool = NoPool
  /\ phase' = "stopped"
  /\ epc' = [epc EXCEPT ![Main] = "out"]
  /\ loop' = NoTask
  /\ UNCHANGED <<poolVars, pool, healthy, elapsed, lockQueue, ok, target>>

LifespanStep == Boot \/ Booted \/ BeginShutdown \/ ClosePool \/ Stopped

-----------------------------------------------------------------------------
\* The most general client.
Wake(t) ==
  /\ phase = "serving"
  /\ loop = NoTask
  /\ epc[t] = "out"
  /\ loop' = t
  /\ UNCHANGED <<poolVars, pool, healthy, elapsed, lockQueue, epc, ok, target, phase>>

Yield(t) ==
  /\ loop = t
  /\ epc[t] = "out"
  /\ loop' = NoTask
  /\ UNCHANGED <<poolVars, pool, healthy, elapsed, lockQueue, epc, ok, target, phase>>

CallEnsure(t) ==
  /\ Go(t, "out", "enter")
  /\ UNCHANGED <<poolVars, pool, healthy, elapsed, lockQueue, ok, target, phase>>

EnsureReturns(t) ==
  /\ Go(t, "returned", "out")
  /\ Result(t, FALSE)
  /\ UNCHANGED <<poolVars, pool, healthy, elapsed, lockQueue, target, phase>>

\* mark_pool_unhealthy: whatever pool is published now loses its good name.
MarkUnhealthy(t) ==
  /\ loop = t
  /\ epc[t] = "out"
  /\ healthy' = FALSE
  /\ UNCHANGED <<poolVars, pool, elapsed, lockQueue, epc, ok, target, loop, phase>>

\* get_nebula_pool().get_session(), called on the event loop.
OpenSession(t) ==
  /\ loop = t
  /\ epc[t] = "out"
  /\ sess[t] = NoPool
  /\ CanServe(pool)
  /\ TakeSession(t, pool)
  /\ UNCHANGED <<poolSt, dbUp, mgrVars>>

CloseSession(t) ==
  /\ loop = t
  /\ sess[t] # NoPool
  /\ GiveSession(t)
  /\ UNCHANGED <<poolSt, dbUp, mgrVars>>

\* ping_nebula's _run, in an executor thread: it reads _nebula_pool without
\* the lock and outside the event loop.
PingOpens(g) ==
  /\ sess[g] = NoPool
  /\ CanServe(pool)
  /\ TakeSession(g, pool)
  /\ UNCHANGED <<poolSt, dbUp, mgrVars>>

PingCloses(g) ==
  /\ sess[g] # NoPool
  /\ GiveSession(g)
  /\ UNCHANGED <<poolSt, dbUp, mgrVars>>

ClientStep(t) ==
  \/ Wake(t)
  \/ Yield(t)
  \/ CallEnsure(t)
  \/ EnsureReturns(t)
  \/ MarkUnhealthy(t)
  \/ OpenSession(t)
  \/ CloseSession(t)

PingStep(g) == PingOpens(g) \/ PingCloses(g)

-----------------------------------------------------------------------------
\* time.monotonic() advances.
Tick ==
  /\ elapsed < COOLDOWN
  /\ elapsed' = elapsed + 1
  /\ UNCHANGED <<poolVars, pool, healthy, lockQueue, epc, ok, target, loop, phase>>

PoolThread(p) == (InitRuns(p) \/ CloseRuns(p)) /\ UNCHANGED mgrVars

Environment == Tick \/ (ServerChanges /\ UNCHANGED mgrVars)

Next ==
  \/ \E t \in Callers : EnsureStep(t) \/ ClientStep(t)
  \/ \E t \in Tasks : ExecutorStep(t)
  \/ \E t \in Tasks, p \in FreePools : CreatePool(t, p)
  \/ \E g \in Pingers : PingStep(g)
  \/ \E p \in PoolIds : PoolThread(p)
  \/ LifespanStep
  \/ Environment

Spec == Init /\ [][Next]_vars

-----------------------------------------------------------------------------
(***************************************************************************)
(* What the module promises to its callers.                                *)
(***************************************************************************)
InManager == {"locked", "reinit", "closing", "create", "initing", "leave"}

\* The flag is never up without an open pool behind it: get_nebula_pool does
\* not raise for a caller that has just seen the flag up, although the flag and
\* the pool are separate globals written around two awaits.
HealthyIsOpen ==
  healthy => pool \in PoolIds /\ poolSt[pool] = "open"

\* ensure_healthy_pool's True is still true when its caller acts on it: no
\* other coroutine condemns or replaces the pool in between.
VerdictNotStale ==
  \A t \in Callers : epc[t] = "returned" /\ ok[t] => Usable

\* Only the holder of _reinit_async_lock is inside reinit_nebula_pool, also
\* while it is suspended in pool.close or pool.init.
ReinitExclusive ==
  \A t \in Callers : epc[t] \in InManager =>
                         lockQueue # <<>> /\ Head(lockQueue) = t

\* The process never has two pools with connections to the server, so it
\* keeps to DB_POOL_MAX_SIZE: a new pool is initialised only after the old
\* one is closed, whoever asks for it and in whatever order.
Live(p) == poolSt[p] \in {"initing", "open", "closing"}

OneLivePool == \A p, q \in PoolIds : Live(p) /\ Live(q) => p = q

\* While the service runs, a pool with connections is the published one or is
\* in the hands of a task that will publish or close it: none is forgotten.
\* (A heartbeat cancelled by shutdown does forget the pool it was building.)
NoOrphanPool ==
  phase \in {"boot", "serving"} =>
    \A p \in PoolIds : Live(p) => p = pool \/ \E t \in Tasks : target[t] = p

\* While the service runs, a pool that is trusted is never taken away, although
\* tasks that saw its predecessor condemned queue for the lock and come to
\* reinit_nebula_pool one after the other, when the cooldown is over again.
FitPoolKept == [][phase = "serving" /\ Usable => pool' = pool]_vars

-----------------------------------------------------------------------------
(***************************************************************************)
(* Why it does: the inductive invariant behind these promises.             *)
(***************************************************************************)
\* Whoever is between two awaits has the event loop.
Baton == \A t \in Tasks : epc[t] \in Running => loop = t

\* Who may be active in which phase of the lifespan.
Phases ==
  /\ phase # "serving" =>
       loop \in {Main, NoTask} /\ \A t \in Callers : epc[t] = "out"
  /\ epc[Main] \in {"out", "create", "initing", "returned", "closing"}
  /\ epc[Main] # "out" => phase \in {"boot", "stopping"}
  /\ epc[Main] \in {"create", "initing"} => phase = "boot"

\* What a task in the executor is waiting for.
Targets ==
  \A t \in Tasks :
    /\ epc[t] = "closing" =>
         target[t] \in PoolIds /\ poolSt[target[t]] \in {"closing", "closed"}
    /\ epc[t] = "initing" =>
         target[t] \in PoolIds /\ poolSt[target[t]] \in {"initing", "open", "dead"}
    /\ epc[t] \notin {"closing", "initing"} => target[t] = NoPool

\* A published pool is open, trusted or not, and only a published pool is
\* trusted; while a pool is being replaced none is published.
Published ==
  /\ healthy => pool # NoPool
  /\ pool # NoPool => poolSt[pool] = "open"
  /\ \A t \in Tasks : epc[t] \in {"closing", "create", "initing"} => pool = NoPool

\* Nothing is left of the old pool when the new one is created.
CleanSlate ==
  (\E t \in Tasks : epc[t] = "create") \/ (phase = "boot" /\ epc[Main] = "out")
    => \A p \in PoolIds : ~Live(p)

IInv ==
  /\ Baton
  /\ Phases
  /\ ReinitExclusive
  /\ Targets
  /\ Published
  /\ CleanSlate
  /\ OneLivePool
  /\ NoOrphanPool
  /\ VerdictNotStale

\* Whoever has looked a second time and goes on to re-initialise is still right
\* about the pool: this, with IInv, is why FitPoolKept holds.
Condemned == \A t \in Callers : epc[t] = "reinit" => ~Usable

(***************************************************************************)
(* The module implements PoolLifecycle: what a pool object is going through *)
(* follows from its own state and from which pool is published.            *)
(***************************************************************************)
LifeOf(p) ==
  IF p = pool THEN "published"
  ELSE IF poolSt[p] \in {"initing", "open"} THEN "building"
  ELSE IF poolSt[p] = "closing" THEN "retiring"
  ELSE "none"

Lifecycle == INSTANCE PoolLifecycle WITH life <- [p \in PoolIds |-> LifeOf(p)],
                                         fit <- healthy

\* Every step of requests, heartbeat, lifespan and threads is a legal step of a
\* pool's life, or invisible in it.
ImplementsLifecycle == Lifecycle!LifeSpec
=============================================================================
