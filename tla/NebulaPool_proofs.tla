-------------------------- MODULE NebulaPool_proofs --------------------------
(***************************************************************************)
(* Proofs about NebulaPool, for every number of callers, pools and ping    *)
(* threads, every pool size and every cooldown.                            *)
(*                                                                         *)
(* One induction carries everything: TypeOK /\ IInv is preserved by every  *)
(* action (InitInductive, TypeStep and the Step lemmas), and the promises  *)
(* of NebulaPool follow from it.  TypeOK alone is not inductive: leaving   *)
(* the lock takes the Tail of lockQueue, which ReinitExclusive shows not   *)
(* to be empty.                                                            *)
(***************************************************************************)
EXTENDS NebulaPool, SequenceTheorems, TLAPS

Inductive == TypeOK /\ IInv

-----------------------------------------------------------------------------
(***************************************************************************)
(* What the invariant says about who does what.                            *)
(***************************************************************************)
\* A caller is active only while the service serves.
LEMMA Serving ==
  ASSUME Inductive, NEW t \in Callers, loop = t \/ epc[t] # "out"
  PROVE  phase = "serving"
BY TaskAssumption DEF Inductive, IInv, Phases, Tasks

\* At most one task is inside reinit_nebula_pool, create_nebula_pool or
\* close_nebula_pool.
LEMMA OneInManager ==
  ASSUME Inductive, NEW t \in Tasks, NEW u \in Tasks,
         epc[t] \in InManager, epc[u] \in InManager
  PROVE  t = u
<1>1. CASE t \in Callers /\ u \in Callers
  BY <1>1 DEF Inductive, IInv, ReinitExclusive
<1>2. CASE t = Main \/ u = Main
  BY <1>2, Serving DEF Inductive, IInv, Phases, Tasks, InManager
<1>3. QED
  BY <1>1, <1>2 DEF Tasks

\* A task that suspends or goes on has the loop to itself.
LEMMA OneRuns ==
  ASSUME Inductive, NEW t \in Tasks, NEW u \in Tasks,
         loop = t \/ loop = NoTask, epc[u] \in Running
  PROVE  u = t /\ loop = t
BY TaskAssumption DEF Inductive, IInv, Baton

\* A pool object in somebody's hands belongs to a task waiting for the executor.
LEMMA Held ==
  ASSUME Inductive, NEW t \in Tasks, target[t] # NoPool
  PROVE  epc[t] \in {"closing", "initing"} /\ epc[t] \in InManager
BY DEF Inductive, IInv, Targets, InManager

\* The holder of the lock is at the head of the queue.
LEMMA QueueOfHolder ==
  ASSUME Inductive, NEW t \in Callers, epc[t] \in InManager
  PROVE  lockQueue # <<>> /\ Head(lockQueue) = t /\ Tail(lockQueue) \in Seq(Callers)
BY DEF Inductive, IInv, ReinitExclusive, TypeOK

-----------------------------------------------------------------------------
\* The process starts with no pool, no flag and nobody running.
LEMMA InitInductive == Init => Inductive
<1> SUFFICES ASSUME Init PROVE Inductive
  OBVIOUS
<1>1. PoolTypeOK
  BY OutagesAssumption, Zenon DEF Init, PoolInit, PoolTypeOK, PoolStates
<1>2. elapsed \in 0..COOLDOWN
  BY DEF Init
<1>3. ok \in [Tasks -> BOOLEAN] /\ healthy \in BOOLEAN
  BY Zenon DEF Init
<1>4. TypeOK
  BY <1>1, <1>2, <1>3 DEF Init, TypeOK
<1>5. IInv
  BY TaskAssumption, NoPoolAssumption
  DEF Init, PoolInit, IInv, Baton, Phases, ReinitExclusive, Targets, Published,
      CleanSlate, OneLivePool, NoOrphanPool, VerdictNotStale, Live, Running, InManager, Tasks
<1>6. QED
  BY <1>4, <1>5 DEF Inductive

-----------------------------------------------------------------------------
(***************************************************************************)
(* Types are preserved.                                                    *)
(***************************************************************************)
\* No step writes anything that its type does not allow; the Tail of the queue
\* is taken by its holder only.
LEMMA TypeStep == Inductive /\ [Next]_vars => TypeOK'
<1> SUFFICES ASSUME Inductive, [Next]_vars PROVE TypeOK'
  OBVIOUS
<1> USE DEF TypeOK, PoolTypeOK, PoolStates, Running, Suspended
<1>0. TypeOK
  BY DEF Inductive
<1>1. ASSUME NEW t \in Callers, EnsureStep(t) PROVE TypeOK'
  <2>0. t \in Tasks
    BY DEF Tasks
  <2>1. CASE EnsureEnter(t)
    <3>1. lockQueue' \in Seq(Callers)
      <4>1. lockQueue' \in {lockQueue, Append(lockQueue, t)}
        BY <2>1, Zenon DEF EnsureEnter
      <4>2. QED
        BY <1>0, <4>1
    <3>2. ok' \in [Tasks -> BOOLEAN]
      BY <1>0, <2>0, <2>1, Zenon DEF EnsureEnter, Result
    <3>3. QED
      BY <1>0, <2>0, <2>1, <3>1, <3>2 DEF EnsureEnter, Go, Suspend, poolVars
  <2>2. CASE LockGranted(t)
    BY <1>0, <2>0, <2>2 DEF LockGranted, Resume, poolVars
  <2>3. CASE EnsureRecheck(t)
    <3>1. lockQueue' \in Seq(Callers)
      BY <1>0, <2>3, QueueOfHolder DEF EnsureRecheck, Go, InManager
    <3>2. ok' \in [Tasks -> BOOLEAN]
      BY <1>0, <2>0, <2>3, Zenon DEF EnsureRecheck, Result
    <3>3. QED
      BY <1>0, <2>0, <2>3, <3>1, <3>2 DEF EnsureRecheck, Go, poolVars
  <2>4. CASE ReinitStart(t)
    <3>1. elapsed' \in 0..COOLDOWN
      BY <1>0, <2>4, CooldownAssumption DEF ReinitStart
    <3>2. CASE pool # NoPool /\ pool' = NoPool
      BY <1>0, <2>0, <2>4, <3>1, <3>2 DEF ReinitStart, Go, Suspend, Unpublish, poolVars
    <3>3. CASE pool' = pool
      BY <1>0, <2>0, <2>4, <3>1, <3>3 DEF ReinitStart, Go, Suspend, Unpublish, poolVars
    <3>4. QED
      BY <2>4, <3>2, <3>3 DEF ReinitStart, Unpublish
  <2>5. CASE EnsureLeave(t)
    <3>1. lockQueue' \in Seq(Callers)
      BY <1>0, <2>5, QueueOfHolder DEF EnsureLeave, Go, InManager
    <3>2. ok' \in [Tasks -> BOOLEAN]
      BY <1>0, <2>0, <2>5, Zenon DEF EnsureLeave, Result
    <3>3. QED
      BY <1>0, <2>0, <2>5, <3>1, <3>2 DEF EnsureLeave, Go, poolVars
  <2>6. QED
    BY <1>1, <2>1, <2>2, <2>3, <2>4, <2>5 DEF EnsureStep
<1>2. ASSUME NEW t \in Callers, ClientStep(t) PROVE TypeOK'
  <2>0. t \in Tasks /\ t \in Holders
    BY DEF Tasks, Holders
  <2>1. CASE Wake(t)
    BY <1>0, <2>0, <2>1 DEF Wake, poolVars
  <2>2. CASE Yield(t)
    BY <1>0, <2>0, <2>2 DEF Yield, poolVars
  <2>3. CASE CallEnsure(t)
    BY <1>0, <2>0, <2>3 DEF CallEnsure, Go, poolVars
  <2>4. CASE EnsureReturns(t)
    BY <1>0, <2>0, <2>4 DEF EnsureReturns, Go, Result, poolVars
  <2>5. CASE MarkUnhealthy(t)
    BY <1>0, <2>0, <2>5 DEF MarkUnhealthy, poolVars
  <2>6. CASE OpenSession(t)
    BY <1>0, <2>0, <2>6 DEF OpenSession, TakeSession, mgrVars
  <2>7. CASE CloseSession(t)
    BY <1>0, <2>0, <2>7 DEF CloseSession, GiveSession, mgrVars
  <2>8. QED
    BY <1>2, <2>1, <2>2, <2>3, <2>4, <2>5, <2>6, <2>7 DEF ClientStep
<1>3. ASSUME NEW t \in Tasks, ExecutorStep(t) PROVE TypeOK'
  <2>1. CASE CloseDone(t)
    BY <1>0, <2>1 DEF CloseDone, Resume, poolVars
  <2>2. CASE PoolCreated(t)
    BY <1>0, <2>2 DEF PoolCreated, Resume, Result, poolVars
  <2>3. QED
    BY <1>3, <2>1, <2>2 DEF ExecutorStep
<1>4. ASSUME NEW t \in Tasks, NEW p \in FreePools, CreatePool(t, p) PROVE TypeOK'
  BY <1>0, <1>4 DEF CreatePool, Suspend, FreePools, Reusable
<1>5. ASSUME NEW g \in Pingers, PingStep(g) PROVE TypeOK'
  BY <1>0, <1>5 DEF PingStep, PingOpens, PingCloses, TakeSession, GiveSession, mgrVars, Holders
<1>6. ASSUME NEW p \in PoolIds, PoolThread(p) PROVE TypeOK'
  BY <1>0, <1>6 DEF PoolThread, InitRuns, CloseRuns, mgrVars
<1>7. ASSUME LifespanStep PROVE TypeOK'
  <2>0. Main \in Tasks /\ <<>> \in Seq(Callers)
    BY DEF Tasks
  <2>1. CASE Boot
    BY <1>0, <2>0, <2>1 DEF Boot, Resume, poolVars
  <2>2. CASE Booted
    BY <1>0, <2>0, <2>2 DEF Booted, Result, poolVars
  <2>3. CASE BeginShutdown
    BY <1>0, <2>0, <2>3 DEF BeginShutdown, poolVars
  <2>4. CASE ClosePool
    BY <1>0, <2>0, <2>4 DEF ClosePool, Unpublish
  <2>5. CASE Stopped
    BY <1>0, <2>0, <2>5 DEF Stopped, poolVars
  <2>6. QED
    BY <1>7, <2>1, <2>2, <2>3, <2>4, <2>5 DEF LifespanStep
<1>8. ASSUME Environment PROVE TypeOK'
  <2>1. CASE Tick
    BY <1>0, <2>1, CooldownAssumption DEF Tick, poolVars
  <2>2. CASE ServerChanges /\ UNCHANGED mgrVars
    <3>1. dbUp' \in BOOLEAN
      BY <2>2, Zenon DEF ServerChanges
    <3>2. QED
      BY <1>0, <2>2, <3>1 DEF ServerChanges, mgrVars
  <2>3. QED
    BY <1>8, <2>1, <2>2 DEF Environment
<1>9. CASE UNCHANGED vars
  BY <1>0, <1>9 DEF vars, poolVars, mgrVars
<1>10. QED
  BY <1>1, <1>2, <1>3, <1>4, <1>5, <1>6, <1>7, <1>8, <1>9 DEF Next

-----------------------------------------------------------------------------
(***************************************************************************)
(* The strengthening is preserved, action by action.                       *)
(***************************************************************************)
\* Who is at the head once somebody has joined a queue.
LEMMA HeadOfAppend ==
  ASSUME NEW S, NEW q \in Seq(S), NEW e \in S
  PROVE  Append(q, e) # <<>> /\ Head(Append(q, e)) = IF q = <<>> THEN e ELSE Head(q)
<1>1. CASE q = <<>>
  BY <1>1
<1>2. CASE q # <<>>
  <2>1. Len(q) \in Nat /\ 1 \in 1..Len(q)
    BY <1>2, EmptySeq
  <2>2. QED
    BY <1>2, <2>1, AppendProperties
<1>3. QED
  BY <1>1, <1>2

\* Steps that touch neither pool objects nor who has which in hand.
LEMMA PoolsUntouched ==
  ASSUME Inductive, UNCHANGED <<poolSt, pool, target, phase>>
  PROVE  OneLivePool' /\ NoOrphanPool'
BY DEF Inductive, IInv, OneLivePool, NoOrphanPool, Live

\* ensure_healthy_pool up to the lock: whoever queues behind the holder changes
\* nothing for it, and an empty queue makes the newcomer the holder.
LEMMA EnsureEnterStep ==
  ASSUME Inductive, TypeOK', NEW t \in Callers, EnsureEnter(t)
  PROVE  IInv'
<1> USE DEF Inductive, IInv
<1>1. Baton'
  BY OneRuns DEF EnsureEnter, Go, Suspend, Result, TypeOK, Baton, Running
<1>2. Phases'
  BY DEF EnsureEnter, Go, Suspend, TypeOK, Phases, Tasks
<1>3. ReinitExclusive'
  <2>1. CASE Usable
    BY <2>1 DEF EnsureEnter, Go, ReinitExclusive, InManager, TypeOK, Tasks
  <2>2. CASE ~Usable
    <3>1. lockQueue \in Seq(Callers) /\ lockQueue' = Append(lockQueue, t)
      BY <2>2 DEF EnsureEnter, TypeOK
    <3>2. /\ lockQueue' # <<>>
          /\ Head(lockQueue') = IF lockQueue = <<>> THEN t ELSE Head(lockQueue)
      BY <3>1, HeadOfAppend
    <3>3. \A u \in Callers : epc'[u] \in InManager =>
            (u = t /\ lockQueue = <<>>) \/ epc[u] \in InManager
      BY <2>2 DEF EnsureEnter, Go, Suspend, InManager, TypeOK, Tasks
    <3>4. QED
      BY <3>2, <3>3 DEF ReinitExclusive
  <2>3. QED
    BY <2>1, <2>2
<1>4. Targets'
  BY DEF EnsureEnter, Go, Suspend, Result, poolVars, TypeOK, Targets
<1>5. Published'
  BY DEF EnsureEnter, Go, Suspend, poolVars, TypeOK, Published
<1>6. CleanSlate'
  BY Serving DEF EnsureEnter, Go, Suspend, poolVars, TypeOK, CleanSlate, Live
<1>7. OneLivePool'
  BY PoolsUntouched DEF EnsureEnter, poolVars
<1>8. NoOrphanPool'
  BY PoolsUntouched DEF EnsureEnter, poolVars
<1>9. VerdictNotStale'
  BY DEF EnsureEnter, Go, Suspend, TypeOK, VerdictNotStale, Usable, Tasks
<1>10. QED
  BY <1>1, <1>2, <1>3, <1>4, <1>5, <1>6, <1>7, <1>8, <1>9

\* The lock passes to the first waiter when nobody is inside.
LEMMA LockGrantedStep ==
  ASSUME Inductive, TypeOK', NEW t \in Callers, LockGranted(t)
  PROVE  IInv'
<1> USE DEF Inductive, IInv
<1>1. Baton'
  BY TaskAssumption, OneRuns DEF LockGranted, Resume, Baton
<1>2. Phases'
  BY DEF LockGranted, Resume, Phases
<1>3. ReinitExclusive'
  BY DEF LockGranted, Resume, ReinitExclusive
<1>4. Targets'
  BY DEF LockGranted, Resume, poolVars, Targets
<1>5. Published'
  BY DEF LockGranted, Resume, poolVars, Published
<1>6. CleanSlate'
  BY DEF LockGranted, Resume, poolVars, CleanSlate, Live
<1>7. OneLivePool'
  BY PoolsUntouched DEF LockGranted, poolVars
<1>8. NoOrphanPool'
  BY PoolsUntouched DEF LockGranted, poolVars
<1>9. VerdictNotStale'
  BY DEF LockGranted, Resume, VerdictNotStale, Usable
<1>10. QED
  BY <1>1, <1>2, <1>3, <1>4, <1>5, <1>6, <1>7, <1>8, <1>9

\* The second look: a holder that leaves at once leaves nobody inside.
LEMMA EnsureRecheckStep ==
  ASSUME Inductive, TypeOK', NEW t \in Callers, EnsureRecheck(t)
  PROVE  IInv'
<1> USE DEF Inductive, IInv
<1>1. Baton'
  BY OneRuns DEF EnsureRecheck, Go, Result, TypeOK, Baton
<1>2. Phases'
  BY DEF EnsureRecheck, Go, TypeOK, Phases, Tasks
<1>3. ReinitExclusive'
  BY Serving DEF EnsureRecheck, Go, TypeOK, ReinitExclusive, InManager, Tasks
<1>4. Targets'
  BY DEF EnsureRecheck, Go, Result, poolVars, TypeOK, Targets
<1>5. Published'
  BY DEF EnsureRecheck, Go, poolVars, TypeOK, Published
<1>6. CleanSlate'
  BY Serving DEF EnsureRecheck, Go, poolVars, TypeOK, CleanSlate, Live
<1>7. OneLivePool'
  BY PoolsUntouched DEF EnsureRecheck, poolVars
<1>8. NoOrphanPool'
  BY PoolsUntouched DEF EnsureRecheck, poolVars
<1>9. VerdictNotStale'
  BY DEF EnsureRecheck, Go, TypeOK, VerdictNotStale, Usable, Tasks
<1>10. QED
  BY <1>1, <1>2, <1>3, <1>4, <1>5, <1>6, <1>7, <1>8, <1>9

\* reinit_nebula_pool takes the published pool into the holder's hands; with no
\* pool published, none is live, since nobody else holds one.
LEMMA ReinitStartStep ==
  ASSUME Inductive, TypeOK', NEW t \in Callers, ReinitStart(t)
  PROVE  IInv'
<1> USE DEF Inductive, IInv
<1>1. Baton'
  BY OneRuns DEF ReinitStart, Go, Suspend, TypeOK, Baton, Running
<1>2. Phases'
  BY DEF ReinitStart, Go, Suspend, TypeOK, Phases, Tasks
<1>3. ReinitExclusive'
  BY DEF ReinitStart, Go, Suspend, TypeOK, ReinitExclusive, InManager, Tasks
<1>4. Targets'
  BY DEF ReinitStart, Go, Suspend, Unpublish, poolVars, TypeOK, PoolTypeOK, Targets,
     Published
<1>5. Published'
  BY DEF ReinitStart, Go, Unpublish, poolVars, TypeOK, Published
<1>6. CleanSlate'
  BY NoPoolAssumption, Serving, OneInManager, Held DEF ReinitStart, Go, Suspend,
     poolVars, TypeOK, Published, CleanSlate, NoOrphanPool, Live, InManager
<1>7. OneLivePool'
  BY DEF ReinitStart, Unpublish, poolVars, TypeOK, PoolTypeOK, Published, OneLivePool,
     Live
<1>8. NoOrphanPool'
  BY Held DEF ReinitStart, Suspend, Unpublish, poolVars, TypeOK, PoolTypeOK,
     NoOrphanPool, Live, Tasks
<1>9. VerdictNotStale'
  BY OneRuns DEF ReinitStart, Go, Suspend, TypeOK, VerdictNotStale, Running, Tasks
<1>10. QED
  BY <1>1, <1>2, <1>3, <1>4, <1>5, <1>6, <1>7, <1>8, <1>9

\* return _pool_healthy: the result is what the flag says at that moment.
LEMMA EnsureLeaveStep ==
  ASSUME Inductive, TypeOK', NEW t \in Callers, EnsureLeave(t)
  PROVE  IInv'
<1> USE DEF Inductive, IInv
<1>1. Baton'
  BY DEF EnsureLeave, Go, Baton
<1>2. Phases'
  BY DEF EnsureLeave, Go, Phases
<1>3. ReinitExclusive'
  BY DEF EnsureLeave, Go, TypeOK, ReinitExclusive, InManager
<1>4. Targets'
  BY DEF EnsureLeave, Go, poolVars, Targets
<1>5. Published'
  BY DEF EnsureLeave, Go, poolVars, Published
<1>6. CleanSlate'
  BY DEF EnsureLeave, Go, poolVars, CleanSlate, Live
<1>7. OneLivePool'
  BY PoolsUntouched DEF EnsureLeave, poolVars
<1>8. NoOrphanPool'
  BY PoolsUntouched DEF EnsureLeave, poolVars
<1>9. VerdictNotStale'
  BY DEF EnsureLeave, Go, Result, TypeOK, Published, VerdictNotStale, Usable
<1>10. QED
  BY <1>1, <1>2, <1>3, <1>4, <1>5, <1>6, <1>7, <1>8, <1>9

\* A caller gets the loop only when nobody has it.
LEMMA WakeStep ==
  ASSUME Inductive, TypeOK', NEW t \in Callers, Wake(t)
  PROVE  IInv'
<1> USE DEF Inductive, IInv
<1>1. Baton'
  BY TaskAssumption DEF Wake, Baton
<1>2. Phases'
  BY DEF Wake, Phases
<1>3. ReinitExclusive'
  BY DEF Wake, ReinitExclusive
<1>4. Targets'
  BY DEF Wake, poolVars, Targets
<1>5. Published'
  BY DEF Wake, poolVars, Published
<1>6. CleanSlate'
  BY DEF Wake, poolVars, CleanSlate, Live
<1>7. OneLivePool'
  BY PoolsUntouched DEF Wake, poolVars
<1>8. NoOrphanPool'
  BY PoolsUntouched DEF Wake, poolVars
<1>9. VerdictNotStale'
  BY DEF Wake, VerdictNotStale, Usable
<1>10. QED
  BY <1>1, <1>2, <1>3, <1>4, <1>5, <1>6, <1>7, <1>8, <1>9

\* A caller that is in no coroutine of the module gives up the loop.
LEMMA YieldStep ==
  ASSUME Inductive, TypeOK', NEW t \in Callers, Yield(t)
  PROVE  IInv'
<1> USE DEF Inductive, IInv
<1>1. Baton'
  BY DEF Yield, Baton, Running
<1>2. Phases'
  BY DEF Yield, Phases
<1>3. ReinitExclusive'
  BY DEF Yield, ReinitExclusive
<1>4. Targets'
  BY DEF Yield, poolVars, Targets
<1>5. Published'
  BY DEF Yield, poolVars, Published
<1>6. CleanSlate'
  BY DEF Yield, poolVars, CleanSlate, Live
<1>7. OneLivePool'
  BY PoolsUntouched DEF Yield, poolVars
<1>8. NoOrphanPool'
  BY PoolsUntouched DEF Yield, poolVars
<1>9. VerdictNotStale'
  BY DEF Yield, VerdictNotStale, Usable
<1>10. QED
  BY <1>1, <1>2, <1>3, <1>4, <1>5, <1>6, <1>7, <1>8, <1>9

\* A caller enters ensure_healthy_pool.
LEMMA CallEnsureStep ==
  ASSUME Inductive, TypeOK', NEW t \in Callers, CallEnsure(t)
  PROVE  IInv'
<1> USE DEF Inductive, IInv
<1>1. Baton'
  BY DEF CallEnsure, Go, Baton
<1>2. Phases'
  BY TaskAssumption, Serving DEF CallEnsure, Go, Phases
<1>3. ReinitExclusive'
  BY DEF CallEnsure, Go, ReinitExclusive, InManager
<1>4. Targets'
  BY DEF CallEnsure, Go, poolVars, Targets
<1>5. Published'
  BY DEF CallEnsure, Go, poolVars, Published
<1>6. CleanSlate'
  BY DEF CallEnsure, Go, poolVars, CleanSlate, Live
<1>7. OneLivePool'
  BY PoolsUntouched DEF CallEnsure, poolVars
<1>8. NoOrphanPool'
  BY PoolsUntouched DEF CallEnsure, poolVars
<1>9. VerdictNotStale'
  BY DEF CallEnsure, Go, VerdictNotStale, Usable
<1>10. QED
  BY <1>1, <1>2, <1>3, <1>4, <1>5, <1>6, <1>7, <1>8, <1>9

\* A caller takes its result.
LEMMA EnsureReturnsStep ==
  ASSUME Inductive, TypeOK', NEW t \in Callers, EnsureReturns(t)
  PROVE  IInv'
<1> USE DEF Inductive, IInv
<1>1. Baton'
  BY DEF EnsureReturns, Go, Baton
<1>2. Phases'
  BY DEF EnsureReturns, Go, Phases
<1>3. ReinitExclusive'
  BY DEF EnsureReturns, Go, ReinitExclusive, InManager
<1>4. Targets'
  BY DEF EnsureReturns, Go, poolVars, Targets
<1>5. Published'
  BY DEF EnsureReturns, Go, poolVars, Published
<1>6. CleanSlate'
  BY TaskAssumption DEF EnsureReturns, Go, poolVars, CleanSlate, Live
<1>7. OneLivePool'
  BY PoolsUntouched DEF EnsureReturns, poolVars
<1>8. NoOrphanPool'
  BY PoolsUntouched DEF EnsureReturns, poolVars
<1>9. VerdictNotStale'
  BY DEF EnsureReturns, Go, Result, VerdictNotStale, Usable
<1>10. QED
  BY <1>1, <1>2, <1>3, <1>4, <1>5, <1>6, <1>7, <1>8, <1>9

\* mark_pool_unhealthy spoils no verdict: nobody else is about to use one.
LEMMA MarkUnhealthyStep ==
  ASSUME Inductive, TypeOK', NEW t \in Callers, MarkUnhealthy(t)
  PROVE  IInv'
<1> USE DEF Inductive, IInv
<1>1. Baton'
  BY DEF MarkUnhealthy, Baton
<1>2. Phases'
  BY DEF MarkUnhealthy, Phases
<1>3. ReinitExclusive'
  BY DEF MarkUnhealthy, ReinitExclusive
<1>4. Targets'
  BY DEF MarkUnhealthy, poolVars, Targets
<1>5. Published'
  BY DEF MarkUnhealthy, poolVars, Published
<1>6. CleanSlate'
  BY DEF MarkUnhealthy, poolVars, CleanSlate, Live
<1>7. OneLivePool'
  BY PoolsUntouched DEF MarkUnhealthy, poolVars
<1>8. NoOrphanPool'
  BY PoolsUntouched DEF MarkUnhealthy, poolVars
<1>9. VerdictNotStale'
  BY OneRuns DEF MarkUnhealthy, VerdictNotStale, Running, Tasks
<1>10. QED
  BY <1>1, <1>2, <1>3, <1>4, <1>5, <1>6, <1>7, <1>8, <1>9

\* pool.close is over: the pool in hand was the last live one.
LEMMA CloseDoneStep ==
  ASSUME Inductive, TypeOK', NEW t \in Tasks, CloseDone(t)
  PROVE  IInv'
<1> USE DEF Inductive, IInv
<1>1. Baton'
  BY OneRuns DEF CloseDone, Resume, Baton
<1>2. Phases'
  BY DEF CloseDone, Resume, Phases, Tasks
<1>3. ReinitExclusive'
  BY NoPoolAssumption, Held DEF CloseDone, Resume, ReinitExclusive, Targets
<1>4. Targets'
  BY NoPoolAssumption, OneInManager, Held DEF CloseDone, Resume, TypeOK, Targets
<1>5. Published'
  BY DEF CloseDone, Published
<1>6. CleanSlate'
  BY NoPoolAssumption, Serving, OneInManager, Held DEF CloseDone, Resume, poolVars,
     Targets, Published, CleanSlate, NoOrphanPool, Live, Tasks
<1>7. OneLivePool'
  BY DEF CloseDone, poolVars, OneLivePool, Live
<1>8. NoOrphanPool'
  BY DEF CloseDone, poolVars, NoOrphanPool, Live
<1>9. VerdictNotStale'
  BY TaskAssumption DEF CloseDone, Resume, VerdictNotStale, Usable
<1>10. QED
  BY <1>1, <1>2, <1>3, <1>4, <1>5, <1>6, <1>7, <1>8, <1>9

\* pool.init is over: the pool is published, or nothing is.
LEMMA PoolCreatedStep ==
  ASSUME Inductive, TypeOK', NEW t \in Tasks, PoolCreated(t)
  PROVE  IInv'
<1> USE DEF Inductive, IInv
<1>1. Baton'
  BY OneRuns DEF PoolCreated, Resume, Baton
<1>2. Phases'
  BY DEF PoolCreated, Resume, Phases, Tasks
<1>3. ReinitExclusive'
  BY NoPoolAssumption, Held DEF PoolCreated, Resume, ReinitExclusive, Targets
<1>4. Targets'
  BY NoPoolAssumption, OneInManager, Held DEF PoolCreated, Resume, TypeOK, Targets
<1>5. Published'
  BY NoPoolAssumption, OneInManager, Held DEF PoolCreated, Resume, Result, poolVars,
     TypeOK, Targets, Published, CleanSlate, Live
<1>6. CleanSlate'
  BY DEF PoolCreated, Resume, poolVars, CleanSlate, Live
<1>7. OneLivePool'
  BY DEF PoolCreated, poolVars, OneLivePool, Live
<1>8. NoOrphanPool'
  BY NoPoolAssumption DEF PoolCreated, Result, poolVars, Published, NoOrphanPool, Live
<1>9. VerdictNotStale'
  BY TaskAssumption DEF PoolCreated, Resume, Result, TypeOK, Published, VerdictNotStale,
     Usable, Tasks
<1>10. QED
  BY <1>1, <1>2, <1>3, <1>4, <1>5, <1>6, <1>7, <1>8, <1>9

\* create_nebula_pool starts a pool when none is live.
LEMMA CreatePoolStep ==
  ASSUME Inductive, TypeOK', NEW t \in Tasks, NEW p \in FreePools, CreatePool(t, p)
  PROVE  IInv'
<1> USE DEF Inductive, IInv
<1>1. Baton'
  BY OneRuns DEF CreatePool, Suspend, TypeOK, Baton, Running
<1>2. Phases'
  BY DEF CreatePool, Suspend, Phases
<1>3. ReinitExclusive'
  BY DEF CreatePool, Suspend, ReinitExclusive, InManager
<1>4. Targets'
  BY DEF CreatePool, Suspend, FreePools, TypeOK, PoolTypeOK, Targets
<1>5. Published'
  BY DEF CreatePool, Suspend, Published
<1>6. CleanSlate'
  BY TaskAssumption, OneRuns DEF CreatePool, Suspend, TypeOK, Phases, CleanSlate,
     Running
<1>7. OneLivePool'
  BY DEF CreatePool, Suspend, CleanSlate, OneLivePool, Live
<1>8. NoOrphanPool'
  BY NoPoolAssumption, Held DEF CreatePool, Suspend, TypeOK, NoOrphanPool, Live
<1>9. VerdictNotStale'
  BY DEF CreatePool, Suspend, VerdictNotStale, Usable
<1>10. QED
  BY <1>1, <1>2, <1>3, <1>4, <1>5, <1>6, <1>7, <1>8, <1>9

\* The executor's threads only move a pool that somebody waits for, if anybody.
LEMMA PoolThreadStep ==
  ASSUME Inductive, TypeOK', NEW p \in PoolIds, PoolThread(p)
  PROVE  IInv'
<1> USE DEF Inductive, IInv
<1>1. Baton'
  BY DEF PoolThread, mgrVars, Baton
<1>2. Phases'
  BY DEF PoolThread, mgrVars, Phases
<1>3. ReinitExclusive'
  BY DEF PoolThread, mgrVars, ReinitExclusive
<1>4. Targets'
  BY DEF PoolThread, InitRuns, CloseRuns, mgrVars, TypeOK, PoolTypeOK, Targets
<1>5. Published'
  BY DEF PoolThread, InitRuns, CloseRuns, mgrVars, TypeOK, PoolTypeOK, Published
<1>6. CleanSlate'
  BY DEF PoolThread, InitRuns, CloseRuns, mgrVars, CleanSlate, Live
<1>7. OneLivePool'
  BY DEF PoolThread, InitRuns, CloseRuns, TypeOK, PoolTypeOK, OneLivePool, Live
<1>8. NoOrphanPool'
  BY DEF PoolThread, InitRuns, CloseRuns, mgrVars, TypeOK, PoolTypeOK, NoOrphanPool,
     Live
<1>9. VerdictNotStale'
  BY DEF PoolThread, mgrVars, VerdictNotStale, Usable
<1>10. QED
  BY <1>1, <1>2, <1>3, <1>4, <1>5, <1>6, <1>7, <1>8, <1>9

\* The lifespan creates the first pool.
LEMMA BootStep ==
  ASSUME Inductive, TypeOK', Boot
  PROVE  IInv'
<1> USE DEF Inductive, IInv
<1>1. Baton'
  BY TaskAssumption, OneRuns DEF Boot, Resume, Baton
<1>2. Phases'
  BY TaskAssumption, Serving DEF Boot, Resume, Phases
<1>3. ReinitExclusive'
  BY TaskAssumption DEF Boot, Resume, ReinitExclusive
<1>4. Targets'
  BY DEF Boot, Resume, poolVars, Targets
<1>5. Published'
  BY DEF Boot, Resume, TypeOK, Published, CleanSlate, Live
<1>6. CleanSlate'
  BY DEF Boot, Resume, poolVars, CleanSlate, Live
<1>7. OneLivePool'
  BY DEF Boot, poolVars, OneLivePool, Live
<1>8. NoOrphanPool'
  BY DEF Boot, poolVars, NoOrphanPool, Live
<1>9. VerdictNotStale'
  BY Serving DEF Boot, Resume, VerdictNotStale
<1>10. QED
  BY <1>1, <1>2, <1>3, <1>4, <1>5, <1>6, <1>7, <1>8, <1>9

\* Startup is over, for good or ill.
LEMMA BootedStep ==
  ASSUME Inductive, TypeOK', Booted
  PROVE  IInv'
<1> USE DEF Inductive, IInv
<1>1. Baton'
  BY OneRuns DEF Booted, TypeOK, Baton, Running
<1>2. Phases'
  BY Serving DEF Booted, TypeOK, Phases
<1>3. ReinitExclusive'
  BY TaskAssumption DEF Booted, ReinitExclusive
<1>4. Targets'
  BY DEF Booted, poolVars, Targets
<1>5. Published'
  BY DEF Booted, poolVars, Published
<1>6. CleanSlate'
  BY DEF Booted, poolVars, CleanSlate, Live
<1>7. OneLivePool'
  BY DEF Booted, poolVars, OneLivePool, Live
<1>8. NoOrphanPool'
  BY DEF Booted, poolVars, NoOrphanPool, Live
<1>9. VerdictNotStale'
  BY Serving DEF Booted, VerdictNotStale
<1>10. QED
  BY <1>1, <1>2, <1>3, <1>4, <1>5, <1>6, <1>7, <1>8, <1>9

\* Cancelling the background tasks leaves nobody inside the module.
LEMMA BeginShutdownStep ==
  ASSUME Inductive, TypeOK', BeginShutdown
  PROVE  IInv'
<1> USE DEF Inductive, IInv
<1>1. Baton'
  BY DEF BeginShutdown, Baton, Running
<1>2. Phases'
  BY DEF BeginShutdown, Phases, Tasks
<1>3. ReinitExclusive'
  BY DEF BeginShutdown, ReinitExclusive, InManager, Tasks
<1>4. Targets'
  BY DEF BeginShutdown, Targets
<1>5. Published'
  BY DEF BeginShutdown, poolVars, Published
<1>6. CleanSlate'
  BY DEF BeginShutdown, CleanSlate
<1>7. OneLivePool'
  BY DEF BeginShutdown, poolVars, OneLivePool, Live
<1>8. NoOrphanPool'
  BY DEF BeginShutdown, NoOrphanPool
<1>9. VerdictNotStale'
  BY DEF BeginShutdown, VerdictNotStale, Tasks
<1>10. QED
  BY <1>1, <1>2, <1>3, <1>4, <1>5, <1>6, <1>7, <1>8, <1>9

\* close_nebula_pool takes the published pool into the lifespan's hands.
LEMMA ClosePoolStep ==
  ASSUME Inductive, TypeOK', ClosePool
  PROVE  IInv'
<1> USE DEF Inductive, IInv
<1>1. Baton'
  BY OneRuns DEF ClosePool, Baton, Running
<1>2. Phases'
  BY TaskAssumption, Serving DEF ClosePool, Phases
<1>3. ReinitExclusive'
  BY TaskAssumption DEF ClosePool, ReinitExclusive
<1>4. Targets'
  BY DEF ClosePool, Unpublish, TypeOK, PoolTypeOK, Targets, Published
<1>5. Published'
  BY DEF ClosePool, Unpublish, Published
<1>6. CleanSlate'
  BY DEF ClosePool, Published, CleanSlate
<1>7. OneLivePool'
  BY DEF ClosePool, Unpublish, Published, OneLivePool, Live
<1>8. NoOrphanPool'
  BY DEF ClosePool, NoOrphanPool
<1>9. VerdictNotStale'
  BY Serving DEF ClosePool, VerdictNotStale
<1>10. QED
  BY <1>1, <1>2, <1>3, <1>4, <1>5, <1>6, <1>7, <1>8, <1>9

\* The lifespan is over.
LEMMA StoppedStep ==
  ASSUME Inductive, TypeOK', Stopped
  PROVE  IInv'
<1> USE DEF Inductive, IInv
<1>1. Baton'
  BY OneRuns DEF Stopped, TypeOK, Baton, Running
<1>2. Phases'
  BY Serving DEF Stopped, TypeOK, Phases
<1>3. ReinitExclusive'
  BY TaskAssumption DEF Stopped, ReinitExclusive
<1>4. Targets'
  BY DEF Stopped, poolVars, Targets
<1>5. Published'
  BY DEF Stopped, poolVars, Published
<1>6. CleanSlate'
  BY DEF Stopped, poolVars, CleanSlate, Live
<1>7. OneLivePool'
  BY DEF Stopped, poolVars, OneLivePool, Live
<1>8. NoOrphanPool'
  BY DEF Stopped, NoOrphanPool
<1>9. VerdictNotStale'
  BY Serving DEF Stopped, VerdictNotStale
<1>10. QED
  BY <1>1, <1>2, <1>3, <1>4, <1>5, <1>6, <1>7, <1>8, <1>9

-----------------------------------------------------------------------------
\* Steps that only touch sessions, the server or the clock.
LEMMA ManagerUntouched ==
  ASSUME Inductive, UNCHANGED <<poolSt, pool, healthy, lockQueue, epc, ok, target, loop, phase>>
  PROVE  IInv'
BY DEF Inductive, IInv, Baton, Phases, ReinitExclusive, Targets, Published,
       CleanSlate, OneLivePool, NoOrphanPool, VerdictNotStale, Live, Usable

\* Every step preserves the strengthening.
LEMMA InvStep == Inductive /\ TypeOK' /\ [Next]_vars => IInv'
<1> SUFFICES ASSUME Inductive, TypeOK', [Next]_vars PROVE IInv'
  OBVIOUS
<1>1. ASSUME NEW t \in Callers, EnsureStep(t) PROVE IInv'
  BY <1>1, EnsureEnterStep, LockGrantedStep, EnsureRecheckStep, ReinitStartStep,
     EnsureLeaveStep DEF EnsureStep
<1>2. ASSUME NEW t \in Callers, ClientStep(t) PROVE IInv'
  <2>1. CASE OpenSession(t) \/ CloseSession(t)
    BY <2>1, ManagerUntouched DEF OpenSession, CloseSession, mgrVars
  <2>2. QED
    BY <1>2, <2>1, WakeStep, YieldStep, CallEnsureStep, EnsureReturnsStep,
       MarkUnhealthyStep DEF ClientStep
<1>3. ASSUME NEW t \in Tasks, ExecutorStep(t) PROVE IInv'
  BY <1>3, CloseDoneStep, PoolCreatedStep DEF ExecutorStep
<1>4. ASSUME NEW t \in Tasks, NEW p \in FreePools, CreatePool(t, p) PROVE IInv'
  BY <1>4, CreatePoolStep
<1>5. ASSUME NEW g \in Pingers, PingStep(g) PROVE IInv'
  BY <1>5, ManagerUntouched DEF PingStep, PingOpens, PingCloses, mgrVars
<1>6. ASSUME NEW p \in PoolIds, PoolThread(p) PROVE IInv'
  BY <1>6, PoolThreadStep
<1>7. ASSUME LifespanStep PROVE IInv'
  BY <1>7, BootStep, BootedStep, BeginShutdownStep, ClosePoolStep, StoppedStep
  DEF LifespanStep
<1>8. ASSUME Environment PROVE IInv'
  BY <1>8, ManagerUntouched DEF Environment, Tick, ServerChanges, mgrVars, poolVars
<1>9. CASE UNCHANGED vars
  BY <1>9, ManagerUntouched DEF vars, poolVars, mgrVars
<1>10. QED
  BY <1>1, <1>2, <1>3, <1>4, <1>5, <1>6, <1>7, <1>8, <1>9 DEF Next

-----------------------------------------------------------------------------
(***************************************************************************)
(* What follows for the specification.                                     *)
(***************************************************************************)
\* The invariant and the types hold in every reachable state: the lock, the
\* event loop and the two globals of nebula_pool.py keep each other honest.
THEOREM Invariance == Spec => [](TypeOK /\ IInv)
<1>1. Inductive /\ [Next]_vars => Inductive'
  <2> SUFFICES ASSUME Inductive, [Next]_vars PROVE Inductive'
    OBVIOUS
  <2>1. TypeOK'
    BY TypeStep
  <2>2. IInv'
    BY <2>1, InvStep
  <2>3. QED
    BY <2>1, <2>2 DEF Inductive
<1>2. Inductive <=> TypeOK /\ IInv
  BY DEF Inductive
<1>3. QED
  BY InitInductive, <1>1, <1>2, PTL DEF Spec

\* Nothing is ever written that its type does not allow.
THEOREM TypeCorrect == Spec => []TypeOK
BY Invariance, PTL

\* A flag that is up has an open, published pool behind it, whatever close, init
\* and shutdown are doing in other threads.
THEOREM FlagIsTrue == Spec => []HealthyIsOpen
<1>1. TypeOK /\ IInv => HealthyIsOpen
  BY DEF IInv, Published, HealthyIsOpen, TypeOK
<1>2. QED
  BY Invariance, <1>1, PTL

\* A caller of ensure_healthy_pool may rely on True: it is still so when the
\* caller goes on.
THEOREM VerdictHolds == Spec => []VerdictNotStale
<1>1. IInv => VerdictNotStale
  BY DEF IInv
<1>2. QED
  BY Invariance, <1>1, PTL

\* However many callers there are, only the holder of _reinit_async_lock is
\* inside reinit_nebula_pool.
THEOREM Exclusion == Spec => []ReinitExclusive
<1>1. IInv => ReinitExclusive
  BY DEF IInv
<1>2. QED
  BY Invariance, <1>1, PTL

\* The process never has two pools with connections.
THEOREM OnePoolAtATime == Spec => []OneLivePool
<1>1. IInv => OneLivePool
  BY DEF IInv
<1>2. QED
  BY Invariance, <1>1, PTL

\* While the service runs, a pool with connections is published or in the hands
\* of a task that will publish or close it.
THEOREM NothingForgotten == Spec => []NoOrphanPool
<1>1. IInv => NoOrphanPool
  BY DEF IInv
<1>2. QED
  BY Invariance, <1>1, PTL

-----------------------------------------------------------------------------
(***************************************************************************)
(* A pool that is trusted is not taken away.                               *)
(***************************************************************************)
\* Between the second look and reinit_nebula_pool nobody else runs on the event
\* loop, and only the end of a re-init would make the pool usable.
LEMMA CondemnedStep ==
  ASSUME Inductive, TypeOK', IInv', Condemned, [Next]_vars
  PROVE  Condemned'
<1> SUFFICES ASSUME NEW t \in Callers, epc'[t] = "reinit" PROVE ~Usable'
  BY DEF Condemned
<1> USE DEF Inductive
<1>0. t \in Tasks /\ loop' = t /\ t # NoTask /\ t # Main
  BY TaskAssumption DEF IInv, Baton, Running, Tasks
<1>1. epc[t] = "reinit" => loop = t /\ ~Usable
  BY <1>0 DEF IInv, Baton, Running, Condemned
<1>2. ASSUME NEW u \in Callers, EnsureStep(u) PROVE ~Usable'
  <2>0. u \in Tasks
    BY DEF Tasks
  <2>1. CASE EnsureEnter(u) \/ LockGranted(u) \/ EnsureLeave(u)
    BY <1>0, <1>1, <2>0, <2>1
    DEF EnsureEnter, LockGranted, EnsureLeave, Go, Suspend, Resume, TypeOK, Usable
  <2>2. CASE EnsureRecheck(u)
    BY <1>0, <1>1, <2>0, <2>2 DEF EnsureRecheck, Go, TypeOK, Usable
  <2>3. CASE ReinitStart(u)
    BY <1>0, <1>1, <2>0, <2>3 DEF ReinitStart, Go, Suspend, Unpublish, TypeOK, Usable
  <2>4. QED
    BY <1>2, <2>1, <2>2, <2>3 DEF EnsureStep
<1>3. ASSUME NEW u \in Callers, ClientStep(u) PROVE ~Usable'
  <2>0. u \in Tasks
    BY DEF Tasks
  <2>1. CASE Wake(u) \/ Yield(u) \/ CallEnsure(u) \/ EnsureReturns(u)
    BY <1>0, <1>1, <2>0, <2>1
    DEF Wake, Yield, CallEnsure, EnsureReturns, Go, TypeOK, Usable
  <2>2. CASE MarkUnhealthy(u) \/ OpenSession(u) \/ CloseSession(u)
    BY <1>1, <2>2 DEF MarkUnhealthy, OpenSession, CloseSession, mgrVars, Usable
  <2>3. QED
    BY <1>3, <2>1, <2>2 DEF ClientStep
<1>4. ASSUME NEW u \in Tasks, ExecutorStep(u) PROVE ~Usable'
  BY <1>0, <1>1, <1>4 DEF ExecutorStep, CloseDone, PoolCreated, Resume, TypeOK
<1>5. ASSUME NEW u \in Tasks, NEW p \in FreePools, CreatePool(u, p) PROVE ~Usable'
  BY <1>0, <1>5, TaskAssumption DEF CreatePool, Suspend
<1>6. ASSUME NEW g \in Pingers, PingStep(g) PROVE ~Usable'
  BY <1>1, <1>6 DEF PingStep, PingOpens, PingCloses, mgrVars, Usable
<1>7. ASSUME NEW p \in PoolIds, PoolThread(p) PROVE ~Usable'
  BY <1>1, <1>7 DEF PoolThread, mgrVars, Usable
<1>8. ASSUME LifespanStep PROVE ~Usable'
  BY <1>0, <1>1, <1>8 DEF LifespanStep, Boot, Booted, BeginShutdown, ClosePool, Stopped, Resume
<1>9. ASSUME Environment \/ UNCHANGED vars PROVE ~Usable'
  BY <1>1, <1>9 DEF Environment, Tick, ServerChanges, vars, mgrVars, Usable
<1>10. QED
  BY <1>2, <1>3, <1>4, <1>5, <1>6, <1>7, <1>8, <1>9 DEF Next

\* Only reinit_nebula_pool takes a pool away while the service runs, and only a
\* pool that is not published is replaced by a new one.
LEMMA KeepStep ==
  ASSUME Inductive, Condemned, [Next]_vars, phase = "serving", Usable
  PROVE  pool' = pool
<1> USE DEF Inductive
<1>1. ASSUME NEW t \in Callers, EnsureStep(t) PROVE pool' = pool
  BY <1>1 DEF EnsureStep, EnsureEnter, LockGranted, EnsureRecheck, ReinitStart, EnsureLeave,
     Go, Suspend, Condemned
<1>2. ASSUME NEW t \in Callers, ClientStep(t) PROVE pool' = pool
  BY <1>2 DEF ClientStep, Wake, Yield, CallEnsure, EnsureReturns, MarkUnhealthy,
     OpenSession, CloseSession, mgrVars
<1>3. ASSUME NEW t \in Tasks, ExecutorStep(t) PROVE pool' = pool
  BY <1>3 DEF ExecutorStep, CloseDone, PoolCreated, IInv, Published, Usable
<1>4. ASSUME LifespanStep PROVE pool' = pool
  BY <1>4 DEF LifespanStep, Boot, Booted, BeginShutdown, ClosePool, Stopped
<1>5. QED
  BY <1>1, <1>2, <1>3, <1>4 DEF Next, CreatePool, PingStep, PingOpens, PingCloses,
     PoolThread, Environment, Tick, ServerChanges, vars, mgrVars

\* However many tasks wait for the lock with a pool condemned in mind, a pool that
\* has come back in the meantime stays.
THEOREM FitPoolStays == Spec => FitPoolKept
<1>1. Init => Condemned
  BY DEF Init, Condemned, Tasks
<1>2. Inductive /\ TypeOK' /\ IInv' /\ Condemned /\ [Next]_vars => Condemned'
  BY CondemnedStep
<1>3. Inductive /\ Condemned /\ [Next]_vars =>
        [phase = "serving" /\ Usable => pool' = pool]_vars
  BY KeepStep
<1>4. Inductive <=> TypeOK /\ IInv
  BY DEF Inductive
<1>5. QED
  BY Invariance, <1>1, <1>2, <1>3, <1>4, PTL DEF Spec, FitPoolKept

-----------------------------------------------------------------------------
(***************************************************************************)
(* NebulaPool implements PoolLifecycle.                                    *)
(***************************************************************************)
Lives == [p \in PoolIds |-> LifeOf(p)]

\* At first no pool object has a life.
LEMMA LifeInitially == Init => Lifecycle!LifeInit
BY NoPoolAssumption DEF Init, PoolInit, Lifecycle!LifeInit, LifeOf

\* The life of pools follows from their states and from which is published.
LEMMA LifeStutters ==
  ASSUME UNCHANGED <<poolSt, pool>>
  PROVE  Lives' = Lives
BY DEF Lives, LifeOf

\* One pool object moves on and the others stay where they are.
LEMMA LifeMoves ==
  ASSUME NEW p \in PoolIds, NEW from, NEW to, LifeOf(p) = from, LifeOf(p)' = to,
         \A q \in PoolIds : q # p => LifeOf(q)' = LifeOf(q)
  PROVE  Lifecycle!MoveTo(p, from, to)
BY DEF Lifecycle!MoveTo

\* The published pool is taken out of service.
LEMMA Retires ==
  ASSUME Inductive, NEW t \in Tasks, pool # NoPool, Unpublish(t)
  PROVE  [Lifecycle!LifeNext]_<<Lives, healthy>>
<1>1. pool \in PoolIds /\ poolSt[pool] = "open"
  BY DEF Inductive, TypeOK, IInv, Published
<1>2. /\ pool' = NoPool /\ healthy' = FALSE
      /\ poolSt' = [poolSt EXCEPT ![pool] = "closing"]
  BY DEF Unpublish
<1>3. LifeOf(pool) = "published"
  BY DEF LifeOf
<1>4. \A q \in PoolIds : LifeOf(q)' = IF q = pool THEN "retiring" ELSE LifeOf(q)
  BY <1>1, <1>2, NoPoolAssumption DEF LifeOf, Inductive, TypeOK, PoolTypeOK
<1>5. Lifecycle!Retire(pool)
  BY <1>1, <1>2, <1>3, <1>4 DEF Lifecycle!Retire, Lifecycle!MoveTo
<1>6. QED
  BY <1>1, <1>5 DEF Lifecycle!LifeNext

\* Every step of NebulaPool is a step of a pool's life or invisible there.
LEMMA LifeStep ==
  Inductive /\ TypeOK' /\ [Next]_vars => [Lifecycle!LifeNext]_<<Lives, healthy>>
<1> SUFFICES ASSUME Inductive, TypeOK', [Next]_vars
             PROVE  [Lifecycle!LifeNext]_<<Lives, healthy>>
  OBVIOUS
<1> USE DEF Inductive
<1>1. CASE UNCHANGED <<poolSt, pool, healthy>>
  BY <1>1, LifeStutters
<1>2. CASE UNCHANGED <<poolSt, pool>> /\ healthy' = FALSE
  BY <1>2, LifeStutters DEF Lifecycle!LifeNext, Lifecycle!Condemn, Lives
<1>3. ASSUME NEW t \in Callers, ReinitStart(t)
      PROVE  [Lifecycle!LifeNext]_<<Lives, healthy>>
  <2>1. CASE pool # NoPool /\ Unpublish(t)
    BY <2>1, Retires DEF Tasks
  <2>2. CASE UNCHANGED <<poolSt, pool>> /\ healthy' \in {healthy, FALSE}
    BY <2>2, <1>1, <1>2
  <2>3. QED
    BY <1>3, <2>1, <2>2 DEF ReinitStart, poolVars
<1>4. ASSUME NEW t \in Tasks, PoolCreated(t)
      PROVE  [Lifecycle!LifeNext]_<<Lives, healthy>>
  <2>1. CASE poolSt[target[t]] = "open"
    <3> DEFINE p == target[t]
    <3>1. p \in PoolIds /\ pool = NoPool
      BY <1>4 DEF PoolCreated, IInv, Targets, Published
    <3>2. /\ pool' = p /\ healthy' = TRUE /\ poolSt' = poolSt
      BY <1>4, <2>1 DEF PoolCreated, poolVars
    <3>3. Lifecycle!MoveTo(p, "building", "published")
      BY <2>1, <3>1, <3>2, LifeMoves, NoPoolAssumption DEF LifeOf
    <3>4. QED
      BY <3>1, <3>2, <3>3 DEF Lifecycle!LifeNext, Lifecycle!Publish
  <2>2. CASE UNCHANGED <<poolSt, pool>> /\ healthy' = FALSE
    BY <2>2, <1>2
  <2>3. QED
    BY <1>4, <2>1, <2>2 DEF PoolCreated, poolVars
<1>5. ASSUME NEW t \in Tasks, NEW p \in FreePools, CreatePool(t, p)
      PROVE  [Lifecycle!LifeNext]_<<Lives, healthy>>
  <2>1. p \in PoolIds /\ pool = NoPool /\ \A q \in PoolIds : ~Live(q)
    BY <1>5 DEF CreatePool, Suspend, FreePools, Reusable, IInv, Published, CleanSlate
  <2>2. /\ pool' = NoPool /\ healthy' = healthy
        /\ poolSt' = [poolSt EXCEPT ![p] = "initing"]
    BY <1>5, <2>1 DEF CreatePool
  <2>3. \A q \in PoolIds : LifeOf(q) = "none"
    BY <2>1, NoPoolAssumption DEF LifeOf, Live
  <2>4. LifeOf(p)' = "building" /\ \A q \in PoolIds : q # p => LifeOf(q)' = LifeOf(q)
    BY <2>1, <2>2, NoPoolAssumption DEF LifeOf, TypeOK, PoolTypeOK
  <2>5. Lifecycle!MoveTo(p, "none", "building")
    BY <2>1, <2>3, <2>4, LifeMoves
  <2>6. QED
    BY <2>1, <2>2, <2>3, <2>5 DEF Lifecycle!LifeNext, Lifecycle!Build
<1>6. ASSUME NEW p \in PoolIds, PoolThread(p)
      PROVE  [Lifecycle!LifeNext]_<<Lives, healthy>>
  <2>1. pool' = pool /\ healthy' = healthy
    BY <1>6 DEF PoolThread, mgrVars
  <2>2. CASE InitRuns(p)
    <3>1. p # pool /\ LifeOf(p) = "building"
      BY <2>2, NoPoolAssumption DEF InitRuns, IInv, Published, LifeOf
    <3>2. /\ poolSt' = [poolSt EXCEPT ![p] = poolSt'[p]]
          /\ poolSt'[p] \in {"open", "dead"}
      BY <2>2 DEF InitRuns, TypeOK, PoolTypeOK
    <3>3. \A q \in PoolIds : q # p => LifeOf(q)' = LifeOf(q)
      BY <2>1, <3>2 DEF LifeOf, TypeOK, PoolTypeOK
    <3>4. CASE poolSt'[p] = "open"
      <4>1. LifeOf(p)' = LifeOf(p)
        BY <2>1, <3>1, <3>4 DEF LifeOf
      <4>2. QED
        BY <2>1, <3>3, <4>1 DEF Lives
    <3>5. CASE poolSt'[p] = "dead"
      <4>1. LifeOf(p)' = "none"
        BY <2>1, <3>1, <3>5 DEF LifeOf
      <4>2. Lifecycle!MoveTo(p, "building", "none")
        BY <3>1, <3>3, <4>1, LifeMoves
      <4>3. QED
        BY <2>1, <4>2 DEF Lifecycle!LifeNext, Lifecycle!BuildFails
    <3>6. QED
      BY <3>2, <3>4, <3>5
  <2>3. CASE CloseRuns(p)
    <3>1. p # pool /\ LifeOf(p) = "retiring"
      BY <2>3, NoPoolAssumption DEF CloseRuns, IInv, Published, LifeOf
    <3>2. /\ LifeOf(p)' = "none"
          /\ \A q \in PoolIds : q # p => LifeOf(q)' = LifeOf(q)
      BY <2>1, <2>3, <3>1 DEF CloseRuns, LifeOf, TypeOK, PoolTypeOK
    <3>3. Lifecycle!MoveTo(p, "retiring", "none")
      BY <3>1, <3>2, LifeMoves
    <3>4. QED
      BY <2>1, <3>3 DEF Lifecycle!LifeNext, Lifecycle!Close
  <2>4. QED
    BY <1>6, <2>2, <2>3 DEF PoolThread
<1>7. ASSUME LifespanStep
      PROVE  [Lifecycle!LifeNext]_<<Lives, healthy>>
  <2>1. CASE ClosePool
    BY <2>1, Retires DEF ClosePool, Tasks
  <2>2. CASE Boot \/ Booted \/ BeginShutdown \/ Stopped
    BY <2>2, <1>1 DEF Boot, Booted, BeginShutdown, Stopped, poolVars
  <2>3. QED
    BY <1>7, <2>1, <2>2 DEF LifespanStep
<1>8. ASSUME NEW t \in Callers, EnsureStep(t)
      PROVE  [Lifecycle!LifeNext]_<<Lives, healthy>>
  BY <1>8, <1>1, <1>3
  DEF EnsureStep, EnsureEnter, LockGranted, EnsureRecheck, EnsureLeave, poolVars
<1>9. ASSUME NEW t \in Callers, ClientStep(t)
      PROVE  [Lifecycle!LifeNext]_<<Lives, healthy>>
  BY <1>9, <1>1, <1>2
  DEF ClientStep, Wake, Yield, CallEnsure, EnsureReturns, MarkUnhealthy, OpenSession,
      CloseSession, poolVars, mgrVars
<1>10. ASSUME NEW t \in Tasks, CloseDone(t)
       PROVE  [Lifecycle!LifeNext]_<<Lives, healthy>>
  BY <1>10, <1>1 DEF CloseDone, poolVars
<1>11. ASSUME NEW g \in Pingers, PingStep(g)
       PROVE  [Lifecycle!LifeNext]_<<Lives, healthy>>
  BY <1>11, <1>1 DEF PingStep, PingOpens, PingCloses, mgrVars
<1>12. ASSUME Environment \/ UNCHANGED vars
       PROVE  [Lifecycle!LifeNext]_<<Lives, healthy>>
  BY <1>12, <1>1 DEF Environment, Tick, ServerChanges, vars, poolVars, mgrVars
<1>13. QED
  BY <1>4, <1>5, <1>6, <1>7, <1>8, <1>9, <1>10, <1>11, <1>12 DEF Next, ExecutorStep

\* Requests, heartbeat, lifespan and threads together keep to the life of a pool:
\* built, published, retired, closed, and one after the other.
THEOREM Refinement == Spec => ImplementsLifecycle
<1>1. Inductive /\ TypeOK' /\ [Next]_vars =>
        [Lifecycle!LifeNext]_<<[p \in PoolIds |-> LifeOf(p)], healthy>>
  BY LifeStep DEF Lives
<1>2. Inductive <=> TypeOK /\ IInv
  BY DEF Inductive
<1>3. QED
  BY LifeInitially, <1>1, <1>2, Invariance, PTL
  DEF Spec, ImplementsLifecycle, Lifecycle!LifeSpec
=============================================================================
