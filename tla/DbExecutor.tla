----------------------------- MODULE DbExecutor -----------------------------
(***************************************************************************)
(* The ThreadPoolExecutor of nebula_pool.py under the service.  Everything *)
(* that blocks goes through run_in_executor: the queries of the requests,  *)
(* pool.init and pool.close of a re-init, and the pings.  A job waits in   *)
(* the executor's queue until one of its threads is free.  When the        *)
(* coroutine awaiting it is cancelled or times out, a job still in the     *)
(* queue is revoked: its entry stays and is skipped by the thread that     *)
(* gets to it.  Nothing in the code bounds the queue; MaxBacklog does so   *)
(* for TLC.                                                                *)
(*                                                                         *)
(* In PathService a job may run as soon as it is submitted.                *)
(***************************************************************************)
EXTENDS PathService, SequencesExt

CONSTANTS Threads,     \* max_workers
          MaxBacklog   \* bound: entries of the queue with which work still begins

ASSUME ThreadAssumption == Threads \in Nat \ {0}
ASSUME BacklogAssumption == MaxBacklog \in Nat
ASSUME FiniteAssumption == IsFiniteSet(Tasks) /\ IsFiniteSet(PoolIds) /\ IsFiniteSet(Pingers)

VARIABLES backlog,   \* the executor's queue
          running    \* the jobs its threads are at

execVars == <<serviceVars, backlog, running>>

\* What has been submitted and is not over.
Jobs ==
  {<<"query", t>> : t \in {x \in Requests : job[x] = "running"}}
    \cup {<<"pool", p>> : p \in {x \in PoolIds : poolSt[x] \in {"initing", "closing"}}}
    \cup {<<"ping", g>> : g \in {x \in Pingers : ping[x] = "run"}}

ExecInit == ServiceInit /\ backlog = <<>> /\ running = {}

-----------------------------------------------------------------------------
\* Faulty variants: a job that nobody waits for is not revoked; the whole
\* queue is revoked with it.
QueueNever(j) == FALSE

QueueDropped(j) == \E g \in Pingers : owner[g] # NoTask /\ owner'[g] = NoTask

\* An entry whose future has been cancelled.
Revoked == <<"revoked">>

\* The coroutine awaiting a queued job is gone: wait_for timed out on a ping,
\* or the heartbeat was cancelled in a re-init.
Cancelled(j) ==
  \/ j[1] = "ping" /\ owner[j[2]] # NoTask /\ owner'[j[2]] = NoTask
  \/ j[1] = "pool" /\ phase = "serving" /\ phase' = "stopping"

\* A request comes in, or the heartbeat wakes up.
Begins ==
  \/ \E t \in Requests : stage[t] = "none" /\ stage'[t] # "none"
  \/ \E h \in Background : hb[h] = "sleep" /\ hb'[h] # "sleep"

\* What a step of the event loop means to the executor: a job is submitted, or
\* abandoned, which revokes it unless a thread is at it.
Booked ==
  /\ \A g \in Pingers :
       ping[g] = "run" /\ owner[g] # NoTask /\ owner'[g] = NoTask
         => (ping'[g] = "run" <=> <<"ping", g>> \in running)
  /\ \E new \in SetToSeqs(Jobs' \ Jobs) :
       backlog' = [i \in DOMAIN backlog |-> IF Cancelled(backlog[i]) THEN Revoked
                                           ELSE backlog[i]] \o new
  /\ Begins => Len(backlog) < MaxBacklog
  /\ UNCHANGED running

\* A free thread takes the oldest entry, and runs it unless it is revoked.
ThreadTakes ==
  /\ backlog # <<>>
  /\ Cardinality(running) < Threads
  /\ backlog' = Tail(backlog)
  /\ running' = running \cup ({Head(backlog)} \ {Revoked})
  /\ UNCHANGED serviceVars

\* A thread gets on with its job, and is free when that is over.
ThreadRuns(j) ==
  /\ j \in running
  /\ \/ \E t \in Requests : j = <<"query", t>> /\ QueryThread(t)
     \/ \E p \in PoolIds : j = <<"pool", p>> /\ PoolJob(p)
     \/ \E g \in Pingers : j = <<"ping", g>> /\ PingThread(g)
  /\ running' = running \cap Jobs'
  /\ UNCHANGED backlog

Outside == Environment /\ UNCHANGED callVars /\ Below /\ UNCHANGED <<backlog, running>>

ExecNext ==
  \/ LoopNext /\ Booked
  \/ ThreadTakes
  \/ \E j \in running : ThreadRuns(j)
  \/ Outside

ExecSpec == ExecInit /\ [][ExecNext]_execVars

(***************************************************************************)
(* Fairness.  asyncio resumes ready tasks in FIFO order, so a coroutine    *)
(* that is ready again and again runs, and timers go off (LoopFairness).   *)
(* A free thread takes a job, and ends the job it has, because connecting  *)
(* and executing have timeouts (ThreadFairness).  Nothing is assumed of    *)
(* arrivals, the server and shutdown.                                      *)
(***************************************************************************)
LoopFairness ==
  /\ \A t \in Requests : SF_execVars(RequestTask(t) /\ Booked)
  /\ \A h \in Background : SF_execVars(HeartbeatTask(h) /\ Booked)
  /\ WF_execVars(Tick /\ UNCHANGED callVars /\ Below /\ UNCHANGED <<backlog, running>>)

ThreadFairness ==
  /\ \A t \in Requests : WF_execVars(ThreadRuns(<<"query", t>>))
  /\ \A p \in PoolIds : WF_execVars(ThreadRuns(<<"pool", p>>))
  /\ \A g \in Pingers : WF_execVars(ThreadRuns(<<"ping", g>>))
  /\ WF_execVars(ThreadTakes)

FairExecSpec == ExecSpec /\ LoopFairness /\ ThreadFairness

-----------------------------------------------------------------------------
\* A job that a coroutine waits for is never lost.
Awaited ==
  {<<"query", t>> : t \in {x \in Requests : job[x] = "running"}}
    \cup {<<"pool", target[t]>> : t \in {x \in Tasks : target[x] # NoPool /\ <<"pool", target[x]>> \in Jobs}}
    \cup {<<"ping", g>> : g \in {x \in Pingers : ping[x] = "run" /\ owner[x] # NoTask}}

NoJobLost == Awaited \subseteq running \cup {backlog[i] : i \in DOMAIN backlog}

\* What the threads have ahead of them is what somebody waits for: however often
\* pings are abandoned and wherever the heartbeat is cancelled, a job that was
\* given up never starts, each other one is in one place, and as a coroutine waits
\* for one job at a time there are no more of them than tasks.
Unrevoked == {i \in DOMAIN backlog : backlog[i] # Revoked}

OnlyAwaitedStart ==
  /\ Cardinality(Unrevoked) <= Cardinality(Tasks)
  /\ \A i, k \in Unrevoked : backlog[i] = backlog[k] => i = k
  /\ \A i \in Unrevoked : backlog[i] \in Awaited \ running
  /\ running \subseteq Jobs
=============================================================================
