----------------------------- MODULE PathService -----------------------------
(***************************************************************************)
(* The service: the endpoints of app/api and /health of app/main.py on top *)
(* of _with_healthy_session, the heartbeat of nebula_pool.py, and the      *)
(* pings of both, which run in executor threads and may be abandoned.      *)
(***************************************************************************)
EXTENDS HealthySession

CONSTANT Endpoints   \* what clients ask for: a subset of AllEndpoints

AllEndpoints == {"search", "unfiltered", "tree", "health"}

ASSUME EndpointAssumption == Endpoints \subseteq AllEndpoints

VARIABLES stage,   \* where the handler of each request is
          answer,  \* what its search or tree query brought
          resp,    \* the status it answers with
          hb,      \* where the heartbeat is
          ping,    \* each ping's job
          owner    \* the task waiting for that job

handlerVars == <<stage, answer, resp>>
pingVars == <<ping, owner>>
serviceVars == <<sessionVars, handlerVars, hb, pingVars>>

Stages == AllEndpoints \cup {"none", "searching", "naming", "growing",
                             "pinging", "done"}
NoAnswer == {"none", "raised"}

ServiceTypeOK ==
  /\ SessionTypeOK
  /\ stage \in [Requests -> Stages]
  /\ answer \in [Requests -> {"unasked"} \cup NoAnswer \cup Answers]
  /\ resp \in [Requests -> {0, 200, 404, 500, 503}]
  /\ hb \in [Background -> {"sleep", "look", "ping", "failed", "asked", "rest"}]
  /\ ping \in [Pingers -> {"free", "run", "up", "down"}]
  /\ owner \in [Pingers -> Callers \cup {NoTask}]

ServiceInit ==
  /\ SessionInit
  /\ stage = [t \in Requests |-> "none"]
  /\ answer = [t \in Requests |-> "unasked"]
  /\ resp = [t \in Requests |-> 0]
  /\ hb = [h \in Background |-> "sleep"]
  /\ ping = [g \in Pingers |-> "free"]
  /\ owner = [g \in Pingers |-> NoTask]

-----------------------------------------------------------------------------
\* ping_nebula: _run goes to the executor.  Pingers bounds the pings that are
\* not over; pings are alike, and any one that is free will do.
Free == {g \in Pingers : ping[g] = "free"}

StartPing(t) ==
  /\ Free # {}
  /\ LET g == CHOOSE x \in Free : TRUE
     IN  /\ ping' = [ping EXCEPT ![g] = "run"]
         /\ owner' = [owner EXCEPT ![g] = t]

PingEnds(g, result) ==
  ping' = [ping EXCEPT ![g] = IF owner[g] = NoTask THEN "free" ELSE result]

\* The thread: get_nebula_pool and get_session, the statement, the release.
PingConnects(g) ==
  /\ ping[g] = "run"
  /\ sess[g] = NoPool
  /\ \/ PingOpens(g) /\ UNCHANGED ping
     \/ ~CanServe(pool) /\ PingEnds(g, "down") /\ UNCHANGED vars
  /\ UNCHANGED <<callVars, handlerVars, hb, owner>>

PingExecutes(g) ==
  /\ ping[g] = "run"
  /\ PingEnds(g, IF CanExecute(g) THEN "up" ELSE "down")
  /\ PingCloses(g)
  /\ UNCHANGED <<callVars, handlerVars, hb, owner>>

\* Faulty variant of PingTimeout: the late answer still finds the task.
PingStaysAttached(t) ==
  /\ \A g \in Pingers : owner[g] = t => ping[g] = "run"
  /\ UNCHANGED pingVars

\* wait_for: the answer, or after the timeout False.
PingAnswer(t, result) ==
  \E g \in Pingers : /\ owner[g] = t
                     /\ ping[g] = result
                     /\ ping' = [ping EXCEPT ![g] = "free"]
                     /\ owner' = [owner EXCEPT ![g] = NoTask]

\* Nobody waits for these jobs any more: one that still is in the executor's
\* queue is cancelled, one that runs is left to itself.
Abandon(jobs) ==
  /\ owner' = [g \in Pingers |-> IF g \in jobs THEN NoTask ELSE owner[g]]
  /\ \E queued \in SUBSET {g \in jobs : ping[g] = "run" /\ sess[g] = NoPool} :
       ping' = [g \in Pingers |->
                  IF g \in queued \/ (g \in jobs /\ ping[g] # "run") THEN "free" ELSE ping[g]]

PingTimeout(t) ==
  /\ \A g \in Pingers : owner[g] = t => ping[g] = "run"
  /\ Abandon({g \in Pingers : owner[g] = t})

PingFails(t) == PingAnswer(t, "down") \/ PingTimeout(t)

-----------------------------------------------------------------------------
ToStage(t, from, to) == stage[t] = from /\ stage' = [stage EXCEPT ![t] = to]

Answer(t, from, status) ==
  /\ ToStage(t, from, "done")
  /\ resp' = [resp EXCEPT ![t] = status]

Keep(t) == answer' = [answer EXCEPT ![t] = outcome[t]]

\* Faulty variants: the names are read without the look at the flag; an
\* exception of the search is passed on with a status of its own.
SearchReturnsRushed(t) ==
  /\ loop = t
  /\ pc' = [pc EXCEPT ![t] = "pool"]
  /\ ToStage(t, "searching", "naming")
  /\ Keep(t)
  /\ UNCHANGED <<vars, attempt, job, outcome, resp, hb, pingVars>>

SearchReturnsOdd(t) ==
  /\ loop = t
  /\ pc[t] = "idle"
  /\ Answer(t, "searching", IF outcome[t] = "raised" THEN 502 ELSE 200)
  /\ Keep(t)
  /\ UNCHANGED <<sessionVars, hb, pingVars>>

\* A request comes in.
Receive(t) ==
  /\ Arrive(t)
  /\ \E e \in Endpoints : ToStage(t, "none", e)
  /\ UNCHANGED <<answer, resp, hb, pingVars>>

\* path_search with a start or a finish, get_child_tree: the first query.
CallSearch(t) ==
  /\ Call(t)
  /\ ToStage(t, "search", "searching") \/ ToStage(t, "tree", "growing")
  /\ UNCHANGED <<answer, resp, hb, pingVars>>

\* The search returned: None counts as {}.  The names are a call of their own,
\* with a session of its own.
SearchReturns(t) ==
  /\ loop = t
  /\ pc[t] = "idle"
  /\ Keep(t)
  /\ \/ /\ outcome[t] = "raised"
        /\ Answer(t, "searching", 500)
        /\ UNCHANGED sessionVars
     \/ /\ outcome[t] # "raised"
        /\ ToStage(t, "searching", "naming")
        /\ Call(t)
        /\ UNCHANGED resp
  /\ UNCHANGED <<hb, pingVars>>

\* Missing names are null; an exception ends in the 500 handler.
NamesReturn(t) ==
  /\ loop = t
  /\ pc[t] = "idle"
  /\ Answer(t, "naming", IF outcome[t] = "raised" THEN 500 ELSE 200)
  /\ UNCHANGED <<sessionVars, answer, hb, pingVars>>

\* path_search without start and finish: no results, no nodes, no query.
Unfiltered(t) ==
  /\ loop = t
  /\ Answer(t, "unfiltered", 200)
  /\ UNCHANGED <<sessionVars, answer, hb, pingVars>>

TreeReturns(t) ==
  /\ loop = t
  /\ pc[t] = "idle"
  /\ Answer(t, "growing", CASE outcome[t] = "value" -> 200
                            [] outcome[t] = "raised" -> 500
                            [] OTHER -> 404)
  /\ Keep(t)
  /\ UNCHANGED <<sessionVars, hb, pingVars>>

HealthPings(t) ==
  /\ Rest(t)
  /\ ToStage(t, "health", "pinging")
  /\ StartPing(t)
  /\ UNCHANGED <<answer, resp, hb>>

HealthAnswers(t) ==
  /\ Arrive(t)
  /\ \/ PingAnswer(t, "up") /\ Answer(t, "pinging", 200)
     \/ PingFails(t) /\ Answer(t, "pinging", 503)
  /\ UNCHANGED <<answer, hb>>

Finish(t) ==
  /\ Rest(t)
  /\ ToStage(t, "done", "none")
  /\ resp' = [resp EXCEPT ![t] = 0]
  /\ answer' = [answer EXCEPT ![t] = "unasked"]
  /\ UNCHANGED <<hb, pingVars>>

QueryStep(t) == SessionStep(t) /\ UNCHANGED <<handlerVars, hb, pingVars>>

HandlerStep(t) ==
  \/ CallSearch(t)
  \/ SearchReturns(t)
  \/ NamesReturn(t)
  \/ Unfiltered(t)
  \/ TreeReturns(t)
  \/ HealthPings(t)
  \/ HealthAnswers(t)
  \/ Finish(t)

-----------------------------------------------------------------------------
HbTo(h, from, to) == hb[h] = from /\ hb' = [hb EXCEPT ![h] = to]

\* asyncio.sleep is over.
HbWakes(h) ==
  /\ BackgroundWakes(h)
  /\ HbTo(h, "sleep", "look")
  /\ UNCHANGED <<handlerVars, pingVars>>

\* Without a pool there is nothing to ping: back to sleep.
HbLooks(h) ==
  /\ Yield(h)
  /\ UNCHANGED <<callVars, handlerVars>>
  /\ \/ pool = NoPool /\ HbTo(h, "look", "sleep") /\ UNCHANGED pingVars
     \/ pool # NoPool /\ HbTo(h, "look", "ping") /\ StartPing(h)

HbHears(h) ==
  /\ BackgroundWakes(h)
  /\ \/ PingAnswer(h, "up") /\ HbTo(h, "ping", "rest")
     \/ PingFails(h) /\ HbTo(h, "ping", "failed")
  /\ UNCHANGED handlerVars

HbAsks(h) ==
  /\ CallEnsure(h)
  /\ HbTo(h, "failed", "asked")
  /\ UNCHANGED <<callVars, handlerVars, pingVars>>

HbAsked(h) ==
  /\ EnsureReturns(h)
  /\ HbTo(h, "asked", "rest")
  /\ UNCHANGED <<callVars, handlerVars, pingVars>>

HbSleeps(h) ==
  /\ Yield(h)
  /\ HbTo(h, "rest", "sleep")
  /\ UNCHANGED <<callVars, handlerVars, pingVars>>

HeartbeatStep(h) == HbLooks(h) \/ HbHears(h) \/ HbAsks(h) \/ HbAsked(h) \/ HbSleeps(h)

-----------------------------------------------------------------------------
\* uvicorn lets the handlers finish; the heartbeat is cancelled where it is.
ServiceShutdown ==
  /\ SessionShutdown
  /\ \A t \in Requests : stage[t] = "none"
  /\ hb' = [h \in Background |-> "sleep"]
  /\ Abandon({g \in Pingers : owner[g] # NoTask})
  /\ UNCHANGED handlerVars

Below == UNCHANGED <<handlerVars, hb, pingVars>>

\* What happens on the event loop, in executor threads, and outside.
LoopNext ==
  \/ \E t \in Requests : Receive(t) \/ HandlerStep(t) \/ QueryStep(t)
  \/ \E h \in Background : HbWakes(h) \/ HeartbeatStep(h)
  \/ \E t \in Tasks : ManagerStep(t) /\ Below
  \/ ServiceShutdown
  \/ SessionLifespan /\ Below

QueryThread(t) == JobRuns(t) /\ Below
PingThread(g) == PingConnects(g) \/ PingExecutes(g)
PoolJob(p) == ThreadStep(p) /\ Below

ServiceNext ==
  \/ LoopNext
  \/ \E t \in Requests : QueryThread(t)
  \/ \E g \in Pingers : PingThread(g)
  \/ \E p \in PoolIds : PoolJob(p)
  \/ Environment /\ UNCHANGED callVars /\ Below

ServiceSpec == ServiceInit /\ [][ServiceNext]_serviceVars

\* Everything a coroutine does once it has been started.
RequestTask(t) == HandlerStep(t) \/ QueryStep(t) \/ (ManagerStep(t) /\ Below)

HeartbeatTask(h) == HbWakes(h) \/ HeartbeatStep(h) \/ (ManagerStep(h) /\ Below)

-----------------------------------------------------------------------------
\* The endpoints use the pool only through _with_healthy_session, and the
\* heartbeat only as HealthySession's background task.
ImplementsSession == SessionSpec

\* Every request is answered and the heartbeat always goes back to sleep,
\* although a ping may outlast its caller and a lock be held during a re-init.
RequestsAnswered == \A t \in Requests : stage[t] # "none" ~> stage[t] = "none"

HeartbeatGoesOn == \A h \in Background : hb[h] # "sleep" ~> hb[h] = "sleep"

\* A task waits for at most one ping, only while it is pinging, and no answer
\* of an abandoned ping is ever taken for that of a later one.
OneAnswerPerPing ==
  \A g \in Pingers : owner[g] # NoTask =>
    /\ \/ owner[g] \in Requests /\ stage[owner[g]] = "pinging"
       \/ owner[g] \in Background /\ hb[owner[g]] = "ping"
    /\ \A g2 \in Pingers : owner[g2] = owner[g] => g2 = g

\* TECHNICAL_SPEC.md: a database that cannot be reached is answered with 503.
UnavailableIs503 ==
  \A t \in Requests : stage[t] = "done" /\ answer[t] = "none" => resp[t] = 503

\* Once the server stays reachable, a client that keeps asking ends up with a
\* trusted pool, whatever happened before and whatever the heartbeat does.
TrafficHeals ==
  <>[]dbUp /\ (\A t \in Requests : []<>(pc[t] = "top")) => <>[]Usable
=============================================================================
