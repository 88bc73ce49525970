# Verification of the MCP Path Service

The service under `src/app` answers path and hierarchy queries over HTTP from a
NebulaGraph database. It is one Python process: FastAPI handlers and a heartbeat
share one asyncio event loop, one `ConnectionPool` of the nebula3 library and
one `ThreadPoolExecutor` in which everything that blocks runs. The modules here
model that program in TLA+, TLC checks them on small instances, and TLAPS proves
every safety property the passing runs check but one, and that the layers of the
service implement each other, for every value of the constants.

    tlc -config MCNebulaPool.cfg MCNebulaPool      # model-check a module
    tlapm NebulaPool_proofs.tla                    # check the proofs

`PROJECT.json` lists the runs, the source lines behind every definition, the
hazards, the mutants that show that each property can fail, and the findings.

## 1. Inventory

| Component | Code | State | Operations | What makes it correct |
|---|---|---|---|---|
| Pool manager | `app/db/nebula_pool.py` | `_nebula_pool`, `_pool_healthy`, `_last_reinit_at`, `_reinit_async_lock` | `create_`, `reinit_`, `ensure_healthy_`, `mark_..._unhealthy`, `close_nebula_pool` | the flag never vouches for a pool that is not open; one re-init at a time; one pool with connections at a time; none forgotten, no fit one replaced; a verdict is still true when it is used |
| nebula3 client (external) | used by `app/db` | pools, sessions, the server | `init`, `close`, `get_session`, `release`, `execute` | assumed, see section 7 |
| Healthy sessions | `_with_healthy_session` in `app/db/nebula_queries.py` | local: attempt, session, result | look at the flag, ensure, get a session, run, condemn, retry, release | sessions come from trusted pools and always go back; a retry never uses the pool that failed; every call ends |
| Heartbeat and pings | `heartbeat`, `ping_nebula` | local; ping threads | sleep, ping with a timeout, ensure | it never stops; a late answer is never taken for a later one |
| HTTP endpoints | `app/api`, `/health` and the 500 handler in `app/main.py` | per request | search then names; tree; ping | every request is answered, with the status that was promised |
| Lifespan | `app/main.py` | `_heartbeat_task` | boot, cancel, close | nothing is left behind |
| Child tree | `_fetch_child_tree_from_nebula_sync` | `visited`, recursion, result | one statement per node | a tree, complete where the server answered, on every hierarchy |
| Path search queries | `_execute_experiment_search_sync` and the one-hop searches | local dictionaries | statements, loops over rows | exactly the paths of each document, each with the parts of its own edges; a rejected statement costs a document or nothing; nothing invented while others change the graph |
| Node names | `fetch_nebula_node_names` | `result` | batch, fallback, single lookups | every end of a segment has its own name or none |
| Path assembly | `path_search` from line 89 | `combo_group_map` | resolve edges, combine, group, sort, cut | groups are exact, the best are kept |
| Executor | `_db_executor` | threads, a queue | submit, run, cancel | no awaited job is lost, a revoked one never starts |
| Request logging | `app/core/logging.py` | `request_id_var` | wrap `receive`/`send` | the body reaches the handler whole; ids do not mix; one true access line per request |
| Schemas, settings, deployment | `app/schemas`, `app/core/config.py`, Docker files | none | none | declarations |

How they interact: a handler calls a `fetch_...`/`execute_...` function, which
calls `_with_healthy_session`, which reads the flag, may await
`ensure_healthy_pool` (the only place with a lock), calls `get_session` on the
event loop and awaits the executor. The heartbeat calls `ping_nebula` and
`ensure_healthy_pool`. The lifespan creates the first pool, cancels the
heartbeat and closes the last pool. Ping threads read `_nebula_pool` from outside
the event loop.

Hard behaviours: the two globals of the pool manager are written around two
awaits; a session outlives the pool it came from; every failure condemns
whatever pool is published at that moment; the cooldown refuses re-inits; ping
threads outlive their `wait_for`, and their entries in the executor's queue outlive them; shutdown cancels a task in the middle of an
init; the hierarchy may have cycles and change under the walk; documents reach
the same group along several ways. Each is in `hazards` with its line.

## 2. Modules

    PoolLifecycle                what is promised about pool objects
        ^ implemented by
    NebulaPool     (EXTENDS ConnectionPool, the external library)
        ^ implemented by
    HealthySession (EXTENDS NebulaPool)
        ^ implemented by
    PathService    (EXTENDS HealthySession)
    DbExecutor     (EXTENDS PathService)        the whole service

    InterfaceGraph <- PathSearch  ... delivers the initial states of ...  PathAssembly <- PathAnswer

    ChildTree                    RequestLogging

`NebulaPool`, `HealthySession`, `ChildTree`, `PathSearch` and `RequestLogging` have
their proofs in a module with `_proofs` appended to the name; `DbExecutor_proofs` has
those of `PathService` and `DbExecutor`, `PathAnswer_proofs` those of `PathAssembly` and
`PathAnswer`. `FiniteFacts` holds the lemmas about finite sets, orders and sequences
that several of them cite.

**ConnectionPool** (external). `poolSt[p]` is the life of a pool object, `sess[h]`
the pool whose session a holder has, `dbUp` whether the server can be reached.
Identities of unreachable objects are used again, as in CPython, which makes the
model finite without a bound on re-inits.

**NebulaPool**. `pool`, `healthy` are the two globals; `elapsed` is the time since
`_last_reinit_at`, up to the cooldown, after which more time makes no
difference; `lockQueue` is the `asyncio.Lock`: the holder, then the waiters in
order; `epc[t]` is where a task is between two awaits or at one; `loop` is the
task that has the event loop. A piece of code between two awaits may be several
actions, but `loop` keeps other coroutines out until the task suspends, while the
thread actions (`InitRuns`, `CloseRuns`, `PingOpens`, `PingCloses`) interleave
everywhere. `EnsureEnter`, `LockGranted`, `EnsureRecheck`, `ReinitStart`,
`CloseDone`, `CreatePool`, `PoolCreated`, `EnsureLeave` follow
`ensure_healthy_pool`, `reinit_nebula_pool` and `create_nebula_pool` in the order
of their awaits; `Boot`, `Booted`, `BeginShutdown`, `ClosePool`, `Stopped` are the
lifespan. `BeginShutdown` cancels the background task wherever it is: its lock is
released and its executor job goes on unobserved. The client is the most general
one: a task with the loop may call anything.

**HealthySession** puts the calls of that client in the order of
`_with_healthy_session`. `pc` is the line a request is at, `job` its query in the
executor. A statement the server rejects is an answer (`"rejected"`), since the
sync functions return an empty result for it; a lost connection is an `"error"`;
a request in `Poison` has a query that may fail of itself, with the server up.
`get_session` is outside the `try`, so what it raises ends the call.

**PathService** puts the handlers, `/health`, the heartbeat and the ping threads on
top. A ping belongs to its `owner` until the answer or the timeout (`Abandon`);
after the timeout the thread goes on alone. A job may run as soon as it is submitted.
`StartPing` always submits, as `ping_nebula` does: the set `Pingers` bounds how many
pings are not over, and with all of them on their way nobody begins another
(`service`, with two for two callers). Where that would hide something, in the runs
of the executor, there are as many as its threads can hold abandoned ones and tasks
can wait for (`EnoughPingers`), so that the bound is never met.

**DbExecutor** adds the executor: `backlog` is its queue, `running` what its
`Threads` are at. Queries, `pool.init`, `pool.close` and pings go through it
(`Jobs`). `Booked` says what a step of the event loop does to the queue: new jobs
go to its end, and the entry of a job whose awaiting coroutine timed out or was
cancelled is marked (`Revoked`), unless a thread already has it. The entry stays where
it is: `Future.cancel` takes nothing out of the queue, and the thread that gets to it
(`ThreadTakes`) discards it. So the queue does grow while threads hang. Nothing in the
code bounds it; the model begins no request and no heartbeat with more than
`MaxBacklog` entries in it (`Begins`). This is the service as it runs, and the module
where fairness is stated.

**InterfaceGraph** is the database as the searches see it: the edges of each
document with their direction, parts and date, and what a path in it is.
**PathSearch** runs `_execute_experiment_search_sync` and the one-hop searches
over it, one action per statement (`FetchStart`, `StartEdges`, `FinishEdges`,
the path query, `AskEdge` for the parts on an edge, the rows of a one-hop search
forwards and backwards). Between two statements others may change the graph, so
`db` keeps its history; any statement may be rejected and any connection break,
after which the query starts anew on a new session (`ConnectionLost`).

**PathAssembly** takes documents and their paths in any order and keeps
`combo_group_map` with its order of insertion, on which the stable sort depends.
`DeliversInput` shows that every result of `PathSearch` is an initial state of it.
**PathAnswer** looks the names up before the groups are built: the batch, the
fallback to single lookups when it is rejected, the retry when the connection
breaks, and the names at both ends of every segment. A module and a component are
treated alike by the code; one *part* stands for both.

**ChildTree** has the recursion as the stack of its frames. The hierarchy is an
arbitrary relation that others may change between two statements.

**RequestLogging** is both middlewares around the handlers of several requests on
one loop: `RequestBodyLoggingMiddleware` reads the body to its end and gives it
back (`ReadChunk`, `ReadLast`), `RequestIdMiddleware` sets the context's id and
writes the access line (`Enter`, `Finish`), and an exception is answered outside of both
(`Escape`). A header that cannot be decoded raises before the id is set and outside
of the `try`: it is answered outside, too, and without any access line (`Refuse`).
`Unasked` says which answers need no query: a search without systems, a tree without
`rsm_id`, `/health`.

Operators grouped as *faulty variants* belong to no specification. Each is a
plausible slip in the action of which it is a variant, and shows that a property
would notice it.

## 3. Runs

| Run | Bounds | Shows |
|---|---|---|
| `pool` | 3 tasks, 1 ping thread, 5 pool identities, 1 session per pool, cooldown 1 | types, the six promises of `NebulaPool` (with `FitPoolKept`), `IInv`, and `ImplementsLifecycle` |
| `session` | 2 requests (one with a query that may fail of itself), 1 ping thread, 4 identities, 2 sessions, 1 retry | `RetryIsFresh`, `SessionsReturned`, `SessionsFromHealthyPool` |
| `service` | 1 request to any of the four endpoints, the heartbeat, 2 ping threads, 4 identities, 1 session per pool, no retry | `OneAnswerPerPing`, `ImplementsSession` |
| `executor` | 1 request to the tree, the heartbeat, 3 pings, 1 executor thread, 1 retry, 2 entries in the queue | `OnlyAwaitedStart`, `NoJobLost`; under fairness `RequestsAnswered`, `HeartbeatGoesOn`, `TrafficHeals` |
| `tree` | every hierarchy of 3 nodes, 1 change | `IsTree`, `DepthBounded`, `CompleteBelowAnswers`, `WalkEnds` |
| `search` | 4 graphs over 4 systems and 2 documents, at most 2 changes of the graph, 1 retry, rejected statements | `SearchExact`, `WholeOrAbsent`, `OneHopExact`, `NothingInvented`, `DeliversInput` |
| `answer` | 2 documents, paths with one and two edges, 2 dates, all sort orders, cuts at 1 and 2, 1 rejected lookup, 1 retry | `GroupsExact`, `BestKept`, `NamesBelong` |
| `logging` | 2 requests to three routes, bodies of up to 2 messages, one id given by a client, one header that is not UTF-8 | `BodyIntact`, `NoForeignId`, `AccessLineTrue`, `EveryRequestLogged` |

Four more runs are meant to end in a violation; see section 4.

Why the bounds are enough. Two tasks are needed for every race at the lock and
for the condemnation of one request's pool by another; the third makes a waiter
behind a waiter. A pool identity is only needed while an object is reachable: one
per holder of a session and one for the manager, so the number given never blocks
`CreatePool`. One tick of cooldown separates "inside" from "outside". One retry
has a first and a last attempt, with the repair between them. One executor thread
is the sharpest competition: a query, the work on a pool and three pings for it, one
of which may have the thread and be abandoned. `MaxBacklog` leaves room for a revoked
entry in front of the jobs of the request and of the heartbeat when either begins anew.
Three nodes have cycles of length one to three, shared children and chains. The graphs of
`MCPathSearch` have parallel and opposite edges, an edge without parts, a document
without a path, and paths at the depth limit; the two changes put one between any
two statements and undo it. The paths of `MCPathAnswer` have one and two edges,
both directions, and none, one and two combinations; `Nameless` are the nodes the
database has no name for.

Bounds in guards: `MaxChanges` (how often others change the hierarchy or the
graph), `MaxRejections` (rejected name lookups), `MaxBacklog`
(entries in the executor's queue when a request or the heartbeat begins), `Pingers`
(pings that are not over); `COOLDOWN` caps `elapsed`. `MAX_PATH_DEPTH` and
`DB_RETRY_COUNT` are the program's own.

`CHECK_DEADLOCK FALSE` is set where the modelled computation ends (`ChildTree`,
`PathSearch`, `PathAnswer`, `RequestLogging`) and for `executor`, where the process
stops at shutdown.

### Fairness

Stated in `DbExecutor`. asyncio resumes ready tasks in order, so
a coroutine that is ready again and again runs: strong fairness of each
coroutine's steps; timers go off and the clock advances (`LoopFairness`). A free
thread takes the oldest entry, and a thread ends the job it has, because connecting
and executing have timeouts (`_build_config`): weak fairness (`ThreadFairness`).
`FairExecSpec` has both. Nothing is assumed of arrivals, the
server or shutdown. `TrafficHeals` assumes a reachable server and a client that
keeps calling, and is checked for one request at a time: with two, a query that
outlives the cooldown can condemn the fresh pool again and again, which is the
behaviour `CondemnsOwnPool` shows. `ChildTree` and `RequestLogging` only assume that
the walk and the tasks go on.

## 4. Where code and documents disagree

| Run | What the code does | What is said |
|---|---|---|
| `condemns` | a failure on the old pool condemns the new one | `nebula_queries.py:22`, mark *the* pool, retry on a fresh session |
| `unavailable` | no database is 200 with no paths, or 404 for a tree | `docs/TECHNICAL_SPEC.md:376`, 503 |
| `segments` | on an edge that is walked backwards the part given for a filter is put on the system next to it on the path, whichever end of the edge that is: the finish filter's on the destination of a backward last edge, the start filter's on the source of a backward first one | `docs/api-v3-paths.yaml:255` and `:301`, source is the consumer's side of the edge and destination the provider's |
| `line_ids` | the body line has no request id | `README.md:403`, a request id for every request |

The model has one more way in which a request leaves no line with its id, which the
same sentence would not allow: an `x-request-id` that is not UTF-8 (`Refuse`, section 2).
`EveryRequestLogged` excepts it.

## 5. Proofs

Everything below is proved for every value of the constants: any set of requests,
heartbeats, pools, ping threads, any number of executor threads, retries and
sessions, any cooldown, any finite hierarchy, any finite graphs, filters, documents
and paths, any limits.

| Module | Theorem | Statement |
|---|---|---|
| `NebulaPool_proofs` | `Invariance` | `Spec => [](TypeOK /\ IInv)` |
| | `TypeCorrect`, `FlagIsTrue`, `VerdictHolds`, `Exclusion`, `OnePoolAtATime`, `NothingForgotten` | `TypeOK`, `HealthyIsOpen`, `VerdictNotStale`, `ReinitExclusive`, `OneLivePool`, `NoOrphanPool` |
| | `FitPoolStays` | `Spec => FitPoolKept`: only a condemned pool is replaced |
| | `Refinement` | `NebulaPool` implements `PoolLifecycle` |
| `HealthySession_proofs` | `SessionOverPool` | `HealthySession` implements `NebulaPool` |
| | `SessionTypes`, `FreshRetry`, `NoSessionLeaks`, `TakesFromHealthy` | `SessionTypeOK`, `RetryIsFresh`, `SessionsReturned`, `SessionsFromHealthyPool` |
| `DbExecutor_proofs` | `ServiceOverSession` | `PathService` implements `HealthySession` |
| | `ServiceTypes`, `NoLateAnswer` | `ServiceTypeOK`, `OneAnswerPerPing` |
| | `NoJobIsLost`, `RevokedNeverStarts` | `NoJobLost`, `OnlyAwaitedStart` |
| | `WholeService` | the promises of all layers hold of the service with its executor (`ExecSpec`) |
| `ChildTree_proofs` | `WalkTypes`, `AnswerIsTree`, `RecursionBounded`, `NoChildMissing` | `TypeOK`, `IsTree`, `DepthBounded`, `ChildrenComplete` |
| | `AnswerComplete` | `CompleteBelowAnswers` |
| `PathSearch_proofs` | `SearchTypeCorrect`, `PathsWereThere` | `SearchTypeOK`, `NothingInvented` |
| | `SearchIsExact`, `OneHopIsExact` | `SearchExact`, `OneHopExact` |
| | `ResultsAreInput` | `DeliversInput`: a result is an initial state of `PathAssembly` |
| `PathAnswer_proofs` | `GroupsAreExact`, `BestAreKept` | `GroupsExact`, `BestKept` |
| | `NamesAreOwn` | `NamesBelong` |
| | `AnswerIsAssembly` | `PathAnswer` implements `PathAssembly`, whose promises hold of it |
| `RequestLogging_proofs` | `LoggingTypes`, `BodiesIntact`, `NoIdLeaks`, `AccessIsTrue` | `TypeOK`, `BodyIntact`, `NoForeignId`, `AccessLineTrue` |

They use the named assumptions on the constants (`TaskAssumption`,
`HolderAssumption`, `RequestAssumption`, `RootAssumption` and so on), which TLC
evaluates in the runs. Those that say more than which sort of thing a constant is:

- `FiniteAssumption` (`DbExecutor`): a process has finitely many tasks, ping threads
  and pool objects;
- `GraphsAssumption` (`InterfaceGraph`): a database has finitely many systems, parts
  and edges, and an edge has a document, a date and two ends;
- `FiltersAssumption` (`PathSearch`): a filter names a system or none, and a part or none;
- `PathsAssumption` (`PathAssembly`): a path has at least one node and finitely many
  combinations on each edge.

**The pool manager.** The promises of `NebulaPool` are not inductive by themselves.
That two pools are never live depends on who may create one, which depends on who
holds the lock, which depends on no other coroutine running between the awaits.
`IInv` says all of it:

- `Baton`: who is between two awaits has the event loop;
- `Phases`: callers are only active while the service serves, the lifespan only before and after;
- `ReinitExclusive`: who is inside the manager is at the head of the lock's queue;
- `Targets`: a task that waits for the executor waits for a pool in the matching state, and nobody else has one in hand;
- `Published`: a published pool is open, and none is published while one is being replaced;
- `CleanSlate`: when a pool is about to be created, none is live;
- and the promises `OneLivePool`, `NoOrphanPool`, `VerdictNotStale`.

`TypeOK` needs `IInv`, too: leaving the lock takes the tail of `lockQueue`, which is
a sequence only because the queue is not empty then. `IInv` was checked by TLC
first, and still is, in `pool`. `FitPoolKept` rests on the second look at the flag after the lock
was granted: a task that is about to re-init has looked since it got the loop, and by
`Baton` nobody has run in between (`Condemned`). `Refinement` maps the pools' states, which pool is
published, and the flag to the two variables of `PoolLifecycle`; `CleanSlate` and
`Published` give the abstract guards.

**The chain.** Each layer extends the variables of the one below, so the refinement
mapping is the identity, and the proof shows for each action which action below it
is, or that it stutters there. Invariants are inherited along the chain:
`CallInvariance` starts from `Invariance`, `ServiceInvariance` from `CallInvariance`,
and `WholeService` collects them.

**The calls.** `CallInv` adds what makes retries fresh and verdicts usable: a
request is inside `ensure_healthy_pool` only where it awaits it
(`InsideOnlyAsked`), it keeps the loop from its look at the flag to `get_session`
(`LooksAndTakes`), no session refers to a pool that is being initialised
(`FreshTargets`), and attempts are left when a new one starts (`AttemptsLeft`).
Everybody else's steps are handled at once: they leave a request's session and
flag alone (`LeavesRequests`) and raise the flag only for a pool that was just built
(`TrustsOnlyNew`), which by `FreshTargets` is not the one that failed.

**Handlers and pings.** `ServiceInv` adds that a request in no call has its
outcome, and that who owns a ping is pinging.

**The executor.** A step of the executor is a step of `PathService` or leaves its
variables alone, so that `ServiceInv` and what is below it hold there as well.
`ExecInv` says what the queue is: revoked entries, and exactly the awaited jobs that no
thread has, each of them once. It is kept because of what a step of the event loop
can do to a job (`LoopJobs`): it never ends one that runs, it awaits what it submits,
and it stops awaiting only what `Booked` revokes. That is shown for each kind of
job: for queries (`QueryMoves`), pings (`PingMoves`) and, with `Targets` and
`Published` of the pool manager, for the work on pools (`PoolMoves`). How many entries
are not revoked is bounded by an injection of their jobs into the tasks that wait for
them; it needs that a task waits for one job at a time (`OneWait`: a query runs only
inside a call, a handler in a call is not pinging, the heartbeat is in
`ensure_healthy_pool` only where it asked for it). The number of revoked entries has no
bound.

**The walk.** `WalkInv` says that the nodes of the tree are the visited ones
(`SeenIsFound`), that each frame has visited a node of its own (`DepthOfVisited`) and
that, while nobody changes the hierarchy, a child that is not visited yet is a row
its parent's frame still has (`NothingSkipped`). For `AnswerComplete`, `ReachInv` adds
that on an unchanged hierarchy what was found can be reached from the root. That
nothing else is missing is an argument about closed sets: the found nodes, together
with what can be reached from the refused ones, are closed under children, and what can
be reached from the root is in every closed set that has the root (`ReachIsClosure`).
This rests on an induction over the levels of the hierarchy. The library's induction
rules take an operator and cannot be used here; its rule that a non-empty set has a
minimal member (`WFMin`) can, so the induction is written as "take a smallest
counterexample" (`SetInduction`).

**The search.** `SearchInv` collects the types (`Types`), where the search can be with
what in hand (`Control`, `Shape`) and that whatever it holds was in the graph at some
time (`AllThere`, which gives `NothingInvented`). Exactness is a statement about the
whole run: as long as every statement so far was accepted and the graph stood still,
the dates read so far are the latest ones (`DatesKnown`), each path found has the parts
of its own edges (`FoundReal`, `InHandReal`), and of a document that was looked at
nothing is missing but the rows in hand (`Covers`). `Progress` collects this. At the end
no rows are in hand, which is `SearchExact`; `HopsExact` does the same for the one-hop
searches, direction by direction.

**The groups.** `GroupsExact` is inductive with the types of the data: a path adds
its document to the groups of its keys (`WithGrows`) and to no others. The stable sort
of `_build_path_groups` is given by the place of each group, the number of groups that
come before it (`Precedes`, `Place`). In a strict order of a finite set each place is
taken by one member (`RanksTaken`), so that `Sorted` is a sequence with each group in
it once and in order (`SortedIsSorted`), and the first ones are the best
(`FirstAreBest`, `BestAreKept`).

**The names.** `NamesInv` follows the lookup: what is found is right and what is left
is still to be asked for, so that at the end every wanted node has its name or is
nameless or silent (`Settled`). Every end in a group's key is a wanted node
(`EndsAsked`), because path and nodes are noted in the same step.

**Request logging.** `LoggingInv` relates, request by request, how much of the body
was read, which id its context has and whether its access line was written; a step
of one request leaves the others' alone (`OthersKept`).

Only model-checked: liveness (`RequestsAnswered`, `HeartbeatGoesOn`, `TrafficHeals`,
`WalkEnds`, `EveryRequestLogged`), because the prover has no fairness or `ENABLED`;
`WholeOrAbsent`, which is about rejected statements, where the argument of
`Progress` stops; and the four violations of section 4. Every other property of the
passing runs is a theorem. One definition has the form it has for the sake of the
proofs, and means what the code does: `Sorted` counts places instead of calling a
sorting operator, because nothing can be proved here about the library's `SetToSortSeq`.

## 6. Plan

Written, in this order: ConnectionPool, NebulaPool, PoolLifecycle, HealthySession,
PathService, ChildTree, PathAssembly, DbExecutor, InterfaceGraph, PathSearch,
PathAnswer, RequestLogging, and the proofs. What would add most next:

1. The safety half of the liveness properties as theorems: a measure that every step of
   the walk, of a call and of a search decreases, so that each of them can take only
   finitely many steps between two changes of its surroundings.
2. `WholeOrAbsent` as a theorem: a form of `Progress` for the documents something was
   found of, whatever was rejected for others.
3. Runs of the executor with two requests, and with requests to /health beside those to
   the tree, which under fairness are larger than a few minutes of TLC allow; the safety
   part is proved for any number and all endpoints.
4. A run without `ThreadFairness`: a task that pings gets on by `wait_for` alone.
5. Labels, descriptions and dates of `ChildTree`, if a property needs them.

## 7. What is not modelled

- The inside of nebula3: `get_session` on a condemned but open pool is assumed to
  succeed when the server is up, a connection is left and the pool is open; a pool
  whose `init` fails is assumed to leave nothing open. `id($$)` in the one-hop
  statements is taken to be the other end of the traversed edge.
- The inside of `concurrent.futures`: its queue is first in, first out; cancelling a
  future that is queued marks its entry, which the thread that gets to it skips, and one
  that runs is not cancelled. The queue has no bound; the model's is `MaxBacklog`.
- Groups without a date: the first part of the key of the descending order
  (`v3/paths.py:281`) tells them from the others, but every document that is found has
  the date of its edges (`DeliversInput`, `SearchTypeOK`).
- Time, but for the cooldown and the order of timeout and answer. A call that
  blocks the event loop is one step.
- Module and component are one *part*; a vertex is its `rsm_id`; the single lookups
  of names after a rejected batch are one step (`AskOneByOne`).
- Parsing of rows, names, dates and labels; wording of statements and log lines.
- Schemas and settings (`app/schemas`, `app/core/config.py`): declarations; the
  settings that matter are CONSTANTS. Deployment: Docker files.
- Hazards without a property say why in `PROJECT.json`.
