--------------------------- MODULE PoolLifecycle ---------------------------
(***************************************************************************)
(* What app/db/nebula_pool.py promises about ConnectionPool objects,       *)
(* without locks, tasks, threads or time.  A pool is built, published,     *)
(* retired and closed, in that order and once each; the next one is built  *)
(* only when nothing is left of the previous one; and only the published   *)
(* pool is ever vouched for.                                               *)
(***************************************************************************)
CONSTANT PoolIds

VARIABLES life,   \* the stage every pool object is in
          fit     \* is the published pool vouched for?

Stages == {"none", "building", "published", "retiring"}

LifeTypeOK == life \in [PoolIds -> Stages] /\ fit \in BOOLEAN

LifeInit == life = [p \in PoolIds |-> "none"] /\ fit = FALSE

MoveTo(p, from, to) == life[p] = from /\ life' = [life EXCEPT ![p] = to]

\* create_nebula_pool begins.
Build(p) ==
  /\ \A q \in PoolIds : life[q] = "none"
  /\ MoveTo(p, "none", "building")
  /\ fit' = fit

\* pool.init answers False.
BuildFails(p) == MoveTo(p, "building", "none") /\ fit' = fit

Publish(p) == MoveTo(p, "building", "published") /\ fit' = TRUE

\* mark_pool_unhealthy: nothing is taken away, only the trust.
Condemn == fit' = FALSE /\ life' = life

\* reinit_nebula_pool or close_nebula_pool takes the pool out of service.
Retire(p) == MoveTo(p, "published", "retiring") /\ fit' = FALSE

\* pool.close is over.
Close(p) == MoveTo(p, "retiring", "none") /\ fit' = fit

LifeNext ==
  \/ Condemn
  \/ \E p \in PoolIds :
       Build(p) \/ BuildFails(p) \/ Publish(p) \/ Retire(p) \/ Close(p)

LifeSpec == LifeInit /\ [][LifeNext]_<<life, fit>>
=============================================================================
