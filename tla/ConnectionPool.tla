--------------------------- MODULE ConnectionPool ---------------------------
(***************************************************************************)
(* The nebula3 client library as app/db uses it: ConnectionPool objects,   *)
(* the sessions taken from them and the NebulaGraph server behind them.    *)
(* The library is not part of the repository; every definition below says  *)
(* only what nebula_pool.py and nebula_queries.py rely on.                 *)
(*                                                                         *)
(* A ConnectionPool object is an element of PoolIds.  An identity whose    *)
(* object nobody can reach any more may be given to a new object, so the   *)
(* model is finite although the program creates pools without end.         *)
(***************************************************************************)
EXTENDS Naturals, FiniteSets

CONSTANTS PoolIds,      \* identities of ConnectionPool objects
          NoPool,       \* None
          Callers,      \* coroutines that may hold a session
          Pingers,      \* executor threads that run ping_nebula's _run
          MaxSessions,  \* DB_POOL_MAX_SIZE
          Outages       \* may the server be out of reach?

Holders == Callers \cup Pingers

ASSUME HolderAssumption == Callers \cap Pingers = {}
ASSUME NoPoolAssumption == NoPool \notin PoolIds
ASSUME MaxSessionsAssumption == MaxSessions \in Nat
ASSUME OutagesAssumption == Outages \in BOOLEAN

VARIABLES poolSt,   \* life of each ConnectionPool object
          sess,     \* the pool whose session a holder has, or NoPool
          dbUp      \* can the server be reached?

poolVars == <<poolSt, sess, dbUp>>

PoolStates == {"unused", "initing", "open", "dead", "closing", "closed"}

PoolTypeOK ==
  /\ poolSt \in [PoolIds -> PoolStates]
  /\ sess \in [Holders -> PoolIds \cup {NoPool}]
  /\ dbUp \in BOOLEAN

PoolInit ==
  /\ poolSt = [p \in PoolIds |-> "unused"]
  /\ sess = [h \in Holders |-> NoPool]
  /\ dbUp \in IF Outages THEN BOOLEAN ELSE {TRUE}

\* The objects that no session refers to and whose work is over.
Reusable == {p \in PoolIds : /\ poolSt[p] \in {"unused", "dead", "closed"}
                             /\ \A h \in Holders : sess[h] # p}

-----------------------------------------------------------------------------
\* pool.init: it connects its minimum of connections, so it needs the server.
InitRuns(p) ==
  /\ poolSt[p] = "initing"
  /\ poolSt' = [poolSt EXCEPT ![p] = IF dbUp THEN "open" ELSE "dead"]
  /\ UNCHANGED <<sess, dbUp>>

\* pool.close: closes every connection, those in use included.
CloseRuns(p) ==
  /\ poolSt[p] = "closing"
  /\ poolSt' = [poolSt EXCEPT ![p] = "closed"]
  /\ UNCHANGED <<sess, dbUp>>

\* get_session succeeds on an open pool that has a connection left and can
\* authenticate; otherwise it raises, at once and without waiting.
CanServe(p) ==
  /\ p \in PoolIds
  /\ poolSt[p] = "open"
  /\ dbUp
  /\ Cardinality({h \in Holders : sess[h] = p}) < MaxSessions

TakeSession(h, p) == sess' = [sess EXCEPT ![h] = p]

GiveSession(h) == sess' = [sess EXCEPT ![h] = NoPool]

\* A statement sent now on h's session can be answered.
CanExecute(h) ==
  /\ sess[h] \in PoolIds
  /\ poolSt[sess[h]] \in {"open", "closing"}
  /\ dbUp

\* The server or the network fails or comes back.
ServerChanges ==
  /\ Outages
  /\ dbUp' = ~dbUp
  /\ UNCHANGED <<poolSt, sess>>
=============================================================================
