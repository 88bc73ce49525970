---------------------------- MODULE MCDbExecutor ----------------------------
(***************************************************************************)
(* DbExecutor for TLC: a single thread, so that every job may have to wait *)
(* for every other one.                                                    *)
(***************************************************************************)
EXTENDS DbExecutor

\* A thread has one abandoned ping at most and a task waits for one, so that
\* there always is an identity for the next.
ASSUME EnoughPingers == Cardinality(Pingers) >= Threads + Cardinality(Callers)
=============================================================================
