---------------------------- MODULE MCNebulaPool ----------------------------
(***************************************************************************)
(* NebulaPool for TLC: two requests and the heartbeat as general clients,  *)
(* one ping thread, and one pool identity more than there are holders of   *)
(* sessions, so that a new pool always finds a free identity.              *)
(***************************************************************************)
EXTENDS NebulaPool, TLC

PoolSymmetry == Permutations(PoolIds)
=============================================================================
