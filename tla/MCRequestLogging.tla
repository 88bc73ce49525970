-------------------------- MODULE MCRequestLogging --------------------------
(***************************************************************************)
(* RequestLogging for TLC: two requests served at the same time.           *)
(***************************************************************************)
EXTENDS RequestLogging
=============================================================================
