-------------------------- MODULE MCHealthySession --------------------------
EXTENDS HealthySession, TLC

PoolSymmetry == Permutations(PoolIds)
=============================================================================
