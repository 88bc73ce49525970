---------------------------- MODULE MCPathService ----------------------------
EXTENDS PathService, TLC

PoolSymmetry == Permutations(PoolIds)
=============================================================================
