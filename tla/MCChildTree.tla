----------------------------- MODULE MCChildTree -----------------------------
EXTENDS ChildTree, TLC

\* The nodes but the root are interchangeable.
ChildSymmetry == Permutations(Nodes \ {Root})
=============================================================================
