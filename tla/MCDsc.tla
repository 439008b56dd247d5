------------------------------- MODULE MCDsc -------------------------------
EXTENDS Dsc, TLC

CONSTANTS d, p1, p2, v1, v2

\* Every vdev is under p1; p2 has none.
UnderP1 == [v \in Vdev |-> p1]

TreeSymmetry == Permutations(Caller) \cup Permutations(Vdev)
============================================================================
