----------------------------- MODULE MCHddSync ------------------------------
EXTENDS HddSync, TLC

CONSTANTS d, p1

\* Every vdev is under the one psoc.
UnderP1 == [v \in Vdev |-> p1]

HddSymmetry == Permutations(Caller) \cup Permutations(Vdev) \cup Permutations(VdevSync)
============================================================================
