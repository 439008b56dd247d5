--------------------------- MODULE TreeLockProofs --------------------------
(***************************************************************************)
(* The guarantee of the tree lock, for every tree and every set of callers.*)
(***************************************************************************)
EXTENDS TreeLock, TLAPS

\* Isolation is not inductive alone: a caller inside must still hold the
\* transition it entered with, and hold no other.
TreeLockInv ==
  /\ holder \in [Node -> Caller \cup {None}]
  /\ readers \in [Node -> SUBSET Caller]
  /\ \A c \in inside : \E n \in Node : holder[n] = c /\ c # None
  /\ NoConflict(holder)
  /\ \A n \in Node : holder[n] \in inside => \A m \in Subtree(n) : readers[m] = {}

\* A context is related to each of its subtree.
LEMMA SubtreeRelated ==
  ASSUME NEW n \in Node, NEW m \in Subtree(n)
  PROVE  m \in Node /\ Related(m, n) /\ Related(n, m)
BY DEF Subtree, Below, Related

LEMMA TreeLockInit == LockInit => TreeLockInv
BY NoneAssumption DEF LockInit, TreeLockInv, NoConflict

LEMMA TreeLockStep == TreeLockInv /\ [LockNext]_lockVars => TreeLockInv'
<1> SUFFICES ASSUME TreeLockInv, [LockNext]_lockVars
             PROVE  TreeLockInv'
    OBVIOUS
<1> USE DEF TreeLockInv
<1>1. CASE Grant
  <2>1. \A n \in Node : holder'[n] \in inside' => holder[n] = holder'[n]
    BY <1>1 DEF Grant, NoConflict
  <2> QED BY <1>1, <2>1 DEF Grant
<1>2. ASSUME NEW n \in Node, Release(n)
      PROVE  TreeLockInv'
  <2>1. \A m \in Node : holder'[m] \in inside' => holder[m] = holder'[m]
    BY <1>2 DEF Release, NoConflict
  <2>2. \A c \in inside' : \E m \in Node : holder'[m] = c /\ c # None
    BY <1>2 DEF Release
  <2>3. inside' \subseteq inside
    BY <1>2 DEF Release
  <2> QED BY <1>2, <2>1, <2>2, <2>3 DEF Release
<1>3. ASSUME NEW n \in Node, Enter(n)
      PROVE  TreeLockInv'
  BY <1>3 DEF Enter, NoConflict
<1>4. ASSUME NEW c \in Caller, NEW n \in Node, Read(c, n)
      PROVE  TreeLockInv'
  <2>1. \A m \in Node : holder[m] \in inside => n \notin Subtree(m)
    BY <1>4, SubtreeRelated DEF Read
  <2>2. \A m \in Node : \A k \in Subtree(m) : k \in Node
    BY SubtreeRelated
  <2> QED BY <1>4, <2>1, <2>2 DEF Read, NoConflict
<1>5. ASSUME NEW c \in Caller, NEW n \in Node, EndRead(c, n)
      PROVE  TreeLockInv'
  <2>1. \A m \in Node : \A k \in Subtree(m) : k \in Node
    BY SubtreeRelated
  <2> QED BY <1>5, <2>1 DEF EndRead, NoConflict
<1>6. ASSUME NEW n \in Node, Leave(n)
      PROVE  TreeLockInv'
  BY <1>6 DEF Leave, NoConflict
<1>7. CASE UNCHANGED lockVars
  BY <1>7 DEF lockVars, NoConflict
<1> QED BY <1>1, <1>2, <1>3, <1>4, <1>5, <1>6, <1>7 DEF LockNext

\* The owner of a drained transition has its subtree to itself, whatever the
\* order in which transitions are granted (wlan_dsc.h:20-47).
THEOREM TreeLockIsolation == LockSpec => []Isolation
<1>1. TreeLockInv => Isolation
  <2> SUFFICES ASSUME TreeLockInv, NEW n \in Node, holder[n] \in inside,
                      NEW m \in Subtree(n)
               PROVE  readers[m] = {} /\ (m # n => holder[m] = None)
      BY DEF Isolation
  <2> QED BY SubtreeRelated DEF TreeLockInv, NoConflict
<1> QED BY <1>1, TreeLockInit, TreeLockStep, PTL DEF LockSpec
=============================================================================
