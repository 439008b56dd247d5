----------------------------- MODULE TreeLock ------------------------------
(***************************************************************************)
(* What the Driver Synchronization Core promises its clients, with no      *)
(* queue, no event and no order of service: a reader/writer lock on a tree.*)
(* A transition on a context excludes every other transition on the        *)
(* context, up-tree and down-tree; it keeps new operations out of the same *)
(* contexts; and once its owner has waited for the operations in flight,   *)
(* nothing runs in the subtree but the transition.                         *)
(***************************************************************************)
EXTENDS DscTree

VARIABLES
  holder,   \* who holds the transition of each context, or None
  readers,  \* the callers with an operation in flight on each context
  inside    \* the callers whose transition has its subtree to itself

lockVars == <<holder, readers, inside>>

LockInit ==
  /\ holder = [n \in Node |-> None]
  /\ readers = [n \in Node |-> {}]
  /\ inside = {}

\* Transitions that may be in flight together, each with an owner of its own.
NoConflict(h) ==
  \A m, n \in Node :
    m # n /\ h[m] # None /\ h[n] # None => ~Related(m, n) /\ h[m] # h[n]

\* A transition starts; those in progress go on.
Grant ==
  /\ holder' \in [Node -> Caller \cup {None}]
  /\ NoConflict(holder')
  /\ \A n \in Node : holder[n] # None => holder'[n] = holder[n]
  /\ UNCHANGED <<readers, inside>>

\* The transition on n ends, and the tree is handed to any number of others
\* that may run side by side.
Release(n) ==
  /\ holder[n] # None
  /\ holder' \in [Node -> Caller \cup {None}]
  /\ NoConflict(holder')
  /\ \A m \in Node : holder'[m] # holder[n]
  /\ \A m \in Node \ {n} : holder[m] # None => holder'[m] = holder[m]
  /\ inside' = inside \ {holder[n]}
  /\ UNCHANGED readers

\* The owner of a transition has seen the operations of its subtree end.
Enter(n) ==
  /\ holder[n] # None
  /\ \A m \in Subtree(n) : readers[m] = {}
  /\ inside' = inside \cup {holder[n]}
  /\ UNCHANGED <<holder, readers>>

\* It is about to look at a part of its subtree again.
Leave(n) ==
  /\ holder[n] # None
  /\ inside' = inside \ {holder[n]}
  /\ UNCHANGED <<holder, readers>>

Read(c, n) ==
  /\ \A m \in Node : Related(m, n) => holder[m] = None
  /\ readers' = [readers EXCEPT ![n] = @ \cup {c}]
  /\ UNCHANGED <<holder, inside>>

EndRead(c, n) ==
  /\ c \in readers[n]
  /\ readers' = [readers EXCEPT ![n] = @ \ {c}]
  /\ UNCHANGED <<holder, inside>>

LockNext ==
  \/ Grant
  \/ \E n \in Node : Release(n) \/ Enter(n) \/ Leave(n)
  \/ \E c \in Caller, n \in Node : Read(c, n) \/ EndRead(c, n)

LockSpec == LockInit /\ [][LockNext]_lockVars

\* The reader/writer guarantee the clients of the core rely on
\* (wlan_dsc.h:20-47): a caller that has drained its subtree shares it with
\* no operation and with no other transition.
Isolation ==
  \A n \in Node :
    holder[n] \in inside =>
      \A m \in Subtree(n) : readers[m] = {} /\ (m # n => holder[m] = None)
============================================================================
