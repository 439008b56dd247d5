-------------------------------- MODULE Dsc --------------------------------
(***************************************************************************)
(* The Driver Synchronization Core (qcacld-3.0/components/dsc).  Every     *)
(* entry point runs under one spinlock (__dsc_lock), so each is one action;*)
(* a call that sleeps on an event is split where it releases the lock.     *)
(*                                                                         *)
(* A caller is a thread inside one call, or between the start and the stop *)
(* of one transition or operation.  A transition's active_desc is modelled *)
(* by the caller it belongs to, a queued struct dsc_tran by the caller on  *)
(* whose stack it lives, and ops.count by the set of its callers.          *)
(***************************************************************************)
EXTENDS DscTree, Sequences, FiniteSets

CONSTANT
  PlatformEvents  \* what may befall the platform: {"SSR", "unload"} or less

VARIABLES
  attached,    \* the contexts that exist (driver->psocs, psoc->vdevs)
  active,      \* trans.active_desc of each context
  queue,       \* trans.queue of each context
  ops,         \* the operations counted by ops.count of each context
  signalled,   \* the contexts whose ops.event is signalled
  pc,          \* where each caller is
  at,          \* the context a caller's transition or operation is on
  todo,        \* the contexts its wait_for_ops has still to visit
  on,          \* the context on whose ops.event it sleeps
  recovering,  \* qdf_is_recovering()
  unloading    \* qdf_is_driver_unloading()

platform == <<recovering, unloading>>
vars == <<attached, active, queue, ops, signalled, pc, at, todo, on,
          recovering, unloading>>

PC == {"idle",       \* outside the core
       "queued",     \* in __dsc_tran_wait, not signalled
       "granted",    \* in __dsc_tran_wait, signalled by a trigger
       "aborted",    \* in __dsc_tran_wait, signalled by an abort
       "holding",    \* owns a transition
       "draining",   \* in *_wait_for_ops, between two contexts
       "sleeping",   \* in *_wait_for_ops, waiting for an ops.event
       "drained",    \* owns a transition and has returned from wait_for_ops
       "op"}         \* has an operation in flight

Owns(c) == pc[c] \in {"granted", "holding", "draining", "sleeping", "drained"}

Init ==
  /\ attached = {Driver}
  /\ active = [n \in Node |-> None]
  /\ queue = [n \in Node |-> <<>>]
  /\ ops = [n \in Node |-> {}]
  /\ signalled = {}
  /\ pc = [c \in Caller |-> "idle"]
  /\ at = [c \in Caller |-> None]
  /\ todo = [c \in Caller |-> {}]
  /\ on = [c \in Caller |-> None]
  /\ recovering = FALSE
  /\ unloading = FALSE

----------------------------------------------------------------------------
(* What a context's transitions allow. *)

Active(n) == active[n] # None
Queued(n) == queue[n] # <<>>
ActiveOrQueued(n) == Active(n) \/ Queued(n)
ActiveDownTree(n) == \E m \in Below(n) : Active(m)

DriverCanTrans ==
  IF ActiveOrQueued(Driver) \/ ActiveDownTree(Driver) THEN "E_AGAIN" ELSE "SUCCESS"

\* (mutant) the psoc's own transition is not looked at
MutPsocCanTrans(p) ==
  IF ActiveOrQueued(Driver) THEN "E_INVAL"
  ELSE IF ActiveDownTree(p) THEN "E_AGAIN" ELSE "SUCCESS"

PsocCanTrans(p) ==
  IF ActiveOrQueued(Driver) THEN "E_INVAL"
  ELSE IF ActiveOrQueued(p) \/ ActiveDownTree(p) THEN "E_AGAIN" ELSE "SUCCESS"

\* (mutant) the psoc's transition is not looked at
MutVdevCanTrans(v) ==
  IF ActiveOrQueued(Driver) \/ recovering THEN "E_INVAL"
  ELSE IF ActiveOrQueued(v) THEN "E_BUSY" ELSE "SUCCESS"

\* (mutant) a vdev's transition waits for the psoc's during an unload as well
MutVdevCanTransUnload(v) ==
  IF ActiveOrQueued(Driver) \/ recovering THEN "E_INVAL"
  ELSE IF ActiveOrQueued(PsocOf[v]) \/ ActiveOrQueued(v) THEN "E_BUSY" ELSE "SUCCESS"

VdevCanTrans(v) ==
  IF ActiveOrQueued(Driver) \/ recovering THEN "E_INVAL"
  ELSE IF ActiveOrQueued(PsocOf[v]) THEN IF unloading THEN "E_INVAL" ELSE "E_BUSY"
  ELSE IF ActiveOrQueued(v) THEN "E_BUSY" ELSE "SUCCESS"

\* The status a new transition or operation on n gets.
CanTrans(n) ==
  CASE n = Driver -> DriverCanTrans
    [] n \in Psoc -> PsocCanTrans(n)
    [] n \in Vdev -> VdevCanTrans(n)

\* (mutant) the driver does not wait for the transitions down-tree
MutDriverCanTrigger(m) == ~Active(Driver)

\* May n's first waiter start, given that the transition on m has just ended?
DriverCanTrigger(m) == \A k \in Node \ {m} : ~Active(k)

PsocCanTrigger(p, m) ==
  /\ ~ActiveOrQueued(Driver)
  /\ \A k \in Subtree(p) \ {m} : ~Active(k)

\* The contexts whose first waiter starts when the transition on n ends.
DriverTriggers ==
  IF Queued(Driver) THEN {Driver}
  ELSE {p \in Psoc : Queued(p)} \cup {v \in Vdev : Queued(v) /\ ~Queued(PsocOf[v])}

\* (mutant) the vdevs that waited for the psoc are left in their queues
MutPsocTriggers(p) ==
  IF Queued(Driver) THEN {n \in {Driver} : DriverCanTrigger(p)}
  ELSE {n \in {p} : Queued(n)}

\* (mutant) the driver is not looked at
MutPsocTriggersSelf(p) ==
  IF Queued(p) THEN {p} ELSE {v \in VdevsOf(p) : Queued(v)}

PsocTriggers(p) ==
  IF Queued(Driver) THEN {n \in {Driver} : DriverCanTrigger(p)}
  ELSE IF Queued(p) THEN {p}
  ELSE {v \in VdevsOf(p) : Queued(v)}

\* (mutant) the waiters up-tree are not let in first
MutVdevTriggers(v) == {n \in {v} : Queued(n)}

VdevTriggers(v) ==
  IF Queued(Driver) THEN {n \in {Driver} : DriverCanTrigger(v)}
  ELSE IF Queued(PsocOf[v]) THEN {p \in {PsocOf[v]} : PsocCanTrigger(p, v)}
  ELSE {n \in {v} : Queued(v)}

Triggers(n) ==
  CASE n = Driver -> DriverTriggers
    [] n \in Psoc -> PsocTriggers(n)
    [] n \in Vdev -> VdevTriggers(n)

----------------------------------------------------------------------------
(* Transitions. *)

\* dsc_*_trans_start or dsc_*_trans_start_wait that succeeds at once.
TransStart(c, n) ==
  /\ pc[c] = "idle"
  /\ n \in attached
  /\ CanTrans(n) = "SUCCESS"
  /\ active' = [active EXCEPT ![n] = c]
  /\ pc' = [pc EXCEPT ![c] = "holding"]
  /\ at' = [at EXCEPT ![c] = n]
  /\ UNCHANGED <<attached, queue, ops, signalled, todo, on, platform>>

\* dsc_*_trans_start_wait that has to queue; E_INVAL is returned instead.
TransStartWait(c, n) ==
  /\ pc[c] = "idle"
  /\ n \in attached
  /\ CanTrans(n) \in {"E_AGAIN", "E_BUSY"}
  /\ queue' = [queue EXCEPT ![n] = Append(@, c)]
  /\ pc' = [pc EXCEPT ![c] = "queued"]
  /\ at' = [at EXCEPT ![c] = n]
  /\ UNCHANGED <<attached, active, ops, signalled, todo, on, platform>>

\* __dsc_tran_wait returns to a caller whose transition was triggered ...
WaitGranted(c) ==
  /\ pc[c] = "granted"
  /\ pc' = [pc EXCEPT ![c] = "holding"]
  /\ UNCHANGED <<attached, active, queue, ops, signalled, at, todo, on, platform>>

\* ... or whose context was destroyed: E_ABORTED.
WaitAborted(c) ==
  /\ pc[c] = "aborted"
  /\ pc' = [pc EXCEPT ![c] = "idle"]
  /\ at' = [at EXCEPT ![c] = None]
  /\ UNCHANGED <<attached, active, queue, ops, signalled, todo, on, platform>>

\* dsc_*_trans_stop: end the transition and start those it held up.
TransStop(c) ==
  /\ pc[c] \in {"holding", "drained"}
  /\ LET n == at[c]
         T == Triggers(n)
     IN /\ active' = [m \in Node |-> IF m \in T THEN Head(queue[m])
                                     ELSE IF m = n THEN None ELSE active[m]]
        /\ queue' = [m \in Node |-> IF m \in T THEN Tail(queue[m]) ELSE queue[m]]
        /\ pc' = [d \in Caller |-> IF \E m \in T : d = Head(queue[m]) THEN "granted"
                                   ELSE IF d = c THEN "idle" ELSE pc[d]]
  /\ at' = [at EXCEPT ![c] = None]
  /\ UNCHANGED <<attached, ops, signalled, todo, on, platform>>

----------------------------------------------------------------------------
(* Operations, and waiting for them. *)

\* _dsc_*_op_start that succeeds; it fails with CanTrans's error otherwise.
OpStart(c, n) ==
  /\ pc[c] = "idle"
  /\ n \in attached
  /\ CanTrans(n) = "SUCCESS"
  /\ ops' = [ops EXCEPT ![n] = @ \cup {c}]
  /\ pc' = [pc EXCEPT ![c] = "op"]
  /\ at' = [at EXCEPT ![c] = n]
  /\ UNCHANGED <<attached, active, queue, signalled, todo, on, platform>>

\* (mutant) the event is signalled by the last but one
MutOpStop(c) ==
  /\ pc[c] = "op"
  /\ ops' = [ops EXCEPT ![at[c]] = @ \ {c}]
  /\ signalled' = signalled \cup {n \in {at[c]} : Cardinality(ops[n]) = 2}
  /\ pc' = [pc EXCEPT ![c] = "idle"]
  /\ at' = [at EXCEPT ![c] = None]
  /\ UNCHANGED <<attached, active, queue, todo, on, platform>>

\* _dsc_*_op_stop: the last operation out signals the context's event.
OpStop(c) ==
  /\ pc[c] = "op"
  /\ ops' = [ops EXCEPT ![at[c]] = @ \ {c}]
  /\ signalled' = signalled \cup {n \in {at[c]} : ops[n] = {c}}
  /\ pc' = [pc EXCEPT ![c] = "idle"]
  /\ at' = [at EXCEPT ![c] = None]
  /\ UNCHANGED <<attached, active, queue, todo, on, platform>>

\* dsc_*_wait_for_ops: the owner of a transition visits the subtree of its
\* context and, once it has, may visit the part of it under n again.
WaitForOps(c, n) ==
  /\ \/ pc[c] = "holding" /\ n = at[c]
     \/ pc[c] = "drained" /\ n \in Subtree(at[c]) \cap attached
  /\ pc' = [pc EXCEPT ![c] = "draining"]
  /\ todo' = [todo EXCEPT ![c] = Subtree(n) \cap attached]
  /\ UNCHANGED <<attached, active, queue, ops, signalled, at, on, platform>>

\* A context is visited after its parent: under the lock, go on if it has no
\* operation, else reset its event ...
NextVisit(c) == {n \in todo[c] : Ancestors(n) \cap todo[c] = {}}

VisitQuiet(c, n) ==
  /\ pc[c] = "draining"
  /\ n \in NextVisit(c)
  /\ ops[n] = {}
  /\ todo' = [todo EXCEPT ![c] = @ \ {n}]
  /\ UNCHANGED <<attached, active, queue, ops, signalled, pc, at, on, platform>>

\* (mutant) the event is not reset before the wait
MutVisitBusy(c, n) ==
  /\ pc[c] = "draining"
  /\ n \in NextVisit(c)
  /\ ops[n] # {}
  /\ on' = [on EXCEPT ![c] = n]
  /\ pc' = [pc EXCEPT ![c] = "sleeping"]
  /\ UNCHANGED <<attached, active, queue, ops, signalled, at, todo, platform>>

VisitBusy(c, n) ==
  /\ pc[c] = "draining"
  /\ n \in NextVisit(c)
  /\ ops[n] # {}
  /\ signalled' = signalled \ {n}
  /\ on' = [on EXCEPT ![c] = n]
  /\ pc' = [pc EXCEPT ![c] = "sleeping"]
  /\ UNCHANGED <<attached, active, queue, ops, at, todo, platform>>

\* ... and sleep until it is signalled.  The count is not looked at again.
Wake(c) ==
  /\ pc[c] = "sleeping"
  /\ on[c] \in signalled
  /\ signalled' = signalled \ {on[c]}
  /\ todo' = [todo EXCEPT ![c] = @ \ {on[c]}]
  /\ on' = [on EXCEPT ![c] = None]
  /\ pc' = [pc EXCEPT ![c] = "draining"]
  /\ UNCHANGED <<attached, active, queue, ops, at, platform>>

Drained(c) ==
  /\ pc[c] = "draining"
  /\ todo[c] = {}
  /\ pc' = [pc EXCEPT ![c] = "drained"]
  /\ UNCHANGED <<attached, active, queue, ops, signalled, at, todo, on, platform>>

----------------------------------------------------------------------------
(* The life of a context. *)

\* dsc_psoc_create, dsc_vdev_create.
Create(n) ==
  /\ n \in Node \ attached
  /\ Ancestors(n) \subseteq attached
  /\ attached' = attached \cup {n}
  /\ signalled' = signalled \ {n}
  /\ UNCHANGED <<active, queue, ops, pc, at, todo, on, platform>>

\* (mutant) the pending transitions are not flushed
MutFree(n) ==
  /\ attached' = attached \ {n}
  /\ UNCHANGED <<active, queue, ops, signalled, pc, at, todo, on, platform>>

\* (mutant) the flushed waiters are not signalled
MutFreeSilent(n) ==
  /\ attached' = attached \ {n}
  /\ queue' = [queue EXCEPT ![n] = <<>>]
  /\ UNCHANGED <<active, ops, signalled, pc, at, todo, on, platform>>

\* dsc_*_destroy: flush the pending transitions, detach and free.
Free(n) ==
  /\ attached' = attached \ {n}
  /\ queue' = [queue EXCEPT ![n] = <<>>]
  /\ pc' = [c \in Caller |->
             IF \E i \in DOMAIN queue[n] : queue[n][i] = c THEN "aborted" ELSE pc[c]]
  /\ UNCHANGED <<active, ops, signalled, at, todo, on, platform>>

\* What *_destroy asserts and takes for granted: no child, no operation and no
\* transition on n; nobody in wait_for_ops, which walks the children without
\* the lock, still to come to n; and, as the queue is flushed without the lock
\* too, nobody who could trigger a transition on n meanwhile: n has no waiter,
\* or the caller holds a transition up-tree.
MayDestroy(c, n) ==
  /\ n \in attached \ {Driver}
  /\ Below(n) \cap attached = {}
  /\ ops[n] = {}
  /\ ~Active(n)
  /\ \A d \in Caller : n \notin todo[d]
  /\ \/ pc[c] = "idle" /\ ~Queued(n)
     \/ pc[c] \in {"holding", "drained"} /\ at[c] \in Ancestors(n)

Destroy(c, n) == MayDestroy(c, n) /\ Free(n)

----------------------------------------------------------------------------
(* The platform: SSR starts and ends, the module starts to unload. *)

SetRecovering ==
  /\ "SSR" \in PlatformEvents
  /\ recovering' = ~recovering
  /\ UNCHANGED <<attached, active, queue, ops, signalled, pc, at, todo, on, unloading>>

SetUnloading ==
  /\ "unload" \in PlatformEvents
  /\ unloading' = ~unloading
  /\ UNCHANGED <<attached, active, queue, ops, signalled, pc, at, todo, on, recovering>>

Drain(c) ==
  \/ Wake(c) \/ Drained(c)
  \/ \E n \in Node : WaitForOps(c, n) \/ VisitQuiet(c, n) \/ VisitBusy(c, n)

\* What a thread inside the core, or a client between start and stop, does next.
Proceed(c) ==
  WaitGranted(c) \/ WaitAborted(c) \/ TransStop(c) \/ OpStop(c) \/ Drain(c)

Next ==
  \/ \E c \in Caller, n \in Node :
       TransStart(c, n) \/ TransStartWait(c, n) \/ OpStart(c, n) \/ Destroy(c, n)
  \/ \E c \in Caller : Proceed(c)
  \/ \E n \in Node : Create(n)
  \/ SetRecovering \/ SetUnloading

Spec == Init /\ [][Next]_vars

\* A thread inside the core runs on unless it sleeps; a client ends what it has
\* started, however often it waits for operations before.  Nobody is bound to
\* start anything.
FairSpec == Spec /\ \A c \in Caller : WF_vars(Proceed(c)) /\ SF_vars(TransStop(c))

----------------------------------------------------------------------------
(* Properties. *)

\* A thread sleeps in __dsc_tran_wait exactly while its tran is in the queue of
\* its context, where it is once.
QueueAccounting ==
  /\ \A n \in Node : \A i, j \in DOMAIN queue[n] : queue[n][i] = queue[n][j] => i = j
  /\ \A n \in Node, c \in Caller :
       pc[c] = "queued" /\ at[c] = n <=> \E i \in DOMAIN queue[n] : queue[n][i] = c

\* Every structure of the core keeps its type, and each sleeping thread its
\* place in a queue.
TypeOK ==
  /\ attached \subseteq Node /\ Driver \in attached
  /\ active \in [Node -> Caller \cup {None}]
  /\ queue \in [Node -> Seq(Caller)]
  /\ ops \in [Node -> SUBSET Caller]
  /\ signalled \subseteq Node
  /\ pc \in [Caller -> PC]
  /\ at \in [Caller -> Node \cup {None}]
  /\ todo \in [Caller -> SUBSET Node]
  /\ on \in [Caller -> Node \cup {None}]
  /\ recovering \in BOOLEAN /\ unloading \in BOOLEAN
  /\ \A c \in Caller : pc[c] \notin {"idle", "aborted"} => at[c] # None
  /\ \A c \in Caller : pc[c] = "sleeping" => on[c] # None
  /\ QueueAccounting

\* wlan_dsc.h:20-47: two transitions in flight are never on the same context
\* or up-tree and down-tree of one another, whoever triggered them.
TreeExclusion ==
  \A m, n \in Node : Active(m) /\ Active(n) /\ Related(m, n) => m = n

\* wait_for_ops has waited for what it was asked to: when it has returned and
\* until its transition ends, no operation runs in the subtree.
DrainedExclusive ==
  \A c \in Caller : pc[c] = "drained" => \A n \in Subtree(at[c]) : ops[n] = {}

\* A transition belongs to one caller that knows it does: active_desc is set
\* while, and only while, the caller believes it owns the transition.
GrantConsistency ==
  /\ \A c \in Caller : Owns(c) => active[at[c]] = c
  /\ \A n \in Node : Active(n) => Owns(active[n]) /\ at[active[n]] = n

\* No waiter is forgotten by a trans_stop: behind each there is a transition
\* in flight, on a context whose trans_stop will look at the waiter's queue.
NoLostWaiter ==
  \A n \in Node : Queued(n) =>
    \/ \E m \in Node : Active(m) /\ Related(m, n)
    \/ \E m \in Ancestors(n) : Queued(m)

\* The event wait_for_ops sleeps on cannot have been signalled before the
\* reset and then missed: with the last operation gone, it is signalled.
NoLostWakeup ==
  \A c \in Caller : pc[c] = "sleeping" /\ ops[on[c]] = {} => on[c] \in signalled

\* A destroyed context is one nobody uses: no transition, waiter, operation
\* or wait_for_ops refers to memory that *_destroy has freed.
DetachedQuiet ==
  /\ \A n \in Node \ attached : ~ActiveOrQueued(n) /\ ops[n] = {}
  /\ \A c \in Caller :
       pc[c] \notin {"idle", "aborted"} => {at[c]} \cup todo[c] \subseteq attached

\* A caller that queued is served in order (qdf_list, first in first out), and
\* a transition never starts past one that is queued up-tree.
HandoffOrder ==
  [][\A n \in Node :
       active'[n] \notin {None, active[n]} =>
         /\ \A m \in Ancestors(n) : queue'[m] = <<>>
         /\ queue[n] # <<>> => active'[n] = Head(queue[n])]_vars

\* A transition that has queued is served, or aborted with its context, unless
\* transitions up-tree keep coming: those are let past it for ever.  Nothing is
\* up-tree of the driver, whose transition is always served.
Served ==
  \A n \in Node :
    <>[](\A m \in Ancestors(n) : ~ActiveOrQueued(m)) =>
      \A c \in Caller : (pc[c] = "queued" /\ at[c] = n) ~> pc[c] # "queued"

\* wait_for_ops returns: new operations cannot keep its caller waiting.
DrainEnds == \A c \in Caller : pc[c] = "draining" ~> pc[c] = "drained"

----------------------------------------------------------------------------
(* The core implements the tree lock. *)

Lock == INSTANCE TreeLock WITH
          holder <- active,
          readers <- ops,
          inside <- {c \in Caller : pc[c] = "drained"}

\* Queues, events and the order of service only restrict the tree lock.
ImplementsTreeLock == Lock!LockSpec
============================================================================
