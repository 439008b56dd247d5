-------------------------------- MODULE IpaPm --------------------------------
(***************************************************************************)
(* The clients of the IPA power manager (dataipa, ipa_v3/ipa_pm.c) on top  *)
(* of the active clients counter: an active client owns one vote.  A call  *)
(* made in atomic context that cannot have its vote at once leaves it to   *)
(* the activate work; a deactivation is deferred by a delayed work, which  *)
(* suspend cuts short.  Both works run on one single threaded work queue.  *)
(* The clock plan that is computed from the active clients is left out.    *)
(***************************************************************************)
EXTENDS ActiveClients

CONSTANTS
    Client,     \* the registered clients
    Pmworker,   \* the thread of the queue "ipa_pm_activate"
    Owner,      \* a process that makes the synchronous calls
    Suspender,  \* the thread that suspends the system
    Inputs,     \* which of "irq", "packet", "suspend" and "sync" happen
    LateCompletion  \* a client may be activated again while the work of its
                    \* last activation has yet to call complete_all

ASSUME PmAssumption ==
    /\ IsFiniteSet(Client) /\ None \notin Client
    /\ {Pmworker, Owner, Suspender} \subseteq Thread \ {Kworker}
    /\ Pmworker # Owner /\ Pmworker # Suspender /\ Owner # Suspender

VARIABLES
    state,      \* client->state
    done,       \* client->complete has been completed
    timer,      \* clients whose deactivate_work waits for its delay
    wq,         \* the works queued on ipa_pm_ctx->wq, in any order
    cancelling, \* clients whose deactivate_work is being cancelled
    pc,         \* what each thread does outside the counter's calls
    cur,        \* the client it does it for
    todo,       \* clients ipa_pm_deactivate_all_deferred has still to visit
    closing     \* the users only let go of the hardware from now on

pmVars == <<state, done, timer, wq, cancelling, pc, cur, todo, closing>>
vars == <<clkVars, pmVars>>

InProgress == {"ACTIVATE_IN_PROGRESS", "DEACTIVATE_IN_PROGRESS"}
TimerStates == {"ACTIVATED_PENDING_DEACTIVATION", "ACTIVATED_TIMER_SET",
                "ACTIVATED_PENDING_RESCHEDULE"}
Active == {"ACTIVATED"} \cup TimerStates
States == {"DEACTIVATED"} \cup InProgress \cup Active

\* What a thread does outside the counter's calls.
Points == {"idle", "activating", "undo", "complete", "undone", "deactivating", "deactivated",
           "visit", "wait", "lock", "wait_active", "activate", "voted", "cancel", "wait_idle",
           "deactivate", "dropped", "recancel"}

PmInit ==
    /\ ClkInit
    /\ state = [c \in Client |-> "DEACTIVATED"]
    /\ done = [c \in Client |-> FALSE]
    /\ timer = {} /\ wq = {} /\ cancelling = {}
    /\ pc = [t \in Thread |-> "idle"] /\ cur = [t \in Thread |-> None]
    /\ todo = {} /\ closing = FALSE

SetState(c, s) == state' = [state EXCEPT ![c] = s]
At(t, p) == pc[t] = p /\ Free(t)          \* t is at p and its vote call is over
Step(t, p) == pc' = [pc EXCEPT ![t] = p]
For(t, c) == cur' = [cur EXCEPT ![t] = c]
Pending(k, c) == <<k, c>> \in wq
Enqueue(k, c) == wq' = wq \cup {<<k, c>>}    \* nothing when it is pending

\* queue_delayed_work, which does nothing while the work is pending or is
\* being cancelled.
Arm(c) ==
    timer' = IF Pending("deactivate", c) \/ c \in cancelling THEN timer ELSE timer \cup {c}

(***************************************************************************)
(* Calls from atomic context: one step under the client's state_lock.      *)
(***************************************************************************)
\* The owner of a client does not call it from two contexts at once.
Serial(c) == cur[Owner] # c

\* ipa_pm_activate, when the client is active or on its way
ActivateAgain(c) ==
    /\ Serial(c) /\ ~closing
    /\ \/ state[c] \in InProgress /\ SetState(c, "ACTIVATE_IN_PROGRESS")
       \/ state[c] \in TimerStates /\ SetState(c, "ACTIVATED_TIMER_SET")
       \/ state[c] = "ACTIVATED" /\ UNCHANGED state
    /\ UNCHANGED <<clkVars, done, timer, wq, cancelling, pc, cur, todo, closing>>

\* ipa_pm_activate: the vote is had without blocking
ActivateNow(c) ==
    /\ Serial(c) /\ ~closing /\ state[c] = "DEACTIVATED"
    /\ IncNoBlock /\ SetState(c, "ACTIVATED")
    /\ UNCHANGED <<done, timer, wq, cancelling, pc, cur, todo, closing>>

\* ipa_pm_activate: -EINPROGRESS, the work asks for the vote
ActivateLater(c) ==
    /\ Serial(c) /\ ~closing /\ state[c] = "DEACTIVATED" /\ cnt = 0
    /\ LateCompletion \/ ~(cur[Pmworker] = c /\ pc[Pmworker] = "complete")
    /\ SetState(c, "ACTIVATE_IN_PROGRESS")
    /\ done' = [done EXCEPT ![c] = FALSE] /\ Enqueue("activate", c)
    /\ UNCHANGED <<clkVars, timer, cancelling, pc, cur, todo, closing>>

\* ipa_pm_deferred_deactivate
Deferred(c) ==
    /\ Serial(c)
    /\ closing => state[c] \in {"ACTIVATED", "ACTIVATED_TIMER_SET", "ACTIVATE_IN_PROGRESS"}
    /\ \/ state[c] = "ACTIVATE_IN_PROGRESS"
          /\ SetState(c, "DEACTIVATE_IN_PROGRESS") /\ UNCHANGED timer
       \/ state[c] = "ACTIVATED"
          /\ SetState(c, "ACTIVATED_PENDING_DEACTIVATION") /\ Arm(c)
       \/ state[c] \in TimerStates
          /\ SetState(c, "ACTIVATED_PENDING_RESCHEDULE") /\ UNCHANGED timer
       \/ state[c] \in {"DEACTIVATE_IN_PROGRESS", "DEACTIVATED"} /\ UNCHANGED <<state, timer>>
    /\ UNCHANGED <<clkVars, done, wq, cancelling, pc, cur, todo, closing>>

(***************************************************************************)
(* The work queue.                                                         *)
(***************************************************************************)
TimerExpires(c) ==
    /\ c \in timer /\ timer' = timer \ {c} /\ Enqueue("deactivate", c)
    /\ UNCHANGED <<clkVars, state, done, cancelling, pc, cur, todo, closing>>

\* The activate work begins by asking for the vote, outside the state lock.
StartActivateWork(c) ==
    /\ At(Pmworker, "idle") /\ Pending("activate", c)
    /\ wq' = wq \ {<<"activate", c>>} /\ For(Pmworker, c) /\ Step(Pmworker, "activating")
    /\ CallInc(Pmworker)
    /\ UNCHANGED <<state, done, timer, cancelling, todo, closing>>

ActivateWorkDecides ==
    LET c == cur[Pmworker] IN
    /\ At(Pmworker, "activating")
    /\ \/ state[c] = "ACTIVATE_IN_PROGRESS"
          /\ SetState(c, "ACTIVATED") /\ Step(Pmworker, "complete")
       \/ state[c] = "DEACTIVATE_IN_PROGRESS"
          /\ SetState(c, "DEACTIVATED") /\ Step(Pmworker, "undo")
       \/ state[c] \notin InProgress /\ UNCHANGED state /\ Step(Pmworker, "complete")
    /\ UNCHANGED <<clkVars, done, timer, wq, cancelling, cur, todo, closing>>

\* (mutant) nobody completes the activation
MutActivateWorkCompletes ==
    /\ \/ At(Pmworker, "complete") /\ Step(Pmworker, "idle") /\ For(Pmworker, None)
          /\ UNCHANGED clkVars
       \/ At(Pmworker, "undo") /\ Step(Pmworker, "undone") /\ CallDec(Pmworker)
          /\ UNCHANGED cur
    /\ UNCHANGED <<state, done, timer, wq, cancelling, todo, closing>>

\* (mutant) the vote of an activation that was called off is kept
MutActivateWorkKeeps ==
    LET c == cur[Pmworker] IN
    /\ \/ At(Pmworker, "complete") /\ Step(Pmworker, "idle") /\ For(Pmworker, None)
       \/ At(Pmworker, "undo") /\ Step(Pmworker, "undone") /\ UNCHANGED cur
    /\ done' = [done EXCEPT ![c] = TRUE]
    /\ UNCHANGED <<clkVars, state, timer, wq, cancelling, todo, closing>>

\* complete_all, then the callback, or the vote back when a deactivation
\* came meanwhile.
ActivateWorkCompletes ==
    LET c == cur[Pmworker] IN
    /\ \/ At(Pmworker, "complete") /\ Step(Pmworker, "idle") /\ For(Pmworker, None)
          /\ UNCHANGED clkVars
       \/ At(Pmworker, "undo") /\ Step(Pmworker, "undone") /\ CallDec(Pmworker)
          /\ UNCHANGED cur
    /\ done' = [done EXCEPT ![c] = TRUE]
    /\ UNCHANGED <<state, timer, wq, cancelling, todo, closing>>

StartDeactivateWork(c) ==
    /\ At(Pmworker, "idle") /\ Pending("deactivate", c)
    /\ wq' = wq \ {<<"deactivate", c>>} /\ For(Pmworker, c) /\ Step(Pmworker, "deactivating")
    /\ UNCHANGED <<clkVars, state, done, timer, cancelling, todo, closing>>

\* (mutant) the deactivation that was put off is not queued again
MutDeactivateWorkKeeps ==
    LET c == cur[Pmworker] IN
    /\ At(Pmworker, "deactivating")
    /\ \/ state[c] = "ACTIVATED_TIMER_SET" /\ SetState(c, "ACTIVATED")
       \/ state[c] = "ACTIVATED_PENDING_RESCHEDULE"
          /\ SetState(c, "ACTIVATED_PENDING_DEACTIVATION")
       \/ state[c] \notin TimerStates /\ UNCHANGED state
    /\ Step(Pmworker, "idle") /\ For(Pmworker, None)
    /\ UNCHANGED <<clkVars, done, timer, wq, cancelling, todo, closing>>

\* The delayed work under the state lock.
DeactivateWorkKeeps ==
    LET c == cur[Pmworker] IN
    /\ At(Pmworker, "deactivating")
    /\ \/ state[c] = "ACTIVATED_TIMER_SET" /\ SetState(c, "ACTIVATED") /\ UNCHANGED timer
       \/ state[c] = "ACTIVATED_PENDING_RESCHEDULE"
          /\ SetState(c, "ACTIVATED_PENDING_DEACTIVATION") /\ Arm(c)
       \/ state[c] \notin TimerStates /\ UNCHANGED <<state, timer>>
    /\ Step(Pmworker, "idle") /\ For(Pmworker, None)
    /\ UNCHANGED <<clkVars, done, wq, cancelling, todo, closing>>

DeactivateWorkDrops ==
    LET c == cur[Pmworker] IN
    /\ At(Pmworker, "deactivating") /\ state[c] = "ACTIVATED_PENDING_DEACTIVATION"
    /\ SetState(c, "DEACTIVATED") /\ CallDec(Pmworker) /\ Step(Pmworker, "deactivated")
    /\ UNCHANGED <<done, timer, wq, cancelling, cur, todo, closing>>

EndWork ==
    /\ At(Pmworker, "undone") \/ At(Pmworker, "deactivated")
    /\ Step(Pmworker, "idle") /\ For(Pmworker, None)
    /\ UNCHANGED <<clkVars, state, done, timer, wq, cancelling, todo, closing>>

(***************************************************************************)
(* cancel_delayed_work_sync: takes the work off the timer or the queue and *)
(* waits for the one that runs.                                            *)
(***************************************************************************)
Cancel(t, c, p) ==
    /\ timer' = timer \ {c} /\ wq' = wq \ {<<"deactivate", c>>}
    /\ cancelling' = cancelling \cup {c} /\ Step(t, p)

Cancelled(t, p) ==
    /\ ~(cur[Pmworker] = cur[t] /\ pc[Pmworker] \in {"deactivating", "deactivated"})
    /\ cancelling' = cancelling \ {cur[t]} /\ Step(t, p)

(***************************************************************************)
(* ipa_pm_deactivate_all_deferred, called when the system suspends.        *)
(* Processes are frozen then, so no synchronous call is under way.         *)
(***************************************************************************)
SuspendBegins ==
    /\ "suspend" \in Inputs
    /\ At(Suspender, "idle") /\ At(Owner, "idle") /\ ~closing
    /\ todo' = Client /\ Step(Suspender, "visit")
    /\ UNCHANGED <<clkVars, state, done, timer, wq, cancelling, cur, closing>>

SuspendVisits(c) ==
    /\ At(Suspender, "visit") /\ c \in todo
    /\ todo' = todo \ {c} /\ For(Suspender, c) /\ Cancel(Suspender, c, "cancel")
    /\ UNCHANGED <<clkVars, state, done, closing>>

\* The state is read without the lock.
SuspendCancelled ==
    /\ At(Suspender, "cancel")
    /\ Cancelled(Suspender, IF state[cur[Suspender]] \in InProgress THEN "wait" ELSE "lock")
    /\ UNCHANGED <<clkVars, state, done, timer, wq, cur, todo, closing>>

SuspendWaits ==
    /\ At(Suspender, "wait") /\ done[cur[Suspender]] /\ Step(Suspender, "visit")
    /\ UNCHANGED <<clkVars, state, done, timer, wq, cancelling, cur, todo, closing>>

SuspendKeeps ==
    LET c == cur[Suspender] IN
    /\ At(Suspender, "lock")
    /\ state[c] \notin {"ACTIVATED_PENDING_DEACTIVATION", "ACTIVATED_PENDING_RESCHEDULE"}
    /\ SetState(c, IF state[c] = "ACTIVATED_TIMER_SET" THEN "ACTIVATED" ELSE state[c])
    /\ Step(Suspender, "visit")
    /\ UNCHANGED <<clkVars, done, timer, wq, cancelling, cur, todo, closing>>

SuspendDrops ==
    LET c == cur[Suspender] IN
    /\ At(Suspender, "lock")
    /\ state[c] \in {"ACTIVATED_PENDING_DEACTIVATION", "ACTIVATED_PENDING_RESCHEDULE"}
    /\ SetState(c, "DEACTIVATED") /\ CallDec(Suspender) /\ Step(Suspender, "visit")
    /\ UNCHANGED <<done, timer, wq, cancelling, cur, todo, closing>>

SuspendEnds ==
    /\ At(Suspender, "visit") /\ todo = {} /\ Step(Suspender, "idle") /\ For(Suspender, None)
    /\ UNCHANGED <<clkVars, state, done, timer, wq, cancelling, todo, closing>>

(***************************************************************************)
(* The synchronous calls of a process.                                     *)
(***************************************************************************)
Thawed == pc[Suspender] = "idle"

ActivateSyncBegins(c) ==
    /\ "sync" \in Inputs /\ At(Owner, "idle") /\ Thawed /\ ~closing
    /\ For(Owner, c)
    /\ Step(Owner, IF state[c] \in InProgress THEN "wait_active" ELSE "activate")
    /\ UNCHANGED <<clkVars, state, done, timer, wq, cancelling, todo, closing>>

ActivateSyncWaits ==
    /\ At(Owner, "wait_active") /\ done[cur[Owner]] /\ Step(Owner, "activate")
    /\ UNCHANGED <<clkVars, state, done, timer, wq, cancelling, cur, todo, closing>>

\* Active already; a timer that runs is told to leave it so.  -EPERM when
\* the state is in progress again.
ActivateSyncFinds ==
    LET c == cur[Owner] IN
    /\ At(Owner, "activate") /\ state[c] # "DEACTIVATED"
    /\ SetState(c, IF state[c] \in TimerStates THEN "ACTIVATED_TIMER_SET" ELSE state[c])
    /\ Step(Owner, "idle") /\ For(Owner, None)
    /\ UNCHANGED <<clkVars, done, timer, wq, cancelling, todo, closing>>

ActivateSyncVotes ==
    /\ At(Owner, "activate") /\ state[cur[Owner]] = "DEACTIVATED"
    /\ SetState(cur[Owner], "ACTIVATE_IN_PROGRESS")
    /\ CallInc(Owner) /\ Step(Owner, "voted")
    /\ UNCHANGED <<done, timer, wq, cancelling, cur, todo, closing>>

\* The state is set whatever it has become since.
ActivateSyncEnds ==
    /\ At(Owner, "voted") /\ SetState(cur[Owner], "ACTIVATED")
    /\ Step(Owner, "idle") /\ For(Owner, None)
    /\ UNCHANGED <<clkVars, done, timer, wq, cancelling, todo, closing>>

DeactivateSyncBegins(c) ==
    /\ "sync" \in Inputs /\ At(Owner, "idle") /\ Thawed
    /\ closing => state[c] # "DEACTIVATED"
    /\ For(Owner, c) /\ Cancel(Owner, c, "cancel")
    /\ UNCHANGED <<clkVars, state, done, todo, closing>>

DeactivateSyncCancelled ==
    /\ At(Owner, "cancel")
    /\ Cancelled(Owner, IF state[cur[Owner]] \in InProgress THEN "wait_idle" ELSE "deactivate")
    /\ UNCHANGED <<clkVars, state, done, timer, wq, cur, todo, closing>>

DeactivateSyncWaits ==
    /\ At(Owner, "wait_idle") /\ done[cur[Owner]] /\ Step(Owner, "deactivate")
    /\ UNCHANGED <<clkVars, state, done, timer, wq, cancelling, cur, todo, closing>>

\* (mutant) the vote is given back without a look at the state
MutDeactivateSyncDrops ==
    /\ At(Owner, "deactivate")
    /\ CallDec(Owner) /\ Step(Owner, "dropped")
    /\ UNCHANGED <<state, done, timer, wq, cancelling, cur, todo, closing>>

\* The vote is given back between two holds of the lock.
DeactivateSyncDrops ==
    /\ At(Owner, "deactivate") /\ state[cur[Owner]] # "DEACTIVATED"
    /\ CallDec(Owner) /\ Step(Owner, "dropped")
    /\ UNCHANGED <<state, done, timer, wq, cancelling, cur, todo, closing>>

DeactivateSyncSets ==
    /\ At(Owner, "dropped") /\ SetState(cur[Owner], "DEACTIVATED")
    /\ Cancel(Owner, cur[Owner], "recancel")
    /\ UNCHANGED <<clkVars, done, cur, todo, closing>>

DeactivateSyncEnds ==
    /\ \/ At(Owner, "recancel") /\ Cancelled(Owner, "idle")
       \/ At(Owner, "deactivate") /\ state[cur[Owner]] = "DEACTIVATED"
          /\ Step(Owner, "idle") /\ UNCHANGED cancelling
    /\ For(Owner, None)
    /\ UNCHANGED <<clkVars, state, done, timer, wq, todo, closing>>

-----------------------------------------------------------------------------
Close ==
    /\ ~closing /\ closing' = TRUE
    /\ UNCHANGED <<clkVars, state, done, timer, wq, cancelling, pc, cur, todo>>

\* The steps of the counter; no new interrupt once the users only let go.
Clock ==
    /\ ClkStep /\ UNCHANGED pmVars
    /\ irq = "idle" /\ irq' # "idle" => "irq" \in Inputs /\ ~closing

Packet ==
    /\ "packet" \in Inputs /\ \E c \in Client : state[c] \in Active
    /\ AskTag(Owner) /\ UNCHANGED pmVars

Atomic(c) == ActivateAgain(c) \/ ActivateNow(c) \/ ActivateLater(c) \/ Deferred(c)

Worker ==
    \/ \E c \in Client : StartActivateWork(c) \/ StartDeactivateWork(c)
    \/ ActivateWorkDecides \/ ActivateWorkCompletes \/ DeactivateWorkKeeps \/ DeactivateWorkDrops \/ EndWork

Suspend ==
    \/ \E c \in Client : SuspendVisits(c)
    \/ SuspendCancelled \/ SuspendWaits \/ SuspendKeeps \/ SuspendDrops \/ SuspendEnds

SyncCall ==
    \/ ActivateSyncWaits \/ ActivateSyncFinds \/ ActivateSyncVotes \/ ActivateSyncEnds
    \/ DeactivateSyncCancelled \/ DeactivateSyncWaits \/ DeactivateSyncDrops
    \/ DeactivateSyncSets \/ DeactivateSyncEnds

PmNext ==
    \/ Clock \/ Packet \/ Close \/ Worker \/ SuspendBegins \/ Suspend \/ SyncCall
    \/ \E c \in Client : Atomic(c) \/ TimerExpires(c)
                         \/ ActivateSyncBegins(c) \/ DeactivateSyncBegins(c)

PmSafety == PmInit /\ [][PmNext]_vars

\* Works, timers and calls that can go on do, the pipes do not stay busy for
\* ever, and users that only let go do let go.
PmFairness ==
    /\ WF_vars(WorkStep /\ UNCHANGED pmVars) /\ WF_vars(IsrDone /\ UNCHANGED pmVars)
    /\ \A t \in Thread : WF_vars((IncStep(t) \/ DecStep(t)) /\ UNCHANGED pmVars)
    /\ SF_vars((\E t \in Thread : DecSuspended(t)) /\ UNCHANGED pmVars)
    /\ WF_vars(Worker) /\ WF_vars(Suspend) /\ WF_vars(SyncCall)
    /\ \A c \in Client : WF_vars(TimerExpires(c)) /\ WF_vars(closing /\ Deferred(c))

PmSpec == PmSafety /\ PmFairness
-----------------------------------------------------------------------------
(***************************************************************************)
(* Properties                                                              *)
(***************************************************************************)
TypeOK ==
    /\ cnt \in Nat /\ held \in Nat /\ mutex \in Thread \cup {None}
    /\ clk \in BOOLEAN /\ pipes \in BOOLEAN /\ tag \in BOOLEAN /\ closing \in BOOLEAN
    /\ works \subseteq VoteWorks \cup {"defer"} /\ deferring \in BOOLEAN
    /\ irq \in {"idle", "serving", "deferred"} /\ at \in [Thread -> Positions]
    /\ state \in [Client -> States] /\ done \in [Client -> BOOLEAN]
    /\ timer \subseteq Client /\ cancelling \subseteq Client /\ todo \subseteq Client
    /\ wq \subseteq {"activate", "deactivate"} \X Client
    /\ pc \in [Thread -> Points] /\ cur \in [Thread -> Client \cup {None}]

\* The active clients; one that a process deactivates has given its vote back
\* before its state says so.
Holders == {c \in Client : state[c] \in Active /\ ~(cur[Owner] = c /\ pc[Owner] = "dropped")}

\* A client owns a vote exactly while it is active; a vote that is between
\* the counter and the state is carried by the thread that moves it.
VotesMatch ==
    held = Cardinality(Holders) + One(At(Pmworker, "activating") \/ At(Pmworker, "undo"))
           + One(At(Owner, "voted")) + One(deferring /\ Free(Kworker))

\* A client that waits for its deferred deactivation has one coming.
TimerArmed ==
    \A c \in Client : state[c] \in TimerStates =>
        \/ c \in timer \/ Pending("deactivate", c)
        \/ \E t \in {Pmworker, Suspender, Owner} :
               cur[t] = c /\ pc[t] \in {"deactivating", "cancel", "lock", "deactivate", "dropped"}

\* Once the users only let go of the hardware, every call returns, every
\* client is deactivated and the hardware is gated.
Settled ==
    /\ ~clk /\ \A c \in Client : state[c] = "DEACTIVATED"
    /\ \A t \in Thread : pc[t] = "idle" /\ Free(t)
LetGoSettles == closing ~> Settled
=============================================================================
