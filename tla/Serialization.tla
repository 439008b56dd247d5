---------------------------- MODULE Serialization ----------------------------
(***************************************************************************)
(* The serialization of the WLAN commands (qca-wifi-host-cmn,              *)
(* umac/cmn_services/serialization): the non-scan commands of a radio are  *)
(* run one at a time.  A command is activated at once when nothing runs    *)
(* and otherwise waits; the end of a command, by a remove request, by its  *)
(* timer or by a failed activation, activates the next one.                *)
(*                                                                         *)
(* A step is one hold of pdev_queue_lock, or one call-back made without    *)
(* it.  Between two holds the calls of other threads find what the first   *)
(* has left, and a call-back's failure makes the calls nest.               *)
(*                                                                         *)
(* Every non-scan command of the driver is blocking (is_blocking): the     *)
(* branches for the others, and blocking_cmd_waiting and                   *)
(* CMD_MARKED_FOR_MOVEMENT that only they read, are left out.  The pending *)
(* list of a vdev is the pdev's, restricted to the vdev.  A command stands *)
(* for one request and for the list entry it gets from the pool.           *)
(***************************************************************************)
EXTENDS Integers, FiniteSets, Sequences, SequencesExt

CONSTANTS
    Cmd,         \* the commands: each is requested at most once
    VdevOf,      \* cmd->vdev
    Key,         \* cmd->vdev, cmd_type and cmd_id: what a command is found by
    Urgent,      \* the commands with is_high_priority
    MaxPending,  \* size of the pending list of a vdev
    Thread,      \* the contexts that call in, Mc among them
    Mc,          \* the scheduler thread, where a timeout is handled
    None

ASSUME SerAssumption ==
    /\ \A c, d \in Cmd : Key[c] = Key[d] => VdevOf[c] = VdevOf[d]
    /\ Urgent \subseteq Cmd /\ Mc \in Thread /\ None \notin Cmd /\ MaxPending \in Nat

VARIABLES
    pending,   \* pending_list
    active,    \* active_list
    bitmap,    \* vdev_active_cmd_bitmap
    blocking,  \* blocking_cmd_active
    flags,     \* cmd_in_use: the CMD_ACTIVE_MARKED_FOR_ bits
    marked,    \* cmd_in_use: the entries with CMD_MARKED_FOR_ACTIVATION
    timer,     \* the command's slot among psoc_ser_obj->timers
    mail,      \* timeouts posted to the scheduler thread
    asked,     \* commands requested already
    released,  \* commands their requesters have been told to free
    last,      \* how the last command has left the active list (history)
    stack,     \* the calls a thread is in, the innermost first
    gap        \* the command a cancel has unlinked and is telling about

lists == <<pending, active, bitmap, blocking, flags, marked>>
timing == <<timer, mail>>
history == <<asked, released, last>>
vars == <<lists, timing, history, stack, gap>>

Queue == {"active", "pending"}
NoGap == [q |-> "none", cmd |-> None]

Init ==
    /\ pending = <<>> /\ active = {} /\ bitmap = {} /\ blocking = FALSE
    /\ flags = [c \in Cmd |-> {}] /\ marked = {}
    /\ timer = [c \in Cmd |-> "off"] /\ mail = {}
    /\ asked = {} /\ released = {} /\ last = "none"
    /\ stack = [t \in Thread |-> <<>>] /\ gap = [t \in Thread |-> NoGap]

Call(at, c) == [at |-> at, cmd |-> c]
Walk(q, scope, one) ==
    [at |-> "cancel", q |-> q, scope |-> scope, one |-> one, left |-> -1, prev |-> None]

Idle(t) == stack[t] = <<>>
In(t, at) == stack[t] # <<>> /\ gap[t] = NoGap /\ Head(stack[t]).at = at
Top(t) == Head(stack[t])
Goto(t, calls) == stack' = [stack EXCEPT ![t] = calls \o Tail(@)]
Enter(t, calls) == stack' = [stack EXCEPT ![t] = calls \o @]
Return(t) == Goto(t, <<>>)

PendingOf(v) == {c \in Range(pending) : VdevOf[c] = v}
Same(c) == {d \in Cmd : Key[d] = Key[c]}

(***************************************************************************)
(* wlan_serialization_enqueue_cmd                                          *)
(***************************************************************************)
\* (mutant) only the command's own vdev is looked at
MutAllowed(c) == VdevOf[c] \notin bitmap /\ PendingOf(VdevOf[c]) = {}

Allowed(c) == bitmap = {} /\ PendingOf(VdevOf[c]) = {}

Refused(c) ==
    IF Allowed(c) THEN active \cap Same(c) # {}
    ELSE \/ Range(pending) \cap Same(c) # {}
         \/ Cardinality(PendingOf(VdevOf[c])) = MaxPending

\* The command is active before its timer runs and its requester knows.
Activate(c) ==
    /\ active' = active \cup {c} /\ bitmap' = bitmap \cup {VdevOf[c]} /\ blocking' = TRUE
    /\ marked' = marked \cup {c}

RequestRefused(t, c) ==
    /\ Idle(t) /\ c \notin asked /\ Refused(c)
    /\ asked' = asked \cup {c}
    /\ UNCHANGED <<lists, timing, released, last, stack, gap>>

RequestActive(t, c) ==
    /\ Idle(t) /\ c \notin asked /\ ~Refused(c) /\ Allowed(c)
    /\ asked' = asked \cup {c} /\ Activate(c)
    /\ Enter(t, <<Call("start", c)>>)
    /\ UNCHANGED <<pending, flags, timing, released, last, gap>>

RequestPending(t, c) ==
    /\ Idle(t) /\ c \notin asked /\ ~Refused(c) /\ ~Allowed(c)
    /\ asked' = asked \cup {c}
    /\ pending' = IF c \in Urgent THEN <<c>> \o pending ELSE Append(pending, c)
    /\ UNCHANGED <<active, bitmap, blocking, flags, marked, timing, released, last, stack, gap>>

(***************************************************************************)
(* wlan_serialization_dequeue_cmd, of the active list                      *)
(***************************************************************************)
\* (mutant) a command is taken out while it is being activated
MutDequeue(t, c, calls) ==
    /\ active' = active \ {c} /\ bitmap' = bitmap \ {VdevOf[c]} /\ blocking' = FALSE
    /\ flags' = [flags EXCEPT ![c] = {}] /\ marked' = marked \ {c}
    /\ timer' = [timer EXCEPT ![c] = "off"] /\ last' = "removed"
    /\ stack' = [stack EXCEPT ![t] = <<Call("move", None), Call("release", c)>> \o calls]

\* (mutant) a removal during the activation is not noted
MutDequeueForgets(t, c, calls) ==
    IF c \in marked
    THEN /\ stack' = [stack EXCEPT ![t] = calls]
         /\ UNCHANGED <<active, bitmap, blocking, flags, marked, timer, last>>
    ELSE MutDequeue(t, c, calls)

\* (mutant) the timer is left running
MutDequeueTimer(t, c, calls) ==
    IF c \in marked
    THEN /\ flags' = [flags EXCEPT ![c] = @ \cup {"removal"}]
         /\ stack' = [stack EXCEPT ![t] = calls]
         /\ UNCHANGED <<active, bitmap, blocking, marked, timer, last>>
    ELSE /\ active' = active \ {c} /\ bitmap' = bitmap \ {VdevOf[c]} /\ blocking' = FALSE
         /\ flags' = [flags EXCEPT ![c] = {}] /\ last' = "removed"
         /\ stack' = [stack EXCEPT ![t] = <<Call("move", None), Call("release", c)>> \o calls]
         /\ UNCHANGED <<marked, timer>>

\* A command that is being activated is only marked; its activation takes it
\* out.  The next one is moved, and this one released, after the lock is let go.
Dequeue(t, c, calls) ==
    IF c \in marked
    THEN /\ flags' = [flags EXCEPT ![c] = @ \cup {"removal"}]
         /\ stack' = [stack EXCEPT ![t] = calls]
         /\ UNCHANGED <<active, bitmap, blocking, marked, timer, last>>
    ELSE /\ active' = active \ {c} /\ bitmap' = bitmap \ {VdevOf[c]} /\ blocking' = FALSE
         /\ flags' = [flags EXCEPT ![c] = {}] /\ UNCHANGED marked
         /\ timer' = [timer EXCEPT ![c] = "off"] /\ last' = "removed"
         /\ stack' = [stack EXCEPT ![t] = <<Call("move", None), Call("release", c)>> \o calls]

\* A request to remove what is not active finds nothing.
RemoveCmd(t, c) ==
    /\ Idle(t) /\ c \in active
    /\ Dequeue(t, c, <<>>)
    /\ UNCHANGED <<pending, mail, asked, released, gap>>

Release(t) ==
    /\ In(t, "release")
    /\ released' = released \cup {Top(t).cmd} /\ Return(t)
    /\ UNCHANGED <<lists, timing, asked, last, gap>>

(***************************************************************************)
(* wlan_ser_move_non_scan_pending_to_active                                *)
(***************************************************************************)
\* The first of the list becomes active unless another got ahead of it.
Move(t) ==
    /\ In(t, "move") /\ pending # <<>> /\ bitmap = {}
    /\ pending' = Tail(pending) /\ Activate(Head(pending))
    /\ Enter(t, <<Call("start", Head(pending))>>)
    /\ UNCHANGED <<flags, timing, history, gap>>

MoveEnds(t) ==
    /\ In(t, "move") /\ (pending = <<>> \/ bitmap # {})
    /\ Return(t)
    /\ UNCHANGED <<lists, timing, history, gap>>

(***************************************************************************)
(* wlan_serialization_activate_cmd: the timer, the call-back, and then     *)
(* what was asked of the command meanwhile.                                *)
(***************************************************************************)
StartTimer(t) ==
    /\ In(t, "start")
    /\ timer' = [timer EXCEPT ![Top(t).cmd] = "armed"]
    /\ Goto(t, <<Call("callback", Top(t).cmd)>>)
    /\ UNCHANGED <<lists, mail, history, gap>>

Activated(t, at) ==
    /\ marked' = marked \ {Top(t).cmd} /\ Goto(t, <<Call(at, Top(t).cmd)>>)
    /\ UNCHANGED <<pending, active, bitmap, blocking, flags, timing, history, gap>>

\* The vdev gives no reference any more: no timer, no call-back.
TimerFails(t) == In(t, "start") /\ Activated(t, "failed")

CallbackReturns(t) == In(t, "callback") /\ (Activated(t, "done") \/ Activated(t, "failed"))

Failed(t) == Top(t).at = "failed" \/ "removal" \in flags[Top(t).cmd]

\* The entry may have been freed by now, and reads as nothing.
ActivationEnds(t) ==
    /\ In(t, "done") \/ In(t, "failed")
    /\ IF Top(t).cmd \in active THEN ~Failed(t) /\ "cancel" \notin flags[Top(t).cmd] ELSE TRUE
    /\ Return(t)
    /\ UNCHANGED <<lists, timing, history, gap>>

\* (mutant) the next command is not moved when an activation has failed
MutActivationRemoves(t) ==
    /\ In(t, "done") \/ In(t, "failed")
    /\ Top(t).cmd \in active /\ Failed(t)
    /\ active' = active \ {Top(t).cmd} /\ bitmap' = bitmap \ {VdevOf[Top(t).cmd]}
    /\ blocking' = FALSE /\ flags' = [flags EXCEPT ![Top(t).cmd] = {}] /\ UNCHANGED marked
    /\ timer' = [timer EXCEPT ![Top(t).cmd] = "off"] /\ last' = "removed"
    /\ Goto(t, <<Call("release", Top(t).cmd)>>)
    /\ UNCHANGED <<pending, mail, asked, released, gap>>

ActivationRemoves(t) ==
    /\ In(t, "done") \/ In(t, "failed")
    /\ Top(t).cmd \in active /\ Failed(t)
    /\ Dequeue(t, Top(t).cmd, Tail(stack[t]))
    /\ UNCHANGED <<pending, mail, asked, released, gap>>

ActivationCancels(t) ==
    /\ In(t, "done") /\ Top(t).cmd \in active
    /\ ~Failed(t) /\ "cancel" \in flags[Top(t).cmd]
    /\ Goto(t, <<Walk("active", {Top(t).cmd}, TRUE)>>)
    /\ UNCHANGED <<lists, timing, history, gap>>

(***************************************************************************)
(* The timeout: the timer posts a copy of the command to the scheduler     *)
(* thread, which looks whether it is still active before it calls back.    *)
(***************************************************************************)
Expire(c) ==
    /\ timer[c] = "armed"
    /\ timer' = [timer EXCEPT ![c] = "fired"] /\ mail' = mail \cup {c}
    /\ UNCHANGED <<lists, history, stack, gap>>

Timeout(c) ==
    /\ Idle(Mc) /\ c \in mail
    /\ mail' = mail \ {c}
    /\ IF active \cap Same(c) # {} THEN Enter(Mc, <<Call("timeout", c)>>) ELSE UNCHANGED stack
    /\ UNCHANGED <<lists, timer, history, gap>>

\* The command is found again by its type and id.
TimeoutRemoves(t) ==
    /\ In(t, "timeout")
    /\ \E c \in active \cap Same(Top(t).cmd) : Dequeue(t, c, Tail(stack[t]))
    /\ UNCHANGED <<pending, mail, asked, released, gap>>

TimeoutLate(t) ==
    /\ In(t, "timeout") /\ active \cap Same(Top(t).cmd) = {}
    /\ Return(t)
    /\ UNCHANGED <<lists, timing, history, gap>>

(***************************************************************************)
(* wlan_ser_cancel_non_scan_cmd, for one pending command or as a purge of  *)
(* both lists for a vdev or for all.  It lets go of the lock to tell the   *)
(* requester of each command it has unlinked.                              *)
(***************************************************************************)
Scopes == {{c \in Cmd : VdevOf[c] = v} : v \in {VdevOf[c] : c \in Cmd}} \cup {Cmd}

CancelOne(t, c) ==
    /\ Idle(t) /\ c \in Range(pending)
    /\ Enter(t, <<Walk("pending", Same(c), TRUE)>>)
    /\ UNCHANGED <<lists, timing, history, gap>>

\* A purge that finds nothing changes nothing.
Purge(t, scope) ==
    /\ Idle(t) /\ (Range(pending) \cup active) \cap scope # {}
    /\ Enter(t, <<Walk("pending", scope, FALSE), Walk("active", scope, FALSE)>>)
    /\ UNCHANGED <<lists, timing, history, gap>>

\* The walk goes on behind the last entry it has passed over, for as many
\* entries as the list had when it began.  It is given up when that entry has
\* left the list: what the code would read there is not a command.
Visited(w) == IF w.prev = None THEN 0 ELSE CHOOSE i \in DOMAIN pending : pending[i] = w.prev
Left(w) == IF w.left = -1 THEN Len(pending) ELSE w.left
Hits(w) ==
    IF w.prev \in Range(pending) \cup {None}
    THEN {i \in DOMAIN pending : pending[i] \in w.scope /\ 0 < i - Visited(w) /\ i - Visited(w) <= Left(w)}
    ELSE {}

CancelPending(t) ==
    /\ In(t, "cancel") /\ Top(t).q = "pending"
    /\ \E i \in Hits(Top(t)) :
           LET w == Top(t) IN
           /\ \A j \in Hits(w) : i <= j
           /\ pending' = RemoveAt(pending, i)
           /\ gap' = [gap EXCEPT ![t] = [q |-> "pending", cmd |-> pending[i]]]
           /\ Goto(t, <<[w EXCEPT !.left = Left(w) - (i - Visited(w)),
                                  !.prev = IF i = Visited(w) + 1 THEN @ ELSE pending[i - 1]]>>)
    /\ UNCHANGED <<active, bitmap, blocking, flags, marked, timing, history>>

PendingTold(t) ==
    /\ gap[t].q = "pending"
    /\ released' = released \cup {gap[t].cmd} /\ gap' = [gap EXCEPT ![t] = NoGap]
    /\ IF Top(t).one THEN Return(t) ELSE UNCHANGED stack
    /\ UNCHANGED <<lists, timing, asked, last>>

\* (mutant) the entry is copied after it has been cleared
MutCancelActive(t) ==
    /\ In(t, "cancel") /\ Top(t).q = "active"
    /\ \E c \in (active \cap Top(t).scope) \ marked :
           /\ timer[c] # "off"
           /\ active' = active \ {c} /\ timer' = [timer EXCEPT ![c] = "off"]
           /\ flags' = [flags EXCEPT ![c] = {}] /\ last' = "cancelled"
           /\ gap' = [gap EXCEPT ![t] = [q |-> "active", cmd |-> None]]
    /\ UNCHANGED <<pending, bitmap, blocking, marked, mail, asked, released, stack>>

\* Out of the list, with its bit still set; there is never a second one.
CancelActive(t) ==
    /\ In(t, "cancel") /\ Top(t).q = "active"
    /\ \E c \in (active \cap Top(t).scope) \ marked :
           /\ timer[c] # "off"
           /\ active' = active \ {c} /\ timer' = [timer EXCEPT ![c] = "off"]
           /\ flags' = [flags EXCEPT ![c] = {}] /\ last' = "cancelled"
           /\ gap' = [gap EXCEPT ![t] = [q |-> "active", cmd |-> c]]
    /\ UNCHANGED <<pending, bitmap, blocking, marked, mail, asked, released, stack>>

ActiveTold(t) ==
    /\ gap[t].q = "active"
    /\ bitmap' = bitmap \ {VdevOf[gap[t].cmd]} /\ blocking' = FALSE
    /\ released' = released \cup {gap[t].cmd} /\ gap' = [gap EXCEPT ![t] = NoGap]
    /\ Return(t)
    /\ UNCHANGED <<pending, active, flags, marked, timing, asked, last>>

\* Nothing is left to cancel; what is being activated, or has lost its timer,
\* stays, the former with a mark.
CancelEnds(t) ==
    /\ In(t, "cancel") /\ Return(t)
    /\ IF Top(t).q = "pending" THEN Hits(Top(t)) = {} /\ UNCHANGED flags
       ELSE /\ \A c \in (active \cap Top(t).scope) \ marked : timer[c] = "off"
            /\ flags' = [c \in Cmd |-> IF c \in active \cap Top(t).scope \cap marked
                                       THEN flags[c] \cup {"cancel"} ELSE flags[c]]
    /\ UNCHANGED <<pending, active, bitmap, blocking, marked, timing, history, gap>>

-----------------------------------------------------------------------------
\* What a call that is under way does next.
Continue(t) ==
    \/ Release(t) \/ Move(t) \/ MoveEnds(t)
    \/ StartTimer(t) \/ TimerFails(t) \/ CallbackReturns(t)
    \/ ActivationEnds(t) \/ ActivationRemoves(t) \/ ActivationCancels(t)
    \/ TimeoutRemoves(t) \/ TimeoutLate(t)
    \/ CancelPending(t) \/ PendingTold(t) \/ CancelActive(t) \/ ActiveTold(t) \/ CancelEnds(t)

Request(t, c) == RequestRefused(t, c) \/ RequestActive(t, c) \/ RequestPending(t, c)

Next ==
    \/ \E t \in Thread, c \in Cmd : Request(t, c) \/ RemoveCmd(t, c) \/ CancelOne(t, c)
    \/ \E t \in Thread, scope \in Scopes : Purge(t, scope)
    \/ \E c \in Cmd : Expire(c) \/ Timeout(c)
    \/ \E t \in Thread : Continue(t)

Safety == Init /\ [][Next]_vars

\* A call-back returns, a timer runs out and the scheduler thread gets to its
\* message.  No requester has to remove its command.
Spec ==
    /\ Safety
    /\ \A t \in Thread : WF_vars(Continue(t))
    /\ \A c \in Cmd : WF_vars(Expire(c)) /\ WF_vars(Timeout(c))

-----------------------------------------------------------------------------
(***************************************************************************)
(* Properties                                                              *)
(***************************************************************************)
Calls ==
    [at : {"start", "callback", "done", "failed", "release", "timeout"}, cmd : Cmd]
    \cup [at : {"move"}, cmd : {None}]
    \cup [at : {"cancel"}, q : Queue, scope : SUBSET Cmd, one : BOOLEAN,
          left : {-1} \cup Nat, prev : Cmd \cup {None}]

TypeOK ==
    /\ pending \in Seq(Cmd) /\ IsInjective(pending) /\ active \subseteq Cmd /\ marked \subseteq Cmd
    /\ bitmap \subseteq {VdevOf[c] : c \in Cmd} /\ blocking \in BOOLEAN
    /\ flags \in [Cmd -> SUBSET {"removal", "cancel"}]
    /\ timer \in [Cmd -> {"off", "armed", "fired"}] /\ mail \subseteq Cmd
    /\ asked \subseteq Cmd /\ released \subseteq Cmd /\ last \in {"none", "removed", "cancelled"}
    /\ stack \in [Thread -> Seq(Calls)]
    /\ gap \in [Thread -> {NoGap} \cup [q : Queue, cmd : Cmd]]

\* Who holds the radio: the active command, or one a cancel has unlinked and
\* not yet told its requester of.
Cancelling == {t \in Thread : gap[t].q = "active"}

\* Blocking commands run one at a time: of all commands active and those whose
\* cancellation is still being told there is one at most, and the bitmap and
\* blocking_cmd_active say which.
Exclusive ==
    /\ \A c, d \in active : c = d
    /\ \A t, u \in Cancelling : t = u
    /\ active = {} \/ Cancelling = {}
    /\ bitmap = {VdevOf[c] : c \in active} \cup {VdevOf[gap[t].cmd] : t \in Cancelling}
    /\ blocking <=> bitmap # {}

Calling(at) == {t \in Thread : \E i \in DOMAIN stack[t] : stack[t][i].at = at}
CallsOn(at, c) == {t \in Thread : \E i \in DOMAIN stack[t] : stack[t][i] = Call(at, c)}

\* No command waits for nothing: while one is pending either one is active or
\* being taken out, or somebody is about to move it.  Only the cancel of an
\* active command moves nobody.
Stranded == pending # <<>> /\ active = {} /\ last = "cancelled"
NoStranded == pending # <<>> /\ bitmap = {} /\ last # "cancelled" => Calling("move") # {}

\* A requester may free its command when told RELEASE: the command is then in
\* no list, no other release of it follows, and no thread is in its ACTIVATE
\* call-back.
Leaving(c) == CallsOn("release", c) \cup {t \in Thread : gap[t].cmd = c}
ReleaseOrder ==
    \A c \in Cmd :
        /\ c \in released => Leaving(c) = {}
        /\ \A t, u \in Leaving(c) : t = u
        /\ c \in released \/ Leaving(c) # {} =>
               /\ c \notin active /\ c \notin Range(pending)
               /\ CallsOn("start", c) \cup CallsOn("callback", c) = {}

\* "an active command should always have the timer": once its activation is
\* over it has, or the activation has failed and takes it out itself.
TimerHeld ==
    /\ \A c \in active \ marked : timer[c] = "off" => CallsOn("failed", c) # {}
    /\ \A c \in Cmd : timer[c] # "off" => c \in active

\* A command that was accepted is released in the end, whether its requester
\* ever removes it or not; only a cancelled active one leaves others behind.
Concluded ==
    \A c \in Cmd : c \in Range(pending) \cup active ~> c \in released \/ Stranded
=============================================================================
