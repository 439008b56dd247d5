------------------------------- MODULE CamSync -------------------------------
(***************************************************************************)
(* The fences of the camera driver (camera-kernel, cam_sync.c and          *)
(* cam_sync_util.c): objects in a table, signalled once by whoever holds   *)
(* their reference, merged into groups that conclude with their last       *)
(* child, waited for, and destroyed by the last user of the row.           *)
(*                                                                         *)
(* A step is one hold of a row's spinlock.  A merge holds the lock of the  *)
(* group's row over several of them; signal and destroy work on lists they *)
(* have copied out of the row and let go of its lock.                      *)
(***************************************************************************)
EXTENDS Integers, FiniteSets, Sequences, SequencesExt, FiniteSetsExt

CONSTANTS
    MaxObj,     \* CAM_SYNC_MAX_OBJS - 1: the rows are 1..MaxObj
    MaxRef,     \* bound: references taken, on all objects together
    MaxReg,     \* bound: callbacks and payloads registered at one time
    Lists,      \* the lists of objects that are merged
    Wrap,       \* the counter of children is kept modulo Wrap (2^32)
    Thread,     \* the threads that call in
    None,
    Reuse       \* a row may be given out again while a call that took its
                \* index without a reference is still under way

\* What is merged is a list of different objects, and its length an unsigned
\* integer as wide as the counter.
ASSUME CamAssumption ==
    /\ MaxObj \in Nat /\ Wrap \in Nat \ {0} /\ Reuse \in BOOLEAN
    /\ \A l \in Lists : l \in Seq(1 .. MaxObj) /\ IsInjective(l) /\ Len(l) < Wrap
    /\ IsFiniteSet(Thread) /\ None \notin Thread

VARIABLES
    bitmap,     \* the rows in use
    state,      \* row->state
    group,      \* row->type is CAM_SYNC_TYPE_GROUP
    remaining,  \* row->remaining
    ref,        \* row->ref_cnt
    waitref,    \* row->wait_ref_cnt
    signaled,   \* row->signaled has been completed
    parents,    \* row->parents_list
    children,   \* row->children_list
    cbs,        \* number of callbacks on row->callback_list
    payload,    \* a user payload is on row->user_payload_list
    lock,       \* the merge that holds the row's spinlock, or None
    op,         \* what each thread is doing
    obj,        \* the object it does it to
    ids,        \* the copied list it has still to work through
    val,        \* the status it signals
    pend,       \* children of a group nobody has signalled yet (ghost)
    bad         \* a child of the group was signalled with an error (ghost)

rows == <<state, group, remaining, ref, waitref, signaled, parents, children, cbs, payload>>
calls == <<op, obj, ids, val>>
ghosts == <<pend, bad>>
vars == <<bitmap, rows, lock, calls, ghosts>>

Obj == 1 .. MaxObj
Success == "SIGNALED_SUCCESS"
Status == {Success, "SIGNALED_ERROR"}     \* CANCEL is treated as ERROR is
States == {"INVALID", "ACTIVE"} \cup Status

Init ==
    /\ bitmap = {} /\ state = [o \in Obj |-> "INVALID"]
    /\ group = [o \in Obj |-> FALSE] /\ remaining = [o \in Obj |-> 0]
    /\ ref = [o \in Obj |-> 0] /\ waitref = [o \in Obj |-> 0]
    /\ signaled = [o \in Obj |-> FALSE]
    /\ parents = [o \in Obj |-> <<>>] /\ children = [o \in Obj |-> <<>>]
    /\ cbs = [o \in Obj |-> 0] /\ payload = [o \in Obj |-> FALSE]
    /\ lock = [o \in Obj |-> None]
    /\ op = [t \in Thread |-> "idle"] /\ obj = [t \in Thread |-> None]
    /\ ids = [t \in Thread |-> <<>>] /\ val = [t \in Thread |-> None]
    /\ pend = [o \in Obj |-> {}] /\ bad = [o \in Obj |-> FALSE]

Set(f, x, v) == [f EXCEPT ![x] = v]
Idle(t) == op[t] = "idle"
Unlocked(o) == lock[o] = None
Call(t, p, o, l, v) ==
    /\ op' = Set(op, t, p) /\ obj' = Set(obj, t, o)
    /\ ids' = Set(ids, t, l) /\ val' = Set(val, t, v)
Return(t) == Call(t, "idle", None, <<>>, None)

\* The indices calls under way have got hold of without a reference.
Copied == (UNION {Range(ids[t]) : t \in Thread}) \cup {obj[t] : t \in {u \in Thread : op[u] = "get"}}

\* The first free row, when there is one.
Free(o) == /\ o \in Obj \ bitmap /\ \A p \in Obj \ bitmap : o <= p
           /\ Reuse \/ o \notin Copied

(***************************************************************************)
(* cam_sync_init_row: the row starts from nothing.                         *)
(***************************************************************************)
InitRow(o, isGroup) ==
    /\ bitmap' = bitmap \cup {o} /\ state' = Set(state, o, "ACTIVE")
    /\ group' = Set(group, o, isGroup) /\ remaining' = Set(remaining, o, 0)
    /\ ref' = Set(ref, o, 0) /\ waitref' = Set(waitref, o, 1)
    /\ signaled' = Set(signaled, o, FALSE)
    /\ parents' = Set(parents, o, <<>>) /\ children' = Set(children, o, <<>>)
    /\ cbs' = Set(cbs, o, 0) /\ payload' = Set(payload, o, FALSE)
    /\ pend' = Set(pend, o, {}) /\ bad' = Set(bad, o, FALSE)

Create(o) ==
    /\ Free(o) /\ Unlocked(o) /\ InitRow(o, FALSE)
    /\ UNCHANGED <<lock, calls>>

GetRef(o) ==
    /\ Unlocked(o) /\ state[o] = "ACTIVE" /\ MapThenSumSet(LAMBDA p : ref[p], Obj) < MaxRef
    /\ ref' = Set(ref, o, ref[o] + 1)
    /\ UNCHANGED <<bitmap, state, group, remaining, waitref, signaled, parents, children,
                   cbs, payload, lock, calls, ghosts>>

\* A reference taken for a request that fails before it is queued.
PutRef(o) ==
    /\ ref[o] > 0 /\ ref' = Set(ref, o, ref[o] - 1)
    /\ UNCHANGED <<bitmap, state, group, remaining, waitref, signaled, parents, children,
                   cbs, payload, lock, calls, ghosts>>

Registered == MapThenSumSet(LAMBDA p : cbs[p] + (IF payload[p] THEN 1 ELSE 0), Obj)

\* cam_sync_util_cleanup_{parents,children}_list, SYNC_LIST_CLEAN_ONE
CleanOne(list, e) == RemoveFirst(list, e)

Concluded(o) == state[o] \in Status /\ remaining[o] = 0

\* (mutant) the callback is put on the list whatever the state of the row
MutRegisterCallback(o) ==
    /\ Unlocked(o) /\ state[o] # "INVALID" /\ Registered < MaxReg
    /\ cbs' = Set(cbs, o, cbs[o] + 1)
    /\ UNCHANGED <<bitmap, state, group, remaining, ref, waitref, signaled, parents, children,
                   payload, lock, calls, ghosts>>

\* A concluded object has its callback queued at once: the row stays as it is.
RegisterCallback(o) ==
    /\ Unlocked(o) /\ state[o] # "INVALID" /\ Registered < MaxReg
    /\ ~Concluded(o)
    /\ cbs' = Set(cbs, o, cbs[o] + 1)
    /\ UNCHANGED <<bitmap, state, group, remaining, ref, waitref, signaled, parents, children,
                   payload, lock, calls, ghosts>>

Deregister(o) ==
    /\ Unlocked(o) /\ state[o] # "INVALID"
    /\ \/ cbs[o] > 0 /\ cbs' = Set(cbs, o, 0) /\ UNCHANGED payload
       \/ payload[o] /\ payload' = Set(payload, o, FALSE) /\ UNCHANGED cbs
    /\ UNCHANGED <<bitmap, state, group, remaining, ref, waitref, signaled, parents, children,
                   lock, calls, ghosts>>

\* User space is told at once of a signalled state, whatever children remain.
ToldAtOnce(o) == state[o] \in Status

RegisterPayload(o) ==
    /\ Unlocked(o) /\ state[o] # "INVALID" /\ ~ToldAtOnce(o)
    /\ ~payload[o] /\ Registered < MaxReg /\ payload' = Set(payload, o, TRUE)
    /\ UNCHANGED <<bitmap, state, group, remaining, ref, waitref, signaled, parents, children,
                   cbs, lock, calls, ghosts>>

(***************************************************************************)
(* cam_sync_signal                                                         *)
(***************************************************************************)
\* cam_sync_util_dispatch_signaled_cb
Dispatch(o) ==
    /\ cbs' = Set(cbs, o, 0) /\ payload' = Set(payload, o, FALSE)
    /\ signaled' = Set(signaled, o, TRUE)

\* One of several users of the object is done with it: its status is dropped.
SignalShared(o) ==
    /\ Unlocked(o) /\ state[o] = "ACTIVE" /\ ~group[o] /\ ref[o] > 1
    /\ ref' = Set(ref, o, ref[o] - 1)
    /\ UNCHANGED <<bitmap, state, group, remaining, waitref, signaled, parents, children,
                   cbs, payload, lock, calls, ghosts>>

Signal(t, o, s) ==
    /\ Idle(t) /\ Unlocked(o) /\ state[o] = "ACTIVE" /\ ~group[o] /\ ref[o] = 1
    /\ ref' = Set(ref, o, 0) /\ state' = Set(state, o, s) /\ Dispatch(o)
    /\ IF parents[o] = <<>> THEN UNCHANGED calls ELSE Call(t, "signal", o, parents[o], s)
    /\ parents' = Set(parents, o, <<>>)
    /\ pend' = [g \in Obj |-> IF g \in Range(parents[o]) THEN pend[g] \ {o} ELSE pend[g]]
    /\ bad' = [g \in Obj |-> bad[g] \/ (g \in Range(parents[o]) /\ s # Success)]
    /\ UNCHANGED <<bitmap, group, remaining, waitref, children, lock>>

\* (mutant) the last status stays
MutUpdateParentState(p, s) == state' = Set(state, p, s)

\* The first error stays.
UpdateParentState(p, s) ==
    state' = IF state[p] \in {"ACTIVE", Success} THEN Set(state, p, s) ELSE state

\* The next of the copied parents.
SignalParent(t) ==
    LET p == Head(ids[t])
        left == (remaining[p] - 1) % Wrap
    IN
    /\ op[t] = "signal" /\ Unlocked(p)
    /\ remaining' = Set(remaining, p, left)
    /\ UpdateParentState(p, val[t])
    /\ IF state[p] # "INVALID" /\ left = 0
         THEN Dispatch(p) ELSE UNCHANGED <<cbs, payload, signaled>>
    /\ IF Len(ids[t]) = 1 THEN Return(t) ELSE Call(t, "signal", obj[t], Tail(ids[t]), val[t])
    /\ UNCHANGED <<bitmap, group, ref, waitref, parents, children, lock, ghosts>>

(***************************************************************************)
(* cam_sync_merge                                                          *)
(***************************************************************************)
\* Outside every lock.
MergeChecks(t, l) ==
    /\ Idle(t) /\ \A c \in Range(l) : c \in bitmap /\ state[c] # "INVALID"
    /\ Call(t, "checked", None, l, None)
    /\ UNCHANGED <<bitmap, rows, lock, ghosts>>

MergeBegins(t, g) ==
    /\ op[t] = "checked" /\ Free(g) /\ Unlocked(g) /\ InitRow(g, TRUE)
    /\ lock' = Set(lock, g, t) /\ Call(t, "merge", g, ids[t], None)

\* -ENOMEM
MergeFull(t) ==
    /\ op[t] = "checked" /\ bitmap = Obj /\ Return(t)
    /\ UNCHANGED <<bitmap, rows, lock, ghosts>>

\* (mutant) a child that has been signalled already is counted
MutMergeLinks(t) ==
    LET g == obj[t]
        c == Head(ids[t])
    IN
    /\ op[t] = "merge" /\ ids[t] # <<>> /\ Unlocked(c)
    /\ ~group[c] /\ state[c] # "INVALID"
    /\ remaining' = Set(remaining, g, remaining[g] + 1)
    /\ children' = Set(children, g, Append(children[g], c))
    /\ parents' = Set(parents, c, Append(parents[c], g))
    /\ pend' = IF state[c] = "ACTIVE" THEN Set(pend, g, pend[g] \cup {c}) ELSE pend
    /\ bad' = IF state[c] = "ACTIVE" THEN bad ELSE Set(bad, g, bad[g] \/ state[c] # Success)
    /\ Call(t, "merge", g, Tail(ids[t]), None)
    /\ UNCHANGED <<bitmap, state, group, ref, waitref, signaled, cbs, payload, lock>>

MergeLinks(t) ==
    LET g == obj[t]
        c == Head(ids[t])
    IN
    /\ op[t] = "merge" /\ ids[t] # <<>> /\ Unlocked(c)
    /\ ~group[c] /\ state[c] # "INVALID"
    /\ IF state[c] = "ACTIVE"
         THEN /\ remaining' = Set(remaining, g, remaining[g] + 1)
              /\ children' = Set(children, g, Append(children[g], c))
              /\ parents' = Set(parents, c, Append(parents[c], g))
              /\ pend' = Set(pend, g, pend[g] \cup {c})
              /\ UNCHANGED <<state, bad>>
         ELSE /\ state' = IF state[c] = Success THEN state ELSE Set(state, g, state[c])
              /\ bad' = Set(bad, g, bad[g] \/ state[c] # Success)
              /\ UNCHANGED <<remaining, children, parents, pend>>
    /\ Call(t, "merge", g, Tail(ids[t]), None)
    /\ UNCHANGED <<bitmap, group, ref, waitref, signaled, cbs, payload, lock>>

\* A child that cannot be merged: the links made so far are taken back.
MergeFails(t) ==
    LET g == obj[t]
        c == Head(ids[t])
    IN
    /\ op[t] = "merge" /\ ids[t] # <<>> /\ Unlocked(c)
    /\ group[c] \/ state[c] = "INVALID"
    /\ state' = Set(state, g, "INVALID")
    /\ parents' = [o \in Obj |-> IF o \in Range(children[g]) THEN CleanOne(parents[o], g) ELSE parents[o]]
    /\ children' = Set(children, g, <<>>)
    /\ bitmap' = bitmap \ {g} /\ lock' = Set(lock, g, None) /\ Return(t)
    /\ pend' = Set(pend, g, {}) /\ bad' = Set(bad, g, FALSE)
    /\ UNCHANGED <<group, remaining, ref, waitref, signaled, cbs, payload>>

MergeEnds(t) ==
    LET g == obj[t] IN
    /\ op[t] = "merge" /\ ids[t] = <<>>
    /\ IF remaining[g] = 0
         THEN /\ state' = IF state[g] = "ACTIVE" THEN Set(state, g, Success) ELSE state
              /\ signaled' = Set(signaled, g, TRUE)
         ELSE UNCHANGED <<state, signaled>>
    /\ lock' = Set(lock, g, None) /\ Return(t)
    /\ UNCHANGED <<bitmap, group, remaining, ref, waitref, parents, children, cbs, payload, ghosts>>

(***************************************************************************)
(* cam_sync_wait and cam_sync_destroy share the row by wait_ref_cnt.       *)
(***************************************************************************)
\* The index of a merge is known once the merge has returned.
Wait(t, o) ==
    /\ Idle(t) /\ Unlocked(o) /\ state[o] # "INVALID" /\ Call(t, "get", o, <<>>, None)
    /\ UNCHANGED <<bitmap, rows, lock, ghosts>>

\* (mutant) the count is taken whether or not it has reached 0
MutGetWaitRef(t) ==
    LET o == obj[t] IN
    /\ op[t] = "get"
    /\ waitref' = Set(waitref, o, waitref[o] + 1) /\ Call(t, "wait", o, <<>>, None)
    /\ UNCHANGED <<bitmap, state, group, remaining, ref, signaled, parents, children,
                   cbs, payload, lock, ghosts>>

\* cam_sync_get_wait_ref, which has read the state without the lock
GetWaitRef(t) ==
    LET o == obj[t] IN
    /\ op[t] = "get"
    /\ IF waitref[o] > 0
         THEN waitref' = Set(waitref, o, waitref[o] + 1) /\ Call(t, "wait", o, <<>>, None)
         ELSE UNCHANGED waitref /\ Return(t)
    /\ UNCHANGED <<bitmap, state, group, remaining, ref, signaled, parents, children,
                   cbs, payload, lock, ghosts>>

\* Woken, or timed out, whatever comes first.
WaitEnds(t) ==
    /\ op[t] = "wait" /\ Call(t, "put", obj[t], <<>>, None)
    /\ UNCHANGED <<bitmap, rows, lock, ghosts>>

\* (mutant) an object that is being destroyed is destroyed once more
MutDestroy(t, o) ==
    /\ Idle(t) /\ Unlocked(o) /\ o \in bitmap
    /\ state' = Set(state, o, "INVALID") /\ signaled' = Set(signaled, o, TRUE)
    /\ Call(t, "put", o, <<>>, None)
    /\ UNCHANGED <<bitmap, group, remaining, ref, waitref, parents, children, cbs, payload,
                   lock, ghosts>>

Destroy(t, o) ==
    /\ Idle(t) /\ Unlocked(o) /\ state[o] # "INVALID"
    /\ state' = Set(state, o, "INVALID") /\ signaled' = Set(signaled, o, TRUE)
    /\ Call(t, "put", o, <<>>, None)
    /\ UNCHANGED <<bitmap, group, remaining, ref, waitref, parents, children, cbs, payload,
                   lock, ghosts>>

\* cam_sync_put_wait_ref
PutWaitRef(t) ==
    LET o == obj[t] IN
    /\ op[t] = "put" /\ waitref' = Set(waitref, o, waitref[o] - 1)
    /\ IF waitref[o] = 1 THEN Call(t, "deinit", o, <<>>, None) ELSE Return(t)
    /\ UNCHANGED <<bitmap, state, group, remaining, ref, signaled, parents, children,
                   cbs, payload, lock, ghosts>>

\* cam_sync_deinit_object: the links are copied, then cut row by row ...
DeinitBegins(t) ==
    LET o == obj[t] IN
    /\ op[t] = "deinit" /\ Unlocked(o)
    /\ children' = Set(children, o, <<>>) /\ parents' = Set(parents, o, <<>>)
    /\ Call(t, "unlink", o, children[o] \o parents[o], None)
    /\ UNCHANGED <<bitmap, state, group, remaining, ref, waitref, signaled, cbs, payload,
                   lock, ghosts>>

\* (mutant) the children keep the group on their lists
MutDeinitUnlinks(t) ==
    LET p == Head(ids[t]) IN
    /\ op[t] = "unlink" /\ ids[t] # <<>> /\ Unlocked(p)
    /\ children' = IF state[p] = "INVALID" \/ group[obj[t]] THEN children
                   ELSE Set(children, p, CleanOne(children[p], obj[t]))
    /\ Call(t, "unlink", obj[t], Tail(ids[t]), None)
    /\ UNCHANGED <<bitmap, state, group, remaining, ref, waitref, signaled, parents, cbs,
                   payload, lock, ghosts>>

DeinitUnlinks(t) ==
    LET p == Head(ids[t]) IN
    /\ op[t] = "unlink" /\ ids[t] # <<>> /\ Unlocked(p)
    /\ IF state[p] = "INVALID" THEN UNCHANGED <<parents, children>>
         ELSE /\ parents' = IF group[obj[t]] THEN Set(parents, p, CleanOne(parents[p], obj[t])) ELSE parents
              /\ children' = IF group[obj[t]] THEN children ELSE Set(children, p, CleanOne(children[p], obj[t]))
    /\ Call(t, "unlink", obj[t], Tail(ids[t]), None)
    /\ UNCHANGED <<bitmap, state, group, remaining, ref, waitref, signaled, cbs, payload,
                   lock, ghosts>>

\* ... and the row is cleared, with its callbacks told CANCEL.
DeinitEnds(t) ==
    LET o == obj[t] IN
    /\ op[t] = "unlink" /\ ids[t] = <<>> /\ Unlocked(o)
    /\ bitmap' = bitmap \ {o} /\ state' = Set(state, o, "INVALID")
    /\ group' = Set(group, o, FALSE) /\ remaining' = Set(remaining, o, 0)
    /\ ref' = Set(ref, o, 0) /\ waitref' = Set(waitref, o, 0)
    /\ signaled' = Set(signaled, o, FALSE)
    /\ parents' = Set(parents, o, <<>>) /\ children' = Set(children, o, <<>>)
    /\ cbs' = Set(cbs, o, 0) /\ payload' = Set(payload, o, FALSE)
    /\ pend' = Set(pend, o, {}) /\ bad' = Set(bad, o, FALSE)
    /\ Return(t) /\ UNCHANGED lock

-----------------------------------------------------------------------------
Continue(t) ==
    \/ SignalParent(t) \/ MergeFull(t) \/ (\E o \in Obj : MergeBegins(t, o))
    \/ MergeLinks(t) \/ MergeFails(t) \/ MergeEnds(t) \/ GetWaitRef(t) \/ WaitEnds(t)
    \/ PutWaitRef(t) \/ DeinitBegins(t) \/ DeinitUnlinks(t) \/ DeinitEnds(t)

Next ==
    \/ \E o \in Obj : \/ Create(o) \/ GetRef(o) \/ PutRef(o) \/ RegisterCallback(o)
                      \/ Deregister(o) \/ RegisterPayload(o) \/ SignalShared(o)
    \/ \E t \in Thread, o \in Obj :
           (\E s \in Status : Signal(t, o, s)) \/ Wait(t, o) \/ Destroy(t, o)
    \/ \E t \in Thread, l \in Lists : MergeChecks(t, l)
    \/ \E t \in Thread : Continue(t)

Safety == Init /\ [][Next]_vars

\* A call that is under way goes on; a spinlock is not held for ever and a
\* wait has a timeout.
Spec == Safety /\ \A t \in Thread : WF_vars(Continue(t))

-----------------------------------------------------------------------------
(***************************************************************************)
(* Properties                                                              *)
(***************************************************************************)
TypeOK ==
    /\ bitmap \subseteq Obj /\ state \in [Obj -> States] /\ group \in [Obj -> BOOLEAN]
    /\ remaining \in [Obj -> 0 .. Wrap - 1] /\ ref \in [Obj -> Nat]
    /\ waitref \in [Obj -> Nat] /\ cbs \in [Obj -> Nat]
    /\ signaled \in [Obj -> BOOLEAN] /\ payload \in [Obj -> BOOLEAN]
    /\ parents \in [Obj -> Seq(Obj)] /\ children \in [Obj -> Seq(Obj)]
    /\ lock \in [Obj -> Thread \cup {None}] /\ obj \in [Thread -> Obj \cup {None}]
    /\ ids \in [Thread -> Seq(Obj)] /\ val \in [Thread -> Status \cup {None}]

Live(o) == o \in bitmap /\ state[o] # "INVALID" /\ Unlocked(o)
Signalling(g) == {t \in Thread : op[t] = "signal" /\ g \in Range(ids[t])}

\* A group counts the children nobody has signalled and the signals that are
\* on their way to it: none is counted twice, none is missed by a merge.
GroupCount ==
    \A g \in Obj : Live(g) /\ group[g] =>
        remaining[g] = Cardinality(pend[g]) + Cardinality(Signalling(g))

\* Once no signal is on its way to it, a group is in error exactly when one of
\* its children was, and a success when all of them are signalled without.
GroupOutcome ==
    \A g \in Obj : Live(g) /\ group[g] /\ Signalling(g) = {} =>
        /\ state[g] = "SIGNALED_ERROR" <=> bad[g]
        /\ pend[g] = {} /\ ~bad[g] => state[g] = Success

\* Waiters are woken, callbacks and payloads told, when the object or its last
\* child is signalled and not before.
ToldWhenConcluded ==
    \A o \in Obj : Live(o) =>
        /\ signaled[o] <=> Concluded(o)
        /\ Concluded(o) => cbs[o] = 0 /\ ~payload[o]

\* No object in use names a parent that is gone.
ParentsInUse ==
    \A o \in Obj : Live(o) => Range(parents[o]) \subseteq bitmap

\* An object is kept by its creator until it is destroyed and by those that
\* wait for it, and given back by the last of them.
UsersCounted ==
    \A o \in bitmap :
        LET users == {t \in Thread : op[t] \in {"wait", "put"} /\ obj[t] = o} IN
        /\ waitref[o] = Cardinality(users) + (IF state[o] = "INVALID" THEN 0 ELSE 1)
        /\ waitref[o] = 0 => \E t \in Thread : op[t] \in {"deinit", "unlink"} /\ obj[t] = o
=============================================================================
