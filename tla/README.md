# Verification of the concurrency protocols in the Marble vendor modules

The repository holds the out-of-tree vendor kernel modules of a Qualcomm based
phone (`src/qcom/opensource/`): WLAN, IPA, camera, video, display, audio, rmnet.
This project models the parts of it whose purpose is concurrency:

- the *Driver Synchronization Core* (DSC) on which the WLAN driver's life cycle
  rests, the registry in front of it (osif_sync), and the threads of the host
  driver (HDD) that use both;
- the votes that keep the clocks of the IPA, the packet accelerator, on: the
  active clients counter and the power manager's clients on top of it;
- the fences of the camera driver, signalled and merged across its devices;
- the serialization of the WLAN driver's commands, one at a time on a radio.

The four do not interact: each is a group of modules of its own.
Paths below are relative to `src/qcom/opensource/wlan/qcacld-3.0/` unless they
start with `dataipa`, `camera-kernel`, `mmrm-driver` or `qca-wifi-host-cmn`
(which is beside it).

## 1. Inventory

### 1.1 Driver Synchronization Core: `components/dsc`

*State.* A tree of contexts: one driver, its psocs (radios), their vdevs
(network interfaces). Each has `trans` (`active_desc` of the transition in
flight, a FIFO queue of `struct dsc_tran`, each on the stack of a waiting
thread, with an event) and `ops` (a count of operations in flight and an event).
Everything is protected by the one spinlock of the driver (`__dsc_lock`).

*Operations.* `create`/`destroy`; `trans_start`, `trans_start_wait`,
`trans_stop`; `op_start`, `op_stop`; `wait_for_ops`, on each of the three levels.

*Interaction.* A transition excludes transitions and operations on the same
context and up-tree and down-tree of it (the matrix in `wlan_dsc.h:20-47`).
`trans_stop` hands over: it picks, from the queues of its own context, its
parents and its children, those that may start, and signals their threads.

*Hard.* Three levels, three different rules for who is triggered; threads
asleep while their tran is moved by others; `wait_for_ops` gives up the lock
between the reset of an event and the sleep, and between two contexts of its
walk; a context may be destroyed while threads are queued on it.

*Correct when* related transitions never overlap, no operation runs once
`wait_for_ops` has returned, no waiter and no wake-up is lost, ownership is
unambiguous, waiters are served in order, nobody is inside freed memory.

### 1.2 osif_sync: `os_if/sync`

*State.* Fixed arrays of `osif_psoc_sync` and `osif_vdev_sync`, each entry with
`in_use`, the DSC context and the `struct device` or `net_device` under which it
is registered; a spinlock per array; one `osif_driver_sync`.

*Operations.* create, destroy, register, unregister, `trans_start` and
`op_start` (lookup and start under the array lock), `trans_start_wait` (lookup
under the lock, the rest without), `trans_resume`, `wait_for_ops`.

*Hard.* The entry and its context are used after the lock is dropped;
create-and-start has to undo itself.
*Correct when* entries and contexts are in one-to-one correspondence, lookups
are unambiguous, and a context that has been looked up is alive when used.

### 1.3 HDD threads: `core/hdd`, `core/pld`

Probe and remove (`hdd_soc_probe`, `pld_pcie_remove`), module unload
(`hdd_driver_unload`), recovery (`hdd_soc_recovery_shutdown`, then
`hdd_soc_recovery_reinit`), idle shutdown, mode change (`con_mode` parameter),
adding, deleting, opening and stopping an interface (under `rtnl`), and
operations (cfg80211, wext, sysfs and other handlers, almost 400 calls of `op_start`).
*State* beyond 1.1 and 1.2: the recovery and unloading flags, `rtnl`, which
interfaces are open, the interface-down command cached on a vdev while its
transition is refused.

*Hard.* A transition that one callback starts and another one ends; flags that
are checked before a wait and stale after it; `rtnl` held across a wait;
failures half-way; refused transitions whose caller goes on.
*Correct when* each thread keeps the contract of DSC, ends what it started,
removes what it promised to remove, returns, and tells the driver about every
interface the kernel took down.

### 1.4 IPA clock votes: `dataipa/drivers/platform/msm/ipa/ipa_v3`

*State.* The active clients counter (`ipa.c`): an atomic count, a mutex, the
clocks, the state of the application processor's pipes, a flag that asks for a TAG
process before the clocks are gated, and work items of a one-thread queue that
each carry one vote. A client of the power manager (`ipa_pm.c`): its state (seven
of them), a completion, an activate work and a delayed deactivate work.

*Operations.* Take a vote with and without blocking, give one back; the
interrupt, served at once or by a work; the TAG process; activate (from any
context), activate_sync, deferred_deactivate, deactivate_sync, the two works, and
the suspension of the system, which cuts deferred deactivations short.

*Hard.* The counter is touched by atomic operations inside and outside the mutex; the
last vote changes hands up to three times before it is given back; the power
manager drops `state_lock` between a decision about a client and the vote that
belongs to it.
*Correct when* no vote is lost, doubled or granted with the hardware off, an
active client owns exactly one, and the clocks go off when everybody has let go.

### 1.5 Camera fences: `camera-kernel/drivers/cam_sync`

*State.* A table of rows, each with a spinlock, a state, reference counts of two
kinds, lists of parents and children, and of those to be told; a bitmap of rows in
use.
*Operations.* create, get and put a reference, register and deregister a callback
or payload, signal, merge, wait, destroy.

*Hard.* A signal works through a copy of the parents' indices with no lock held, while
these are merged, concluded and destroyed; a merge holds the group's lock and
visits its children one after the other; destroy cuts the links of a row in
both directions and only the last user frees it.
*Correct when* a group counts its children exactly, takes the first error as its
outcome, tells everybody at its conclusion and not before, and no row names one that is gone.

### 1.6 WLAN command serialization: `qca-wifi-host-cmn/umac/cmn_services/serialization`

*State.* Per radio: a pending list, an active list, a bitmap of the vdevs with an
active command, and `blocking_cmd_active`; per command the bits of `cmd_in_use`
(it is being activated, it is to be removed or cancelled after that) and a slot
among the timers; the messages that carry time-outs to the scheduler thread. A
spinlock for the lists, another for the timers.

*Operations.* Request, remove, cancel one pending command, purge the commands of
a vdev or all of them; and from within: activating a command (its timer, then its
call-back), moving the next pending one to the active list, the time-out.

*Hard.* No call-back is made under the lock, and it may fail or its command be
removed meanwhile. A dequeue, the move after it and the release after that are
separate holds; a cancel lets go of the lock between unlinking a command and
clearing its bit; a failed activation dequeues, which moves and activates the
next one, which may fail.
*Correct when* commands run one at a time, none waits with nothing to wait for, a
command is released once and after its call-backs, and the active one has its timer.

### 1.7 The rest of the repository

Components with state machines worth modelling: the WLAN object manager,
the IPA resource manager (`dataipa/.../ipa_rm*.c`: a dependency graph of
asynchronous producers and consumers), the multimedia resource manager
(`mmrm-driver`: admission under a current budget), `snd_event`. The remaining
code is register programming, packet transformation, firmware message packing
and generated headers; it is listed in PROJECT.json and not planned.

## 2. Modules

| Module | What it is | Code |
| --- | --- | --- |
| `DscTree` | the tree of contexts: constants, assumptions, up-tree, down-tree | `__wlan_dsc.h` |
| `TreeLock` | abstract specification: a reader/writer lock on a tree | what `wlan_dsc.h` promises |
| `Dsc` | the core | `components/dsc/src` |
| `OsifSync` | the registry, EXTENDS `Dsc` | `os_if/sync/src` |
| `HddSync` | the threads, EXTENDS `OsifSync` | `core/hdd/src`, `core/pld/src` |
| `ClkGate` | abstract specification: votes and a clock | what `ipa3_inc_client_enable_clks` and its counterpart promise |
| `ActiveClients` | the counter | `ipa_v3/ipa.c`, `ipa_interrupts.c` |
| `IpaPm` | the power manager's clients, EXTENDS `ActiveClients` | `ipa_v3/ipa_pm.c` |
| `CamSync` | the fences | `cam_sync.c`, `cam_sync_util.c` |
| `Serialization` | the non-scan commands of a radio | `wlan_serialization_{api,internal,non_scan,utils}.c` |
| `TreeLockProofs`, `DscProofs`, `ActiveClientsProofs`, `IpaPmProofs`, `SerializationProofs`, `SerializationReleaseProofs`, `CamSyncProofs`, `HddSyncProofs` | theorems and proofs | |
| `MCDsc`, `MCHddSync`, `MCIpaPm`, `MCCamSync`, `MCSerialization` | instances for TLC: model values, tree, symmetry | |

**Dsc.** Each entry point is one action, since it runs under one spinlock.
Those that sleep are split where they release it: `TransStartWait` queues,
`WaitGranted`/`WaitAborted` return from `__dsc_tran_wait`; `WaitForOps` begins a
walk, `VisitQuiet`/`VisitBusy` look at one context, `Wake` returns from its
event, `Drained` ends the walk. A `Caller` is a thread; `active[n]` is the
caller to which `active_desc` belongs, `queue[n]` the callers whose trans are
queued, `ops[n]` the callers counted in `ops.count`. `CanTrans` is
`__dsc_*_can_trans`, `Triggers` what `__dsc_*_trans_trigger_checked` lets
start. A refused start changes nothing and has no action of its own.
`signalled` is the events of `ops`; a tran's event is the `granted` or
`aborted` of its thread. `recovering` and `unloading` are flags of the platform
that `__dsc_vdev_can_trans` reads.

`*_destroy` asserts that the context has no child and no operation, and takes
for granted that nobody is in or on its way into it: it flushes the queue outside the
lock, and `wait_for_ops` walks the children outside the lock. `MayDestroy`
states this contract; `Destroy` is enabled only under it. `HddSync` calls the
unguarded `Free` instead, and its property `KeepsContract` checks that its steps
are steps of `Dsc`, i.e. that the clients keep the contract. One of them does not
(finding 2).

**OsifSync.** `Lookup`, `PsocSyncCreate`, ... are one operator per function;
`SyncTransStart` and `SyncOpStart` are atomic (array lock), `SyncTransStartWait`
is not: its caller has a context it read earlier.

**HddSync.** A thread runs a program of `Prog`: the osif_sync calls of its
function in order, e.g. `Remove` is `pld_pcie_remove` around `__hdd_soc_remove`
and `hdd_close_all_adapters`. Every call is one action. `*_trans_start_wait` is
three: lookup, read of the context, start. Work between the calls is left out
except where it decides how the program goes on (probe or add fails, the context does
not validate, unloading ends a recovery). `up`, `open` and `cached` are the
interface as the kernel sees it, `DEVICE_IFACE_OPENED`, and `nb_cmd_during_ssr`.
Walking the array in `hdd_handle_cached_commands` is one step: its only
competitor, a refused stop, is the same before and after each entry.

**ActiveClients.** A thread that takes or gives back a vote is at a position
`at[t]` of `ipa3_inc_client_enable_clks` or `__ipa3_dec_client_disable_clks`: one
action per atomic operation and per hold of the mutex. `works` is the items
pending on `power_mgmt_wq`; since a work item is queued at most once, it is a
set, and queueing one that is pending does nothing. `held` is a ghost: the
votes that callers own. `NoUnderflow` is the assertion at the head of the dec function.

**IpaPm.** One action per hold of `state_lock`, or per test made without it. `pc`
is where a thread is in `ipa_pm.c`, `at` where it is in the counter's code, and a
thread goes on with the first only when it is done with the second (`At`). Calls
from atomic context (`ActivateAgain`, `ActivateNow`, `ActivateLater`, `Deferred`)
are single steps; `Pmworker` runs the two works; `Owner` makes the synchronous
calls; `Suspender` is `ipa_pm_deactivate_all_deferred`. `done[c]` is the completion.
`Close` has no counterpart in the code: it marks the moment from which the users
of the hardware only let go, so that "everything settles" can be stated.

**CamSync.** One action per hold of a row's spinlock. A merge holds the lock of
its group (`lock`) while it takes those of its children (`MergeLinks`); `Signal` and `DeinitBegins` copy a
list into `ids[t]` and the following steps work through it. `remaining` is an
unsigned counter and wraps (`Wrap`). `CleanOne` is
`cam_sync_util_cleanup_{children,parents}_list` with `SYNC_LIST_CLEAN_ONE`, which take out one entry and stop. `pend` and `bad` are ghosts: the children a group
waits for and whether one was in error, kept at the moment a child is signalled,
independently of the steps that bring the news to the group.

**Serialization.** One action per hold of `pdev_queue_lock`, or per call-back.
`stack[t]` is the calls a thread is in, each with its command: a dequeue becomes
the calls `move` and `release`; a move or a request the call `start`, which
becomes `callback` and then `done` or `failed`; a cancel is a `Walk` over one list,
with what it has left to visit and the entry behind which it goes on. `gap[t]`
is the command a cancel has unlinked and is telling about with the lock dropped.
`Key` is what a command is found by: two commands with the same key are the same
one requested twice. `asked`, `released` and `last` are history; `marked` and
`flags` are `cmd_in_use`. All non-scan commands that this driver requests, as it is
built (`CONN_MGR_ADV_FEATURE`), are blocking, so the branches for others are left
out, and with them `blocking_cmd_waiting`, which only they read.

## 3. What TLC checks

| Run | Question | Bounds | States |
| --- | --- | --- | --- |
| `dsc_tree` | the safety properties of the core, and `ImplementsTreeLock` | 3 callers, 2 psocs, 2 vdevs under one psoc, unloading may start and stop | 620 k |
| `dsc_live` | waiters are served, drains end | 3 callers, 1 psoc, 1 vdev, recoveries | 93 k |
| `hdd_unload` | unload against probe, failed probe, idle shutdown, up/down, operations | 3 threads, 2 interfaces | 478 k |
| `hdd_mode` | mode change against idle shutdown, up/down, operations | 3 threads, 2 interfaces | 276 k |
| `hdd_iface` | add, failed add and delete against recovery, idle shutdown, operations | 3 threads, 2 interfaces | 336 k |
| `hdd_live` | unload, idle shutdown, delete: every call returns | 3 threads, 1 interface | 29 k |
| `ipa_pm` | votes of the counter and of the clients, refinement of `ClkGate`, and that all settles | 1 client, 4 threads (two workers, a process, the suspending thread), interrupt, TAG process | 324 k |
| `cam_sync` | groups, outcomes, notifications, life time of rows | 3 rows, 2 threads, 2 references, 1 registration | 2.9 M |
| `ser` | one command at a time, none stranded, released once and last, all concluded | 3 commands (2 the same), 2 vdevs, 2 threads, pending list of 1 per vdev | 219 k |

The three runs that end in a violation are in section 6.

*Properties of the core.* `TreeExclusion`, `DrainedExclusive`,
`GrantConsistency`, `NoLostWaiter`, `NoLostWakeup`, `DetachedQuiet`,
`HandoffOrder`, refinement of `TreeLock`; live: `Served`, `DrainEnds`. *Of the
clients:* `Orderly` (`RegistrySound` and `TransConcluded`), `EntryOwned`, `LookupLive`,
`KeepsContract`, `RecoveryConcluded` (`ReinitResumes` and `TransConcluded`),
`UnloadRemoves`, `DeleteSafe` (`LookupLive` and `NoneAborted`); live: `CallsReturn`.
*Of the IPA:* `VotesCounted`, `VotesHonoured`, `VotesMatch`, `TimerArmed`, refinement of
`ClkGate`; live: `LetGoSettles`. *Of the fences:* `GroupCount`, `GroupOutcome`,
`ToldWhenConcluded`, `ParentsInUse`, `UsersCounted`. *Of the commands:* `Exclusive`,
`NoStranded`, `ReleaseOrder`, `TimerHeld`; live: `Concluded`.

*Why the bounds are enough.* The rules of DSC relate a context to its parent,
its children and itself; two psocs and two siblings under one of them contain
every pair of related and unrelated contexts. A hand-over involves the one
that stops, the one that is granted and one that must not be: three callers.
With three, a queue holds two waiters, so order shows. The threads of HDD are
bound the same way: an owner, a waiter, and one that changes what the waiter
believes. Each device is probed and removed any number of times, entries and
vdevs are used again, so stale references have something to be stale about.
Two interfaces let one be closed while another is in use; the liveness runs
have one, as TLC's liveness checking may not use symmetry. `hdd_iface` leaves
unload and mode change out because with them the disagreements of section 6 appear;
the finding runs add those jobs back.
Four threads and three interfaces add nothing that the proofs of section 4 do not cover.
With one client of the power manager the counter still has up to four voters (the
client, the interrupt, the works and the TAG process), which is what the fast
and slow paths need to cross; that more clients add nothing new is what the
proofs of section 4 show. Three rows hold a group of two children and let
the second list be a merge of something that has become a group; two threads
let a signal, a merge or a wait meet a destroy. The rows are reused.
A command that runs, one that waits and one that is requested while the first
leaves are three; one of them on a vdev of its own lets a purge pass a command
over, an urgent one overtakes another, and two with one key let a time-out
find the wrong one. The scheduler thread and one other let a time-out meet
everything else. Larger instances have been run for safety: four commands and two
threads (2.9 M states), three commands and three threads (6.1 M).

*Fairness.* `FairSpec` of `Dsc`: `WF` of `Proceed` for each caller - a thread
that is not asleep runs on; a spinlock and a completion do not starve one thread
for ever - and `SF` of `TransStop`: every client in the code pairs a start with
one stop on all its paths, and calls `wait_for_ops` finitely often before it.
`HddFairSpec`: `WF` of `Step` for each thread, and `SF` of the step that takes
`rtnl`, a kernel mutex, which queues its waiters in order. No fairness for
anything that *begins* (no call is bound to be made) and none for recoveries.
`Served` is conditional: psoc and vdev waiters are overtaken by transitions
up-tree as long as these keep coming (`__dsc_psoc_trigger_trans`), by design.
`PmFairness`: `WF` of each worker, call and timer that can go on; `SF` of the
suspension of the pipes, since a pipe is not busy for ever once there is no
traffic; and `WF` of `Deferred` after `Close`: whoever activated a client lets it
go. `CamSync` states `WF` of calls under way but only safety is checked.
`Serialization`: `WF` of each call under way (a call-back returns), of each timer
running out and of the scheduler thread taking its message; none for a requester
removing its command, so that `Concluded` rests on the time-out alone.

*Deadlock* is checked in every run of DSC and HDD. The IPA, the fences and the
commands may come to rest, when the users have let go or have used up the bounds, and
their runs do not check it; that calls of the IPA return is part of `LetGoSettles`.

*Environment assumed by HddSync.* The platform driver calls probe, remove,
shutdown and reinit of a device one at a time, reinit after every shutdown;
unload and mode change begin when the device is registered, one of each kind at
a time (module state, `kernel_param_lock`); the idle timer runs while no
interface is open; the firmware may crash at any time. There is one radio
(`OneRadio`): the driver has one `hdd_ctx`, and `hdd_close_all_adapters`, which works
through the adapters of that, would otherwise close those of another psoc. A `device` is not
a `net_device`.

*Assumed by IpaPm.* `LateCompletion` is FALSE in the passing run: no client is
activated again between the moment the activate work drops `state_lock` and its
`complete_all`; finding 3 is what happens otherwise. The interrupt is edge
triggered and not raised again before it is processed. One process at a time
makes the synchronous calls, and processes are frozen when
`ipa_pm_deactivate_all_deferred` runs. Boot is over: the modem's proxy vote has been given back.

*Assumed by CamSync.* `Reuse` is FALSE: a row is not given out again while a
call that has copied its index, without a reference, is under way. With TRUE, TLC
finds a signal that takes down the count of a stranger (`GroupCount`); whether user space can
get there in time is not for this code to say. A wait takes an index after the merge
that made it has returned. `Lists` holds no list that names an object twice, as
`cam_sync_merge` rejects those (`cam_sync.c:317`), and a list is shorter than the unsigned
count of its entries can say (`CamAssumption`).

*Assumed by Serialization.* A command is requested once (`asked`), and its pool entry
stands for no other. Time-outs can be posted. The vdev outlives its commands but
may refuse a reference when a timer is to be started (`TimerFails`). A walk that
stands on an entry which another thread has taken out is given up; the code
follows the freed node (section 6). `NoStranded` and `Concluded` except what waits behind
an active command that was *cancelled*: that moves nobody
(`wlan_serialization_non_scan.c:715-719`), and callers purge when the vdev or the
radio goes.

## 4. What is proved

For every finite or infinite set of callers and every tree (`TreeAssumption`, `NoneAssumption` in
`DscTree`: driver, psocs and vdevs are disjoint, each vdev has a psoc, `None` is
not one of them), TLAPS checks `Spec => []P` for `TypeOK`, `TreeExclusion`,
`GrantConsistency`, `DrainedExclusive`, `NoLostWakeup`, `DetachedQuiet`,
`NoLostWaiter`, `Spec => HandoffOrder` and `Spec => ImplementsTreeLock`
(`DscProofs`), and the isolation that the tree lock gives (`TreeLockProofs`).

The argument, in three layers, each inductive on top of the one before:

1. `Core` = `TypeOK`, `TreeExclusion`, `GrantConsistency`. `TreeExclusion` is not
   inductive alone: that `trans_stop` gives transitions away safely needs each
   waiter to be in exactly one queue (`QueueAccounting`, part of `TypeOK`) and
   the stopping thread to own what it stops. `TriggersSound` is the key lemma:
   whatever `Triggers` returns is unrelated to every other active context and
   pairwise unrelated.
2. `DrainInv`: which contexts a walk has still to visit, that those it has
   visited are quiet, that an event is signalled only when its context is
   quiet. New operations cannot start in the subtree, because `CanTrans` looks up-tree;
   from it follow `DrainedExclusive`, `NoLostWakeup` and `DetachedQuiet`.
3. `WaiterInv`: behind every waiter there is a transition in flight that is
   related to it or a waiter up-tree; from it `NoLostWaiter` and, with `Core`, `HandoffOrder`.

`DscImplementsTreeLock` maps `holder` to `active`, `readers` to `ops` and
`inside` to the callers that are `drained`; every step is a step of the lock or
a stutter.

*Only model-checked:* liveness (TLAPS has no ENABLED reasoning here): `Served`, `DrainEnds` and,
of the threads below, `CallsReturn`.

**The threads of HDD.** `HddSyncProofs` is about any number of threads, interfaces and
entries on one radio. `HddSafe` proves the invariant `HddInv` for every set of programs
(`Jobs`), the ones that the disagreements of section 6 need included. Its parts, inductive
together only:

1. `Core` of `DscProofs`: the threads keep the core's structures and the exclusion of its
   transitions, whatever they free and when.
2. `JobInv`: where a thread may be in the core at each position of its program (`PcRow`), where
   it has `rtnl`, and that the calls of the platform come one at a time.
3. `SyncInv`: the registry is sound; each entry that is not registered is one thread's
   (`OwnInv`); what a thread has looked up is still the entry it was (`SeekRow`). A delete
   that waits under `rtnl` may have lost its entry to an unload or a mode change that has
   unregistered it; but those are then before their `unregister_netdev` (`Barred`), which needs
   `rtnl`, and cannot destroy it before the delete has gone. This is what `LookupLive` and
   `NoneAborted` rest on: `osif_vdev_sync_trans_start_wait` itself
   drops the lock of the array before it uses the context.

From it: `RegistryStaysSound`, `EntriesOwned`, `LookupsLive`, `DeletesSafe`. On top of it `CallInv`
(`CallSafe`) says who has the driver's transition (`DriverRow`), that an unload, once it has
unregistered its radio, finds it unregistered (`Removed`: no probe can come between, since the
platform's calls exclude each other), and, for some sets of programs, what a recovery
finds (`Calm`, `Resumed`). From that `LeavesOrder`, `RecoveriesConclude` and `UnloadsRemove`.
These have a hypothesis each on `Jobs`, the weakest possible: with an unload and a recovery,
a transition is left behind (run `hdd_leak`); with a mode change, a shutdown is refused its
transition and an unload its radio (section 6).

`ContractKept` proves `KeepsContract`: every call of the threads is a step of `Dsc` or none of
its business, so that what is proved of `Dsc` is proved of them (`NothingFreedInUse`,
`CursorsLive`). All but the four calls that destroy a context are so by `HddInv`
(`OtherCalls`). For those, `KeepInv` adds to `CallInv` and `DrainInv`:

1. `Waited`: who closes interfaces has been through `wait_for_ops` under its transition and not
   stopped since, so that `VisitedQuiet` says there are no operations, and `OneDrainer` that nobody
   else walks there (`CloseMayDestroy`). `OnRadio` says that a probe has the transition of
   its radio.
2. `Bare`: from the end of `hdd_close_all_adapters`, and from the creation of a radio until its
   probe is registered and may open interfaces, there is no interface and no mode change. The
   last interface is closed because `CloseNoMore` finds none registered and every other one is in
   some thread's hands (`OwnInv`), of which there is none. `ModeFinds` (a mode change found a
   radio, which stays) and `Rooted` are what makes it inductive.
3. `Resting`: between its `trans_stop` and its destroy the radio's context has no operation, transition,
   waiter or walk, and gets none: it is not registered, who has looked it up before is a call of the
   platform, which come one at a time, and who walks from above has the driver's transition.

The hypothesis `KeepJobs` is about what breaks it: an interface that is added or deleted by
itself is destroyed with no transition up-tree, while somebody may walk the radio (finding 2);
an unload or a failed probe does that to the radio when a mode change is about to walk the driver
(section 6); and unload needs the platform's flag. The sets of programs of `hdd_unload` and
`hdd_mode` satisfy it.

**The IPA.** `ActiveClientsProofs` is about the counter alone, with any finite set
of threads, whose callers give back what they hold: `VotesCounted`, `VotesHonoured`,
`NoUnderflow` and the refinement of `ClkGate`. The inductive invariant is
`ClkInv`: besides the count itself it says who owns the mutex at each position,
that the clocks are off only with a count of 0 and pipes only resumed with the clocks on, and
that the interrupt and its work agree. `VotesCounted` alone is not inductive:
`DecSub` needs that nobody else can be between reading 1 and gating, which is
the mutex. `IpaPmProofs` lifts this to the clients, for any finite sets of
clients and threads, under the assumption `~LateCompletion`. Its invariant
`PmInv` is `ClkInv`, types (`PmType`), where a thread may be in a call (`Calls`,
`Places`), what state a client is in while a work or a call of it is
under way (`Progress`, `CalledOff`), and `VotesMatch`. From it: the composed system is an
implementation of the counter with well-behaved callers, hence keeps its
invariants and implements `ClkGate` too (`PmImplementsCounter`, `PmKeepsVotes`,
`PmImplementsGate`), and `TimersStayArmed`.

**The commands.** `SerializationProofs` is for any sets of commands, vdevs and
threads. `OneAtATime` proves `Exclusive`: every activation is made in the hold that
has found the bitmap empty (`Allowed`, `Move`), and a bit is cleared only by the
thread that unlinked its command. It is inductive together with: a thread with a
`gap` stands in a cancel of that list (`Telling`), so that nothing else of it can
run. `SerTypeOK` adds that nothing is queued twice, which needs `asked`, and that
the cursor of a `Walk` stays in bounds. `NobodyStranded` proves `NoStranded`: only
`Dequeue` empties the active list without a cancel, and it pushes the `move` in
the same hold; `MoveEnds` gives one up only when there is nothing to move or
somebody is ahead; and no other step drops one.

`SerializationReleaseProofs` proves `ReleaseOrder` (`ReleasedOnce`) and `TimerHeld`
(`ActiveHasTimer`) on top. A command moves from the request to a list, from there into
the calls of the thread that took it out, and ends with its release; what makes the
release the last thing that happens to it is that it is in one of those places only.
`LifeInv` says so, with a place counted from the bottom of a thread's stack, so that a
call or a return above it does not move it: what is queued was asked and not
released (`ListInv`); an activation (`start`, `callback`, `done`, `failed`) is under way in
one place only and its command does not wait (`ActInv`); a command in `release`, or
in a `gap`, is in no list, in one such place, and not released yet (`LeaveInv`); the timer
runs from before the call-back on, and an active command that nobody is starting
has it unless it is about to be given up (`TimerInv`).

*Only model-checked there:* `Concluded` of the commands and
`LetGoSettles` (liveness).

**The fences.** `CamSyncProofs` is for any number of rows, any finite set of threads, any
lists and any width of the counter, under the assumption `~Reuse`: a row is not given
out while a call names it without a reference. The code does not guarantee that, and
`GroupCount` is false without it (section 3). All six follow from `FenceInv`, of which TLC checks each part on the
instance of `cam_sync`. Its layers, each needed by the next:

1. `TypeInv`, `CallInv`: types, no list with an object twice, what a call has in hand.
2. `UserInv`: what a call relies on (`Role`): a merge holds the lock of its group and is its
   only user, and a row is taken down by one thread, when nobody else counts. With
   `UsersCounted`, which is inductive only together with it.
3. `LinkInv`: only a group has children, only an object that has not been signalled has
   parents, and each link has its reverse, or the thread that destroys the group still has
   the child on its list (`Unlinking`). `ParentsInUse` alone is not inductive: destroy
   leaves the links of the children to a later step.
4. `CountInv`: a child that is active is pending with every group it names (`PendRow`), so that
   signalling it moves it, in one step, from `pend` to `Signalling`; the sum of the two is the
   count (`Tally`), for groups that are being merged or destroyed too, which
   `GroupCount` leaves out. The count does not wrap, because a
   merge takes at most `Wrap - 1` children (`PendCall`).
5. `OutcomeInv`: a child's error is in the state of the group or in a signal on its way to it
   (`Errors`), and an active group has a count above 0.
6. `ToldInv`: the completion says what the state says, and nobody is registered with
   what has concluded.

The lists are treated as the sets of their entries, with no entry twice, and the counts as
cardinalities that grow and shrink by one element, so that no induction over the
sequences is needed.

## 5. Plan

In order, most important behaviour first; items marked * are done.

1. * `DscTree`, `TreeLock`, `Dsc` with their proofs: everything else rests on them.
2. * `OsifSync` and `HddSync`, which compose with `Dsc`, so that the contract of
   `Dsc` is checked rather than assumed.
3. * Proofs for `OsifSync` and `HddSync`, `KeepsContract` included.
4. * `ClkGate`, `ActiveClients`, `IpaPm` and their proofs. Left: registration and deregistration, the
   clock plan.
5. * `CamSync` with proofs of its six safety properties. Left: closing the device.
6. * `Serialization` with proofs of its four safety properties. Left: the scan queue, whose commands are active several
   at a time; non-blocking commands, should a requester ever make one.
7. `Mmrm`: admission and throttling as operators against a reference definition.
8. `IpaRm`: the resource state machines and the dependency graph; abstract
   specification: a producer is granted only when its consumers are.
9. In `HddSync`: NAN data interfaces, pre-CAC work, MLO links, the driver's
   unregister at the end of unload.


## 6. Disagreements found

1. **`hdd_leak`**: a recovery's two callbacks check the unloading flag
   separately (`wlan_hdd_driver_ops.c:794`, `:1033`). If unload sets it between
   them the psoc's transition is never stopped and the remove that follows waits for ever.
2. **`hdd_cursor`**: `__dsc_psoc_wait_for_ops` walks the vdevs without the lock
   while a failing `osif_vdev_sync_create_and_trans` frees one of them.
3. **`ipa_underflow`**: `activate_work_func` completes after it has dropped
   `state_lock`; the completion may be that of the next activation by then, and
   a synchronous deactivation gives back a vote its client does not have.

Four more of the same kind as 1 were found with the jobs of `HddSync`; the model
contains them, and a run that adds the jobs named here violates the property:

- `hdd_soc_recovery_shutdown` is void; refused by a mode change, it returns, and
  reinit resumes and stops a transition it does not own (`ReinitResumes`).
- A mode change queued behind unload's driver transition is granted by its stop,
  and `pld_pcie_remove` returns without removing (`UnloadRemoves`).
- An interface taken down between `hdd_handle_cached_commands` and the end of
  reinit's transition is cached and never handled.
- A delete queued under `rtnl` behind an idle shutdown, and a mode change that
  needs `rtnl` and was let in first, wait for each other (`CallsReturn`).

So does what finding 2 is about (`KeepsContract`): a delete destroys its vdev after its own
`trans_stop`, which may have let in an idle shutdown that walks the psoc's vdevs; an unload, or a probe
that fails, destroys the psoc after its own, which may have let in a mode change that walks the
driver's psocs.

Those that need an unload or a mode change at the moment of a recovery or an idle
shutdown: nothing in the code in `src/` excludes that, and the platform driver,
which is not in the repository, is assumed to do no more than in section 3.

Read off the code, without a run: `__dsc_vdev_can_trans` returns `E_INVAL` for
any recovery (`wlan_dsc_vdev.c:141`) where its comment promises queueing
(`:120-123`); the API documents `-EALREADY` for a description that is already
queued (`wlan_dsc_psoc.h:89`), which no code returns.

Of the components that are partly modelled or planned, likewise read off the code:

- `ipa_pm.c:978`: a deferred deactivation that comes while a synchronous
  activation waits for its vote is overwritten by `ACTIVATED`; `:947`: an
  asynchronous activation in that window returns `-EINPROGRESS` and its
  callback is never called; `:1143`: a second waiter would sleep on a completion that
  a synchronous activation never completes.
- `ipa_pm.c:820`: deregister frees a client whose delayed deactivation may be pending;
  `:355`: the clock plan is computed under the mutex and applied outside it.
- `ipa.c:6771`: closing the coalescing frame clears `tag_process_before_gating`
  whoever else set it, where `ipa_dp.c:809` wants a TAG process before gating.
- `cam_sync.c:703`: a payload registered with a group that has one child to go is
  told success at once, where a callback would wait (`:116`); the model has the step.
- `cam_sync.c:247`: with several references the first signal's status is dropped, an
  error too; `:324`: a merge whose child is destroyed and whose row it is given
  takes one spinlock twice.
- `wlan_serialization_non_scan.c:102`: the count of waiting blocking commands goes up
  before the request is checked for duplicates and gets a place in the pool,
  and stays when it is refused; `:417` takes it down for each blocking command
  that leaves the pending queue, in 16 bits.
- `wlan_serialization_non_scan.c:691`: a purge keeps its place in the pending list,
  across the unlocked call-back, as a pointer to the entry before; if that has
  left the list, the walk goes on from a node of another.
  `wlan_serialization_internal.c:572`: a time-out finds its command active, drops the lock and
  calls back, when the command may have been released. `:655`: a time-out that cannot be posted
  is lost, and with it the only thing bound to end its command.
- `mmrm_clk_rsrc_mgr_sw.c:427`: the level that counts after a client lowers its own is the
  last one below the aggregate in the table, not the highest; `:335`:
  deregistering leaves the client's current in the aggregate; the rate is
  admitted under the mutex and set after it is dropped.

## 7. Not modelled

`WLAN_DSC_DEBUG` (timers that panic on a long transition, op descriptions);
memory allocation failure inside DSC; the `E_INVAL` returns for null arguments;
forced completion of qdf events, which `__dsc_tran_wait` and `wait_for_ops` do
not use; the contents of the work between synchronization calls; buses other
than PCIe, whose callbacks make the same calls; the parts listed in item 9 of
the plan. Of the IPA: registration, the clock plan, wake locks, packets, the
callbacks. Of the fences: the ioctl wrappers, event queues, work queue delivery,
`trigger_cb_without_switch`, and close, which signals all active objects but
leaves those with several references as they are. Of the commands: the scan queue,
non-blocking commands, cancelling active or all commands by a request, exhausted
pools, updating a timer, the life time of vdev and radio, rules. The components of
section 1.7.
