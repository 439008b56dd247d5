------------------------------ MODULE HddSync ------------------------------
(***************************************************************************)
(* The threads of the WLAN host driver (qcacld-3.0/core) that synchronize  *)
(* through osif_sync: probe, unload, recovery, idle shutdown, mode change, *)
(* adding, deleting and bringing up and down an interface, and operations. *)
(* Each is a program: the osif_sync calls of its function, in order.  The  *)
(* kernel's rtnl lock, which the interface calls run under and which       *)
(* unregister_netdev and wiphy_unregister take, is part of the model.      *)
(***************************************************************************)
EXTENDS OsifSync, Integers

CONSTANT Jobs  \* the programs that run: some of those of Prog

VARIABLES
  job,   \* the program each thread runs, or None
  step,  \* the call of the program it makes next
  dev,   \* the device or net_device it was called for
  sync,  \* its psoc_sync or vdev_sync
  ptr,   \* the context its *_trans_start_wait has read from sync
  vsync, \* the vdev_sync it opens or closes under another transition
  rtnl,  \* the thread that holds rtnl
  up,    \* the interfaces that are up for the kernel
  open,  \* the interfaces with DEVICE_IFACE_OPENED: up for the driver
  cached \* the vdevs with INTERFACE_DOWN in nb_cmd_during_ssr

jobVars == <<job, step, dev, sync, ptr, vsync>>
ifVars == <<up, open, cached>>
kernel == <<rtnl, ifVars>>
hddVars == <<vars, syncVars, jobVars, kernel>>

\* osif_*_sync_trans_start_wait, hdd_close_all_adapters, hdd_open_adapters_for_mode
StartWait == <<"lookup", "read", "start">>
CloseAll == <<"close", "close_wait", "close_netdev", "close_destroy">>
OpenAll == <<"rtnl_lock", "open", "open_register", "rtnl_unlock">>

\* (mutant) the operations are not waited for
MutRemove ==
  <<"platform">> \o StartWait \o <<"unregister", "set_unloading">>
    \o CloseAll \o <<"wiphy", "clear_unloading", "stop", "destroy">>

\* pld_pcie_remove around hdd_soc_remove and hdd_wlan_exit
Remove ==
  <<"platform">> \o StartWait \o <<"unregister", "wait", "set_unloading">>
    \o CloseAll \o <<"wiphy", "clear_unloading", "stop", "destroy">>

\* (mutant) the transition of the shutdown is not stopped
MutReinit == <<"check", "resume", "recovered">>

Reinit == <<"check", "resume", "recovered", "stop">>

\* (mutant) rtnl is given up before the transition is waited for
MutDel ==
  <<"rtnl_unlock">> \o StartWait \o <<"wait", "unregister", "wait", "stop", "destroy">>

\* wlan_hdd_del_virtual_intf
Del ==
  StartWait \o <<"wait", "unregister", "wait", "stop", "destroy", "rtnl_unlock">>

Prog == [
  probe      |-> <<"create", "create_start", "register", "work">> \o OpenAll \o <<"stop">>,
  probe_fail |-> <<"unregister", "wait", "stop", "destroy">>,
  unload     |-> <<"driver", "start", "set_unloading", "stop">> \o Remove,
  shutdown   |-> <<"check">> \o StartWait \o <<"wait">>,
  reinit     |-> Reinit,
  idle       |-> <<"trans_start", "wait", "stop", "idle_done">>,
  idle_busy  |-> <<"idle_done">>,
  mode       |-> <<"driver", "start", "wait", "validate">> \o CloseAll
                   \o OpenAll \o <<"stop">>,
  mode_fail  |-> <<"stop">>,
  add        |-> <<"create", "create_start", "work", "register", "stop", "rtnl_unlock">>,
  add_fail   |-> <<"stop", "destroy", "rtnl_unlock">>,
  del        |-> Del,
  up         |-> <<"trans_start", "wait", "open_dev", "stop", "rtnl_unlock">>,
  down       |-> <<"trans_start", "wait", "stop_dev", "stop", "rtnl_unlock">>,
  op         |-> <<"op_start", "op_stop">>]

ASSUME JobsAssumption == Jobs \subseteq DOMAIN Prog /\ None \notin DOMAIN Prog

\* The driver has one hdd_ctx (gp_cds_context), so one radio: the interfaces that
\* hdd_close_all_adapters closes are the ones of its psoc.
ASSUME OneRadio == \A p, q \in Psoc : p = q

\* How a program goes on when its work fails.
FailOf == [probe |-> "probe_fail", add |-> "add_fail", mode |-> "mode_fail",
           idle |-> "idle_busy"]

\* What a program is called for; an operation may be on either.
Subject(j) ==
  CASE j \in {"del", "up", "down"} -> NetDev
    [] j = "op" -> Dev \cup NetDev
    [] OTHER -> Dev

HddInit ==
  /\ Init /\ SyncInit
  /\ job = [c \in Caller |-> None]
  /\ step = [c \in Caller |-> 0]
  /\ dev = [c \in Caller |-> None]
  /\ sync = [c \in Caller |-> None]
  /\ ptr = [c \in Caller |-> None]
  /\ vsync = [c \in Caller |-> None]
  /\ rtnl = None
  /\ up = {} /\ open = {} /\ cached = {}

----------------------------------------------------------------------------
(* How a program goes on. *)

At(c, call) == job[c] # None /\ Prog[job[c]][step[c]] = call

\* The thread makes the call: it is not inside the core, waiting.
Calls(c, call) == At(c, call) /\ pc[c] \in {"idle", "holding", "drained", "op"}

Goto(c, j, i) ==
  /\ job' = [job EXCEPT ![c] = j]
  /\ step' = [step EXCEPT ![c] = i]

\* The program ends: its stack is gone.  After the shutdown callback, which
\* returns nothing, the platform driver calls reinit.
Return(c) ==
  /\ IF job[c] = "shutdown" THEN Goto(c, "reinit", 1) /\ UNCHANGED dev
     ELSE Goto(c, None, 0) /\ dev' = [dev EXCEPT ![c] = None]
  /\ sync' = [sync EXCEPT ![c] = None]
  /\ ptr' = [ptr EXCEPT ![c] = None]
  /\ vsync' = [vsync EXCEPT ![c] = None]

Advance(c) ==
  IF step[c] = Len(Prog[job[c]]) THEN Return(c)
  ELSE Goto(c, job[c], step[c] + 1) /\ UNCHANGED <<dev, sync, ptr, vsync>>

Skip(c, i) == Goto(c, job[c], step[c] + i) /\ UNCHANGED <<dev, sync, ptr>>

\* (mutant) a program whose work fails just returns
MutFail(c) == Return(c)

Fail(c) == Goto(c, FailOf[job[c]], 1) /\ UNCHANGED <<dev, sync, ptr, vsync>>

\* A call that fails and leaves its thread nothing to undo but rtnl.
Abandon(c) ==
  /\ Return(c)
  /\ rtnl' = IF rtnl = c THEN None ELSE rtnl

\* The calls of the platform driver (probe, remove, shutdown and reinit) come
\* one at a time.
PlatformCall(c) ==
  \/ job[c] \in {"probe", "probe_fail", "shutdown", "reinit"}
  \/ job[c] = "unload" /\ \E i \in 1..(step[c] - 1) : Prog["unload"][i] = "platform"

PlatformIdle == ~\E c \in Caller : PlatformCall(c)

Called == Jobs \ ({FailOf[j] : j \in DOMAIN FailOf} \cup {"reinit"})

\* The kernel holds rtnl around the calls that add, delete, open or stop an
\* interface.
HoldRtnl(c, j) ==
  IF j \in {"add", "del", "up", "down"} THEN rtnl = None /\ rtnl' = c
  ELSE UNCHANGED rtnl

\* A thread is called.  A device is probed while it is not; recovery, unload and
\* mode change come once it is.  kernel_param_lock and the module's state let
\* one mode change and one unload run at a time; the idle timer runs while no
\* interface is open.
Begin(c, j, k) ==
  /\ job[c] = None /\ pc[c] = "idle"
  /\ k \in Subject(j)
  /\ j \in {"probe", "shutdown"} => PlatformIdle
  /\ j \in {"unload", "mode"} => ~\E d \in Caller : job[d] = j
  /\ j = "probe" => Lookup(k) = {} /\ ~\E d \in Caller : job[d] = "unload"
  /\ j \in {"unload", "mode", "shutdown"} => Lookup(k) # {}
  /\ j = "shutdown" => recovering
  /\ j = "idle" => open = {}
  /\ j = "up" => k \notin up
  /\ j = "down" => k \in up
  /\ HoldRtnl(c, j)
  /\ Goto(c, j, 1)
  /\ dev' = [dev EXCEPT ![c] = k]
  /\ UNCHANGED <<vars, syncVars, sync, ptr, vsync, ifVars>>
----------------------------------------------------------------------------
(* The calls. *)

Platform(c) ==
  /\ Calls(c, "platform")
  /\ PlatformIdle
  /\ Advance(c)
  /\ UNCHANGED <<vars, syncVars, kernel>>

\* rtnl_lock and rtnl_unlock in a program ...
RtnlLock(c) ==
  /\ Calls(c, "rtnl_lock")
  /\ rtnl = None
  /\ rtnl' = c
  /\ Advance(c)
  /\ UNCHANGED <<vars, syncVars, ifVars>>

RtnlUnlock(c) ==
  /\ Calls(c, "rtnl_unlock")
  /\ rtnl' = None
  /\ Advance(c)
  /\ UNCHANGED <<vars, syncVars, ifVars>>

\* (mutant) the interfaces are unregistered without rtnl
MutUnderRtnl(c) ==
  /\ Calls(c, "close_netdev") \/ Calls(c, "wiphy")
  /\ Advance(c)
  /\ UNCHANGED <<vars, syncVars, kernel>>

\* ... and inside unregister_netdev and wiphy_unregister.
UnderRtnl(c) ==
  /\ Calls(c, "close_netdev") \/ Calls(c, "wiphy")
  /\ rtnl = None
  /\ Advance(c)
  /\ UNCHANGED <<vars, syncVars, kernel>>

\* osif_*_sync_create_and_trans: create ...
Use(c, s) ==
  /\ sync' = [sync EXCEPT ![c] = s]
  /\ Goto(c, job[c], step[c] + 1)
  /\ UNCHANGED <<dev, ptr, vsync>>

CreateSync(c) ==
  /\ Calls(c, "create")
  /\ \E s \in Sync, n \in Psoc \cup Vdev :
       /\ IF job[c] = "probe" THEN n \in Psoc /\ PsocSyncCreate(s, n)
          ELSE n \in Vdev /\ VdevSyncCreate(s, dev[c], n)
       /\ Use(c, s)
  /\ UNCHANGED kernel

CreateSyncFails(c) ==
  /\ Calls(c, "create")
  /\ IF job[c] = "probe" THEN PsocSync \subseteq inUse
     ELSE VdevSync \subseteq inUse \/ Lookup(dev[c]) = {}
  /\ Abandon(c)
  /\ UNCHANGED <<vars, syncVars, ifVars>>

\* ... and start the transition, or destroy what was created.
CreateStart(c) ==
  /\ Calls(c, "create_start")
  /\ TransStart(c, ctx[sync[c]])
  /\ Advance(c)
  /\ UNCHANGED <<syncVars, kernel>>

CreateStartFails(c) ==
  /\ Calls(c, "create_start")
  /\ CanTrans(ctx[sync[c]]) # "SUCCESS"
  /\ SyncDestroy(sync[c])
  /\ Abandon(c)
  /\ UNCHANGED ifVars

\* osif_psoc_sync_register for the device, osif_vdev_sync_register for a new
\* net_device.
Register(c) ==
  /\ Calls(c, "register")
  /\ \E k \in (IF job[c] = "probe" THEN {dev[c]} ELSE NetDev) :
       Lookup(k) = {} /\ SyncRegister(sync[c], k)
  /\ Advance(c)
  /\ UNCHANGED <<vars, kernel>>

\* cds_set_recovery_in_progress(false)
ClearRecovering == IF recovering THEN SetRecovering ELSE UNCHANGED vars

\* What the transition is for: __hdd_soc_probe, __wlan_hdd_add_virtual_intf.
Work(c) ==
  /\ Calls(c, "work")
  /\ Advance(c) \/ (FailOf[job[c]] \in Jobs /\ Fail(c))
  /\ IF job[c] = "probe" THEN ClearRecovering ELSE UNCHANGED vars
  /\ UNCHANGED <<syncVars, kernel>>

\* hdd_open_adapter_no_trans: one adapter is opened, or none.
Open(c) ==
  /\ Calls(c, "open")
  /\ \/ \E s \in VdevSync, v \in Vdev :
          /\ VdevSyncCreate(s, dev[c], v)
          /\ vsync' = [vsync EXCEPT ![c] = s]
          /\ Skip(c, 1)
     \/ Skip(c, 2) /\ UNCHANGED <<vars, syncVars, vsync>>
  /\ UNCHANGED kernel

OpenRegister(c) ==
  /\ Calls(c, "open_register")
  /\ \E k \in NetDev : Lookup(k) = {} /\ SyncRegister(vsync[c], k)
  /\ vsync' = [vsync EXCEPT ![c] = None]
  /\ Skip(c, 1)
  /\ UNCHANGED <<vars, kernel>>

\* osif_*_sync_trans_start_wait: look up under the lock of the array ...
LookupSync(c) ==
  /\ Calls(c, "lookup") \/ Calls(c, "resume")
  /\ \E s \in Lookup(dev[c]) : Use(c, s)
  /\ UNCHANGED <<vars, syncVars, kernel>>

LookupFails(c) ==
  /\ Calls(c, "lookup") \/ Calls(c, "resume")
  /\ Lookup(dev[c]) = {}
  /\ Abandon(c)
  /\ UNCHANGED <<vars, syncVars, ifVars>>

\* ... then, without it, read the context from the entry ...
Read(c) ==
  /\ Calls(c, "read")
  /\ \/ /\ ctx[sync[c]] # None
        /\ ptr' = [ptr EXCEPT ![c] = ctx[sync[c]]]
        /\ Goto(c, job[c], step[c] + 1)
        /\ UNCHANGED <<dev, sync, vsync, kernel>>
     \/ ctx[sync[c]] = None /\ Abandon(c) /\ UNCHANGED ifVars
  /\ UNCHANGED <<vars, syncVars>>

ReadDriver(c) ==
  /\ Calls(c, "driver")
  /\ ptr' = [ptr EXCEPT ![c] = Driver]
  /\ Goto(c, job[c], step[c] + 1)
  /\ UNCHANGED <<vars, syncVars, dev, sync, vsync, kernel>>

\* ... and start, queue, or be refused.
Start(c) ==
  /\ Calls(c, "start")
  /\ SyncTransStartWait(c, ptr[c])
  /\ Advance(c)
  /\ UNCHANGED kernel

\* (mutant) the transition is refused where it would have to wait
MutStartRefused(c) ==
  /\ Calls(c, "start")
  /\ CanTrans(ptr[c]) # "SUCCESS"
  /\ Abandon(c)
  /\ UNCHANGED <<vars, syncVars, ifVars>>

StartRefused(c) ==
  /\ Calls(c, "start")
  /\ CanTrans(ptr[c]) = "E_INVAL"
  /\ Abandon(c)
  /\ UNCHANGED <<vars, syncVars, ifVars>>

\* A queued start goes on when it is granted; none is ever aborted (NoneAborted).
Granted(c) == WaitGranted(c) /\ UNCHANGED <<syncVars, jobVars, kernel>>

\* hdd_stop that is refused caches the command on the vdev; the kernel takes the
\* interface down whatever ndo_stop returns.
StopRefused(k) ==
  /\ up' = up \ {k}
  /\ cached' = cached \cup {ctx[s] : s \in Lookup(k)}
  /\ UNCHANGED open

\* osif_*_sync_trans_start
StartNow(c) ==
  /\ Calls(c, "trans_start")
  /\ SyncTransStart(c, dev[c])
  /\ Advance(c)
  /\ UNCHANGED kernel

StartNowRefused(c) ==
  /\ Calls(c, "trans_start") \/ Calls(c, "op_start")
  /\ \A s \in Lookup(dev[c]) : CanTrans(ctx[s]) # "SUCCESS"
  /\ IF job[c] = "idle" THEN Fail(c) /\ UNCHANGED rtnl ELSE Abandon(c)
  /\ IF job[c] = "down" THEN StopRefused(dev[c]) ELSE UNCHANGED ifVars
  /\ UNCHANGED <<vars, syncVars>>

\* __hdd_open
OpenDev(c) ==
  /\ Calls(c, "open_dev")
  /\ IF unloading \/ recovering THEN UNCHANGED ifVars
     ELSE /\ up' = up \cup {dev[c]}
          /\ open' = open \cup {dev[c]}
          /\ cached' = cached \ {at[c]}
  /\ Advance(c)
  /\ UNCHANGED <<vars, syncVars, rtnl>>

\* hdd_stop_no_trans, for the kernel; for hdd_handle_cached_commands see Recovered.
StopDev(c) ==
  /\ Calls(c, "stop_dev")
  /\ up' = up \ {dev[c]}
  /\ open' = IF unloading \/ recovering THEN open ELSE open \ {dev[c]}
  /\ Advance(c)
  /\ UNCHANGED <<vars, syncVars, rtnl, cached>>

\* __hdd_soc_recovery_reinit: unless the firmware is down again, the recovery is
\* over, and the interfaces that were taken down meanwhile are closed.
Recovered(c) ==
  /\ Calls(c, "recovered")
  /\ \/ /\ ClearRecovering
        /\ open' = open \ {key[s] : s \in {t \in inUse : ctx[t] \in cached}}
        /\ cached' = cached \ {ctx[s] : s \in {t \in inUse : key[t] # None}}
     \/ UNCHANGED <<vars, open, cached>>
  /\ Advance(c)
  /\ UNCHANGED <<syncVars, rtnl, up>>

\* hdd_psoc_idle_timeout_callback, whether the shutdown took place or not
IdleDone(c) ==
  /\ Calls(c, "idle_done")
  /\ ClearRecovering
  /\ Advance(c)
  /\ UNCHANGED <<syncVars, kernel>>

\* (mutant) the operations are not waited for
MutWait(c) ==
  /\ Calls(c, "wait") \/ Calls(c, "close_wait")
  /\ Advance(c)
  /\ UNCHANGED <<vars, syncVars, kernel>>

\* osif_*_sync_wait_for_ops
Wait(c) ==
  /\ \/ Calls(c, "wait") /\ WaitForOps(c, at[c])
     \/ Calls(c, "close_wait") /\ WaitForOps(c, ctx[vsync[c]])
  /\ Advance(c)
  /\ UNCHANGED <<syncVars, kernel>>

Draining(c) ==
  /\ Wake(c) \/ Drained(c) \/ \E n \in Node : VisitQuiet(c, n) \/ VisitBusy(c, n)
  /\ UNCHANGED <<syncVars, jobVars, kernel>>

\* What is unregistered is on its way out: ndo_open and ndo_stop no longer find it.
Gone(k) ==
  /\ up' = up \ {k} /\ open' = open \ {k}
  /\ cached' = cached \ {ctx[s] : s \in Lookup(k)}

Unregister(c) ==
  /\ Calls(c, "unregister")
  /\ SyncUnregister(dev[c])
  /\ Gone(dev[c])
  /\ Advance(c)
  /\ UNCHANGED <<vars, rtnl>>

\* cds_set_unload_in_progress
MarkUnloading(c) ==
  /\ Calls(c, "set_unloading") \/ Calls(c, "clear_unloading")
  /\ unloading' = At(c, "set_unloading")
  /\ Advance(c)
  /\ UNCHANGED <<attached, active, queue, ops, signalled, pc, at, todo, on,
                 recovering, syncVars, kernel>>

\* "if driver is unloading, there is no need to do SSR"
Check(c) ==
  /\ Calls(c, "check")
  /\ IF unloading THEN Abandon(c) /\ UNCHANGED ifVars ELSE Advance(c) /\ UNCHANGED kernel
  /\ UNCHANGED <<vars, syncVars>>

\* wlan_hdd_validate_context
Validate(c) ==
  /\ Calls(c, "validate")
  /\ IF Lookup(dev[c]) = {} \/ recovering \/ unloading THEN Fail(c) ELSE Advance(c)
  /\ UNCHANGED <<vars, syncVars, kernel>>

\* hdd_close_all_adapters: while there is an adapter, unregister its vdev_sync,
\* wait for its operations, unregister_netdev, and destroy the vdev_sync.
Close(c) ==
  /\ Calls(c, "close")
  /\ \E s \in VdevSync \cap inUse :
       /\ key[s] # None
       /\ SyncUnregister(key[s])
       /\ Gone(key[s])
       /\ vsync' = [vsync EXCEPT ![c] = s]
  /\ Skip(c, 1)
  /\ UNCHANGED <<vars, rtnl>>

CloseNoMore(c) ==
  /\ Calls(c, "close")
  /\ \A s \in VdevSync \cap inUse : key[s] = None
  /\ Skip(c, Len(CloseAll))
  /\ UNCHANGED <<vars, syncVars, vsync, kernel>>

CloseDestroy(c) ==
  /\ Calls(c, "close_destroy")
  /\ SyncDestroy(vsync[c])
  /\ vsync' = [vsync EXCEPT ![c] = None]
  /\ Skip(c, 1 - Len(CloseAll))
  /\ UNCHANGED kernel

\* osif_*_sync_trans_stop, osif_*_sync_destroy.  A reinit whose shutdown was
\* refused has no transition of its own (ReinitResumes): where none is active it
\* ends nothing; ending the one of another thread is left out.
Stop(c) ==
  /\ Calls(c, "stop")
  /\ \/ TransStop(c)
     \/ pc[c] = "idle" /\ (ctx[sync[c]] = None \/ active[ctx[sync[c]]] = None) /\ UNCHANGED vars
  /\ Advance(c)
  /\ UNCHANGED <<syncVars, kernel>>

DestroySync(c) ==
  /\ Calls(c, "destroy")
  /\ SyncDestroy(sync[c])
  /\ Advance(c)
  /\ UNCHANGED kernel

\* osif_*_sync_op_start, osif_*_sync_op_stop
StartOp(c) ==
  /\ Calls(c, "op_start")
  /\ SyncOpStart(c, dev[c])
  /\ Advance(c)
  /\ UNCHANGED kernel

StopOp(c) ==
  /\ Calls(c, "op_stop")
  /\ OpStop(c)
  /\ Advance(c)
  /\ UNCHANGED <<syncVars, kernel>>

----------------------------------------------------------------------------
TakeRtnl(c) == RtnlLock(c) \/ UnderRtnl(c)

Step(c) ==
  \/ Platform(c) \/ TakeRtnl(c) \/ RtnlUnlock(c)
  \/ CreateSync(c) \/ CreateSyncFails(c) \/ CreateStart(c) \/ CreateStartFails(c)
  \/ Register(c) \/ Work(c) \/ Open(c) \/ OpenRegister(c)
  \/ LookupSync(c) \/ LookupFails(c) \/ Read(c) \/ ReadDriver(c)
  \/ Start(c) \/ StartRefused(c) \/ Granted(c)
  \/ StartNow(c) \/ StartNowRefused(c) \/ Wait(c) \/ Draining(c)
  \/ Unregister(c) \/ MarkUnloading(c) \/ Check(c) \/ Validate(c)
  \/ Close(c) \/ CloseNoMore(c) \/ CloseDestroy(c)
  \/ Stop(c) \/ DestroySync(c) \/ StartOp(c) \/ StopOp(c)
  \/ OpenDev(c) \/ StopDev(c) \/ Recovered(c) \/ IdleDone(c)

\* PLD_FW_DOWN
FirmwareDown ==
  /\ ~recovering
  /\ \E s \in PsocSync : key[s] # None
  /\ SetRecovering
  /\ UNCHANGED <<syncVars, jobVars, kernel>>

HddNext ==
  \/ \E c \in Caller : Step(c)
  \/ \E c \in Caller, j \in Called, k \in Dev \cup NetDev : Begin(c, j, k)
  \/ FirmwareDown

HddSpec == HddInit /\ [][HddNext]_hddVars

\* A thread runs on unless it waits, and is not passed over for ever when rtnl
\* is free again and again.  Nobody is bound to be called.
HddFairSpec ==
  HddSpec /\ \A c \in Caller : WF_hddVars(Step(c)) /\ SF_hddVars(TakeRtnl(c))

----------------------------------------------------------------------------
(* Properties. *)

\* The clients keep the contract of the core: nothing they do, *_destroy in
\* particular, is outside what Dsc allows, so that its properties are theirs.
KeepsContract == Spec

\* The context that osif_*_sync_trans_start_wait passes to the core without a
\* lock has not been destroyed since it was looked up.
LookupLive == \A c \in Caller : At(c, "start") => ptr[c] \in attached

\* No interface is closed with a transition queued on it, which hdd_close_all_adapters
\* would flush with E_ABORTED (wlan_dsc_vdev.c:72-96) while its thread goes on to
\* use the net_device.
NoneAborted == \A c \in Caller : pc[c] # "aborted"

\* hdd_soc_recovery_reinit resumes, and stops, a transition that is its own: "SSR
\* transition is initiated at the beginning of soc shutdown"
\* (wlan_hdd_driver_ops.c:799).
ReinitResumes ==
  \A c \in Caller : Calls(c, "resume") => \E s \in Lookup(dev[c]) : active[ctx[s]] = c

\* A thread ends every transition and operation it has started before it
\* returns: "SSR transition is concluded at the end of soc re-init"
\* (wlan_hdd_driver_ops.c:1047).
TransConcluded == \A c \in Caller : job[c] = None => pc[c] = "idle"

\* Calls that come and go, and fail half-way, leave neither an entry without its
\* context nor a transition behind (hdd_soc_probe, hdd_close_all_adapters).
Orderly == RegistrySound /\ TransConcluded

\* A recovery ends the transition it has begun: reinit finds the one of its
\* shutdown, and nobody returns with one (hdd_soc_recovery_reinit).
RecoveryConcluded == ReinitResumes /\ TransConcluded

\* A thread that waits for a transition on an interface finds the interface there
\* when it asks and when it is served (wlan_hdd_del_virtual_intf, under rtnl).
DeleteSafe == LookupLive /\ NoneAborted

\* When the driver is unloaded its device has been removed.
UnloadRemoves ==
  [][\A c \in Caller :
       job[c] = "unload" /\ job'[c] = None => ~\E s \in inUse' : key'[s] = dev[c]]_hddVars

\* No entry leaks: one that is not registered, so that no lookup will find it to
\* destroy it, is in the hands of a thread that will.
EntryOwned ==
  \A s \in inUse : key[s] = None => \E c \in Caller : s \in {sync[c], vsync[c]}

\* wait_for_ops walks over contexts that exist.
CursorLive == \A c \in Caller : pc[c] = "draining" => NextVisit(c) \subseteq attached

\* Every call returns: no thread waits for ever for a transition, for
\* operations or for rtnl.
CallsReturn == \A c \in Caller : job[c] # None ~> job[c] = None
============================================================================
