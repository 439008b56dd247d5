------------------------------ MODULE OsifSync -----------------------------
(***************************************************************************)
(* The registry in front of the Driver Synchronization Core                *)
(* (qcacld-3.0/os_if/sync): arrays of entries, each with a DSC context and *)
(* the struct device or net_device it is looked up by.  Each array has a   *)
(* spinlock of its own; what runs under it is one action.  The driver's    *)
(* only entry is registered throughout.                                    *)
(***************************************************************************)
EXTENDS Dsc

CONSTANTS
  PsocSync,  \* the entries of __osif_psoc_sync_arr
  VdevSync,  \* the entries of __osif_vdev_sync_arr
  Dev,       \* the struct devices
  NetDev     \* the struct net_devices

ASSUME SyncAssumption ==
  /\ PsocSync \cap VdevSync = {} /\ Dev \cap NetDev = {}
  /\ None \notin PsocSync \cup VdevSync \cup Dev \cup NetDev

VARIABLES
  inUse,  \* the entries in_use
  key,    \* dev or net_dev of each entry
  ctx     \* dsc_psoc or dsc_vdev of each entry

syncVars == <<inUse, key, ctx>>

Sync == PsocSync \cup VdevSync

SyncInit ==
  /\ inUse = {}
  /\ key = [s \in Sync |-> None]
  /\ ctx = [s \in Sync |-> None]

Lookup(k) == {s \in inUse : key[s] = k}

\* osif_psoc_sync_create: take a free entry and create its context ...
PsocSyncCreate(s, p) ==
  /\ s \in PsocSync \ inUse
  /\ Create(p)
  /\ inUse' = inUse \cup {s}
  /\ ctx' = [ctx EXCEPT ![s] = p]
  /\ UNCHANGED key

\* ... and osif_vdev_sync_create: below the psoc that is registered for dev.
VdevSyncCreate(s, dev, v) ==
  /\ s \in VdevSync \ inUse
  /\ \E ps \in Lookup(dev) : PsocOf[v] = ctx[ps]
  /\ Create(v)
  /\ inUse' = inUse \cup {s}
  /\ ctx' = [ctx EXCEPT ![s] = v]
  /\ UNCHANGED key

\* (mutant) the entry is not zeroed when it is put back
MutSyncDestroy(s) ==
  /\ Free(ctx[s])
  /\ inUse' = inUse \ {s}
  /\ UNCHANGED <<key, ctx>>

\* osif_*_sync_destroy: destroy the context and put the entry back.
SyncDestroy(s) ==
  /\ Free(ctx[s])
  /\ inUse' = inUse \ {s}
  /\ key' = [key EXCEPT ![s] = None]
  /\ ctx' = [ctx EXCEPT ![s] = None]

SyncRegister(s, k) ==
  /\ key' = [key EXCEPT ![s] = k]
  /\ UNCHANGED <<inUse, ctx>>

\* (mutant) the entry stays registered
MutSyncUnregister(k) == UNCHANGED syncVars

SyncUnregister(k) ==
  /\ key' = [s \in Sync |-> IF s \in Lookup(k) THEN None ELSE key[s]]
  /\ UNCHANGED <<inUse, ctx>>

\* osif_*_sync_trans_start, *_op_start: look up and start under the lock.
SyncTransStart(c, k) ==
  \E s \in Lookup(k) : TransStart(c, ctx[s]) /\ UNCHANGED syncVars

SyncOpStart(c, k) ==
  \E s \in Lookup(k) : OpStart(c, ctx[s]) /\ UNCHANGED syncVars

\* osif_*_sync_trans_start_wait runs without the lock once it has the entry.
SyncTransStartWait(c, n) ==
  (TransStart(c, n) \/ TransStartWait(c, n)) /\ UNCHANGED syncVars

\* Each context belongs to one entry and each entry to one context, and no two
\* entries are registered for the same device: a lookup is unambiguous, and
\* osif_*_sync_destroy puts the entry back with the context it frees.
RegistrySound ==
  /\ {ctx[s] : s \in inUse} = attached \ {Driver}
  /\ \A s, t \in inUse : s # t => ctx[s] # ctx[t] /\ (key[s] = key[t] => key[s] = None)
  /\ \A s \in Sync \ inUse : ctx[s] = None /\ key[s] = None
============================================================================
