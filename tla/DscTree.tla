------------------------------ MODULE DscTree ------------------------------
(***************************************************************************)
(* The shape of the tree the Driver Synchronization Core arranges its      *)
(* contexts in (components/dsc/inc/wlan_dsc.h): one driver at the root,    *)
(* psocs below it, vdevs below a psoc.  A context may or may not exist at  *)
(* a given time; its place in the tree never changes while it does.        *)
(***************************************************************************)

CONSTANTS
  Driver,   \* the struct dsc_driver
  Psoc,     \* every struct dsc_psoc that may be created
  Vdev,     \* every struct dsc_vdev that may be created
  PsocOf,   \* vdev->psoc
  Caller,   \* the threads that use the tree
  None      \* no caller, no context

ASSUME TreeAssumption ==
  /\ Driver \notin Psoc \cup Vdev
  /\ Psoc \cap Vdev = {}
  /\ PsocOf \in [Vdev -> Psoc]

ASSUME NoneAssumption == None \notin Caller \cup {Driver} \cup Psoc \cup Vdev

Node == {Driver} \cup Psoc \cup Vdev

VdevsOf(p) == {v \in Vdev : PsocOf[v] = p}

\* The contexts strictly up-tree of n (psoc->driver, vdev->psoc).
Ancestors(n) ==
  {Driver : x \in {n} \cap (Psoc \cup Vdev)} \cup {PsocOf[v] : v \in {n} \cap Vdev}

\* The contexts strictly down-tree of n (driver->psocs, psoc->vdevs).
Below(n) == {m \in Node : n \in Ancestors(m)}

Subtree(n) == {n} \cup Below(n)

\* Two contexts whose transitions exclude one another.
Related(m, n) == m = n \/ m \in Ancestors(n) \/ n \in Ancestors(m)
============================================================================
