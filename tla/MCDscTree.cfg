SPECIFICATION Spec
CONSTANTS
  d = d  p1 = p1  p2 = p2  v1 = v1  v2 = v2
  None = None
  Driver = d
  Psoc = {p1, p2}
  Vdev = {v1, v2}
  PsocOf <- UnderP1
  Caller = {a, b, c}
  PlatformEvents = {"unload"}
SYMMETRY TreeSymmetry
INVARIANTS
  TypeOK
  TreeExclusion
  DrainedExclusive
  GrantConsistency
  NoLostWaiter
  NoLostWakeup
  DetachedQuiet
PROPERTIES
  HandoffOrder
  ImplementsTreeLock
