SPECIFICATION HddSpec
CONSTANTS
  d = d  p1 = p1
  None = None
  Driver = d
  Psoc = {p1}
  Vdev = {v1, v2}
  PsocOf <- UnderP1
  Caller = {a, b, c}
  PlatformEvents = {"SSR", "unload"}
  PsocSync = {ps}
  VdevSync = {s1, s2}
  Dev = {dev1}
  NetDev = {w1, w2}
  Jobs = {"probe", "mode", "idle", "idle_busy", "up", "down", "op"}
SYMMETRY HddSymmetry
INVARIANT Orderly
PROPERTIES
  KeepsContract
