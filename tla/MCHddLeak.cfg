SPECIFICATION HddSpec
CONSTANTS
  d = d  p1 = p1
  None = None
  Driver = d
  Psoc = {p1}
  Vdev = {v1}
  PsocOf <- UnderP1
  Caller = {a, b, c}
  PlatformEvents = {"SSR", "unload"}
  PsocSync = {ps}
  VdevSync = {s1}
  Dev = {dev1}
  NetDev = {w1}
  Jobs = {"probe", "unload", "shutdown", "reinit"}
INVARIANT TransConcluded
