SPECIFICATION Spec
CONSTANTS
    Cmd = {1, 2, 4}
    VdevOf <- Vdevs
    Key <- Keys
    Urgent = {2}
    MaxPending = 1
    Thread = {t1, mc}
    Mc = mc
    None = None
INVARIANTS TypeOK Exclusive NoStranded ReleaseOrder TimerHeld
PROPERTIES Concluded
CHECK_DEADLOCK FALSE
