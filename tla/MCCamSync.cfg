SPECIFICATION Safety
CONSTANTS
    MaxObj = 3
    MaxRef = 2
    MaxReg = 1
    Lists <- Merged
    Wrap = 4
    Thread = {t1, t2}
    None = None
    Reuse = FALSE
INVARIANTS TypeOK GroupCount GroupOutcome  ParentsInUse UsersCounted
SYMMETRY Threads
CHECK_DEADLOCK FALSE
