SPECIFICATION PmSafety
CONSTANTS
    Client = {c1}
    Kworker = Kworker
    Pmworker = Pmworker
    Owner = Owner
    Suspender = Suspender
    Thread = {Kworker, Pmworker, Owner, Suspender}
    None = None
    LateCompletion = TRUE
    Inputs = {"sync"}
INVARIANT NoUnderflow
CHECK_DEADLOCK FALSE
