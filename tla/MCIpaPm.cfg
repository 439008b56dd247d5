SPECIFICATION PmSpec
CONSTANTS
    Client = {c1}
    Kworker = Kworker
    Pmworker = Pmworker
    Owner = Owner
    Suspender = Suspender
    Thread = {Kworker, Pmworker, Owner, Suspender}
    None = None
    LateCompletion = FALSE
    Inputs = {"irq", "suspend", "sync","packet"}
INVARIANTS TypeOK VotesCounted VotesHonoured VotesMatch TimerArmed
PROPERTIES GateRefined LetGoSettles
CHECK_DEADLOCK FALSE
