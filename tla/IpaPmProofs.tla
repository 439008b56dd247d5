------------------------------ MODULE IpaPmProofs ------------------------------
(***************************************************************************)
(* The power manager's clients, for any number of them: each owns a vote   *)
(* exactly while it is active.  So no caller gives back a vote it does not *)
(* have, and what is proved of the counter holds of the counter in use.    *)
(***************************************************************************)
EXTENDS IpaPm, ActiveClientsProofs

PmType ==
    /\ state \in [Client -> States] /\ done \in [Client -> BOOLEAN]
    /\ timer \subseteq Client /\ cancelling \subseteq Client
    /\ wq \subseteq {"activate", "deactivate"} \X Client
    /\ todo \subseteq Client /\ closing \in BOOLEAN
    /\ pc \in [Thread -> Points] /\ cur \in [Thread -> Client \cup {None}]

\* Who is in a call of the counter, and what it calls for.
Calls ==
    \A t \in Thread :
        /\ at[t] \in {"inc", "inc_lock", "inc_resume"} =>
              \/ t = Pmworker /\ pc[t] = "activating"
              \/ t = Owner /\ pc[t] = "voted"
              \/ t = Kworker /\ deferring
        /\ at[t] \in Dropping \cup {"dec_suspend", "dec_disable"} =>
              \/ t = Pmworker /\ pc[t] \in {"undone", "deactivated"}
              \/ t = Owner /\ pc[t] = "dropped"
              \/ t = Suspender /\ pc[t] = "visit"
              \/ t = Kworker /\ ~deferring

\* What each of the three threads is about.
Places ==
    /\ pc[Pmworker] \in {"idle", "activating", "undo", "complete", "undone", "deactivating",
                         "deactivated"}
    /\ pc[Owner] \in {"idle", "wait_active", "activate", "voted", "cancel", "wait_idle",
                      "deactivate", "dropped", "recancel"}
    /\ pc[Suspender] \in {"idle", "visit", "cancel", "wait", "lock"}
    /\ pc[Pmworker] # "idle" => cur[Pmworker] \in Client
    /\ pc[Owner] # "idle" => cur[Owner] \in Client /\ pc[Suspender] = "idle"
    /\ pc[Suspender] \in {"cancel", "wait", "lock"} => cur[Suspender] \in Client

Voting(c) == cur[Owner] = c /\ pc[Owner] = "voted"
Activating(c) == cur[Pmworker] = c /\ pc[Pmworker] = "activating"

\* A client is in progress while its activate work has yet to decide, or the
\* process that activates it is still at it; nobody is told it is done then.
Progress ==
    \A c \in Client :
        /\ Pending("activate", c) \/ Activating(c) => state[c] \in InProgress /\ ~Voting(c)
        /\ ~(Pending("activate", c) /\ Activating(c))
        /\ Voting(c) => state[c] \in InProgress
        /\ state[c] \in InProgress /\ ~Voting(c) => ~done[c]
        /\ state[c] \in InProgress /\ cur[Pmworker] = c /\ pc[Pmworker] \in {"complete", "undo"}
              => Voting(c)

\* The deferred deactivation of c will not run.
Unscheduled(c) ==
    /\ c \notin timer /\ ~Pending("deactivate", c)
    /\ ~(cur[Pmworker] = c /\ pc[Pmworker] \in {"deactivating", "deactivated"})

\* A process that deactivates a client has called its deferred deactivation off.
CalledOff ==
    LET c == cur[Owner] IN
    /\ pc[Owner] = "cancel" => c \notin timer /\ ~Pending("deactivate", c) /\ c \in cancelling
    /\ pc[Owner] \in {"wait_idle", "deactivate", "dropped"} => Unscheduled(c)
    /\ pc[Owner] = "deactivate" => state[c] \notin InProgress
    /\ pc[Owner] = "dropped" => state[c] \in Active

PmInv == ClkInv /\ PmType /\ Calls /\ Places /\ Progress /\ CalledOff /\ VotesMatch

USE PmAssumption

\* The clients that own a vote are finitely many.
LEMMA HoldersFinite == IsFiniteSet(Holders) /\ Cardinality(Holders) \in Nat
<1>1. Holders \in SUBSET Client BY DEF Holders
<1>2. IsFiniteSet(Holders) BY <1>1, FS_Subset
<1> QED BY <1>2, FS_CardinalityType

\* One more client owns a vote.
LEMMA HolderGained ==
    ASSUME NEW c, c \notin Holders, Holders' = Holders \cup {c}
    PROVE  Cardinality(Holders') = Cardinality(Holders) + 1
BY HoldersFinite, FS_AddElement

\* One fewer does.
LEMMA HolderLost ==
    ASSUME NEW c, c \in Holders, Holders' = Holders \ {c}
    PROVE  Cardinality(Holders') = Cardinality(Holders) - 1
BY HoldersFinite, FS_RemoveElement

\* Whoever gives a client's vote back has one.
LEMMA HolderVotes ==
    ASSUME PmInv, NEW c, c \in Holders
    PROVE  CallerVotes > 0
<1>1. Cardinality(Holders) # 0 BY HoldersFinite, FS_EmptySet
<1> QED BY <1>1, HoldersFinite DEF PmInv, VotesMatch, CallerVotes, One

\* So has the activate work that was overtaken by a deactivation.
LEMMA UndoVotes ==
    ASSUME PmInv, pc[Pmworker] = "undo"
    PROVE  CallerVotes > 0 /\ cnt > 0
<1>1. At(Pmworker, "undo")
  BY DEF PmInv, Calls, ClkInv, ClkType, Positions, Locked, At, Free, Dropping
<1>2. CallerVotes > 0 BY <1>1, HoldersFinite DEF PmInv, VotesMatch, CallerVotes, One
<1>3. held > 0 BY <1>2 DEF CallerVotes, PmInv, ClkInv, ClkType
<1> QED BY <1>2, <1>3, DroppersFinite, CarriedFinite DEF PmInv, ClkInv, ClkType, VotesCounted, One

-----------------------------------------------------------------------------
(***************************************************************************)
(* The steps that move no vote.                                            *)
(***************************************************************************)

\* A client that is active, or on its way, is to stay active.
LEMMA InvActivateAgain ==
    ASSUME PmInv, NEW c \in Client, ActivateAgain(c)
    PROVE  PmInv'
<1> USE DEF PmInv
<1>1. UNCHANGED clkVars BY DEF ActivateAgain
<1>2. ClkInv' BY <1>1, InvStep
<1>3. PmType' BY DEF PmType, ActivateAgain, Serial, SetState, States, InProgress, TimerStates,
    Active
<1>4. Calls' BY <1>1 DEF Calls, clkVars, PmType, Places, Dropping, ActivateAgain, Serial,
    SetState
<1>5. Places' BY DEF Places, PmType, ActivateAgain, Serial, SetState
<1>6. Progress' BY DEF Progress, PmType, Places, Voting, Activating, Pending, InProgress,
    TimerStates, ActivateAgain, Serial, SetState
<1>7. CalledOff' BY DEF CalledOff, Unscheduled, Pending, PmType, Places, InProgress,
    TimerStates, Active, ActivateAgain, Serial, SetState
<1>8. VotesMatch'
    <2>1. Holders' = Holders BY DEF Holders, PmType, Places, InProgress, TimerStates, Active,
      ActivateAgain, Serial, SetState
    <2> QED BY <1>1, <2>1 DEF VotesMatch, clkVars, PmType, Places, At, Free, ActivateAgain,
      Serial, SetState
<1> QED BY <1>2, <1>3, <1>4, <1>5, <1>6, <1>7, <1>8

\* A deactivation is deferred: the client keeps its vote, or will not get one.
LEMMA InvDeferred ==
    ASSUME PmInv, NEW c \in Client, Deferred(c)
    PROVE  PmInv'
<1> USE DEF PmInv
<1>1. UNCHANGED clkVars BY DEF Deferred
<1>2. ClkInv' BY <1>1, InvStep
<1>3. PmType' BY DEF PmType, Deferred, Serial, SetState, Arm, Pending, States, TimerStates,
    InProgress, Active
<1>4. Calls' BY <1>1 DEF Calls, clkVars, PmType, Places, Dropping, Deferred, Serial, SetState,
    Arm, Pending
<1>5. Places' BY DEF Places, PmType, Deferred, Serial, SetState, Arm, Pending
<1>6. Progress' BY DEF Progress, PmType, Places, Voting, Activating, Pending, InProgress,
    TimerStates, Deferred, Serial, SetState, Arm
<1>7. CalledOff' BY DEF CalledOff, Unscheduled, Pending, PmType, Places, InProgress,
    TimerStates, Active, Deferred, Serial, SetState, Arm
<1>8. VotesMatch'
    <2>1. Holders' = Holders BY DEF Holders, PmType, Places, InProgress, TimerStates, Active,
      Deferred, Serial, SetState, Arm, Pending
    <2> QED BY <1>1, <2>1 DEF VotesMatch, clkVars, PmType, Places, At, Free, Deferred, Serial,
      SetState, Arm, Pending
<1> QED BY <1>2, <1>3, <1>4, <1>5, <1>6, <1>7, <1>8

\* The delay of a deferred deactivation is over.
LEMMA InvTimerExpires ==
    ASSUME PmInv, NEW c \in Client, TimerExpires(c)
    PROVE  PmInv'
<1> USE DEF PmInv
<1>1. UNCHANGED clkVars BY DEF TimerExpires
<1>2. ClkInv' BY <1>1, InvStep
<1>3. PmType' BY DEF PmType, TimerExpires, Enqueue
<1>4. Calls' BY <1>1 DEF Calls, clkVars, PmType, Places, Dropping, TimerExpires, Enqueue
<1>5. Places' BY DEF Places, PmType, TimerExpires, Enqueue
<1>6. Progress' BY DEF Progress, PmType, Places, Voting, Activating, Pending, InProgress,
    TimerStates, TimerExpires, Enqueue
<1>7. CalledOff' BY DEF CalledOff, Unscheduled, Pending, PmType, Places, InProgress,
    TimerStates, Active, TimerExpires, Enqueue
<1>8. VotesMatch'
    <2>1. Holders' = Holders BY DEF Holders, PmType, Places, InProgress, TimerStates, Active,
      TimerExpires, Enqueue
  <2> QED BY <1>1, <2>1 DEF VotesMatch, clkVars, PmType, Places, At, Free, TimerExpires, Enqueue
<1> QED BY <1>2, <1>3, <1>4, <1>5, <1>6, <1>7, <1>8

\* Its work starts.
LEMMA InvStartDeactivateWork ==
    ASSUME PmInv, NEW c \in Client, StartDeactivateWork(c)
    PROVE  PmInv'
<1> USE DEF PmInv
<1>1. UNCHANGED clkVars BY DEF StartDeactivateWork
<1>2. ClkInv' BY <1>1, InvStep
<1>3. PmType' BY DEF PmType, StartDeactivateWork, At, Pending, For, Step, Free, Points
<1>4. Calls' BY <1>1 DEF Calls, clkVars, PmType, Places, Dropping, StartDeactivateWork, At,
    Pending, For, Step, Free
<1>5. Places' BY DEF Places, PmType, StartDeactivateWork, At, Pending, For, Step, Free
<1>6. Progress' BY DEF Progress, PmType, Places, Voting, Activating, Pending, InProgress,
    TimerStates, StartDeactivateWork, At, For, Step, Free
<1>7. CalledOff' BY DEF CalledOff, Unscheduled, Pending, PmType, Places, InProgress,
    TimerStates, Active, StartDeactivateWork, At, For, Step, Free
<1>8. VotesMatch'
    <2>1. Holders' = Holders BY DEF Holders, PmType, Places, InProgress, TimerStates, Active,
      StartDeactivateWork, At, Pending, For, Step, Free
    <2> QED BY <1>1, <2>1 DEF VotesMatch, clkVars, PmType, Places, At, Free,
      StartDeactivateWork, Pending, For, Step
<1> QED BY <1>2, <1>3, <1>4, <1>5, <1>6, <1>7, <1>8

\* The work finds that the client is wanted again, or not to be dropped yet.
LEMMA InvDeactivateWorkKeeps ==
    ASSUME PmInv, DeactivateWorkKeeps
    PROVE  PmInv'
<1> USE DEF PmInv
<1>1. UNCHANGED clkVars BY DEF DeactivateWorkKeeps
<1>2. ClkInv' BY <1>1, InvStep
<1>3. PmType' BY DEF PmType, Places, DeactivateWorkKeeps, At, SetState, Arm, Step, For, Free,
    Pending, States, TimerStates, InProgress, Active, Points
<1>4. Calls' BY <1>1 DEF Calls, clkVars, PmType, Places, Dropping, DeactivateWorkKeeps, At,
    SetState, Arm, Step, For, Free, Pending
<1>5. Places' BY DEF Places, PmType, DeactivateWorkKeeps, At, SetState, Arm, Step, For, Free,
    Pending
<1>6. Progress' BY DEF Progress, PmType, Places, Voting, Activating, Pending, InProgress,
    TimerStates, DeactivateWorkKeeps, At, SetState, Arm, Step, For, Free
<1>7. CalledOff' BY DEF CalledOff, Unscheduled, Pending, PmType, Places, InProgress,
    TimerStates, Active, DeactivateWorkKeeps, At, SetState, Arm, Step, For, Free
<1>8. VotesMatch'
    <2>1. Holders' = Holders BY DEF Holders, PmType, Places, InProgress, TimerStates, Active,
      DeactivateWorkKeeps, At, SetState, Arm, Step, For, Free, Pending
    <2> QED BY <1>1, <2>1 DEF VotesMatch, clkVars, PmType, Places, At, Free,
      DeactivateWorkKeeps, SetState, Arm, Step, For, Pending
<1> QED BY <1>2, <1>3, <1>4, <1>5, <1>6, <1>7, <1>8

\* A work that gave a vote back ends.
LEMMA InvEndWork ==
    ASSUME PmInv, EndWork
    PROVE  PmInv'
<1> USE DEF PmInv
<1>1. UNCHANGED clkVars BY DEF EndWork
<1>2. ClkInv' BY <1>1, InvStep
<1>3. PmType' BY DEF PmType, EndWork, At, Step, For, Free, Points
<1>4. Calls' BY <1>1 DEF Calls, clkVars, PmType, Places, Dropping, EndWork, At, Step, For, Free
<1>5. Places' BY DEF Places, PmType, EndWork, At, Step, For, Free
<1>6. Progress' BY DEF Progress, PmType, Places, Voting, Activating, Pending, InProgress,
    TimerStates, EndWork, At, Step, For, Free
<1>7. CalledOff' BY DEF CalledOff, Unscheduled, Pending, PmType, Places, InProgress,
    TimerStates, Active, EndWork, At, Step, For, Free
<1>8. VotesMatch'
    <2>1. Holders' = Holders BY DEF Holders, PmType, Places, InProgress, TimerStates, Active,
      EndWork, At, Step, For, Free
  <2> QED BY <1>1, <2>1 DEF VotesMatch, clkVars, PmType, Places, At, Free, EndWork, Step, For
<1> QED BY <1>2, <1>3, <1>4, <1>5, <1>6, <1>7, <1>8

\* Suspend begins, with no synchronous call under way.
LEMMA InvSuspendBegins ==
    ASSUME PmInv, SuspendBegins
    PROVE  PmInv'
<1> USE DEF PmInv
<1>1. UNCHANGED clkVars BY DEF SuspendBegins
<1>2. ClkInv' BY <1>1, InvStep
<1>3. PmType' BY DEF PmType, SuspendBegins, At, Step, Free, Points
<1>4. Calls' BY <1>1 DEF Calls, clkVars, PmType, Places, Dropping, SuspendBegins, At, Step, Free
<1>5. Places' BY DEF Places, PmType, SuspendBegins, At, Step, Free
<1>6. Progress' BY DEF Progress, PmType, Places, Voting, Activating, Pending, InProgress,
    TimerStates, SuspendBegins, At, Step, Free
<1>7. CalledOff' BY DEF CalledOff, Unscheduled, Pending, PmType, Places, InProgress,
    TimerStates, Active, SuspendBegins, At, Step, Free
<1>8. VotesMatch'
    <2>1. Holders' = Holders BY DEF Holders, PmType, Places, InProgress, TimerStates, Active,
      SuspendBegins, At, Step, Free
  <2> QED BY <1>1, <2>1 DEF VotesMatch, clkVars, PmType, Places, At, Free, SuspendBegins, Step
<1> QED BY <1>2, <1>3, <1>4, <1>5, <1>6, <1>7, <1>8

\* Suspend calls a client's deferred deactivation off.
LEMMA InvSuspendVisits ==
    ASSUME PmInv, NEW c \in Client, SuspendVisits(c)
    PROVE  PmInv'
<1> USE DEF PmInv
<1>1. UNCHANGED clkVars BY DEF SuspendVisits
<1>2. ClkInv' BY <1>1, InvStep
<1>3. PmType' BY DEF PmType, SuspendVisits, At, For, Cancel, Free, Step, Points
<1>4. Calls' BY <1>1 DEF Calls, clkVars, PmType, Places, Dropping, SuspendVisits, At, For,
    Cancel, Free, Step
<1>5. Places' BY DEF Places, PmType, SuspendVisits, At, For, Cancel, Free, Step
<1>6. Progress' BY DEF Progress, PmType, Places, Voting, Activating, Pending, InProgress,
    TimerStates, SuspendVisits, At, For, Cancel, Free, Step
<1>7. CalledOff' BY DEF CalledOff, Unscheduled, Pending, PmType, Places, InProgress,
    TimerStates, Active, SuspendVisits, At, For, Cancel, Free, Step
<1>8. VotesMatch'
    <2>1. Holders' = Holders BY DEF Holders, PmType, Places, InProgress, TimerStates, Active,
      SuspendVisits, At, For, Cancel, Free, Step
    <2> QED BY <1>1, <2>1 DEF VotesMatch, clkVars, PmType, Places, At, Free, SuspendVisits,
      For, Cancel, Step
<1> QED BY <1>2, <1>3, <1>4, <1>5, <1>6, <1>7, <1>8

\* It waits for a client in progress.
LEMMA InvSuspendCancelled ==
    ASSUME PmInv, SuspendCancelled
    PROVE  PmInv'
<1> USE DEF PmInv
<1>1. UNCHANGED clkVars BY DEF SuspendCancelled
<1>2. ClkInv' BY <1>1, InvStep
<1>3. PmType' BY DEF PmType, SuspendCancelled, At, Cancelled, Free, Step, InProgress, Points
<1>4. Calls' BY <1>1 DEF Calls, clkVars, PmType, Places, Dropping, SuspendCancelled, At,
    Cancelled, Free, Step
<1>5. Places' BY DEF Places, PmType, SuspendCancelled, At, Cancelled, Free, Step
<1>6. Progress' BY DEF Progress, PmType, Places, Voting, Activating, Pending, InProgress,
    TimerStates, SuspendCancelled, At, Cancelled, Free, Step
<1>7. CalledOff' BY DEF CalledOff, Unscheduled, Pending, PmType, Places, InProgress,
    TimerStates, Active, SuspendCancelled, At, Cancelled, Free, Step
<1>8. VotesMatch'
    <2>1. Holders' = Holders BY DEF Holders, PmType, Places, InProgress, TimerStates, Active,
      SuspendCancelled, At, Cancelled, Free, Step
    <2> QED BY <1>1, <2>1 DEF VotesMatch, clkVars, PmType, Places, At, Free, SuspendCancelled,
      Cancelled, Step
<1> QED BY <1>2, <1>3, <1>4, <1>5, <1>6, <1>7, <1>8

\* A client in progress is left alone.
LEMMA InvSuspendWaits ==
    ASSUME PmInv, SuspendWaits
    PROVE  PmInv'
<1> USE DEF PmInv
<1>1. UNCHANGED clkVars BY DEF SuspendWaits
<1>2. ClkInv' BY <1>1, InvStep
<1>3. PmType' BY DEF PmType, SuspendWaits, At, Step, Free, Points
<1>4. Calls' BY <1>1 DEF Calls, clkVars, PmType, Places, Dropping, SuspendWaits, At, Step, Free
<1>5. Places' BY DEF Places, PmType, SuspendWaits, At, Step, Free
<1>6. Progress' BY DEF Progress, PmType, Places, Voting, Activating, Pending, InProgress,
    TimerStates, SuspendWaits, At, Step, Free
<1>7. CalledOff' BY DEF CalledOff, Unscheduled, Pending, PmType, Places, InProgress,
    TimerStates, Active, SuspendWaits, At, Step, Free
<1>8. VotesMatch'
    <2>1. Holders' = Holders BY DEF Holders, PmType, Places, InProgress, TimerStates, Active,
      SuspendWaits, At, Step, Free
  <2> QED BY <1>1, <2>1 DEF VotesMatch, clkVars, PmType, Places, At, Free, SuspendWaits, Step
<1> QED BY <1>2, <1>3, <1>4, <1>5, <1>6, <1>7, <1>8

\* A client that nobody deferred stays active.
LEMMA InvSuspendKeeps ==
    ASSUME PmInv, SuspendKeeps
    PROVE  PmInv'
<1> USE DEF PmInv
<1>1. UNCHANGED clkVars BY DEF SuspendKeeps
<1>2. ClkInv' BY <1>1, InvStep
<1>3. PmType' BY DEF PmType, SuspendKeeps, At, SetState, Step, Free, States, InProgress,
    Active, TimerStates, Points
<1>4. Calls' BY <1>1 DEF Calls, clkVars, PmType, Places, Dropping, SuspendKeeps, At, SetState,
    Step, Free
<1>5. Places' BY DEF Places, PmType, SuspendKeeps, At, SetState, Step, Free
<1>6. Progress' BY DEF Progress, PmType, Places, Voting, Activating, Pending, InProgress,
    TimerStates, SuspendKeeps, At, SetState, Step, Free
<1>7. CalledOff' BY DEF CalledOff, Unscheduled, Pending, PmType, Places, InProgress,
    TimerStates, Active, SuspendKeeps, At, SetState, Step, Free
<1>8. VotesMatch'
    <2>1. Holders' = Holders BY DEF Holders, PmType, Places, InProgress, TimerStates, Active,
      SuspendKeeps, At, SetState, Step, Free
    <2> QED BY <1>1, <2>1 DEF VotesMatch, clkVars, PmType, Places, At, Free, SuspendKeeps,
      SetState, Step
<1> QED BY <1>2, <1>3, <1>4, <1>5, <1>6, <1>7, <1>8

\* Suspend ends.
LEMMA InvSuspendEnds ==
    ASSUME PmInv, SuspendEnds
    PROVE  PmInv'
<1> USE DEF PmInv
<1>1. UNCHANGED clkVars BY DEF SuspendEnds
<1>2. ClkInv' BY <1>1, InvStep
<1>3. PmType' BY DEF PmType, SuspendEnds, At, Step, For, Free, Points
<1>4. Calls' BY <1>1 DEF Calls, clkVars, PmType, Places, Dropping, SuspendEnds, At, Step, For,
    Free
<1>5. Places' BY DEF Places, PmType, SuspendEnds, At, Step, For, Free
<1>6. Progress' BY DEF Progress, PmType, Places, Voting, Activating, Pending, InProgress,
    TimerStates, SuspendEnds, At, Step, For, Free
<1>7. CalledOff' BY DEF CalledOff, Unscheduled, Pending, PmType, Places, InProgress,
    TimerStates, Active, SuspendEnds, At, Step, For, Free
<1>8. VotesMatch'
    <2>1. Holders' = Holders BY DEF Holders, PmType, Places, InProgress, TimerStates, Active,
      SuspendEnds, At, Step, For, Free
    <2> QED BY <1>1, <2>1 DEF VotesMatch, clkVars, PmType, Places, At, Free, SuspendEnds,
      Step, For
<1> QED BY <1>2, <1>3, <1>4, <1>5, <1>6, <1>7, <1>8

\* A synchronous activation begins.
LEMMA InvActivateSyncBegins ==
    ASSUME PmInv, NEW c \in Client, ActivateSyncBegins(c)
    PROVE  PmInv'
<1> USE DEF PmInv
<1>1. UNCHANGED clkVars BY DEF ActivateSyncBegins
<1>2. ClkInv' BY <1>1, InvStep
<1>3. PmType' BY DEF PmType, ActivateSyncBegins, At, Thawed, For, Step, Free, InProgress, Points
<1>4. Calls' BY <1>1 DEF Calls, clkVars, PmType, Places, Dropping, ActivateSyncBegins, At,
    Thawed, For, Step, Free
<1>5. Places' BY DEF Places, PmType, ActivateSyncBegins, At, Thawed, For, Step, Free
<1>6. Progress' BY DEF Progress, PmType, Places, Voting, Activating, Pending, InProgress,
    TimerStates, ActivateSyncBegins, At, Thawed, For, Step, Free
<1>7. CalledOff' BY DEF CalledOff, Unscheduled, Pending, PmType, Places, InProgress,
    TimerStates, Active, ActivateSyncBegins, At, Thawed, For, Step, Free
<1>8. VotesMatch'
    <2>1. Holders' = Holders BY DEF Holders, PmType, Places, InProgress, TimerStates, Active,
      ActivateSyncBegins, At, Thawed, For, Step, Free
    <2> QED BY <1>1, <2>1 DEF VotesMatch, clkVars, PmType, Places, At, Free,
      ActivateSyncBegins, Thawed, For, Step
<1> QED BY <1>2, <1>3, <1>4, <1>5, <1>6, <1>7, <1>8

\* It has waited for the one in progress.
LEMMA InvActivateSyncWaits ==
    ASSUME PmInv, ActivateSyncWaits
    PROVE  PmInv'
<1> USE DEF PmInv
<1>1. UNCHANGED clkVars BY DEF ActivateSyncWaits
<1>2. ClkInv' BY <1>1, InvStep
<1>3. PmType' BY DEF PmType, ActivateSyncWaits, At, Step, Free, Points
<1>4. Calls' BY <1>1 DEF Calls, clkVars, PmType, Places, Dropping, ActivateSyncWaits, At,
    Step, Free
<1>5. Places' BY DEF Places, PmType, ActivateSyncWaits, At, Step, Free
<1>6. Progress' BY DEF Progress, PmType, Places, Voting, Activating, Pending, InProgress,
    TimerStates, ActivateSyncWaits, At, Step, Free
<1>7. CalledOff' BY DEF CalledOff, Unscheduled, Pending, PmType, Places, InProgress,
    TimerStates, Active, ActivateSyncWaits, At, Step, Free
<1>8. VotesMatch'
    <2>1. Holders' = Holders BY DEF Holders, PmType, Places, InProgress, TimerStates, Active,
      ActivateSyncWaits, At, Step, Free
    <2> QED BY <1>1, <2>1 DEF VotesMatch, clkVars, PmType, Places, At, Free,
      ActivateSyncWaits, Step
<1> QED BY <1>2, <1>3, <1>4, <1>5, <1>6, <1>7, <1>8

\* It finds the client active.
LEMMA InvActivateSyncFinds ==
    ASSUME PmInv, ActivateSyncFinds
    PROVE  PmInv'
<1> USE DEF PmInv
<1>1. UNCHANGED clkVars BY DEF ActivateSyncFinds
<1>2. ClkInv' BY <1>1, InvStep
<1>3. PmType' BY DEF PmType, ActivateSyncFinds, At, SetState, Step, For, Free, States,
    TimerStates, InProgress, Active, Points
<1>4. Calls' BY <1>1 DEF Calls, clkVars, PmType, Places, Dropping, ActivateSyncFinds, At,
    SetState, Step, For, Free
<1>5. Places' BY DEF Places, PmType, ActivateSyncFinds, At, SetState, Step, For, Free
<1>6. Progress' BY DEF Progress, PmType, Places, Voting, Activating, Pending, InProgress,
    TimerStates, ActivateSyncFinds, At, SetState, Step, For, Free
<1>7. CalledOff' BY DEF CalledOff, Unscheduled, Pending, PmType, Places, InProgress,
    TimerStates, Active, ActivateSyncFinds, At, SetState, Step, For, Free
<1>8. VotesMatch'
    <2>1. Holders' = Holders BY DEF Holders, PmType, Places, InProgress, TimerStates, Active,
      ActivateSyncFinds, At, SetState, Step, For, Free
    <2> QED BY <1>1, <2>1 DEF VotesMatch, clkVars, PmType, Places, At, Free,
      ActivateSyncFinds, SetState, Step, For
<1> QED BY <1>2, <1>3, <1>4, <1>5, <1>6, <1>7, <1>8

\* A synchronous deactivation calls the deferred one off.
LEMMA InvDeactivateSyncBegins ==
    ASSUME PmInv, NEW c \in Client, DeactivateSyncBegins(c)
    PROVE  PmInv'
<1> USE DEF PmInv
<1>1. UNCHANGED clkVars BY DEF DeactivateSyncBegins
<1>2. ClkInv' BY <1>1, InvStep
<1>3. PmType' BY DEF PmType, DeactivateSyncBegins, At, Thawed, For, Cancel, Free, Step, Points
<1>4. Calls' BY <1>1 DEF Calls, clkVars, PmType, Places, Dropping, DeactivateSyncBegins, At,
    Thawed, For, Cancel, Free, Step
<1>5. Places' BY DEF Places, PmType, DeactivateSyncBegins, At, Thawed, For, Cancel, Free, Step
<1>6. Progress' BY DEF Progress, PmType, Places, Voting, Activating, Pending, InProgress,
    TimerStates, DeactivateSyncBegins, At, Thawed, For, Cancel, Free, Step
<1>7. CalledOff' BY DEF CalledOff, Unscheduled, Pending, PmType, Places, InProgress,
    TimerStates, Active, DeactivateSyncBegins, At, Thawed, For, Cancel, Free, Step
<1>8. VotesMatch'
    <2>1. Holders' = Holders BY DEF Holders, PmType, Places, InProgress, TimerStates, Active,
      DeactivateSyncBegins, At, Thawed, For, Cancel, Free, Step
    <2> QED BY <1>1, <2>1 DEF VotesMatch, clkVars, PmType, Places, At, Free,
      DeactivateSyncBegins, Thawed, For, Cancel, Step
<1> QED BY <1>2, <1>3, <1>4, <1>5, <1>6, <1>7, <1>8

\* It waits for an activation in progress.
LEMMA InvDeactivateSyncCancelled ==
    ASSUME PmInv, DeactivateSyncCancelled
    PROVE  PmInv'
<1> USE DEF PmInv
<1>1. UNCHANGED clkVars BY DEF DeactivateSyncCancelled
<1>2. ClkInv' BY <1>1, InvStep
<1>3. PmType' BY DEF PmType, DeactivateSyncCancelled, At, Cancelled, Free, Step, InProgress,
    Points
<1>4. Calls' BY <1>1 DEF Calls, clkVars, PmType, Places, Dropping, DeactivateSyncCancelled,
    At, Cancelled, Free, Step
<1>5. Places' BY DEF Places, PmType, DeactivateSyncCancelled, At, Cancelled, Free, Step
<1>6. Progress' BY DEF Progress, PmType, Places, Voting, Activating, Pending, InProgress,
    TimerStates, DeactivateSyncCancelled, At, Cancelled, Free, Step
<1>7. CalledOff' BY DEF CalledOff, Unscheduled, Pending, PmType, Places, InProgress,
    TimerStates, Active, DeactivateSyncCancelled, At, Cancelled, Free, Step
<1>8. VotesMatch'
    <2>1. Holders' = Holders BY DEF Holders, PmType, Places, InProgress, TimerStates, Active,
      DeactivateSyncCancelled, At, Cancelled, Free, Step
    <2> QED BY <1>1, <2>1 DEF VotesMatch, clkVars, PmType, Places, At, Free,
      DeactivateSyncCancelled, Cancelled, Step
<1> QED BY <1>2, <1>3, <1>4, <1>5, <1>6, <1>7, <1>8

\* Nobody is told that an activation is done while it is in progress.
LEMMA InvDeactivateSyncWaits ==
    ASSUME PmInv, DeactivateSyncWaits
    PROVE  PmInv'
<1> USE DEF PmInv
<1>1. UNCHANGED clkVars BY DEF DeactivateSyncWaits
<1>2. ClkInv' BY <1>1, InvStep
<1>3. PmType' BY DEF PmType, DeactivateSyncWaits, At, Step, Free, Points
<1>4. Calls' BY <1>1 DEF Calls, clkVars, PmType, Places, Dropping, DeactivateSyncWaits, At,
    Step, Free
<1>5. Places' BY DEF Places, PmType, DeactivateSyncWaits, At, Step, Free
<1>6. Progress' BY DEF Progress, PmType, Places, Voting, Activating, Pending, InProgress,
    TimerStates, DeactivateSyncWaits, At, Step, Free
<1>7. CalledOff' BY DEF CalledOff, Unscheduled, Pending, PmType, Places, InProgress,
    TimerStates, Active, Progress, Voting, DeactivateSyncWaits, At, Step, Free
<1>8. VotesMatch'
    <2>1. Holders' = Holders BY DEF Holders, PmType, Places, InProgress, TimerStates, Active,
      DeactivateSyncWaits, At, Step, Free
    <2> QED BY <1>1, <2>1 DEF VotesMatch, clkVars, PmType, Places, At, Free,
      DeactivateSyncWaits, Step
<1> QED BY <1>2, <1>3, <1>4, <1>5, <1>6, <1>7, <1>8

\* A synchronous deactivation ends.
LEMMA InvDeactivateSyncEnds ==
    ASSUME PmInv, DeactivateSyncEnds
    PROVE  PmInv'
<1> USE DEF PmInv
<1>1. UNCHANGED clkVars BY DEF DeactivateSyncEnds
<1>2. ClkInv' BY <1>1, InvStep
<1>3. PmType' BY DEF PmType, DeactivateSyncEnds, At, Cancelled, Step, For, Free, Points
<1>4. Calls' BY <1>1 DEF Calls, clkVars, PmType, Places, Dropping, DeactivateSyncEnds, At,
    Cancelled, Step, For, Free
<1>5. Places' BY DEF Places, PmType, DeactivateSyncEnds, At, Cancelled, Step, For, Free
<1>6. Progress' BY DEF Progress, PmType, Places, Voting, Activating, Pending, InProgress,
    TimerStates, DeactivateSyncEnds, At, Cancelled, Step, For, Free
<1>7. CalledOff' BY DEF CalledOff, Unscheduled, Pending, PmType, Places, InProgress,
    TimerStates, Active, DeactivateSyncEnds, At, Cancelled, Step, For, Free
<1>8. VotesMatch'
    <2>1. Holders' = Holders BY DEF Holders, PmType, Places, InProgress, TimerStates, Active,
      DeactivateSyncEnds, At, Cancelled, Step, For, Free
    <2> QED BY <1>1, <2>1 DEF VotesMatch, clkVars, PmType, Places, At, Free,
      DeactivateSyncEnds, Cancelled, Step, For
<1> QED BY <1>2, <1>3, <1>4, <1>5, <1>6, <1>7, <1>8

\* The users only let go from now on.
LEMMA InvClose ==
    ASSUME PmInv, Close
    PROVE  PmInv'
<1> USE DEF PmInv
<1>1. UNCHANGED clkVars BY DEF Close
<1>2. ClkInv' BY <1>1, InvStep
<1>3. PmType' BY DEF PmType, Close
<1>4. Calls' BY <1>1 DEF Calls, clkVars, PmType, Places, Dropping, Close
<1>5. Places' BY DEF Places, PmType, Close
<1>6. Progress' BY DEF Progress, PmType, Places, Voting, Activating, Pending, InProgress,
    TimerStates, Close
<1>7. CalledOff' BY DEF CalledOff, Unscheduled, Pending, PmType, Places, InProgress,
    TimerStates, Active, Close
<1>8. VotesMatch'
    <2>1. Holders' = Holders BY DEF Holders, PmType, Places, InProgress, TimerStates, Active,
      Close
  <2> QED BY <1>1, <2>1 DEF VotesMatch, clkVars, PmType, Places, At, Free, Close
<1> QED BY <1>2, <1>3, <1>4, <1>5, <1>6, <1>7, <1>8

-----------------------------------------------------------------------------
(***************************************************************************)
(* The steps that move a vote, and those that change who owns it.          *)
(***************************************************************************)

\* A client that may not block gets its vote at once.
LEMMA InvActivateNow ==
    ASSUME PmInv, NEW c \in Client, ActivateNow(c)
    PROVE  PmInv'
<1> USE DEF PmInv
<1>1. IncNoBlock BY DEF ActivateNow
<1>2. ClkInv' BY <1>1, InvIncNoBlock
<1>3. PmType' BY DEF PmType, Places, States, InProgress, Active, TimerStates, Points,
    ActivateNow, Serial, IncNoBlock, SetState, IncNotZero
<1>4. Calls' BY DEF Calls, clkVars, PmType, Places, Dropping, ClkInv, ClkType, ActivateNow,
    Serial, IncNoBlock, SetState, IncNotZero
<1>5. Places' BY DEF Places, PmType, ActivateNow, Serial, IncNoBlock, SetState, IncNotZero
<1>6. Progress' BY DEF Progress, PmType, Places, Voting, Activating, Pending, InProgress,
    TimerStates, ActivateNow, Serial, IncNoBlock, SetState, IncNotZero
<1>7. CalledOff' BY DEF CalledOff, Unscheduled, Pending, PmType, Places, InProgress,
    TimerStates, Active, ActivateNow, Serial, IncNoBlock, SetState, IncNotZero
<1>8. VotesMatch'
  <2>1. c \notin Holders /\ Holders' = Holders \cup {c}
        BY DEF Holders, PmType, Places, InProgress, TimerStates, Active, ActivateNow, Serial,
        IncNoBlock, SetState, IncNotZero
  <2>2. Cardinality(Holders') = Cardinality(Holders) + 1 BY <2>1, HolderGained
    <2> QED BY <2>2, HoldersFinite DEF VotesMatch, At, Free, One, clkVars, PmType, Places,
      ClkInv, ClkType, ActivateNow, Serial, IncNoBlock, SetState, IncNotZero
<1> QED BY <1>2, <1>3, <1>4, <1>5, <1>6, <1>7, <1>8

\* It leaves the vote to the activate work; the work of its last activation has
\* told that it is done.
LEMMA InvActivateLater ==
    ASSUME PmInv, ~LateCompletion, NEW c \in Client, ActivateLater(c)
    PROVE  PmInv'
<1> USE DEF PmInv
<1>1. UNCHANGED clkVars BY DEF ActivateLater
<1>2. ClkInv' BY <1>1, InvStep
<1>3. PmType' BY DEF PmType, Places, States, InProgress, Active, TimerStates, Points,
    ActivateLater, Serial, SetState, Enqueue
<1>4. Calls' BY DEF Calls, clkVars, PmType, Places, Dropping, ClkInv, ClkType, ActivateLater,
    Serial, SetState, Enqueue
<1>5. Places' BY DEF Places, PmType, ActivateLater, Serial, SetState, Enqueue
<1>6. Progress'
  <2>1. pc[Pmworker] # "undo" BY UndoVotes DEF ActivateLater
  <2>2. state[c] = "DEACTIVATED" /\ cur[Owner] # c /\ UNCHANGED <<pc, cur>>
    /\ ~(cur[Pmworker] = c /\ pc[Pmworker] = "complete")
    /\ state' = [state EXCEPT ![c] = "ACTIVATE_IN_PROGRESS"]
    /\ done' = [done EXCEPT ![c] = FALSE] /\ wq' = wq \cup {<<"activate", c>>}
    BY DEF ActivateLater, Serial, SetState, Enqueue
  <2>3. ~Activating(c) BY <2>2 DEF Progress, InProgress
  <2> QED BY <2>1, <2>2, <2>3 DEF Progress, PmType, Voting, Activating, Pending, InProgress
<1>7. CalledOff' BY DEF CalledOff, Unscheduled, Pending, PmType, Places, InProgress,
    TimerStates, Active, ActivateLater, Serial, SetState, Enqueue
<1>8. VotesMatch'
    <2>1. Holders' = Holders BY DEF Holders, PmType, Places, InProgress, TimerStates, Active,
      ActivateLater, Serial, SetState, Enqueue
    <2> QED BY <1>1, <2>1, HoldersFinite DEF VotesMatch, At, Free, One, clkVars, PmType,
      Places, ClkInv, ClkType, ActivateLater, Serial, SetState, Enqueue
<1> QED BY <1>2, <1>3, <1>4, <1>5, <1>6, <1>7, <1>8

\* The activate work asks for the vote of a client in progress.
LEMMA InvStartActivateWork ==
    ASSUME PmInv, NEW c \in Client, StartActivateWork(c)
    PROVE  PmInv'
<1> USE DEF PmInv
<1>1. CallInc(Pmworker) BY DEF StartActivateWork
<1>2. ClkInv' BY <1>1, InvCallInc
<1>3. PmType' BY DEF PmType, Places, States, InProgress, Active, TimerStates, Points,
    StartActivateWork, At, Pending, For, Step, CallInc, Free, Goto
<1>4. Calls' BY DEF Calls, clkVars, PmType, Places, Dropping, ClkInv, ClkType,
    StartActivateWork, At, Pending, For, Step, CallInc, Free, Goto
<1>5. Places' BY DEF Places, PmType, StartActivateWork, At, Pending, For, Step, CallInc, Free,
    Goto
<1>6. Progress' BY DEF Progress, PmType, Places, Voting, Activating, Pending, InProgress,
    TimerStates, StartActivateWork, At, For, Step, CallInc, Free, Goto
<1>7. CalledOff' BY DEF CalledOff, Unscheduled, Pending, PmType, Places, InProgress,
    TimerStates, Active, StartActivateWork, At, For, Step, CallInc, Free, Goto
<1>8. VotesMatch'
    <2>1. Holders' = Holders BY DEF Holders, PmType, Places, InProgress, TimerStates, Active,
      StartActivateWork, At, Pending, For, Step, CallInc, Free, Goto
    <2> QED BY <2>1, HoldersFinite DEF VotesMatch, At, Free, One, clkVars, PmType, Places,
      ClkInv, ClkType, StartActivateWork, Pending, For, Step, CallInc, Goto
<1> QED BY <1>2, <1>3, <1>4, <1>5, <1>6, <1>7, <1>8

\* The vote it got becomes the client's, or is to be given back.
LEMMA InvActivateWorkDecides ==
    ASSUME PmInv, ActivateWorkDecides
    PROVE  PmInv'
<1> USE DEF PmInv
<1>0. state[cur[Pmworker]] \in InProgress /\ ~Voting(cur[Pmworker]) /\ cur[Pmworker] \in Client
  BY DEF Progress, Activating, Places, ActivateWorkDecides, At, SetState, Step, Free
<1>1. UNCHANGED clkVars BY DEF ActivateWorkDecides
<1>2. ClkInv' BY <1>1, InvStep
<1>3. PmType' BY DEF PmType, Places, States, InProgress, Active, TimerStates, Points,
    ActivateWorkDecides, At, SetState, Step, Free
<1>4. Calls' BY DEF Calls, clkVars, PmType, Places, Dropping, ClkInv, ClkType,
    ActivateWorkDecides, At, SetState, Step, Free
<1>5. Places' BY DEF Places, PmType, ActivateWorkDecides, At, SetState, Step, Free
<1>6. Progress' BY <1>0 DEF Progress, PmType, Places, Voting, Activating, Pending, InProgress,
    TimerStates, ActivateWorkDecides, At, SetState, Step, Free
<1>7. CalledOff' BY <1>0 DEF CalledOff, Unscheduled, Pending, PmType, Places, InProgress,
    TimerStates, Active, ActivateWorkDecides, At, SetState, Step, Free
<1>8. VotesMatch'
  <2>1. CASE state[cur[Pmworker]] = "ACTIVATE_IN_PROGRESS"
    <3>1. cur[Pmworker] \notin Holders /\ Holders' = Holders \cup {cur[Pmworker]}
            BY <1>0, <2>1 DEF CalledOff, Holders, PmType, Places, InProgress, TimerStates,
          Active, ActivateWorkDecides, At, SetState, Step, Free
    <3>2. Cardinality(Holders') = Cardinality(Holders) + 1 BY <3>1, HolderGained
        <3> QED BY <1>0, <1>1, <2>1, <3>2, HoldersFinite DEF InProgress, VotesMatch, At, Free,
        One, clkVars, PmType, Places, ClkInv, ClkType, ActivateWorkDecides, SetState, Step
  <2>2. CASE state[cur[Pmworker]] = "DEACTIVATE_IN_PROGRESS"
        <3>1. Holders' = Holders BY <1>0, <2>2 DEF CalledOff, Holders, PmType, Places,
        InProgress, TimerStates, Active, ActivateWorkDecides, At, SetState, Step, Free
        <3> QED BY <1>0, <1>1, <2>2, <3>1, HoldersFinite DEF InProgress, VotesMatch, At, Free,
        One, clkVars, PmType, Places, ClkInv, ClkType, ActivateWorkDecides, SetState, Step
  <2> QED BY <1>0, <2>1, <2>2 DEF InProgress
<1> QED BY <1>2, <1>3, <1>4, <1>5, <1>6, <1>7, <1>8

\* The waiters are told; a vote nobody wants any more is given back.
LEMMA InvActivateWorkCompletes ==
    ASSUME PmInv, ActivateWorkCompletes
    PROVE  PmInv'
<1> USE DEF PmInv
<1>1. ClkInv'
  <2>1. CASE UNCHANGED clkVars BY <2>1, InvStep
  <2>2. CASE At(Pmworker, "undo") /\ CallDec(Pmworker)
    BY <2>2, UndoVotes, InvCallDec DEF At
  <2> QED BY <2>1, <2>2 DEF ActivateWorkCompletes
<1>3. PmType' BY DEF PmType, Places, Points, ActivateWorkCompletes, At, Step, For, CallDec,
    Free, Goto
<1>4. Calls' BY DEF Calls, clkVars, PmType, Places, Dropping, ClkInv, ClkType,
    ActivateWorkCompletes, At, Step, For, CallDec, Free, Goto
<1>5. Places' BY DEF Places, PmType, ActivateWorkCompletes, At, Step, For, CallDec, Free, Goto
<1>6. Progress' BY DEF Progress, PmType, Places, Voting, Activating, Pending, InProgress,
    ActivateWorkCompletes, At, Step, For, CallDec, Free, Goto
<1>7. CalledOff' BY DEF CalledOff, Unscheduled, Pending, PmType, Places,
    ActivateWorkCompletes, At, Step, For, CallDec, Free, Goto
<1>8. VotesMatch'
    <2>1. Holders' = Holders BY DEF Holders, PmType, Places, ActivateWorkCompletes, At, Step,
      For, CallDec, Free, Goto
  <2>2. CASE At(Pmworker, "complete") /\ Step(Pmworker, "idle") /\ UNCHANGED clkVars
    <3>1. ~At(Pmworker, "activating") /\ ~At(Pmworker, "undo") /\ ~At(Pmworker, "activating")'
          /\ ~At(Pmworker, "undo")' /\ (At(Owner, "voted")' <=> At(Owner, "voted"))
      BY <2>2 DEF At, Free, Step, PmType, clkVars
    <3> QED BY <2>1, <2>2, <3>1 DEF VotesMatch, clkVars, Free, One
  <2>3. CASE At(Pmworker, "undo") /\ Step(Pmworker, "undone") /\ CallDec(Pmworker)
    <3>1. At(Pmworker, "undo") /\ ~At(Pmworker, "activating") /\ ~At(Pmworker, "activating")'
          /\ ~At(Pmworker, "undo")' /\ (At(Owner, "voted")' <=> At(Owner, "voted"))
          /\ (Free(Kworker)' <=> Free(Kworker)) /\ deferring' = deferring /\ held' = held - 1
      BY <2>3 DEF At, Free, Step, PmType, CallDec, Goto, ClkInv, ClkType
    <3> QED BY <2>1, <3>1, HoldersFinite DEF VotesMatch, One, ClkInv, ClkType
  <2> QED BY <2>2, <2>3 DEF ActivateWorkCompletes
<1> QED BY <1>1, <1>3, <1>4, <1>5, <1>6, <1>7, <1>8

\* The deferred deactivation drops the client's vote; no process is at it.
LEMMA InvDeactivateWorkDrops ==
    ASSUME PmInv, DeactivateWorkDrops
    PROVE  PmInv'
<1> USE DEF PmInv
<1>0. cur[Pmworker] \in Holders
    BY DEF CalledOff, Unscheduled, Holders, PmType, Places, InProgress, TimerStates, Active,
      DeactivateWorkDrops, At, SetState, CallDec, Step, Free, Goto
<1>1. CallDec(Pmworker) /\ CallerVotes > 0 BY <1>0, HolderVotes DEF DeactivateWorkDrops
<1>2. ClkInv' BY <1>1, InvCallDec
<1>3. PmType' BY DEF PmType, Places, States, InProgress, Active, TimerStates, Points,
    DeactivateWorkDrops, At, SetState, CallDec, Step, Free, Goto
<1>4. Calls' BY DEF Calls, clkVars, PmType, Places, Dropping, ClkInv, ClkType,
    DeactivateWorkDrops, At, SetState, CallDec, Step, Free, Goto
<1>5. Places' BY DEF Places, PmType, DeactivateWorkDrops, At, SetState, CallDec, Step, Free,
    Goto
<1>6. Progress' BY DEF Progress, PmType, Places, Voting, Activating, Pending, InProgress,
    TimerStates, DeactivateWorkDrops, At, SetState, CallDec, Step, Free, Goto
<1>7. CalledOff' BY DEF CalledOff, Unscheduled, Pending, PmType, Places, InProgress,
    TimerStates, Active, DeactivateWorkDrops, At, SetState, CallDec, Step, Free, Goto
<1>8. VotesMatch'
    <2>1. Holders' = Holders \ {cur[Pmworker]} BY DEF Holders, PmType, Places, InProgress,
      TimerStates, Active, DeactivateWorkDrops, At, SetState, CallDec, Step, Free, Goto
  <2>2. Cardinality(Holders') = Cardinality(Holders) - 1 BY <1>0, <2>1, HolderLost
    <2> QED BY <2>2, HoldersFinite DEF VotesMatch, At, Free, One, clkVars, PmType, Places,
      ClkInv, ClkType, DeactivateWorkDrops, SetState, CallDec, Step, Goto
<1> QED BY <1>2, <1>3, <1>4, <1>5, <1>6, <1>7, <1>8

\* Suspend drops the vote of a client whose deactivation was deferred.
LEMMA InvSuspendDrops ==
    ASSUME PmInv, SuspendDrops
    PROVE  PmInv'
<1> USE DEF PmInv
<1>0. cur[Suspender] \in Holders
    BY DEF Holders, PmType, Places, InProgress, TimerStates, Active, SuspendDrops, At,
      SetState, CallDec, Step, Free, Goto
<1>1. CallDec(Suspender) /\ CallerVotes > 0 BY <1>0, HolderVotes DEF SuspendDrops
<1>2. ClkInv' BY <1>1, InvCallDec
<1>3. PmType' BY DEF PmType, Places, States, InProgress, Active, TimerStates, Points,
    SuspendDrops, At, SetState, CallDec, Step, Free, Goto
<1>4. Calls' BY DEF Calls, clkVars, PmType, Places, Dropping, ClkInv, ClkType, SuspendDrops,
    At, SetState, CallDec, Step, Free, Goto
<1>5. Places' BY DEF Places, PmType, SuspendDrops, At, SetState, CallDec, Step, Free, Goto
<1>6. Progress' BY DEF Progress, PmType, Places, Voting, Activating, Pending, InProgress,
    TimerStates, SuspendDrops, At, SetState, CallDec, Step, Free, Goto
<1>7. CalledOff' BY DEF CalledOff, Unscheduled, Pending, PmType, Places, InProgress,
    TimerStates, Active, SuspendDrops, At, SetState, CallDec, Step, Free, Goto
<1>8. VotesMatch'
    <2>1. Holders' = Holders \ {cur[Suspender]} BY DEF Holders, PmType, Places, InProgress,
      TimerStates, Active, SuspendDrops, At, SetState, CallDec, Step, Free, Goto
  <2>2. Cardinality(Holders') = Cardinality(Holders) - 1 BY <1>0, <2>1, HolderLost
    <2> QED BY <2>2, HoldersFinite DEF VotesMatch, At, Free, One, clkVars, PmType, Places,
      ClkInv, ClkType, SuspendDrops, SetState, CallDec, Step, Goto
<1> QED BY <1>2, <1>3, <1>4, <1>5, <1>6, <1>7, <1>8

\* A process asks for the vote of a client that nobody activates.
LEMMA InvActivateSyncVotes ==
    ASSUME PmInv, ActivateSyncVotes
    PROVE  PmInv'
<1> USE DEF PmInv
<1>1. CallInc(Owner) BY DEF ActivateSyncVotes
<1>2. ClkInv' BY <1>1, InvCallInc
<1>3. PmType' BY DEF PmType, Places, States, InProgress, Active, TimerStates, Points,
    ActivateSyncVotes, At, SetState, CallInc, Step, Free, Goto
<1>4. Calls' BY DEF Calls, clkVars, PmType, Places, Dropping, ClkInv, ClkType,
    ActivateSyncVotes, At, SetState, CallInc, Step, Free, Goto
<1>5. Places' BY DEF Places, PmType, ActivateSyncVotes, At, SetState, CallInc, Step, Free, Goto
<1>6. Progress' BY DEF Progress, PmType, Places, Voting, Activating, Pending, InProgress,
    TimerStates, ActivateSyncVotes, At, SetState, CallInc, Step, Free, Goto
<1>7. CalledOff' BY DEF CalledOff, Unscheduled, Pending, PmType, Places, InProgress,
    TimerStates, Active, ActivateSyncVotes, At, SetState, CallInc, Step, Free, Goto
<1>8. VotesMatch'
    <2>1. Holders' = Holders BY DEF Holders, PmType, Places, InProgress, TimerStates, Active,
      ActivateSyncVotes, At, SetState, CallInc, Step, Free, Goto
    <2> QED BY <2>1, HoldersFinite DEF VotesMatch, At, Free, One, clkVars, PmType, Places,
      ClkInv, ClkType, ActivateSyncVotes, SetState, CallInc, Step, Goto
<1> QED BY <1>2, <1>3, <1>4, <1>5, <1>6, <1>7, <1>8

\* The vote it got becomes the client's.
LEMMA InvActivateSyncEnds ==
    ASSUME PmInv, ActivateSyncEnds
    PROVE  PmInv'
<1> USE DEF PmInv
<1>0. Voting(cur[Owner]) /\ cur[Owner] \in Client /\ state[cur[Owner]] \in InProgress
  BY DEF Places, Progress, Voting, ActivateSyncEnds, At, SetState, Step, For, Free
<1>1. UNCHANGED clkVars BY DEF ActivateSyncEnds
<1>2. ClkInv' BY <1>1, InvStep
<1>3. PmType' BY DEF PmType, Places, States, InProgress, Active, TimerStates, Points,
    ActivateSyncEnds, At, SetState, Step, For, Free
<1>4. Calls' BY DEF Calls, clkVars, PmType, Places, Dropping, ClkInv, ClkType,
    ActivateSyncEnds, At, SetState, Step, For, Free
<1>5. Places' BY DEF Places, PmType, ActivateSyncEnds, At, SetState, Step, For, Free
<1>6. Progress' BY <1>0 DEF Progress, PmType, Places, Voting, Activating, Pending, InProgress,
    TimerStates, ActivateSyncEnds, At, SetState, Step, For, Free
<1>7. CalledOff' BY DEF CalledOff, Unscheduled, Pending, PmType, Places, InProgress,
    TimerStates, Active, ActivateSyncEnds, At, SetState, Step, For, Free
<1>8. VotesMatch'
  <2>1. cur[Owner] \notin Holders /\ Holders' = Holders \cup {cur[Owner]}
        BY <1>0 DEF Holders, PmType, Places, InProgress, TimerStates, Active,
        ActivateSyncEnds, At, SetState, Step, For, Free
  <2>2. Cardinality(Holders') = Cardinality(Holders) + 1 BY <2>1, HolderGained
    <2> QED BY <1>0, <1>1, <2>2, HoldersFinite DEF VotesMatch, At, Free, One, clkVars, PmType,
      Places, ClkInv, ClkType, ActivateSyncEnds, SetState, Step, For
<1> QED BY <1>2, <1>3, <1>4, <1>5, <1>6, <1>7, <1>8

\* A process gives back the vote of a client that is active: its deferred
\* deactivation was called off and no activation is in progress.
LEMMA InvDeactivateSyncDrops ==
    ASSUME PmInv, DeactivateSyncDrops
    PROVE  PmInv'
<1> USE DEF PmInv
<1>0. cur[Owner] \in Holders
    BY DEF CalledOff, States, Holders, PmType, Places, InProgress, TimerStates, Active,
      DeactivateSyncDrops, At, CallDec, Step, Free, Goto
<1>1. CallDec(Owner) /\ CallerVotes > 0 BY <1>0, HolderVotes DEF DeactivateSyncDrops
<1>2. ClkInv' BY <1>1, InvCallDec
<1>3. PmType' BY DEF PmType, Places, States, InProgress, Active, TimerStates, Points,
    DeactivateSyncDrops, At, CallDec, Step, Free, Goto
<1>4. Calls' BY DEF Calls, clkVars, PmType, Places, Dropping, ClkInv, ClkType,
    DeactivateSyncDrops, At, CallDec, Step, Free, Goto
<1>5. Places' BY DEF Places, PmType, DeactivateSyncDrops, At, CallDec, Step, Free, Goto
<1>6. Progress' BY DEF Progress, PmType, Places, Voting, Activating, Pending, InProgress,
    TimerStates, DeactivateSyncDrops, At, CallDec, Step, Free, Goto
<1>7. CalledOff' BY DEF CalledOff, Unscheduled, Pending, PmType, Places, InProgress,
    TimerStates, Active, States, DeactivateSyncDrops, At, CallDec, Step, Free, Goto
<1>8. VotesMatch'
    <2>1. Holders' = Holders \ {cur[Owner]} BY DEF Holders, PmType, Places, InProgress,
      TimerStates, Active, DeactivateSyncDrops, At, CallDec, Step, Free, Goto
  <2>2. Cardinality(Holders') = Cardinality(Holders) - 1 BY <1>0, <2>1, HolderLost
    <2> QED BY <2>2, HoldersFinite DEF VotesMatch, At, Free, One, clkVars, PmType, Places,
      ClkInv, ClkType, DeactivateSyncDrops, CallDec, Step, Goto
<1> QED BY <1>2, <1>3, <1>4, <1>5, <1>6, <1>7, <1>8

\* Its state follows.
LEMMA InvDeactivateSyncSets ==
    ASSUME PmInv, DeactivateSyncSets
    PROVE  PmInv'
<1> USE DEF PmInv
<1>1. UNCHANGED clkVars BY DEF DeactivateSyncSets
<1>2. ClkInv' BY <1>1, InvStep
<1>3. PmType' BY DEF PmType, Places, States, InProgress, Active, TimerStates, Points,
    DeactivateSyncSets, At, SetState, Cancel, Free, Step
<1>4. Calls' BY DEF Calls, clkVars, PmType, Places, Dropping, ClkInv, ClkType,
    DeactivateSyncSets, At, SetState, Cancel, Free, Step
<1>5. Places' BY DEF Places, PmType, DeactivateSyncSets, At, SetState, Cancel, Free, Step
<1>6. Progress' BY DEF Progress, PmType, Places, Voting, Activating, Pending, InProgress,
    TimerStates, CalledOff, Active, DeactivateSyncSets, At, SetState, Cancel, Free, Step
<1>7. CalledOff' BY DEF CalledOff, Unscheduled, Pending, PmType, Places, InProgress,
    TimerStates, Active, DeactivateSyncSets, At, SetState, Cancel, Free, Step
<1>8. VotesMatch'
    <2>1. Holders' = Holders BY DEF Holders, PmType, Places, InProgress, TimerStates, Active,
      DeactivateSyncSets, At, SetState, Cancel, Free, Step
    <2> QED BY <1>1, <2>1, HoldersFinite DEF VotesMatch, At, Free, One, clkVars, PmType,
      Places, ClkInv, ClkType, DeactivateSyncSets, SetState, Cancel, Step
<1> QED BY <1>2, <1>3, <1>4, <1>5, <1>6, <1>7, <1>8

-----------------------------------------------------------------------------
(***************************************************************************)
(* The steps of the counter itself.                                        *)
(***************************************************************************)
Incing == {"inc", "inc_lock", "inc_resume"}
Decing == Dropping \cup {"dec_suspend", "dec_disable"}

\* The vote a thread called for is granted: it carries it to its client.
LEMMA GrantMatches ==
    ASSUME PmInv, NEW t \in Thread, at[t] \in Incing, Goto(t, "idle"), held' = held + 1,
           UNCHANGED <<deferring, pmVars>>
    PROVE  Calls' /\ VotesMatch'
<1> USE DEF PmInv
<1>1. UNCHANGED <<state, pc, cur, deferring>> BY DEF pmVars
<1>2. Calls' BY <1>1 DEF Calls, Goto, ClkInv, ClkType, Dropping
<1>3. Holders' = Holders BY <1>1 DEF Holders
<1>4. at' = [at EXCEPT ![t] = "idle"] /\ at \in [Thread -> Positions] /\ held \in Nat
  BY DEF Goto, ClkInv, ClkType
<1>5. VotesMatch'
  <2>1. CASE t = Pmworker /\ pc[t] = "activating"
    BY <1>1, <1>3, <1>4, <2>1, HoldersFinite DEF VotesMatch, At, Free, One, Incing
  <2>2. CASE t = Owner /\ pc[t] = "voted"
    BY <1>1, <1>3, <1>4, <2>2, HoldersFinite DEF VotesMatch, At, Free, One, Incing
  <2>3. CASE t = Kworker /\ deferring
    BY <1>1, <1>3, <1>4, <2>3, HoldersFinite DEF VotesMatch, At, Free, One, Incing
  <2> QED BY <2>1, <2>2, <2>3 DEF Calls, Incing
<1> QED BY <1>2, <1>5

\* A call that goes on, or a vote that is given back, changes nobody's vote.
LEMMA MoveMatches ==
    ASSUME PmInv, NEW t \in Thread, NEW p, Goto(t, p), UNCHANGED <<held, deferring, pmVars>>,
           \/ at[t] \in Incing /\ p \in Incing
           \/ at[t] \in Decing /\ p \in Decing \cup {"idle"}
    PROVE  Calls' /\ VotesMatch'
<1> USE DEF PmInv
<1>1. UNCHANGED <<state, pc, cur, deferring>> BY DEF pmVars
<1>2. at' = [at EXCEPT ![t] = p] /\ at \in [Thread -> Positions] /\ held' = held
  BY DEF Goto, ClkInv, ClkType
<1>3. Calls' BY <1>1, <1>2 DEF Calls, Incing, Decing, Dropping
<1>4. Holders' = Holders BY <1>1 DEF Holders
<1>5. \/ t \notin {Pmworker, Owner, Kworker}
      \/ p # "idle"
      \/ t = Pmworker /\ pc[t] \in {"undone", "deactivated"}
      \/ t = Owner /\ pc[t] = "dropped"
      \/ t = Kworker /\ ~deferring
  <2>1. CASE at[t] \in Incing /\ p \in Incing BY <2>1 DEF Incing
  <2>2. CASE at[t] \in Decing
    <3>1. \/ t = Pmworker /\ pc[t] \in {"undone", "deactivated"}
          \/ t = Owner /\ pc[t] = "dropped"
          \/ t = Suspender
          \/ t = Kworker /\ ~deferring
      BY <2>2 DEF Calls, Decing
    <3>2. Suspender \notin {Pmworker, Owner, Kworker} BY PmAssumption
    <3> QED BY <3>1, <3>2
  <2> QED BY <2>1, <2>2
<1>6. (At(Pmworker, "activating") \/ At(Pmworker, "undo"))'
         <=> (At(Pmworker, "activating") \/ At(Pmworker, "undo"))
  BY <1>1, <1>2, <1>5 DEF At, Free, Incing, Decing, Dropping
<1>7. At(Owner, "voted")' <=> At(Owner, "voted")
  BY <1>1, <1>2, <1>5 DEF At, Free, Incing, Decing, Dropping
<1>8. (deferring /\ Free(Kworker))' <=> (deferring /\ Free(Kworker))
  BY <1>1, <1>2, <1>5 DEF Free, Incing, Decing, Dropping
<1> QED BY <1>2, <1>3, <1>4, <1>6, <1>7, <1>8 DEF VotesMatch, One

\* The single worker of power_mgmt_wq takes up a work, or has processed the
\* deferred interrupt.
LEMMA WorkMatches ==
    ASSUME PmInv, WorkStep, UNCHANGED pmVars
    PROVE  Calls' /\ VotesMatch'
<1> USE DEF PmInv
<1>1. UNCHANGED <<state, pc, cur>> BY DEF pmVars
<1>2. Holders' = Holders BY <1>1 DEF Holders
<1>3. at \in [Thread -> Positions] /\ held \in Nat /\ at[Kworker] = "idle"
  BY DEF ClkInv, ClkType, WorkStep, StartVoteWork, StartDefer, EndDefer, Free
<1>4. CASE StartVoteWork
  <2>1. at' = [at EXCEPT ![Kworker] = "dec"] /\ ~deferring /\ ~deferring' /\ held' = held
    BY <1>4 DEF StartVoteWork, Goto
  <2>2. Calls' BY <1>1, <1>3, <2>1 DEF Calls, Dropping
  <2>3. (At(Pmworker, "activating") \/ At(Pmworker, "undo"))'
           <=> (At(Pmworker, "activating") \/ At(Pmworker, "undo"))
    BY <1>1, <1>3, <2>1 DEF At, Free
  <2>4. At(Owner, "voted")' <=> At(Owner, "voted") BY <1>1, <1>3, <2>1 DEF At, Free
  <2>5. ~(deferring /\ Free(Kworker)) /\ ~(deferring /\ Free(Kworker))'
    BY <1>3, <2>1, ThreadAssumption DEF Free
  <2> QED BY <1>2, <2>1, <2>2, <2>3, <2>4, <2>5 DEF VotesMatch, One
<1>5. CASE StartDefer
  <2>1. at' = [at EXCEPT ![Kworker] = "inc"] /\ ~deferring /\ deferring' /\ held' = held
    BY <1>5 DEF StartDefer, Goto
  <2>2. Calls' BY <1>1, <1>3, <2>1 DEF Calls, Dropping
  <2>3. (At(Pmworker, "activating") \/ At(Pmworker, "undo"))'
           <=> (At(Pmworker, "activating") \/ At(Pmworker, "undo"))
    BY <1>1, <1>3, <2>1 DEF At, Free
  <2>4. At(Owner, "voted")' <=> At(Owner, "voted") BY <1>1, <1>3, <2>1 DEF At, Free
  <2>5. ~(deferring /\ Free(Kworker)) /\ ~(deferring /\ Free(Kworker))'
    BY <1>3, <2>1, ThreadAssumption DEF Free
  <2> QED BY <1>2, <2>1, <2>2, <2>3, <2>4, <2>5 DEF VotesMatch, One
<1>6. CASE EndDefer
  <2>1. at' = at /\ deferring /\ ~deferring' /\ held' = held - 1
    BY <1>6 DEF EndDefer
  <2>2. Calls' BY <1>1, <1>3, <2>1 DEF Calls, Dropping
  <2> QED BY <1>1, <1>2, <1>3, <2>1, <2>2, HoldersFinite DEF VotesMatch, At, Free, One
<1> QED BY <1>4, <1>5, <1>6 DEF WorkStep

\* Every step of the counter keeps the owners of the votes.
LEMMA InvClock ==
    ASSUME PmInv, ClkStep, UNCHANGED pmVars
    PROVE  PmInv'
<1> USE DEF PmInv
<1>1. ClkInv' BY InvStep DEF ClkNext
<1>2. PmType' /\ Places' /\ Progress' /\ CalledOff'
  BY DEF pmVars, PmType, Places, Progress, CalledOff, Voting, Activating, Pending, Unscheduled
<1>3. Calls' /\ VotesMatch'
  <2>1. CASE WorkStep BY <2>1, WorkMatches
  <2>2. CASE Isr \/ IsrDone
    <3>1. UNCHANGED <<at, held, deferring>> BY <2>2 DEF Isr, IsrDone
    <3> QED BY <3>1 DEF pmVars, Calls, VotesMatch, Holders, At, Free
  <2>3. ASSUME NEW t \in Thread, IncStep(t) PROVE Calls' /\ VotesMatch'
    <3>1. CASE held' = held + 1
      <4>1. at[t] \in Incing /\ Goto(t, "idle") /\ UNCHANGED deferring
        BY <2>3, <3>1 DEF IncStep, IncFast, IncLock, IncResume, Incing, ClkInv, ClkType
      <4> QED BY <3>1, <4>1, GrantMatches
    <3>2. CASE held' = held
      <4>1. PICK p \in Incing : Goto(t, p)
        BY <2>3, <3>2 DEF IncStep, IncFast, IncLock, IncResume, IncNotZero, Incing, ClkInv, ClkType
      <4>2. at[t] \in Incing /\ UNCHANGED deferring
        BY <2>3 DEF IncStep, IncFast, IncLock, IncResume, Incing
      <4> QED BY <3>2, <4>1, <4>2, MoveMatches
    <3> QED BY <2>3, <3>1, <3>2 DEF IncStep, IncFast, IncLock, IncResume, IncNotZero
  <2>4. ASSUME NEW t \in Thread, DecStep(t) PROVE Calls' /\ VotesMatch'
    <3>1. at[t] \in Decing /\ UNCHANGED <<held, deferring>>
      BY <2>4 DEF DecStep, DecFast, DecCoalesce, DecCoalesced, DecLock, DecSub, DecBusy,
         DecSuspended, DecDisable, Decing, Dropping
    <3>2. PICK p \in Decing \cup {"idle"} : Goto(t, p)
      <4>1. CASE DecCoalesce(t)
        BY <4>1 DEF DecCoalesce, Decing, Dropping
      <4>2. CASE ~DecCoalesce(t)
        BY <2>4, <4>2 DEF DecStep, DecFast, DecCoalesced, DecLock, DecSub, DecBusy,
           DecSuspended, DecDisable, Decing, Dropping
      <4> QED BY <4>1, <4>2
    <3> QED BY <3>1, <3>2, MoveMatches
  <2> QED BY <2>1, <2>2, <2>3, <2>4 DEF ClkStep
<1> QED BY <1>1, <1>2, <1>3

\* A packet's TAG process moves no vote.
LEMMA InvPacket ==
    ASSUME PmInv, Packet
    PROVE  PmInv'
<1> USE DEF PmInv
<1>1. AskTag(Owner) /\ UNCHANGED pmVars BY DEF Packet
<1>2. ClkInv' BY <1>1, InvStep DEF ClkNext
<1>3. UNCHANGED <<at, held, deferring>> BY <1>1 DEF AskTag
<1>4. PmType' /\ Places' /\ Progress' /\ CalledOff'
  BY <1>1 DEF pmVars, PmType, Places, Progress, CalledOff, Voting, Activating, Pending, Unscheduled
<1>5. Calls' /\ VotesMatch' BY <1>1, <1>3 DEF pmVars, Calls, VotesMatch, Holders, At, Free
<1> QED BY <1>2, <1>4, <1>5

-----------------------------------------------------------------------------
(***************************************************************************)
(* The theorems: the clients keep the counter's contract, so what the      *)
(* counter promises holds of the driver.                                   *)
(***************************************************************************)

\* Nobody is active and nobody calls at first.
LEMMA PmInvInit == PmInit => PmInv
<1> SUFFICES ASSUME PmInit PROVE PmInv OBVIOUS
<1> USE DEF PmInit
<1>1. ClkInv BY InvInit
<1>2. PmType BY DEF PmType, States, Points
<1>3. Calls /\ Places BY DEF Calls, Places, ClkInit, Dropping
<1>4. Progress /\ CalledOff
  BY DEF Progress, CalledOff, Pending, Activating, Voting, InProgress
<1>5. Holders = {} BY DEF Holders, Active, TimerStates
<1>6. VotesMatch BY <1>5, FS_EmptySet DEF VotesMatch, ClkInit, At, One
<1> QED BY <1>1, <1>2, <1>3, <1>4, <1>6 DEF PmInv

\* A thread that gives a vote back has one to give: the client it deactivates
\* is active, or the vote is the one its activation got too late.
LEMMA DroppersOwn ==
    ASSUME PmInv, ActivateWorkCompletes \/ DeactivateWorkDrops \/ SuspendDrops \/ DeactivateSyncDrops
    PROVE  UNCHANGED clkVars \/ CallerVotes > 0
<1> USE DEF PmInv
<1>1. CASE ActivateWorkCompletes BY <1>1, UndoVotes DEF ActivateWorkCompletes, At
<1>2. CASE DeactivateWorkDrops
  <2>1. cur[Pmworker] \in Holders
    BY <1>2 DEF CalledOff, Unscheduled, Holders, Places, TimerStates, Active, DeactivateWorkDrops, At
  <2> QED BY <2>1, HolderVotes
<1>3. CASE SuspendDrops
  <2>1. cur[Suspender] \in Holders
    BY <1>3 DEF Holders, Places, TimerStates, Active, SuspendDrops, At
  <2> QED BY <2>1, HolderVotes
<1>4. CASE DeactivateSyncDrops
  <2>1. cur[Owner] \in Holders
    BY <1>4 DEF CalledOff, Holders, PmType, Places, States, Active, DeactivateSyncDrops, At
  <2> QED BY <2>1, HolderVotes
<1> QED BY <1>1, <1>2, <1>3, <1>4

\* So every step of the driver is one the counter was made for.
LEMMA PmStepRefines ==
    ASSUME PmInv, [PmNext]_vars
    PROVE  [ClkNext]_clkVars
<1>1. CASE UNCHANGED vars BY <1>1 DEF vars
<1>2. CASE Clock BY <1>2 DEF Clock, ClkNext
<1>3. CASE Packet BY <1>3 DEF Packet, ClkNext
<1>4. CASE Close \/ SuspendBegins \/ Suspend
  <2>1. CASE SuspendDrops
    <3>1. CallDec(Suspender) BY <2>1 DEF SuspendDrops
    <3> QED BY <2>1, <3>1, DroppersOwn DEF ClkNext
  <2>2. CASE ~SuspendDrops
    BY <1>4, <2>2 DEF Close, SuspendBegins, Suspend, SuspendVisits, SuspendCancelled,
       SuspendWaits, SuspendKeeps, SuspendEnds
  <2> QED BY <2>1, <2>2
<1>5. CASE Worker
  <2>1. CASE \E c \in Client : StartActivateWork(c)
    <3>1. CallInc(Pmworker) BY <2>1 DEF StartActivateWork
    <3> QED BY <3>1 DEF ClkNext
  <2>2. CASE ActivateWorkCompletes
    <3>1. UNCHANGED clkVars \/ CallDec(Pmworker) BY <2>2 DEF ActivateWorkCompletes
    <3> QED BY <2>2, <3>1, DroppersOwn DEF ClkNext
  <2>3. CASE DeactivateWorkDrops
    <3>1. CallDec(Pmworker) BY <2>3 DEF DeactivateWorkDrops
    <3> QED BY <2>3, <3>1, DroppersOwn DEF ClkNext
  <2>4. CASE \/ \E c \in Client : StartDeactivateWork(c)
             \/ ActivateWorkDecides
             \/ DeactivateWorkKeeps
             \/ EndWork
    BY <2>4 DEF StartDeactivateWork, ActivateWorkDecides, DeactivateWorkKeeps, EndWork
  <2> QED BY <1>5, <2>1, <2>2, <2>3, <2>4 DEF Worker
<1>6. CASE SyncCall
  <2>1. CASE ActivateSyncVotes
    <3>1. CallInc(Owner) BY <2>1 DEF ActivateSyncVotes
    <3> QED BY <3>1 DEF ClkNext
  <2>2. CASE DeactivateSyncDrops
    <3>1. CallDec(Owner) BY <2>2 DEF DeactivateSyncDrops
    <3> QED BY <2>2, <3>1, DroppersOwn DEF ClkNext
  <2>3. CASE ~ActivateSyncVotes /\ ~DeactivateSyncDrops
    BY <1>6, <2>3 DEF SyncCall, ActivateSyncWaits, ActivateSyncFinds, ActivateSyncEnds,
       DeactivateSyncCancelled, DeactivateSyncWaits, DeactivateSyncSets, DeactivateSyncEnds
  <2> QED BY <2>1, <2>2, <2>3
<1>7. ASSUME NEW c \in Client,
             Atomic(c) \/ TimerExpires(c) \/ ActivateSyncBegins(c) \/ DeactivateSyncBegins(c)
      PROVE  [ClkNext]_clkVars
  <2>1. CASE ActivateNow(c) BY <2>1 DEF ActivateNow, ClkNext
  <2>2. CASE ~ActivateNow(c)
    BY <1>7, <2>2 DEF Atomic, ActivateAgain, ActivateLater, Deferred, TimerExpires,
       ActivateSyncBegins, DeactivateSyncBegins
  <2> QED BY <2>1, <2>2
<1> QED BY <1>1, <1>2, <1>3, <1>4, <1>5, <1>6, <1>7 DEF PmNext

\* The power manager's invariant is inductive.
LEMMA PmInvStep ==
    ASSUME ~LateCompletion, PmInv, [PmNext]_vars
    PROVE  PmInv'
<1>1. CASE UNCHANGED vars
  <2>1. ClkInv' BY <1>1, InvStep DEF PmInv, vars
  <2> QED BY <1>1, <2>1 DEF vars, clkVars, pmVars, PmInv, PmType, Calls, Places, Progress, CalledOff,
      VotesMatch, Holders, At, Free, Voting, Activating, Pending, Unscheduled
<1>2. CASE Clock BY <1>2, InvClock DEF Clock
<1>3. CASE Packet BY <1>3, InvPacket
<1>4. CASE Close \/ SuspendBegins BY <1>4, InvClose, InvSuspendBegins
<1>5. CASE Worker
  BY <1>5, InvStartActivateWork, InvActivateWorkDecides, InvActivateWorkCompletes,
     InvStartDeactivateWork, InvDeactivateWorkKeeps, InvDeactivateWorkDrops, InvEndWork DEF Worker
<1>6. CASE Suspend
  BY <1>6, InvSuspendVisits, InvSuspendCancelled, InvSuspendWaits, InvSuspendKeeps,
     InvSuspendDrops, InvSuspendEnds DEF Suspend
<1>7. CASE SyncCall
  BY <1>7, InvActivateSyncWaits, InvActivateSyncFinds, InvActivateSyncVotes, InvActivateSyncEnds,
     InvDeactivateSyncCancelled, InvDeactivateSyncWaits, InvDeactivateSyncDrops,
     InvDeactivateSyncSets, InvDeactivateSyncEnds DEF SyncCall
<1>8. ASSUME NEW c \in Client,
             Atomic(c) \/ TimerExpires(c) \/ ActivateSyncBegins(c) \/ DeactivateSyncBegins(c)
      PROVE  PmInv'
  BY <1>8, InvActivateAgain, InvActivateNow, InvActivateLater, InvDeferred, InvTimerExpires,
     InvActivateSyncBegins, InvDeactivateSyncBegins DEF Atomic
<1> QED BY <1>1, <1>2, <1>3, <1>4, <1>5, <1>6, <1>7, <1>8 DEF PmNext

\* The invariant holds in every behaviour.
LEMMA PmInvHolds == ASSUME ~LateCompletion PROVE PmSafety => []PmInv
<1>1. PmInit => PmInv BY PmInvInit
<1>2. PmInv /\ [PmNext]_vars => PmInv' BY PmInvStep
<1> QED BY <1>1, <1>2, PTL DEF PmSafety

\* Every variable of the power manager keeps its type, whatever the number of
\* clients and of threads that vote.
THEOREM PmTypesHold == ASSUME ~LateCompletion PROVE PmSafety => []TypeOK
<1>1. PmInv => TypeOK
  BY DEF PmInv, PmType, ClkInv, ClkType, VoteWorks, TypeOK
<1> QED BY <1>1, PmInvHolds, PTL

\* A client owns a vote exactly while it is active: ipa_pm_activate and its
\* deactivations never take one twice, lose one, or give one back twice, if
\* the activate work has told it is done before the client is activated again.
THEOREM VotesAreMatched == ASSUME ~LateCompletion PROVE PmSafety => []VotesMatch
<1>1. PmInv => VotesMatch BY DEF PmInv
<1> QED BY <1>1, PmInvHolds, PTL

\* The power manager uses the counter as the counter requires: it gives back
\* only votes it was granted.
THEOREM PmImplementsCounter == ASSUME ~LateCompletion PROVE PmSafety => ClkSpec
<1>1. PmInit => ClkInit BY DEF PmInit
<1>2. PmInv /\ [PmNext]_vars => [ClkNext]_clkVars BY PmStepRefines
<1> QED BY <1>1, <1>2, PmInvHolds, PTL DEF PmSafety, ClkSpec

\* In the driver as a whole the counter counts the votes, a vote that is held
\* finds the clocks on and the pipes resumed, and no call trips the assertion
\* of __ipa3_dec_client_disable_clks.
THEOREM PmKeepsVotes ==
    ASSUME ~LateCompletion
    PROVE  PmSafety => [](VotesCounted /\ VotesHonoured /\ NoUnderflow)
BY PmImplementsCounter, VotesAreCounted, VotesAreHonoured, NeverUnderflows, PTL

\* The driver implements the abstract clock gate: the hardware is switched off
\* only when no vote is held, and a vote is granted only when it is on.
THEOREM PmImplementsGate == ASSUME ~LateCompletion PROVE PmSafety => GateRefined
BY PmImplementsCounter, CounterImplementsGate, PTL

-----------------------------------------------------------------------------
(***************************************************************************)
(* The timers of the deferred deactivations.                               *)
(***************************************************************************)
\* A deferred deactivation is being cancelled only by a process or by suspend.
Cancelling ==
    /\ \A c \in cancelling :
          \/ cur[Owner] = c /\ pc[Owner] \in {"cancel", "recancel"}
          \/ cur[Suspender] = c /\ pc[Suspender] = "cancel"
    /\ pc[Owner] = "recancel" => state[cur[Owner]] = "DEACTIVATED"

TimerInv == TimerArmed /\ Cancelling

\* Whatever arms, cancels or runs the delayed work leaves it armed while the
\* client waits for it.
LEMMA TimerInvStep ==
    ASSUME PmInv, TimerInv, [PmNext]_vars
    PROVE  TimerInv'
<1> USE DEF PmInv
<1>1. CASE UNCHANGED vars \/ Clock \/ Packet
  <2>1. UNCHANGED pmVars BY <1>1 DEF vars, Clock, Packet
  <2> QED BY <2>1 DEF pmVars, TimerInv, TimerArmed, Cancelling, Pending
<1>2. CASE Close BY <1>2 DEF Close, TimerInv, TimerArmed, Cancelling, Pending
<1>3. CASE SuspendBegins
  BY <1>3, PmAssumption DEF SuspendBegins, At, Step, TimerInv, TimerArmed, Cancelling, Pending, PmType
<1>5. CASE Worker
  <2>1. CASE \E c \in Client : StartActivateWork(c) BY <2>1, PmAssumption DEF TimerInv,
      TimerArmed, Cancelling, Pending, PmType, Places, CalledOff, Unscheduled, Progress,
      Voting, InProgress, TimerStates, StartActivateWork, At, Pending, For, Step
  <2>2. CASE \E c \in Client : StartDeactivateWork(c) BY <2>2, PmAssumption DEF TimerInv,
      TimerArmed, Cancelling, Pending, PmType, Places, CalledOff, Unscheduled, Progress,
      Voting, InProgress, TimerStates, StartDeactivateWork, At, Pending, For, Step
  <2>3. CASE ActivateWorkDecides BY <2>3, PmAssumption DEF TimerInv, TimerArmed, Cancelling,
      Pending, PmType, Places, CalledOff, Unscheduled, Progress, Voting, InProgress,
      TimerStates, ActivateWorkDecides, At, SetState, Step
  <2>4. CASE ActivateWorkCompletes BY <2>4, PmAssumption DEF TimerInv, TimerArmed, Cancelling,
      Pending, PmType, Places, CalledOff, Unscheduled, Progress, Voting, InProgress,
      TimerStates, ActivateWorkCompletes, At, Step, For
  <2>5. CASE DeactivateWorkKeeps BY <2>5, PmAssumption DEF TimerInv, TimerArmed, Cancelling,
      Pending, PmType, Places, CalledOff, Unscheduled, Progress, Voting, InProgress,
      TimerStates, DeactivateWorkKeeps, At, SetState, Arm, Step, For, Pending
  <2>6. CASE DeactivateWorkDrops BY <2>6, PmAssumption DEF TimerInv, TimerArmed, Cancelling,
      Pending, PmType, Places, CalledOff, Unscheduled, Progress, Voting, InProgress,
      TimerStates, DeactivateWorkDrops, At, SetState, Step
  <2>7. CASE EndWork BY <2>7, PmAssumption DEF TimerInv, TimerArmed, Cancelling, Pending,
      PmType, Places, CalledOff, Unscheduled, Progress, Voting, InProgress, TimerStates,
      EndWork, At, Step, For
  <2> QED BY <1>5, <2>1, <2>2, <2>3, <2>4, <2>5, <2>6, <2>7 DEF Worker
<1>6. CASE Suspend
  <2>1. CASE \E c \in Client : SuspendVisits(c) BY <2>1, PmAssumption DEF TimerInv,
      TimerArmed, Cancelling, Pending, PmType, Places, CalledOff, Unscheduled, Progress,
      Voting, InProgress, TimerStates, SuspendVisits, At, For, Cancel, Step
  <2>2. CASE SuspendCancelled BY <2>2, PmAssumption DEF TimerInv, TimerArmed, Cancelling,
      Pending, PmType, Places, CalledOff, Unscheduled, Progress, Voting, InProgress,
      TimerStates, SuspendCancelled, At, Cancelled, Step
  <2>3. CASE SuspendWaits BY <2>3, PmAssumption DEF TimerInv, TimerArmed, Cancelling, Pending,
      PmType, Places, CalledOff, Unscheduled, Progress, Voting, InProgress, TimerStates,
      SuspendWaits, At, Step
  <2>4. CASE SuspendKeeps BY <2>4, PmAssumption DEF TimerInv, TimerArmed, Cancelling, Pending,
      PmType, Places, CalledOff, Unscheduled, Progress, Voting, InProgress, TimerStates,
      SuspendKeeps, At, SetState, Step
  <2>5. CASE SuspendDrops BY <2>5, PmAssumption DEF TimerInv, TimerArmed, Cancelling, Pending,
      PmType, Places, CalledOff, Unscheduled, Progress, Voting, InProgress, TimerStates,
      SuspendDrops, At, SetState, Step
  <2>6. CASE SuspendEnds BY <2>6, PmAssumption DEF TimerInv, TimerArmed, Cancelling, Pending,
      PmType, Places, CalledOff, Unscheduled, Progress, Voting, InProgress, TimerStates,
      SuspendEnds, At, Step, For
  <2> QED BY <1>6, <2>1, <2>2, <2>3, <2>4, <2>5, <2>6 DEF Suspend
<1>7. CASE SyncCall
  <2>1. CASE ActivateSyncWaits BY <2>1, PmAssumption DEF TimerInv, TimerArmed, Cancelling,
      Pending, PmType, Places, CalledOff, Unscheduled, Progress, Voting, InProgress,
      TimerStates, ActivateSyncWaits, At, Step
  <2>2. CASE ActivateSyncFinds BY <2>2, PmAssumption DEF TimerInv, TimerArmed, Cancelling,
      Pending, PmType, Places, CalledOff, Unscheduled, Progress, Voting, InProgress,
      TimerStates, ActivateSyncFinds, At, SetState, Step, For
  <2>3. CASE ActivateSyncVotes BY <2>3, PmAssumption DEF TimerInv, TimerArmed, Cancelling,
      Pending, PmType, Places, CalledOff, Unscheduled, Progress, Voting, InProgress,
      TimerStates, ActivateSyncVotes, At, SetState, Step
  <2>4. CASE ActivateSyncEnds BY <2>4, PmAssumption DEF TimerInv, TimerArmed, Cancelling,
      Pending, PmType, Places, CalledOff, Unscheduled, Progress, Voting, InProgress,
      TimerStates, ActivateSyncEnds, At, SetState, Step, For
  <2>5. CASE DeactivateSyncCancelled BY <2>5, PmAssumption DEF TimerInv, TimerArmed,
      Cancelling, Pending, PmType, Places, CalledOff, Unscheduled, Progress, Voting,
      InProgress, TimerStates, DeactivateSyncCancelled, At, Cancelled, Step
  <2>6. CASE DeactivateSyncWaits BY <2>6, PmAssumption DEF TimerInv, TimerArmed, Cancelling,
      Pending, PmType, Places, CalledOff, Unscheduled, Progress, Voting, InProgress,
      TimerStates, DeactivateSyncWaits, At, Step
  <2>7. CASE DeactivateSyncDrops BY <2>7, PmAssumption DEF TimerInv, TimerArmed, Cancelling,
      Pending, PmType, Places, CalledOff, Unscheduled, Progress, Voting, InProgress,
      TimerStates, DeactivateSyncDrops, At, Step
  <2>8. CASE DeactivateSyncSets BY <2>8, PmAssumption DEF TimerInv, TimerArmed, Cancelling,
      Pending, PmType, Places, CalledOff, Unscheduled, Progress, Voting, InProgress,
      TimerStates, DeactivateSyncSets, At, SetState, Cancel, Step
  <2>9. CASE DeactivateSyncEnds BY <2>9, PmAssumption DEF TimerInv, TimerArmed, Cancelling,
      Pending, PmType, Places, CalledOff, Unscheduled, Progress, Voting, InProgress,
      TimerStates, DeactivateSyncEnds, At, Cancelled, Step, For
  <2> QED BY <1>7, <2>1, <2>2, <2>3, <2>4, <2>5, <2>6, <2>7, <2>8, <2>9 DEF SyncCall
<1>8. ASSUME NEW c \in Client,
             Atomic(c) \/ TimerExpires(c) \/ ActivateSyncBegins(c) \/ DeactivateSyncBegins(c)
      PROVE  TimerInv'
  <2>1. CASE ActivateAgain(c) BY <2>1, PmAssumption DEF TimerInv, TimerArmed, Cancelling,
      Pending, PmType, Places, CalledOff, Unscheduled, Progress, Voting, InProgress,
      TimerStates, ActivateAgain, Serial, SetState
  <2>2. CASE ActivateNow(c) BY <2>2, PmAssumption DEF TimerInv, TimerArmed, Cancelling,
      Pending, PmType, Places, CalledOff, Unscheduled, Progress, Voting, InProgress,
      TimerStates, ActivateNow, Serial, SetState
  <2>3. CASE ActivateLater(c) BY <2>3, PmAssumption DEF TimerInv, TimerArmed, Cancelling,
      Pending, PmType, Places, CalledOff, Unscheduled, Progress, Voting, InProgress,
      TimerStates, ActivateLater, Serial, SetState, Enqueue
  <2>4. CASE Deferred(c) BY <2>4, PmAssumption DEF TimerInv, TimerArmed, Cancelling, Pending,
      PmType, Places, CalledOff, Unscheduled, Progress, Voting, InProgress, TimerStates,
      Deferred, Serial, SetState, Arm, Pending
  <2>5. CASE TimerExpires(c) BY <2>5, PmAssumption DEF TimerInv, TimerArmed, Cancelling,
      Pending, PmType, Places, CalledOff, Unscheduled, Progress, Voting, InProgress,
      TimerStates, TimerExpires, Enqueue
  <2>6. CASE ActivateSyncBegins(c) BY <2>6, PmAssumption DEF TimerInv, TimerArmed, Cancelling,
      Pending, PmType, Places, CalledOff, Unscheduled, Progress, Voting, InProgress,
      TimerStates, ActivateSyncBegins, At, Thawed, For, Step
  <2>7. CASE DeactivateSyncBegins(c) BY <2>7, PmAssumption DEF TimerInv, TimerArmed,
      Cancelling, Pending, PmType, Places, CalledOff, Unscheduled, Progress, Voting,
      InProgress, TimerStates, DeactivateSyncBegins, At, Thawed, For, Cancel, Step
  <2> QED BY <1>8, <2>1, <2>2, <2>3, <2>4, <2>5, <2>6, <2>7 DEF Atomic
<1> QED BY <1>1, <1>2, <1>3, <1>5, <1>6, <1>7, <1>8 DEF PmNext

\* A client that waits for its deferred deactivation has one coming: no order
\* of expiry, cancellation, suspend and new calls loses it, so no client keeps
\* its vote for ever because its timer was lost.
THEOREM TimersStayArmed == ASSUME ~LateCompletion PROVE PmSafety => []TimerArmed
<1>1. PmInit => TimerInv BY DEF PmInit, TimerInv, TimerArmed, Cancelling, TimerStates
<1>2. PmInv /\ TimerInv /\ [PmNext]_vars => TimerInv' BY TimerInvStep
<1>3. TimerInv => TimerArmed BY DEF TimerInv
<1> QED BY <1>1, <1>2, <1>3, PmInvHolds, PTL DEF PmSafety
=============================================================================
