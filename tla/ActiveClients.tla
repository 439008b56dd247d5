---------------------------- MODULE ActiveClients ----------------------------
(***************************************************************************)
(* The active clients counter of the IPA driver (dataipa, ipa_v3/ipa.c and *)
(* ipa_interrupts.c): the clocks are on while the counter is not zero.     *)
(* The counter is taken and given back with atomic operations; only the    *)
(* steps from 0 to 1 and from 1 to 0 take the mutex.  Votes that cannot be *)
(* given back at once travel in the works of power_mgmt_wq.                *)
(*                                                                         *)
(* A thread that has called in is at a position of the call, at[t]; the    *)
(* call has returned when at[t] is "idle" again.                           *)
(***************************************************************************)
EXTENDS Integers, FiniteSets

CONSTANTS
    Thread,     \* the threads that vote
    Kworker,    \* the only worker of power_mgmt_wq (its max_active is 1)
    None

ASSUME ThreadAssumption ==
    IsFiniteSet(Thread) /\ Kworker \in Thread /\ None \notin Thread

VARIABLES
    cnt,      \* ipa3_active_clients.cnt
    mutex,    \* owner of ipa3_active_clients.mutex, or None
    clk,      \* ipa_clk_vote: the clocks are on
    pipes,    \* the pipes of the application processor are resumed
    tag,      \* tag_process_before_gating
    works,    \* the works pending on power_mgmt_wq, delayed ones included
    deferring,  \* Kworker runs the deferred interrupt's work
    irq,      \* the IPA interrupt: "idle", "serving" or "deferred"
    at,       \* position of every thread in its call
    held      \* votes callers own (ghost)

clkVars == <<cnt, mutex, clk, pipes, tag, works, deferring, irq, at, held>>

\* The works that carry a vote, and give it back when they run.
VoteWorks == {"tag", "dec", "irq_dec"}

\* The positions of a call that still owes the counter a vote.
Dropping == {"dec", "dec_coal", "dec_coal_set", "dec_lock", "dec_sub", "assert"}

Locked == {"inc_resume", "dec_sub", "dec_suspend", "dec_disable"}

Positions == {"idle", "inc", "inc_lock"} \cup Dropping \cup Locked

\* The state once the modem's proxy vote, taken at boot, is given back.
ClkInit ==
    /\ cnt = 0 /\ mutex = None /\ clk = FALSE /\ pipes = FALSE /\ tag = FALSE
    /\ works = {} /\ deferring = FALSE /\ irq = "idle"
    /\ at = [t \in Thread |-> "idle"]
    /\ held = 0

Goto(t, p) == at' = [at EXCEPT ![t] = p]
Free(t) == at[t] = "idle"
Release == mutex' = None
\* The votes of the callers, without the one the deferred interrupt took.
CallerVotes == IF deferring /\ Free(Kworker) THEN held - 1 ELSE held

Queue(w) == works' = works \cup {w}    \* queue_work: nothing when w is pending

(***************************************************************************)
(* Taking a vote: ipa3_inc_client_enable_clks and its atomic variant.      *)
(***************************************************************************)
\* The counter's atomic_inc_not_zero, which grants the vote.
IncNotZero == cnt > 0 /\ cnt' = cnt + 1 /\ held' = held + 1

CallInc(t) ==
    /\ Free(t) /\ Goto(t, "inc")
    /\ UNCHANGED <<cnt, mutex, clk, pipes, tag, works, deferring, irq, held>>

\* (mutant) the vote is granted whatever the counter is
MutIncFast(t) ==
    /\ at[t] = "inc" /\ cnt' = cnt + 1 /\ held' = held + 1 /\ Goto(t, "idle")
    /\ UNCHANGED <<mutex, clk, pipes, tag, works, deferring, irq>>

IncFast(t) ==
    /\ at[t] = "inc"
    /\ \/ IncNotZero /\ Goto(t, "idle")
       \/ cnt = 0 /\ Goto(t, "inc_lock") /\ UNCHANGED <<cnt, held>>
    /\ UNCHANGED <<mutex, clk, pipes, tag, works, deferring, irq>>

\* ipa3_inc_client_enable_clks_no_block, which fails when the counter is 0.
IncNoBlock ==
    /\ IncNotZero
    /\ UNCHANGED <<mutex, clk, pipes, tag, works, deferring, irq, at>>

\* (mutant) the mutex is not waited for
MutIncLock(t) ==
    /\ at[t] = "inc_lock"
    /\ \/ IncNotZero /\ Goto(t, "idle") /\ UNCHANGED <<clk, mutex>>
       \/ cnt = 0 /\ mutex' = t /\ clk' = TRUE /\ Goto(t, "inc_resume")
          /\ UNCHANGED <<cnt, held>>
    /\ UNCHANGED <<pipes, tag, works, deferring, irq>>

\* With the mutex taken: somebody may have voted meanwhile; else the clocks
\* go on first.
IncLock(t) ==
    /\ at[t] = "inc_lock" /\ mutex = None
    /\ \/ IncNotZero /\ Goto(t, "idle") /\ UNCHANGED <<clk, mutex>>
       \/ cnt = 0 /\ mutex' = t /\ clk' = TRUE /\ Goto(t, "inc_resume")
          /\ UNCHANGED <<cnt, held>>
    /\ UNCHANGED <<pipes, tag, works, deferring, irq>>

IncResume(t) ==
    /\ at[t] = "inc_resume"
    /\ pipes' = TRUE /\ cnt' = cnt + 1 /\ held' = held + 1
    /\ Release /\ Goto(t, "idle")
    /\ UNCHANGED <<clk, tag, works, deferring, irq>>

(***************************************************************************)
(* Giving a vote back: __ipa3_dec_client_disable_clks.                     *)
(***************************************************************************)
\* The counter does not know whose vote it is given back.
CallDec(t) ==
    /\ Free(t) /\ held' = held - 1 /\ Goto(t, "dec")
    /\ UNCHANGED <<cnt, mutex, clk, pipes, tag, works, deferring, irq>>

\* A counter of 0 is the assertion's case; 1 is left to the slow path.
DecFast(t) ==
    /\ at[t] = "dec"
    /\ \/ cnt = 0 /\ Goto(t, "assert") /\ UNCHANGED cnt
       \/ cnt = 1 /\ Goto(t, "dec_coal") /\ UNCHANGED cnt
       \/ cnt \notin {0, 1} /\ cnt' = cnt - 1 /\ Goto(t, "idle")
    /\ UNCHANGED <<mutex, clk, pipes, tag, works, deferring, irq, held>>

\* Closing the coalescing frame asks for a TAG process on its own behalf;
\* the flag is put back afterwards, whoever else set it meanwhile.
DecCoalesce(t) ==
    /\ at[t] = "dec_coal"
    /\ Goto(t, IF cnt = 1 /\ ~tag THEN "dec_coal_set" ELSE "dec_lock")
    /\ UNCHANGED <<cnt, mutex, clk, pipes, tag, works, deferring, irq, held>>

DecCoalesced(t) ==
    /\ at[t] = "dec_coal_set" /\ tag' = FALSE /\ Goto(t, "dec_lock")
    /\ UNCHANGED <<cnt, mutex, clk, pipes, works, deferring, irq, held>>

\* The last vote is handed to the TAG process when one is asked for.
DecLock(t) ==
    /\ at[t] = "dec_lock" /\ mutex = None
    /\ IF cnt = 1 /\ tag
         THEN tag' = FALSE /\ Queue("tag") /\ Goto(t, "idle") /\ UNCHANGED mutex
         ELSE mutex' = t /\ Goto(t, "dec_sub") /\ UNCHANGED <<tag, works>>
    /\ UNCHANGED <<cnt, clk, pipes, deferring, irq, held>>

DecSub(t) ==
    /\ at[t] = "dec_sub" /\ cnt' = cnt - 1
    /\ IF cnt > 1 THEN Release /\ Goto(t, "idle")
                  ELSE Goto(t, "dec_suspend") /\ UNCHANGED mutex
    /\ UNCHANGED <<clk, pipes, tag, works, deferring, irq, held>>

\* (mutant) the delayed work is forgotten
MutDecBusy(t) ==
    /\ at[t] = "dec_suspend"
    /\ cnt' = cnt + 1 /\ Release /\ Goto(t, "idle")
    /\ UNCHANGED <<clk, pipes, tag, works, deferring, irq, held>>

\* ipa3_suspend_apps_pipes(true) finds a pipe busy: the vote is taken back
\* and given to the delayed work.
DecBusy(t) ==
    /\ at[t] = "dec_suspend"
    /\ cnt' = cnt + 1 /\ Queue("dec") /\ Release /\ Goto(t, "idle")
    /\ UNCHANGED <<clk, pipes, tag, deferring, irq, held>>

DecSuspended(t) ==
    /\ at[t] = "dec_suspend" /\ pipes' = FALSE /\ Goto(t, "dec_disable")
    /\ UNCHANGED <<cnt, mutex, clk, tag, works, deferring, irq, held>>

DecDisable(t) ==
    /\ at[t] = "dec_disable" /\ clk' = FALSE /\ Release /\ Goto(t, "idle")
    /\ UNCHANGED <<cnt, pipes, tag, works, deferring, irq, held>>

(***************************************************************************)
(* The interrupt, which may not block: served at once when the hardware is *)
(* clocked, else by a work.  It is edge triggered: no second one comes     *)
(* before the first is processed.                                          *)
(***************************************************************************)
Isr ==
    /\ irq = "idle"
    /\ IF cnt > 0
         THEN irq' = "serving" /\ cnt' = cnt + 1 /\ UNCHANGED works
         ELSE irq' = "deferred" /\ Queue("defer") /\ UNCHANGED cnt
    /\ UNCHANGED <<mutex, clk, pipes, tag, deferring, at, held>>

\* ipa3_dec_client_disable_clks_no_block
IsrDone ==
    /\ irq = "serving" /\ irq' = "idle"
    /\ IF cnt # 1 THEN cnt' = cnt - 1 /\ UNCHANGED works
                  ELSE Queue("dec") /\ UNCHANGED cnt
    /\ UNCHANGED <<mutex, clk, pipes, tag, deferring, at, held>>

(***************************************************************************)
(* power_mgmt_wq.  The delay of a delayed work is any time.                *)
(***************************************************************************)
\* The TAG process ends with the flag cleared and its vote given back; the
\* works that carry a vote enter the call at once.
StartVoteWork ==
    \E w \in works \cap VoteWorks :
        /\ ~deferring /\ Free(Kworker) /\ works' = works \ {w}
        /\ tag' = IF w = "tag" THEN FALSE ELSE tag
        /\ Goto(Kworker, "dec")
        /\ UNCHANGED <<cnt, mutex, clk, pipes, deferring, irq, held>>

StartDefer ==
    /\ "defer" \in works /\ ~deferring /\ Free(Kworker)
    /\ works' = works \ {"defer"} /\ deferring' = TRUE /\ Goto(Kworker, "inc")
    /\ UNCHANGED <<cnt, mutex, clk, pipes, tag, irq, held>>

\* The deferred interrupt is processed with the clocks on; its vote goes to
\* the suspend interrupt's delayed work.
EndDefer ==
    /\ deferring /\ Free(Kworker) /\ deferring' = FALSE
    /\ irq' = "idle" /\ held' = held - 1 /\ Queue("irq_dec")
    /\ UNCHANGED <<cnt, mutex, clk, pipes, tag, at>>

\* A caller that holds a vote queued packets and asks for a TAG process.
AskTag(t) ==
    /\ Free(t) /\ CallerVotes > 0 /\ tag' = TRUE
    /\ UNCHANGED <<cnt, mutex, clk, pipes, works, deferring, irq, at, held>>

-----------------------------------------------------------------------------
IncStep(t) == IncFast(t) \/ IncLock(t) \/ IncResume(t)

DecStep(t) ==
    \/ DecFast(t) \/ DecCoalesce(t) \/ DecCoalesced(t) \/ DecLock(t)
    \/ DecSub(t) \/ DecBusy(t) \/ DecSuspended(t) \/ DecDisable(t)

WorkStep == StartVoteWork \/ StartDefer \/ EndDefer

ClkStep == WorkStep \/ Isr \/ IsrDone \/ \E t \in Thread : IncStep(t) \/ DecStep(t)

ClkNext ==
    \/ ClkStep \/ IncNoBlock
    \/ \E t \in Thread \ {Kworker} :
          CallInc(t) \/ (CallerVotes > 0 /\ CallDec(t)) \/ AskTag(t)

ClkSpec == ClkInit /\ [][ClkNext]_clkVars

-----------------------------------------------------------------------------
(***************************************************************************)
(* Properties                                                              *)
(***************************************************************************)
One(P) == IF P THEN 1 ELSE 0

Droppers == {t \in Thread : at[t] \in Dropping}
Carried == works \cap VoteWorks

\* The counter is the votes of the callers and those on their way back: none
\* is lost in a work that was already pending, none is given back twice.
VotesCounted ==
    cnt = held + Cardinality(Droppers) + Cardinality(Carried) + One(irq = "serving")

\* A vote that is held finds the clocks on and the pipes resumed.
VotesHonoured == held > 0 \/ irq = "serving" => clk /\ pipes

\* No call gives back a vote the counter does not have (the assertion of
\* __ipa3_dec_client_disable_clks).
NoUnderflow == \A t \in Thread : at[t] # "assert"

\* The counter does what ClkGate promises.
Abstract == INSTANCE ClkGate WITH on <- clk, votes <- held + One(irq = "serving")
GateRefined == Abstract!Spec
=============================================================================
