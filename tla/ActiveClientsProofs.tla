-------------------------- MODULE ActiveClientsProofs --------------------------
(***************************************************************************)
(* The active clients counter, for any number of threads: the counter is   *)
(* the votes, a vote that is held finds the hardware clocked, and the      *)
(* counter implements ClkGate.  The callers are those of ClkNext, which    *)
(* give back only votes they have.                                         *)
(***************************************************************************)
EXTENDS ActiveClients, FiniteSetTheorems, TLAPS

ClkType ==
    /\ cnt \in Nat /\ held \in Nat /\ mutex \in Thread \cup {None}
    /\ clk \in BOOLEAN /\ pipes \in BOOLEAN /\ tag \in BOOLEAN
    /\ deferring \in BOOLEAN /\ works \subseteq VoteWorks \cup {"defer"}
    /\ irq \in {"idle", "serving", "deferred"} /\ at \in [Thread -> Positions]

\* The mutex is held over the steps that need it.
MutexOwned == \A t \in Thread : at[t] \in Locked <=> mutex = t

\* The interrupt is deferred while its work is queued or runs, which holds a
\* vote once it has got one; the delayed work that will give it back is free.
Deferral ==
    /\ "defer" \in works => irq = "deferred"
    /\ irq = "deferred" => "irq_dec" \notin works
    /\ deferring => /\ irq = "deferred" /\ "defer" \notin works
                    /\ at[Kworker] \in {"idle", "inc", "inc_lock", "inc_resume"}
                    /\ at[Kworker] = "idle" => held > 0

\* The clocks and the pipes follow the counter; the slow paths that move them
\* run with the counter at 0.
Powered ==
    /\ cnt > 0 => clk /\ pipes
    /\ \A t \in Thread :
          /\ at[t] \in {"inc_resume", "dec_suspend", "dec_disable"} => cnt = 0
          /\ at[t] \in {"inc_resume", "dec_suspend"} => clk
          /\ at[t] = "dec_suspend" => pipes

ClkInv == ClkType /\ MutexOwned /\ Deferral /\ Powered /\ VotesCounted

USE ThreadAssumption

-----------------------------------------------------------------------------
(***************************************************************************)
(* Counting.                                                               *)
(***************************************************************************)
\* The threads that owe a vote are finitely many.
LEMMA DroppersFinite == IsFiniteSet(Droppers) /\ Cardinality(Droppers) \in Nat
<1>1. IsFiniteSet(Thread) /\ Droppers \in SUBSET Thread BY DEF Droppers
<1>2. IsFiniteSet(Droppers) BY <1>1, FS_Subset
<1> QED BY <1>2, FS_CardinalityType

\* So are the works that carry one.
LEMMA CarriedFinite == IsFiniteSet(Carried) /\ Cardinality(Carried) \in Nat
<1>1. IsFiniteSet({}) BY FS_EmptySet
<1>2. IsFiniteSet({} \cup {"tag"}) BY <1>1, FS_AddElement
<1>3. IsFiniteSet(({} \cup {"tag"}) \cup {"dec"}) BY <1>2, FS_AddElement
<1>4. IsFiniteSet((({} \cup {"tag"}) \cup {"dec"}) \cup {"irq_dec"}) BY <1>3, FS_AddElement
<1>5. VoteWorks = (({} \cup {"tag"}) \cup {"dec"}) \cup {"irq_dec"} BY DEF VoteWorks
<1>6. IsFiniteSet(VoteWorks) /\ Carried \in SUBSET VoteWorks BY <1>4, <1>5 DEF Carried
<1>7. IsFiniteSet(Carried) BY <1>6, FS_Subset
<1> QED BY <1>7, FS_CardinalityType

\* A step of a call that keeps its debt.
LEMMA Stays ==
    ASSUME ClkType, NEW t \in Thread, NEW p, Goto(t, p), at[t] \in Dropping <=> p \in Dropping
    PROVE  Droppers' = Droppers
BY DEF ClkType, Goto, Droppers

\* A step that gets rid of it.
LEMMA Leaves ==
    ASSUME ClkType, NEW t \in Thread, NEW p, Goto(t, p), at[t] \in Dropping, p \notin Dropping
    PROVE  Cardinality(Droppers') = Cardinality(Droppers) - 1 /\ Cardinality(Droppers) > 0
<1>1. Droppers' = Droppers \ {t} /\ t \in Droppers BY DEF ClkType, Goto, Droppers
<1>2. Cardinality(Droppers') = Cardinality(Droppers) - 1
  BY <1>1, DroppersFinite, FS_RemoveElement
<1>3. Droppers # {} BY <1>1
<1>4. Cardinality(Droppers) # 0 BY <1>3, DroppersFinite, FS_EmptySet
<1> QED BY <1>2, <1>4, DroppersFinite

\* A step that takes it on.
LEMMA Enters ==
    ASSUME ClkType, NEW t \in Thread, NEW p, Goto(t, p), at[t] \notin Dropping, p \in Dropping
    PROVE  Cardinality(Droppers') = Cardinality(Droppers) + 1
<1>1. Droppers' = Droppers \cup {t} /\ t \notin Droppers BY DEF ClkType, Goto, Droppers
<1> QED BY <1>1, DroppersFinite, FS_AddElement

\* A thread that owes a vote is counted.
LEMMA Owes ==
    ASSUME NEW t \in Thread, at[t] \in Dropping
    PROVE  Cardinality(Droppers) > 0
<1>1. Droppers # {} BY DEF Droppers
<1>2. Cardinality(Droppers) # 0 BY <1>1, DroppersFinite, FS_EmptySet
<1> QED BY <1>2, DroppersFinite

\* A work that was not pending takes a vote over.
LEMMA Queued ==
    ASSUME NEW w \in VoteWorks, w \notin works, Queue(w)
    PROVE  Cardinality(Carried') = Cardinality(Carried) + 1
<1>1. Carried' = Carried \cup {w} /\ w \notin Carried BY DEF Queue, Carried
<1> QED BY <1>1, CarriedFinite, FS_AddElement

\* A work that starts hands its vote on.
LEMMA Started ==
    ASSUME NEW w \in Carried, works' = works \ {w}
    PROVE  Cardinality(Carried') = Cardinality(Carried) - 1
<1>1. Carried' = Carried \ {w} BY DEF Carried
<1> QED BY <1>1, CarriedFinite, FS_RemoveElement

\* No work carries a vote when none is counted.
LEMMA NoneCarried ==
    ASSUME Cardinality(Carried) = 0
    PROVE  works \cap VoteWorks = {}
BY CarriedFinite, FS_EmptySet DEF Carried

-----------------------------------------------------------------------------
(***************************************************************************)
(* ClkInv is inductive: one lemma per action.                              *)
(***************************************************************************)
LEMMA InvInit == ClkInit => ClkInv
<1> SUFFICES ASSUME ClkInit PROVE ClkInv OBVIOUS
<1>1. ClkType BY DEF ClkInit, ClkType, Positions
<1>2. MutexOwned /\ Powered BY DEF ClkInit, MutexOwned, Powered, Locked
<1>3. Deferral BY DEF ClkInit, Deferral
<1>4. Droppers = {} /\ Carried = {} BY DEF ClkInit, Droppers, Dropping, Carried
<1>5. VotesCounted BY <1>4, FS_EmptySet DEF ClkInit, VotesCounted, One
<1> QED BY <1>1, <1>2, <1>3, <1>5 DEF ClkInv
\* A call to take a vote begins.
LEMMA InvCallInc ==
    ASSUME ClkInv, NEW t \in Thread \ {Kworker}, CallInc(t)
    PROVE  ClkInv'
<1> USE DEF ClkInv, CallInc
<1>1. Droppers' = Droppers BY Stays DEF Free, Dropping
<1>2. ClkType' BY DEF ClkType, Goto, Positions
<1>3. MutexOwned' BY DEF ClkType, MutexOwned, Goto, Free, Locked
<1>4. Deferral' BY DEF ClkType, Deferral, Goto
<1>5. Powered' BY DEF ClkType, Powered, Goto
<1>6. VotesCounted' BY <1>1 DEF VotesCounted, Carried
<1> QED BY <1>2, <1>3, <1>4, <1>5, <1>6

\* The fast path takes its vote, or leaves for the mutex.
LEMMA InvIncFast ==
    ASSUME ClkInv, NEW t \in Thread, IncFast(t)
    PROVE  ClkInv'
<1> USE DEF ClkInv
<1>1. PICK p \in {"idle", "inc_lock"} :
        /\ at[t] = "inc" /\ Goto(t, p)
        /\ (IncNotZero /\ p = "idle") \/ (p = "inc_lock" /\ UNCHANGED <<cnt, held>>)
        /\ UNCHANGED <<mutex, clk, pipes, tag, works, deferring, irq>>
  BY DEF IncFast
<1>2. Droppers' = Droppers BY <1>1, Stays DEF Dropping
<1>3. ClkType' BY <1>1 DEF ClkType, Goto, Positions, IncNotZero
<1>4. MutexOwned' BY <1>1 DEF ClkType, MutexOwned, Goto, Locked
<1>5. Deferral' BY <1>1 DEF ClkType, Deferral, Goto, IncNotZero
<1>6. Powered' BY <1>1 DEF ClkType, Powered, Goto, IncNotZero
<1>7. VotesCounted'
  BY <1>1, <1>2, DroppersFinite, CarriedFinite DEF VotesCounted, Carried, IncNotZero, ClkType, One
<1> QED BY <1>3, <1>4, <1>5, <1>6, <1>7

\* A caller that may not block takes its vote.
LEMMA InvIncNoBlock ==
    ASSUME ClkInv, IncNoBlock
    PROVE  ClkInv'
<1> USE DEF ClkInv, IncNoBlock, IncNotZero
<1>1. ClkType' BY DEF ClkType
<1>2. MutexOwned' BY DEF MutexOwned
<1>3. Deferral' BY DEF ClkType, Deferral
<1>4. Powered' BY DEF ClkType, Powered
<1>5. Droppers' = Droppers /\ Carried' = Carried BY DEF Droppers, Carried
<1>6. VotesCounted' BY <1>5, DroppersFinite, CarriedFinite DEF VotesCounted, ClkType, One
<1> QED BY <1>1, <1>2, <1>3, <1>4, <1>6

\* The slow path under the mutex: a vote, or the clocks.
LEMMA InvIncLock ==
    ASSUME ClkInv, NEW t \in Thread, IncLock(t)
    PROVE  ClkInv'
<1> USE DEF ClkInv
<1>0. at[t] = "inc_lock" /\ mutex = None
      /\ UNCHANGED <<pipes, tag, works, deferring, irq>>
  BY DEF IncLock
<1>1. CASE IncNotZero /\ Goto(t, "idle") /\ UNCHANGED <<clk, mutex>>
  <2>1. Droppers' = Droppers BY <1>0, <1>1, Stays DEF Dropping
  <2>2. ClkType' BY <1>0, <1>1 DEF ClkType, Goto, Positions, IncNotZero
  <2>3. MutexOwned' BY <1>0, <1>1 DEF ClkType, MutexOwned, Goto, Locked
  <2>4. Deferral' BY <1>0, <1>1 DEF ClkType, Deferral, Goto, IncNotZero
  <2>5. Powered' BY <1>0, <1>1 DEF ClkType, Powered, Goto, IncNotZero
  <2>6. VotesCounted'
    BY <1>0, <1>1, <2>1, DroppersFinite, CarriedFinite
    DEF VotesCounted, Carried, IncNotZero, ClkType, One
  <2> QED BY <2>2, <2>3, <2>4, <2>5, <2>6
<1>2. CASE cnt = 0 /\ mutex' = t /\ clk' = TRUE /\ Goto(t, "inc_resume") /\ UNCHANGED <<cnt, held>>
  <2>1. Droppers' = Droppers BY <1>0, <1>2, Stays DEF Dropping
  <2>2. ClkType' BY <1>0, <1>2 DEF ClkType, Goto, Positions, Locked
  <2>3. MutexOwned' BY <1>0, <1>2 DEF ClkType, MutexOwned, Goto, Locked
  <2>4. Deferral' BY <1>0, <1>2 DEF ClkType, Deferral, Goto
  <2>5. Powered' BY <1>0, <1>2 DEF ClkType, Powered, Goto
  <2>6. VotesCounted' BY <1>0, <1>2, <2>1 DEF VotesCounted, Carried, One
  <2> QED BY <2>2, <2>3, <2>4, <2>5, <2>6
<1> QED BY <1>1, <1>2 DEF IncLock

\* The pipes are resumed and the first vote is counted.
LEMMA InvIncResume ==
    ASSUME ClkInv, NEW t \in Thread, IncResume(t)
    PROVE  ClkInv'
<1> USE DEF ClkInv, IncResume, Release
<1>1. Droppers' = Droppers BY Stays DEF Dropping
<1>2. mutex = t BY DEF MutexOwned, Locked
<1>3. ClkType' BY DEF ClkType, Goto, Positions
<1>4. MutexOwned' BY <1>2 DEF ClkType, MutexOwned, Goto, Locked
<1>5. Deferral' BY DEF ClkType, Deferral, Goto
<1>6. \A u \in Thread \ {t} : at[u] \notin Locked BY <1>2 DEF MutexOwned
<1>7. Powered' BY <1>6 DEF ClkType, Powered, Goto, Locked
<1>8. VotesCounted'
  BY <1>1, DroppersFinite, CarriedFinite DEF VotesCounted, Carried, ClkType, One
<1> QED BY <1>3, <1>4, <1>5, <1>7, <1>8

\* A caller gives a vote of its own back.
LEMMA InvCallDec ==
    ASSUME ClkInv, NEW t \in Thread \ {Kworker}, CallerVotes > 0, CallDec(t)
    PROVE  ClkInv'
<1> USE DEF ClkInv, CallDec
<1>1. Cardinality(Droppers') = Cardinality(Droppers) + 1 BY Enters DEF Free, Dropping
<1>2. held > 0 BY DEF CallerVotes, ClkType
<1>3. ClkType' BY <1>2 DEF ClkType, Goto, Positions, Dropping
<1>4. MutexOwned' BY DEF ClkType, MutexOwned, Goto, Free, Locked
<1>5. Deferral' BY DEF ClkType, Deferral, Goto, CallerVotes, Free
<1>6. Powered' BY DEF ClkType, Powered, Goto
<1>7. VotesCounted'
  BY <1>1, DroppersFinite, CarriedFinite DEF VotesCounted, Carried, ClkType, One
<1> QED BY <1>3, <1>4, <1>5, <1>6, <1>7

\* The fast path gives the vote back, or leaves the last one to the slow path;
\* the counter is never found at 0.
LEMMA InvDecFast ==
    ASSUME ClkInv, NEW t \in Thread, DecFast(t)
    PROVE  ClkInv'
<1> USE DEF ClkInv
<1>0. at[t] = "dec" /\ UNCHANGED <<mutex, clk, pipes, tag, works, deferring, irq, held>>
  BY DEF DecFast
<1>1. cnt > 0
  BY <1>0, Owes, CarriedFinite, DroppersFinite DEF VotesCounted, ClkType, One, Dropping
<1>2. CASE cnt = 1
  <2>1. Goto(t, "dec_coal") /\ UNCHANGED cnt BY <1>0, <1>2 DEF DecFast
  <2>2. Droppers' = Droppers BY <1>0, <2>1, Stays DEF Dropping
  <2>3. ClkType' BY <1>0, <2>1 DEF ClkType, Goto, Positions, Dropping
  <2>4. MutexOwned' BY <1>0, <2>1 DEF ClkType, MutexOwned, Goto, Locked
  <2>5. Deferral' BY <1>0, <2>1 DEF ClkType, Deferral, Goto
  <2>6. Powered' BY <1>0, <2>1 DEF ClkType, Powered, Goto
  <2>7. VotesCounted' BY <1>0, <2>1, <2>2 DEF VotesCounted, Carried, One
  <2> QED BY <2>3, <2>4, <2>5, <2>6, <2>7
<1>3. CASE cnt # 1
  <2>1. cnt' = cnt - 1 /\ Goto(t, "idle") BY <1>0, <1>1, <1>3 DEF DecFast
  <2>2. Cardinality(Droppers') = Cardinality(Droppers) - 1 BY <1>0, <2>1, Leaves DEF Dropping
  <2>3. ClkType' BY <1>0, <1>1, <2>1 DEF ClkType, Goto, Positions
  <2>4. MutexOwned' BY <1>0, <2>1 DEF ClkType, MutexOwned, Goto, Locked
  <2>5. Deferral' BY <1>0, <2>1 DEF ClkType, Deferral, Goto
  <2>6. Powered' BY <1>0, <1>1, <2>1 DEF ClkType, Powered, Goto
  <2>7. VotesCounted'
    BY <1>0, <2>1, <2>2, DroppersFinite, CarriedFinite DEF VotesCounted, Carried, ClkType, One
  <2> QED BY <2>3, <2>4, <2>5, <2>6, <2>7
<1> QED BY <1>2, <1>3

\* Closing the coalescing frame moves no vote.
LEMMA InvDecCoalesce ==
    ASSUME ClkInv, NEW t \in Thread, DecCoalesce(t) \/ DecCoalesced(t)
    PROVE  ClkInv'
<1> USE DEF ClkInv
<1>1. PICK p \in {"dec_coal_set", "dec_lock"} :
        /\ at[t] \in {"dec_coal", "dec_coal_set"} /\ Goto(t, p) /\ tag' \in {tag, FALSE}
        /\ UNCHANGED <<cnt, mutex, clk, pipes, works, deferring, irq, held>>
  BY DEF DecCoalesce, DecCoalesced
<1>2. Droppers' = Droppers BY <1>1, Stays DEF Dropping
<1>3. ClkType' BY <1>1 DEF ClkType, Goto, Positions, Dropping
<1>4. MutexOwned' BY <1>1 DEF ClkType, MutexOwned, Goto, Locked
<1>5. Deferral' BY <1>1 DEF ClkType, Deferral, Goto
<1>6. Powered' BY <1>1 DEF ClkType, Powered, Goto
<1>7. VotesCounted' BY <1>1, <1>2 DEF VotesCounted, Carried, One
<1> QED BY <1>3, <1>4, <1>5, <1>6, <1>7

\* With the mutex: the last vote goes to a TAG process, whose work carries
\* none yet, or stays with the call.
LEMMA InvDecLock ==
    ASSUME ClkInv, NEW t \in Thread, DecLock(t)
    PROVE  ClkInv'
<1> USE DEF ClkInv
<1>0. at[t] = "dec_lock" /\ mutex = None
      /\ UNCHANGED <<cnt, clk, pipes, deferring, irq, held>>
  BY DEF DecLock
<1>1. CASE cnt = 1 /\ tag
  <2>1. tag' = FALSE /\ Queue("tag") /\ Goto(t, "idle") /\ UNCHANGED mutex
    BY <1>0, <1>1 DEF DecLock
  <2>2. Cardinality(Droppers') = Cardinality(Droppers) - 1 /\ Cardinality(Droppers) > 0
    BY <1>0, <2>1, Leaves DEF Dropping
  <2>3. Cardinality(Carried) = 0
    BY <1>1, <2>2, DroppersFinite, CarriedFinite DEF VotesCounted, ClkType, One
  <2>4. "tag" \in VoteWorks /\ "tag" \notin works BY <2>3, NoneCarried DEF VoteWorks
  <2>5. Cardinality(Carried') = Cardinality(Carried) + 1 BY <2>1, <2>4, Queued
  <2>6. ClkType' BY <1>0, <2>1 DEF ClkType, Goto, Positions, Queue, VoteWorks
  <2>7. MutexOwned' BY <1>0, <2>1 DEF ClkType, MutexOwned, Goto, Locked
  <2>8. Deferral' BY <1>0, <2>1 DEF ClkType, Deferral, Goto, Queue
  <2>9. Powered' BY <1>0, <2>1 DEF ClkType, Powered, Goto
  <2>10. VotesCounted'
    BY <1>0, <2>2, <2>5, DroppersFinite, CarriedFinite DEF VotesCounted, ClkType, One
  <2> QED BY <2>6, <2>7, <2>8, <2>9, <2>10
<1>2. CASE ~(cnt = 1 /\ tag)
  <2>1. mutex' = t /\ Goto(t, "dec_sub") /\ UNCHANGED <<tag, works>>
    BY <1>0, <1>2 DEF DecLock
  <2>2. Droppers' = Droppers BY <1>0, <2>1, Stays DEF Dropping
  <2>3. ClkType' BY <1>0, <2>1 DEF ClkType, Goto, Positions, Dropping
  <2>4. MutexOwned' BY <1>0, <2>1 DEF ClkType, MutexOwned, Goto, Locked
  <2>5. Deferral' BY <1>0, <2>1 DEF ClkType, Deferral, Goto
  <2>6. Powered' BY <1>0, <2>1 DEF ClkType, Powered, Goto
  <2>7. VotesCounted' BY <1>0, <2>1, <2>2 DEF VotesCounted, Carried, One
  <2> QED BY <2>3, <2>4, <2>5, <2>6, <2>7
<1> QED BY <1>1, <1>2

\* The vote is taken off the counter; the last one starts the suspension.
LEMMA InvDecSub ==
    ASSUME ClkInv, NEW t \in Thread, DecSub(t)
    PROVE  ClkInv'
<1> USE DEF ClkInv
<1>0. at[t] = "dec_sub" /\ cnt' = cnt - 1
      /\ UNCHANGED <<clk, pipes, tag, works, deferring, irq, held>>
  BY DEF DecSub
<1>1. mutex = t /\ \A u \in Thread \ {t} : at[u] \notin Locked BY <1>0 DEF MutexOwned, Locked
<1>2. PICK p \in {"idle", "dec_suspend"} :
        /\ Goto(t, p)
        /\ p = "idle" => cnt > 1 /\ Release
        /\ p = "dec_suspend" => cnt <= 1 /\ UNCHANGED mutex
  BY <1>0 DEF DecSub, ClkType
<1>3. Cardinality(Droppers') = Cardinality(Droppers) - 1 /\ Cardinality(Droppers) > 0
  BY <1>0, <1>2, Leaves DEF Dropping, Locked
<1>4. cnt > 0 BY <1>3, DroppersFinite, CarriedFinite DEF VotesCounted, ClkType, One
<1>5. ClkType' BY <1>0, <1>2, <1>4 DEF ClkType, Goto, Positions, Locked, Release
<1>6. MutexOwned' BY <1>0, <1>1, <1>2 DEF ClkType, MutexOwned, Goto, Locked, Release
<1>7. Deferral' BY <1>0, <1>2 DEF ClkType, Deferral, Goto
<1>8. Powered' BY <1>0, <1>1, <1>2, <1>4 DEF ClkType, Powered, Goto, Locked
<1>9. VotesCounted'
  BY <1>0, <1>3, DroppersFinite, CarriedFinite DEF VotesCounted, Carried, ClkType, One
<1> QED BY <1>5, <1>6, <1>7, <1>8, <1>9

\* A pipe is busy: the vote travels in the delayed work, which is free since
\* the counter was 0.
LEMMA InvDecBusy ==
    ASSUME ClkInv, NEW t \in Thread, DecBusy(t)
    PROVE  ClkInv'
<1> USE DEF ClkInv
<1>0. at[t] = "dec_suspend" /\ Goto(t, "idle") /\ cnt' = cnt + 1 /\ Queue("dec") /\ Release
      /\ UNCHANGED <<clk, pipes, tag, deferring, irq, held>>
  BY DEF DecBusy
<1>1. mutex = t /\ \A u \in Thread \ {t} : at[u] \notin Locked BY <1>0 DEF MutexOwned, Locked
<1>2. cnt = 0 /\ clk /\ pipes BY <1>0 DEF Powered
<1>3. Cardinality(Carried) = 0
  BY <1>2, DroppersFinite, CarriedFinite DEF VotesCounted, ClkType, One
<1>4. "dec" \in VoteWorks /\ "dec" \notin works BY <1>3, NoneCarried DEF VoteWorks
<1>5. Cardinality(Carried') = Cardinality(Carried) + 1 BY <1>0, <1>4, Queued
<1>6. Droppers' = Droppers BY <1>0, Stays DEF Dropping
<1>7. ClkType' BY <1>0 DEF ClkType, Goto, Positions, Queue, VoteWorks, Release
<1>8. MutexOwned' BY <1>0, <1>1 DEF ClkType, MutexOwned, Goto, Locked, Release
<1>9. Deferral' BY <1>0 DEF ClkType, Deferral, Goto, Queue
<1>10. Powered' BY <1>0, <1>1, <1>2 DEF ClkType, Powered, Goto, Locked
<1>11. VotesCounted'
  BY <1>0, <1>5, <1>6, DroppersFinite, CarriedFinite DEF VotesCounted, ClkType, One
<1> QED BY <1>7, <1>8, <1>9, <1>10, <1>11

\* The pipes, then the clocks, go off with the counter at 0.
LEMMA InvDecSuspended ==
    ASSUME ClkInv, NEW t \in Thread, DecSuspended(t)
    PROVE  ClkInv'
<1> USE DEF ClkInv, DecSuspended
<1>1. Droppers' = Droppers BY Stays DEF Dropping
<1>2. mutex = t /\ \A u \in Thread \ {t} : at[u] \notin Locked BY DEF MutexOwned, Locked
<1>3. ClkType' BY DEF ClkType, Goto, Positions, Locked
<1>4. MutexOwned' BY <1>2 DEF ClkType, MutexOwned, Goto, Locked
<1>5. Deferral' BY DEF ClkType, Deferral, Goto
<1>6. Powered' BY <1>2 DEF ClkType, Powered, Goto, Locked
<1>7. VotesCounted' BY <1>1 DEF VotesCounted, Carried, One
<1> QED BY <1>3, <1>4, <1>5, <1>6, <1>7

LEMMA InvDecDisable ==
    ASSUME ClkInv, NEW t \in Thread, DecDisable(t)
    PROVE  ClkInv'
<1> USE DEF ClkInv, DecDisable, Release
<1>1. Droppers' = Droppers BY Stays DEF Dropping
<1>2. mutex = t /\ \A u \in Thread \ {t} : at[u] \notin Locked BY DEF MutexOwned, Locked
<1>3. ClkType' BY DEF ClkType, Goto, Positions
<1>4. MutexOwned' BY <1>2 DEF ClkType, MutexOwned, Goto, Locked
<1>5. Deferral' BY DEF ClkType, Deferral, Goto
<1>6. Powered' BY <1>2 DEF ClkType, Powered, Goto, Locked
<1>7. VotesCounted' BY <1>1 DEF VotesCounted, Carried, One
<1> QED BY <1>3, <1>4, <1>5, <1>6, <1>7

\* The interrupt takes a vote, or is deferred; no vote travels then.
LEMMA InvIsr ==
    ASSUME ClkInv, Isr
    PROVE  ClkInv'
<1> USE DEF ClkInv
<1>0. irq = "idle" /\ UNCHANGED <<mutex, clk, pipes, tag, deferring, at, held>>
      /\ Droppers' = Droppers
  BY DEF Isr, Droppers
<1>1. CASE cnt > 0
  <2>1. irq' = "serving" /\ cnt' = cnt + 1 /\ UNCHANGED works BY <1>1 DEF Isr
  <2>2. ClkType' BY <1>0, <2>1 DEF ClkType
  <2>3. MutexOwned' /\ Deferral' BY <1>0, <2>1 DEF ClkType, MutexOwned, Deferral
  <2>4. Powered' BY <1>0, <1>1, <2>1 DEF ClkType, Powered
  <2>5. VotesCounted'
    BY <1>0, <2>1, DroppersFinite, CarriedFinite DEF VotesCounted, Carried, ClkType, One
  <2> QED BY <2>2, <2>3, <2>4, <2>5
<1>2. CASE cnt = 0
  <2>1. irq' = "deferred" /\ Queue("defer") /\ UNCHANGED cnt BY <1>2 DEF Isr
  <2>2. Cardinality(Carried) = 0
    BY <1>2, DroppersFinite, CarriedFinite DEF VotesCounted, ClkType, One
  <2>3. "irq_dec" \notin works BY <2>2, NoneCarried DEF VoteWorks
  <2>4. Carried' = Carried BY <2>1 DEF Carried, Queue, VoteWorks
  <2>5. ClkType' BY <1>0, <2>1 DEF ClkType, Queue
  <2>6. MutexOwned' BY <1>0 DEF MutexOwned
  <2>7. Deferral' BY <1>0, <2>1, <2>3 DEF ClkType, Deferral, Queue
  <2>8. Powered' BY <1>0, <2>1 DEF ClkType, Powered
  <2>9. VotesCounted' BY <1>0, <2>1, <2>4 DEF VotesCounted, One
  <2> QED BY <2>5, <2>6, <2>7, <2>8, <2>9
<1> QED BY <1>1, <1>2 DEF ClkType

\* Its vote is given back, or travels in the work when it is the last.
LEMMA InvIsrDone ==
    ASSUME ClkInv, IsrDone
    PROVE  ClkInv'
<1> USE DEF ClkInv
<1>0. irq = "serving" /\ irq' = "idle" /\ UNCHANGED <<mutex, clk, pipes, tag, deferring, at, held>>
      /\ Droppers' = Droppers
  BY DEF IsrDone, Droppers
<1>1. cnt > 0 BY <1>0, DroppersFinite, CarriedFinite DEF VotesCounted, ClkType, One
<1>2. CASE cnt # 1
  <2>1. cnt' = cnt - 1 /\ UNCHANGED works BY <1>2 DEF IsrDone
  <2>2. ClkType' BY <1>0, <1>1, <2>1 DEF ClkType
  <2>3. MutexOwned' /\ Deferral' BY <1>0, <2>1 DEF ClkType, MutexOwned, Deferral
  <2>4. Powered' BY <1>0, <1>1, <2>1 DEF ClkType, Powered
  <2>5. VotesCounted'
    BY <1>0, <2>1, DroppersFinite, CarriedFinite DEF VotesCounted, Carried, ClkType, One
  <2> QED BY <2>2, <2>3, <2>4, <2>5
<1>3. CASE cnt = 1
  <2>1. Queue("dec") /\ UNCHANGED cnt BY <1>3 DEF IsrDone
  <2>2. Cardinality(Carried) = 0
    BY <1>0, <1>3, DroppersFinite, CarriedFinite DEF VotesCounted, ClkType, One
  <2>3. "dec" \in VoteWorks /\ "dec" \notin works BY <2>2, NoneCarried DEF VoteWorks
  <2>4. Cardinality(Carried') = Cardinality(Carried) + 1 BY <2>1, <2>3, Queued
  <2>5. ClkType' BY <1>0, <2>1 DEF ClkType, Queue, VoteWorks
  <2>6. MutexOwned' BY <1>0 DEF MutexOwned
  <2>7. Deferral' BY <1>0, <2>1 DEF ClkType, Deferral, Queue
  <2>8. Powered' BY <1>0, <2>1 DEF ClkType, Powered
  <2>9. VotesCounted'
    BY <1>0, <2>1, <2>4, DroppersFinite, CarriedFinite DEF VotesCounted, ClkType, One
  <2> QED BY <2>5, <2>6, <2>7, <2>8, <2>9
<1> QED BY <1>2, <1>3

\* A work that carries a vote enters the call with it.
LEMMA InvStartVoteWork ==
    ASSUME ClkInv, StartVoteWork
    PROVE  ClkInv'
<1> USE DEF ClkInv
<1>1. PICK w \in works \cap VoteWorks :
        /\ ~deferring /\ at[Kworker] = "idle" /\ works' = works \ {w}
        /\ tag' \in {tag, FALSE} /\ Goto(Kworker, "dec")
        /\ UNCHANGED <<cnt, mutex, clk, pipes, deferring, irq, held>>
  BY DEF StartVoteWork, Free
<1>2. Cardinality(Droppers') = Cardinality(Droppers) + 1 BY <1>1, Enters DEF Dropping
<1>3. Cardinality(Carried') = Cardinality(Carried) - 1 BY <1>1, Started DEF Carried
<1>4. ClkType' BY <1>1 DEF ClkType, Goto, Positions, Dropping
<1>5. MutexOwned' BY <1>1 DEF ClkType, MutexOwned, Goto, Locked
<1>6. Deferral' BY <1>1 DEF ClkType, Deferral
<1>7. Powered' BY <1>1 DEF ClkType, Powered, Goto
<1>8. VotesCounted'
  BY <1>1, <1>2, <1>3, DroppersFinite, CarriedFinite DEF VotesCounted, ClkType, One
<1> QED BY <1>4, <1>5, <1>6, <1>7, <1>8

\* The deferred interrupt's work begins to ask for a vote ...
LEMMA InvStartDefer ==
    ASSUME ClkInv, StartDefer
    PROVE  ClkInv'
<1> USE DEF ClkInv, StartDefer
<1>1. Droppers' = Droppers BY Stays DEF Free, Dropping
<1>2. Carried' = Carried BY DEF Carried, VoteWorks
<1>3. ClkType' BY DEF ClkType, Goto, Positions
<1>4. MutexOwned' BY DEF ClkType, MutexOwned, Goto, Free, Locked
<1>5. Deferral' BY DEF ClkType, Deferral, Goto
<1>6. Powered' BY DEF ClkType, Powered, Goto
<1>7. VotesCounted' BY <1>1, <1>2 DEF VotesCounted, One
<1> QED BY <1>3, <1>4, <1>5, <1>6, <1>7

\* ... and leaves it to the delayed work, which is free.
LEMMA InvEndDefer ==
    ASSUME ClkInv, EndDefer
    PROVE  ClkInv'
<1> USE DEF ClkInv, EndDefer
<1>1. irq = "deferred" /\ "irq_dec" \notin works /\ held > 0 /\ "defer" \notin works
  BY DEF Deferral, Free
<1>2. Droppers' = Droppers BY DEF Droppers
<1>3. Cardinality(Carried') = Cardinality(Carried) + 1 BY <1>1, Queued DEF VoteWorks
<1>4. ClkType'
  <2>1. held' \in Nat BY <1>1 DEF ClkType
  <2>2. works' \subseteq VoteWorks \cup {"defer"} BY DEF ClkType, Queue, VoteWorks
  <2>3. deferring' \in BOOLEAN /\ irq' \in {"idle", "serving", "deferred"} OBVIOUS
  <2> QED BY <2>1, <2>2, <2>3 DEF ClkType
<1>5. MutexOwned' BY DEF MutexOwned
<1>6. Deferral' BY <1>1 DEF Deferral, Queue
<1>7. Powered' BY DEF ClkType, Powered
<1>8. VotesCounted'
  BY <1>1, <1>2, <1>3, DroppersFinite, CarriedFinite DEF VotesCounted, ClkType, One
<1> QED BY <1>4, <1>5, <1>6, <1>7, <1>8

\* Asking for a TAG process moves no vote.
LEMMA InvAskTag ==
    ASSUME ClkInv, NEW t \in Thread, AskTag(t)
    PROVE  ClkInv'
<1> USE DEF ClkInv, AskTag
<1>1. ClkType' BY DEF ClkType
<1>2. MutexOwned' /\ Deferral' /\ Powered' BY DEF MutexOwned, Deferral, Powered
<1>3. VotesCounted' BY DEF VotesCounted, Droppers, Carried, One
<1> QED BY <1>1, <1>2, <1>3

-----------------------------------------------------------------------------
(***************************************************************************)
(* The theorems.                                                           *)
(***************************************************************************)
LEMMA InvStep == ClkInv /\ [ClkNext]_clkVars => ClkInv'
<1> SUFFICES ASSUME ClkInv, [ClkNext]_clkVars PROVE ClkInv' OBVIOUS
<1>1. CASE WorkStep
  BY <1>1, InvStartVoteWork, InvStartDefer, InvEndDefer DEF WorkStep
<1>2. CASE Isr \/ IsrDone BY <1>2, InvIsr, InvIsrDone
<1>3. ASSUME NEW t \in Thread, IncStep(t) PROVE ClkInv'
  BY <1>3, InvIncFast, InvIncLock, InvIncResume DEF IncStep
<1>4. ASSUME NEW t \in Thread, DecStep(t) PROVE ClkInv'
  BY <1>4, InvDecFast, InvDecCoalesce, InvDecLock, InvDecSub, InvDecBusy,
     InvDecSuspended, InvDecDisable DEF DecStep
<1>5. CASE IncNoBlock BY <1>5, InvIncNoBlock
<1>6. ASSUME NEW t \in Thread \ {Kworker}, CallInc(t) \/ (CallerVotes > 0 /\ CallDec(t)) \/ AskTag(t)
      PROVE  ClkInv'
  BY <1>6, InvCallInc, InvCallDec, InvAskTag
<1>7. CASE UNCHANGED clkVars
  BY <1>7 DEF clkVars, ClkInv, ClkType, MutexOwned, Deferral, Powered, VotesCounted,
              Droppers, Carried, One
<1> QED BY <1>1, <1>2, <1>3, <1>4, <1>5, <1>6, <1>7 DEF ClkNext, ClkStep

\* What the counter keeps to, for any number of threads.
THEOREM ClkInvHolds == ClkSpec => []ClkInv
BY InvInit, InvStep, PTL DEF ClkSpec

\* The counter is the votes that are held and those on their way back: none
\* of the handovers to a work of power_mgmt_wq loses one.
THEOREM VotesAreCounted == ClkSpec => []VotesCounted
<1>1. ClkInv => VotesCounted BY DEF ClkInv
<1> QED BY <1>1, ClkInvHolds, PTL

\* A vote that is held finds the clocks on and the pipes resumed.
THEOREM VotesAreHonoured == ClkSpec => []VotesHonoured
<1>1. ClkInv => VotesHonoured
  BY DroppersFinite, CarriedFinite
  DEF ClkInv, ClkType, Powered, VotesCounted, VotesHonoured, One
<1> QED BY <1>1, ClkInvHolds, PTL

\* The assertion of __ipa3_dec_client_disable_clks is never met.
THEOREM NeverUnderflows == ClkSpec => []NoUnderflow
<1>1. ClkInv /\ NoUnderflow /\ [ClkNext]_clkVars => NoUnderflow'
  <2> SUFFICES ASSUME ClkInv, NoUnderflow, [ClkNext]_clkVars,
                      NEW u \in Thread, at'[u] = "assert"
               PROVE  FALSE
    BY DEF NoUnderflow
  <2>1. at[u] # "assert" /\ at \in [Thread -> Positions] BY DEF NoUnderflow, ClkInv, ClkType
  <2>2. PICK t \in Thread : DecFast(t) /\ cnt = 0
    BY <2>1
    DEF ClkNext, ClkStep, WorkStep, StartVoteWork, StartDefer, EndDefer, Isr, IsrDone, IncStep,
        IncFast, IncLock, IncResume, IncNoBlock, DecStep, DecFast, DecCoalesce, DecCoalesced, DecLock,
        DecSub, DecBusy, DecSuspended, DecDisable, CallInc, CallDec, AskTag, Goto, clkVars
  <2>3. at[t] \in Dropping BY <2>2 DEF DecFast, Dropping
  <2> QED
    BY <2>2, <2>3, Owes, DroppersFinite, CarriedFinite DEF ClkInv, ClkType, VotesCounted, One
<1>2. ClkInit => NoUnderflow BY DEF ClkInit, NoUnderflow
<1> QED BY <1>1, <1>2, ClkInvHolds, PTL DEF ClkSpec

-----------------------------------------------------------------------------
(***************************************************************************)
(* The counter implements ClkGate: a step of its own is one of ClkGate's,  *)
(* or moves neither the clocks nor a vote.                                 *)
(***************************************************************************)
\* The threads' steps: the clocks go on, a vote is granted once they are, and
\* they go off when there is none.
LEMMA ThreadStepRefines ==
    ASSUME ClkInv, NEW t \in Thread, IncStep(t) \/ DecStep(t)
    PROVE  [Abstract!Next]_(Abstract!vars)
<1> USE DEF Abstract!Next, Abstract!vars, One
<1>0. cnt \in Nat /\ held \in Nat /\ clk \in BOOLEAN BY DEF ClkInv, ClkType
<1>1. CASE IncNotZero /\ UNCHANGED <<clk, irq>>
  <2>1. clk BY <1>1, <1>0 DEF IncNotZero, ClkInv, Powered
  <2> QED BY <1>0, <1>1, <2>1 DEF IncNotZero, Abstract!Grant
<1>2. CASE clk' = TRUE /\ UNCHANGED <<held, irq>>
  BY <1>0, <1>2 DEF Abstract!Clock
<1>3. CASE IncResume(t)
  <2>1. clk BY <1>3 DEF IncResume, ClkInv, Powered
  <2> QED BY <1>0, <1>3, <2>1 DEF IncResume, Abstract!Grant
<1>4. CASE UNCHANGED <<clk, held, irq>> BY <1>4
<1>5. CASE DecDisable(t)
  <2>1. cnt = 0 BY <1>5 DEF DecDisable, ClkInv, Powered
  <2>2. held = 0 /\ irq # "serving"
    BY <2>1, <1>0, DroppersFinite, CarriedFinite DEF ClkInv, VotesCounted
  <2>3. clk' = FALSE /\ UNCHANGED <<held, irq>> BY <1>5 DEF DecDisable
  <2>4. held + One(irq = "serving") = 0 BY <2>2
  <2>5. CASE clk = TRUE
    <3>1. Abstract!Gate BY <2>3, <2>4, <2>5 DEF Abstract!Gate
    <3> QED BY <3>1
  <2>6. CASE clk = FALSE BY <2>3, <2>6
  <2> QED BY <1>0, <2>5, <2>6
<1> QED
  BY <1>1, <1>2, <1>3, <1>4, <1>5
  DEF IncStep, IncFast, IncLock, DecStep, DecFast, DecCoalesce, DecCoalesced, DecLock, DecSub,
      DecBusy, DecSuspended

\* The interrupt, its works, and the callers.
LEMMA CallerStepRefines ==
    ASSUME ClkInv,
           \/ WorkStep \/ Isr \/ IsrDone \/ IncNoBlock
           \/ \E t \in Thread \ {Kworker} :
                 CallInc(t) \/ (CallerVotes > 0 /\ CallDec(t)) \/ AskTag(t)
    PROVE  [Abstract!Next]_(Abstract!vars)
<1> USE DEF Abstract!Next, Abstract!vars, One
<1>0. cnt \in Nat /\ held \in Nat /\ clk \in BOOLEAN /\ (cnt > 0 => clk)
  BY DEF ClkInv, ClkType, Powered
<1>1. CASE EndDefer
  <2>1. held > 0 /\ irq = "deferred" BY <1>1 DEF EndDefer, Free, ClkInv, Deferral
  <2> QED BY <1>0, <1>1, <2>1 DEF EndDefer, Abstract!Drop
<1>2. CASE Isr
  <2>1. CASE cnt > 0
    BY <1>0, <1>2, <2>1 DEF Isr, Abstract!Grant
  <2>2. CASE cnt = 0
    BY <1>0, <1>2, <2>2 DEF Isr
  <2> QED BY <1>0, <2>1, <2>2
<1>3. CASE IsrDone BY <1>0, <1>3 DEF IsrDone, Abstract!Drop
<1>4. CASE IncNoBlock BY <1>0, <1>4 DEF IncNoBlock, IncNotZero, Abstract!Grant
<1>5. ASSUME NEW t \in Thread \ {Kworker}, CallerVotes > 0, CallDec(t)
      PROVE  [Abstract!Next]_(Abstract!vars)
  <2>1. held > 0 BY <1>0, <1>5 DEF CallerVotes
  <2> QED BY <1>0, <1>5, <2>1 DEF CallDec, Abstract!Drop
<1>6. CASE UNCHANGED <<clk, held, irq>> BY <1>6
<1> QED
  BY <1>1, <1>2, <1>3, <1>4, <1>5, <1>6
  DEF WorkStep, StartVoteWork, StartDefer, CallInc, AskTag

\* The counter does what ClkGate promises, for any number of threads.
THEOREM CounterImplementsGate == ClkSpec => GateRefined
<1>1. ClkInit => Abstract!Init BY DEF ClkInit, Abstract!Init, One
<1>2. ClkInv /\ [ClkNext]_clkVars => [Abstract!Next]_(Abstract!vars)
  <2>1. CASE UNCHANGED clkVars BY <2>1 DEF clkVars, Abstract!vars, One
  <2> QED BY <2>1, ThreadStepRefines, CallerStepRefines DEF ClkNext, ClkStep
<1> QED BY <1>1, <1>2, ClkInvHolds, PTL DEF ClkSpec, GateRefined, Abstract!Spec
=============================================================================
