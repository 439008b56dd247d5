------------------------- MODULE SerializationProofs -------------------------
(***************************************************************************)
(* The serialization, for any sets of commands, vdevs and threads, and any *)
(* limit on the pending lists: commands run one at a time, and none waits  *)
(* with nobody to move it unless a cancelled one has left it behind.       *)
(***************************************************************************)
EXTENDS Serialization, SequenceTheorems, TLAPS

-----------------------------------------------------------------------------
(***************************************************************************)
(* One at a time.  The bitmap is what enqueue and move look at, and        *)
(* Exclusive says what it tells; nothing is needed of the calls.           *)
(***************************************************************************)
ExclusiveInv == Exclusive /\ gap = [t \in Thread |-> gap[t]]

LEMMA ExclusiveInit == Init => ExclusiveInv
BY DEF Init, ExclusiveInv, Exclusive, Cancelling, NoGap

\* A command that becomes active finds nothing active and nothing unlinked.
LEMMA ActivateExclusive ==
    ASSUME ExclusiveInv, NEW c, bitmap = {}, Activate(c), UNCHANGED gap
    PROVE  ExclusiveInv'
<1>1. active = {} /\ Cancelling = {}
    <2>1. {VdevOf[d] : d \in active} = {} /\ {VdevOf[gap[u].cmd] : u \in Cancelling} = {}
        BY DEF ExclusiveInv, Exclusive
    <2>2. active = {} BY <2>1
    <2>3. Cancelling = {} BY <2>1
    <2> QED BY <2>2, <2>3
<1>2. active' = {c} /\ bitmap' = {VdevOf[c]} /\ blocking' = TRUE BY <1>1 DEF Activate
<1>3. Cancelling' = {} BY <1>1 DEF Cancelling
<1> QED BY <1>2, <1>3 DEF ExclusiveInv, Exclusive

\* One that is taken out was the only one.
LEMMA DequeueExclusive ==
    ASSUME ExclusiveInv, NEW t, NEW c \in active, NEW calls, Dequeue(t, c, calls), UNCHANGED gap
    PROVE  ExclusiveInv'
<1>1. active = {c} /\ Cancelling = {} BY DEF ExclusiveInv, Exclusive
<1>2. Cancelling' = {} BY <1>1 DEF Cancelling
<1>3. CASE c \in marked
    BY <1>3, <1>1, <1>2 DEF Dequeue, ExclusiveInv, Exclusive
<1>4. CASE c \notin marked
    <2>1. active' = {} /\ bitmap' = {} /\ blocking' = FALSE
        BY <1>1, <1>4 DEF Dequeue, ExclusiveInv, Exclusive
    <2> QED BY <2>1, <1>2 DEF ExclusiveInv, Exclusive
<1> QED BY <1>3, <1>4

LEMMA CancelActiveExclusive ==
    ASSUME ExclusiveInv, NEW t \in Thread, CancelActive(t)
    PROVE  ExclusiveInv'
<1>1. PICK c \in active : /\ active' = active \ {c}
                          /\ gap' = [gap EXCEPT ![t] = [q |-> "active", cmd |-> c]]
    BY DEF CancelActive
<1>2. active = {c} /\ Cancelling = {} /\ bitmap = {VdevOf[c]} BY <1>1 DEF ExclusiveInv, Exclusive
<1>3. gap' = [gap' EXCEPT ![t] = gap'[t]] /\ gap'[t].q = "active" /\ gap'[t].cmd = c
    BY <1>1 DEF ExclusiveInv
<1>4. \A u \in Thread \ {t} : gap'[u] = gap[u] BY <1>1 DEF ExclusiveInv
<1>5. Cancelling' = {t} BY <1>2, <1>3, <1>4 DEF Cancelling
<1>6. UNCHANGED <<bitmap, blocking>> BY DEF CancelActive
<1>7. gap' = [u \in Thread |-> gap'[u]] BY <1>1 DEF ExclusiveInv
<1> QED BY <1>1, <1>2, <1>3, <1>5, <1>6, <1>7 DEF ExclusiveInv, Exclusive

LEMMA ActiveToldExclusive ==
    ASSUME ExclusiveInv, NEW t \in Thread, ActiveTold(t)
    PROVE  ExclusiveInv'
<1>1. t \in Cancelling BY DEF ActiveTold, Cancelling
<1>2. Cancelling = {t} /\ active = {} /\ bitmap = {VdevOf[gap[t].cmd]}
    BY <1>1 DEF ExclusiveInv, Exclusive
<1>3. gap' = [gap EXCEPT ![t] = NoGap] /\ active' = {} /\ bitmap' = {} /\ blocking' = FALSE
    BY <1>2 DEF ActiveTold
<1>4. gap'[t].q = "none" /\ \A u \in Thread \ {t} : gap'[u] = gap[u]
    BY <1>3 DEF ExclusiveInv, NoGap
<1>5. Cancelling' = {} BY <1>2, <1>4 DEF Cancelling
<1>6. gap' = [u \in Thread |-> gap'[u]] BY <1>3 DEF ExclusiveInv
<1> QED BY <1>3, <1>5, <1>6 DEF ExclusiveInv, Exclusive

\* A thread that tells of a pending command leaves the active ones alone.
LEMMA PendingGapExclusive ==
    ASSUME ExclusiveInv, NEW t \in Thread, NEW g, gap' = [gap EXCEPT ![t] = g],
           gap[t].q # "active", g.q # "active", UNCHANGED <<active, bitmap, blocking>>
    PROVE  ExclusiveInv'
<1>1. gap'[t] = g /\ \A u \in Thread \ {t} : gap'[u] = gap[u] BY DEF ExclusiveInv
<1>2. Cancelling' = Cancelling BY <1>1 DEF Cancelling
<1>3. \A u \in Cancelling : gap'[u] = gap[u] BY <1>1 DEF Cancelling
<1>4. gap' = [u \in Thread |-> gap'[u]] BY DEF ExclusiveInv
<1>5. {VdevOf[gap'[u].cmd] : u \in Cancelling} = {VdevOf[gap[u].cmd] : u \in Cancelling} BY <1>3
<1>6. bitmap' = {VdevOf[c] : c \in active} \cup {VdevOf[gap[u].cmd] : u \in Cancelling}
    BY DEF ExclusiveInv, Exclusive
<1> QED BY <1>2, <1>4, <1>5, <1>6 DEF ExclusiveInv, Exclusive

LEMMA ExclusiveKept ==
    ASSUME ExclusiveInv, UNCHANGED <<active, bitmap, blocking, gap>>
    PROVE  ExclusiveInv'
<1>1. Cancelling' = Cancelling BY DEF Cancelling
<1> QED BY <1>1 DEF ExclusiveInv, Exclusive

LEMMA ExclusiveStep == ExclusiveInv /\ [Next]_vars => ExclusiveInv'
<1> SUFFICES ASSUME ExclusiveInv, [Next]_vars PROVE ExclusiveInv'
    OBVIOUS
<1> USE DEF lists, timing, history
<1>1. ASSUME NEW t \in Thread, NEW c \in Cmd, Request(t, c) PROVE ExclusiveInv'
    <2>1. CASE RequestActive(t, c)
        BY <2>1, ActivateExclusive DEF RequestActive, Allowed
    <2>2. CASE RequestRefused(t, c) \/ RequestPending(t, c)
        BY <2>2, ExclusiveKept DEF RequestRefused, RequestPending
    <2> QED BY <1>1, <2>1, <2>2 DEF Request
<1>2. ASSUME NEW t \in Thread, NEW c \in Cmd, RemoveCmd(t, c) PROVE ExclusiveInv'
    BY <1>2, DequeueExclusive DEF RemoveCmd
<1>3. ASSUME NEW t \in Thread, NEW c \in Cmd, CancelOne(t, c) PROVE ExclusiveInv'
    BY <1>3, ExclusiveKept DEF CancelOne
<1>4. ASSUME NEW t \in Thread, NEW scope \in Scopes, Purge(t, scope) PROVE ExclusiveInv'
    BY <1>4, ExclusiveKept DEF Purge
<1>5. ASSUME NEW c \in Cmd, Expire(c) \/ Timeout(c) PROVE ExclusiveInv'
    BY <1>5, ExclusiveKept DEF Expire, Timeout
<1>6. ASSUME NEW t \in Thread, Continue(t) PROVE ExclusiveInv'
    <2>1. CASE Release(t) \/ MoveEnds(t) \/ StartTimer(t) \/ TimerFails(t) \/ CallbackReturns(t)
        BY <2>1, ExclusiveKept DEF Release, MoveEnds, StartTimer, TimerFails, CallbackReturns, Activated
    <2>2. CASE ActivationEnds(t) \/ ActivationCancels(t) \/ TimeoutLate(t) \/ CancelEnds(t)
        BY <2>2, ExclusiveKept DEF ActivationEnds, ActivationCancels, TimeoutLate, CancelEnds
    <2>3. CASE Move(t)
        BY <2>3, ActivateExclusive DEF Move
    <2>4. CASE ActivationRemoves(t)
        BY <2>4, DequeueExclusive DEF ActivationRemoves
    <2>5. CASE TimeoutRemoves(t)
        <3>1. PICK c \in active : Dequeue(t, c, Tail(stack[t])) BY <2>5 DEF TimeoutRemoves
        <3> QED BY <2>5, <3>1, DequeueExclusive DEF TimeoutRemoves
    <2>6. CASE CancelPending(t)
        <3>1. gap[t].q # "active" BY <2>6 DEF CancelPending, In, NoGap
        <3>2. PICK g : g.q = "pending" /\ gap' = [gap EXCEPT ![t] = g] BY <2>6 DEF CancelPending
        <3>3. UNCHANGED <<active, bitmap, blocking>> BY <2>6 DEF CancelPending
        <3> QED BY <3>1, <3>2, <3>3, PendingGapExclusive
    <2>7. CASE PendingTold(t)
        <3>1. gap[t].q # "active" /\ gap' = [gap EXCEPT ![t] = NoGap] /\ NoGap.q # "active"
            BY <2>7 DEF PendingTold, NoGap
        <3>2. UNCHANGED <<active, bitmap, blocking>> BY <2>7 DEF PendingTold
        <3> QED BY <3>1, <3>2, PendingGapExclusive
    <2>8. CASE CancelActive(t)
        BY <2>8, CancelActiveExclusive
    <2>9. CASE ActiveTold(t)
        BY <2>9, ActiveToldExclusive
    <2> QED BY <1>6, <2>1, <2>2, <2>3, <2>4, <2>5, <2>6, <2>7, <2>8, <2>9 DEF Continue
<1>7. CASE UNCHANGED vars
    BY <1>7, ExclusiveKept DEF vars
<1> QED BY <1>1, <1>2, <1>3, <1>4, <1>5, <1>6, <1>7 DEF Next

\* Commands run one at a time, whatever is requested, removed, cancelled and
\* timed out, in any number of threads (wlan_serialization_internal.c:373-396).
THEOREM OneAtATime == Safety => []Exclusive
<1>1. ExclusiveInv => Exclusive BY DEF ExclusiveInv
<1> QED BY ExclusiveInit, ExclusiveStep, <1>1, PTL DEF Safety

-----------------------------------------------------------------------------
(***************************************************************************)
(* Types.  The hard parts are the sequences: a call-back pushes the calls  *)
(* it makes on its thread's stack, and a walk keeps its place in a list    *)
(* that changes under it.                                                  *)
(***************************************************************************)
\* Nothing is queued twice, as nothing is requested twice.
TypeInv == TypeOK /\ Range(pending) \subseteq asked

LEMMA TypeInit == Init => TypeInv
<1> SUFFICES ASSUME Init PROVE TypeInv
    OBVIOUS
<1>1. pending = <<>> /\ pending \in Seq(Cmd) /\ Range(pending) = {} /\ IsInjective(pending)
    BY DEF Init, Range, IsInjective
<1>2. stack \in [Thread -> Seq(Calls)] BY DEF Init
<1> QED BY <1>1, <1>2 DEF Init, TypeInv, TypeOK

\* What is pushed on a stack, and what replaces its top.
LEMMA EnterTypes ==
    ASSUME stack \in [Thread -> Seq(Calls)], NEW t \in Thread, NEW calls \in Seq(Calls), Enter(t, calls)
    PROVE  stack' \in [Thread -> Seq(Calls)]
<1>1. calls \o stack[t] \in Seq(Calls) BY ConcatProperties
<1> QED BY <1>1 DEF Enter

LEMMA GotoTypes ==
    ASSUME stack \in [Thread -> Seq(Calls)], NEW t \in Thread, stack[t] # <<>>,
           NEW calls \in Seq(Calls), Goto(t, calls)
    PROVE  stack' \in [Thread -> Seq(Calls)]
<1>1. Tail(stack[t]) \in Seq(Calls) BY HeadTailProperties
<1>2. calls \o Tail(stack[t]) \in Seq(Calls) BY <1>1, ConcatProperties
<1> QED BY <1>2 DEF Goto

LEMMA ReturnTypes ==
    ASSUME stack \in [Thread -> Seq(Calls)], NEW t \in Thread, stack[t] # <<>>, Return(t)
    PROVE  stack' \in [Thread -> Seq(Calls)]
<1>1. <<>> \in Seq(Calls) BY EmptySeq
<1> QED BY <1>1, GotoTypes DEF Return

LEMMA TopTypes ==
    ASSUME stack \in [Thread -> Seq(Calls)], NEW t \in Thread, stack[t] # <<>>
    PROVE  /\ Top(t) \in Calls /\ Tail(stack[t]) \in Seq(Calls)
           /\ Top(t).at \notin {"move", "cancel"} => Top(t).cmd \in Cmd
           /\ Top(t).at = "cancel" =>
                  /\ Top(t).left \in {-1} \cup Nat /\ Top(t).prev \in Cmd \cup {None}
                  /\ \A l \in {-1} \cup Nat, p \in Cmd \cup {None} :
                         [Top(t) EXCEPT !.left = l, !.prev = p] \in Calls
<1>1. Top(t) \in Calls /\ Tail(stack[t]) \in Seq(Calls) BY HeadTailProperties DEF Top
<1>2. CASE Top(t).at \notin {"move", "cancel"} BY <1>1, <1>2 DEF Calls
<1>3. CASE Top(t).at = "move" BY <1>1, <1>3
<1>4. CASE Top(t).at = "cancel" BY <1>1, <1>4 DEF Calls
<1> QED BY <1>1, <1>2, <1>3, <1>4

LEMMA DequeueTypes ==
    ASSUME TypeInv, NEW t \in Thread, NEW c \in active, NEW calls \in Seq(Calls), Dequeue(t, c, calls),
           UNCHANGED <<pending, mail, asked, released, gap>>
    PROVE  TypeInv'
<1>1. c \in Cmd BY DEF TypeInv, TypeOK
<1>2. <<Call("move", None), Call("release", c)>> \in Seq(Calls) BY <1>1 DEF Calls, Call
<1>3. <<Call("move", None), Call("release", c)>> \o calls \in Seq(Calls) BY <1>2, ConcatProperties
<1>4. stack' \in [Thread -> Seq(Calls)] BY <1>3 DEF Dequeue, TypeInv, TypeOK
<1>5. /\ active' \subseteq Cmd /\ marked' \subseteq Cmd /\ bitmap' \subseteq {VdevOf[d] : d \in Cmd}
      /\ blocking' \in BOOLEAN
    BY DEF Dequeue, TypeInv, TypeOK
<1>6. flags' \in [Cmd -> SUBSET {"removal", "cancel"}]
    <2>1. flags \in [Cmd -> SUBSET {"removal", "cancel"}] BY DEF TypeInv, TypeOK
    <2>2. CASE c \in marked
        <3>1. flags[c] \cup {"removal"} \in SUBSET {"removal", "cancel"} BY <1>1, <2>1
        <3> QED BY <2>1, <2>2, <3>1 DEF Dequeue
    <2>3. CASE c \notin marked
        <3>1. {} \in SUBSET {"removal", "cancel"} OBVIOUS
        <3> QED BY <2>1, <2>3, <3>1 DEF Dequeue
    <2> QED BY <2>2, <2>3
<1>7. timer' \in [Cmd -> {"off", "armed", "fired"}] BY DEF Dequeue, TypeInv, TypeOK
<1>8. last' \in {"none", "removed", "cancelled"} BY DEF Dequeue, TypeInv, TypeOK
<1> QED BY <1>4, <1>5, <1>6, <1>7, <1>8 DEF TypeInv, TypeOK

LEMMA ActivateTypes ==
    ASSUME TypeInv, NEW t \in Thread, NEW c \in Cmd, Activate(c), Enter(t, <<Call("start", c)>>)
    PROVE  /\ active' \subseteq Cmd /\ marked' \subseteq Cmd /\ blocking' \in BOOLEAN
           /\ bitmap' \subseteq {VdevOf[d] : d \in Cmd} /\ stack' \in [Thread -> Seq(Calls)]
<1>1. <<Call("start", c)>> \in Seq(Calls) BY DEF Call, Calls
<1>2. stack' \in [Thread -> Seq(Calls)] BY <1>1, EnterTypes DEF TypeInv, TypeOK
<1> QED BY <1>2 DEF Activate, TypeInv, TypeOK

LEMMA RequestTypes ==
    ASSUME TypeInv, NEW t \in Thread, NEW c \in Cmd, Request(t, c)
    PROVE  TypeInv'
<1> USE DEF lists, timing, history
<1>1. CASE RequestRefused(t, c)
    BY <1>1 DEF RequestRefused, TypeInv, TypeOK
<1>2. CASE RequestActive(t, c)
    BY <1>2, ActivateTypes DEF RequestActive, TypeInv, TypeOK
<1>3. CASE RequestPending(t, c)
    <2>1. pending \in Seq(Cmd) /\ IsInjective(pending) /\ c \notin Range(pending)
        BY <1>3 DEF RequestPending, TypeInv, TypeOK
    <2>2. CASE c \in Urgent
        <3>1. pending' = <<c>> \o pending BY <1>3, <2>2 DEF RequestPending
        <3>2. <<c>> \in Seq(Cmd) /\ Len(<<c>>) = 1 /\ <<c>>[1] = c OBVIOUS
        <3>3. /\ pending' \in Seq(Cmd) /\ Len(pending') = Len(pending) + 1 /\ pending'[1] = c
              /\ \A i \in 2..Len(pending') : pending'[i] = pending[i - 1]
            BY <2>1, <3>1, <3>2, ConcatProperties, LenProperties
        <3>4. Len(pending) \in Nat /\ DOMAIN pending = 1..Len(pending) /\ DOMAIN pending' = 1..Len(pending) + 1
            BY <2>1, <3>3, LenProperties
        <3>5. \A i \in 2..Len(pending) + 1 : i - 1 \in DOMAIN pending /\ pending'[i] = pending[i - 1]
            BY <3>3, <3>4
        <3>6. Range(pending') \subseteq Range(pending) \cup {c} BY <3>3, <3>4, <3>5 DEF Range
        <3>7. IsInjective(pending')
            <4> SUFFICES ASSUME NEW i \in DOMAIN pending', NEW j \in DOMAIN pending', pending'[i] = pending'[j]
                         PROVE  i = j
                BY DEF IsInjective
            <4>1. \A k \in 2..Len(pending) + 1 : pending'[k] # c BY <2>1, <3>5 DEF Range
            <4>2. CASE i = 1 \/ j = 1 BY <4>1, <4>2, <3>3, <3>4
            <4>3. CASE i # 1 /\ j # 1
                <5>1. i - 1 = j - 1 BY <4>3, <2>1, <3>4, <3>5 DEF IsInjective
                <5> QED BY <5>1, <3>4
            <4> QED BY <4>2, <4>3
        <3> QED BY <1>3, <3>3, <3>6, <3>7 DEF RequestPending, TypeInv, TypeOK
    <2>3. CASE c \notin Urgent
        <3>1. pending' = Append(pending, c) BY <1>3, <2>3 DEF RequestPending
        <3>2. /\ pending' \in Seq(Cmd) /\ Len(pending') = Len(pending) + 1
              /\ pending'[Len(pending) + 1] = c
              /\ \A i \in 1..Len(pending) : pending'[i] = pending[i]
            BY <2>1, <3>1
        <3>3. IsInjective(pending') /\ Range(pending') = Range(pending) \cup {c}
            BY <2>1, <3>2, LenProperties DEF IsInjective, Range
        <3> QED BY <1>3, <3>2, <3>3 DEF RequestPending, TypeInv, TypeOK
    <2> QED BY <2>2, <2>3
<1> QED BY <1>1, <1>2, <1>3 DEF Request

\* The list without one of its entries.
LEMMA RemoveAtTypes ==
    ASSUME pending \in Seq(Cmd), IsInjective(pending), NEW i \in DOMAIN pending, pending' = RemoveAt(pending, i)
    PROVE  pending' \in Seq(Cmd) /\ IsInjective(pending') /\ Range(pending') \subseteq Range(pending)
<1> DEFINE n == Len(pending)
<1>1. n \in Nat /\ DOMAIN pending = 1..n /\ i \in 1..n BY LenProperties
<1>2. /\ SubSeq(pending, 1, i - 1) \in Seq(Cmd) /\ Len(SubSeq(pending, 1, i - 1)) = i - 1
      /\ \A j \in 1..i - 1 : SubSeq(pending, 1, i - 1)[j] = pending[j]
    BY <1>1, SubSeqProperties, ElementOfSeq
<1>3. /\ SubSeq(pending, i + 1, n) \in Seq(Cmd) /\ Len(SubSeq(pending, i + 1, n)) = n - i
      /\ \A j \in 1..n - i : SubSeq(pending, i + 1, n)[j] = pending[i + j]
    BY <1>1, SubSeqProperties, ElementOfSeq
<1>4. /\ pending' \in Seq(Cmd) /\ Len(pending') = (i - 1) + (n - i)
      /\ \A j \in 1..(i - 1) + (n - i) :
             pending'[j] = IF j <= i - 1 THEN SubSeq(pending, 1, i - 1)[j] ELSE SubSeq(pending, i + 1, n)[j - (i - 1)]
    <2> DEFINE a == SubSeq(pending, 1, i - 1)
               b == SubSeq(pending, i + 1, n)
    <2>1. a \in Seq(Cmd) /\ b \in Seq(Cmd) /\ Len(a) = i - 1 /\ Len(b) = n - i BY <1>2, <1>3
    <2>2. pending' = a \o b BY DEF RemoveAt
    <2> HIDE DEF a, b
    <2>3. /\ a \o b \in Seq(Cmd) /\ Len(a \o b) = Len(a) + Len(b)
          /\ \A j \in 1..Len(a) + Len(b) : (a \o b)[j] = IF j <= Len(a) THEN a[j] ELSE b[j - Len(a)]
        BY <2>1, ConcatProperties
    <2>4. /\ pending' \in Seq(Cmd) /\ Len(pending') = (i - 1) + (n - i)
          /\ \A j \in 1..(i - 1) + (n - i) : pending'[j] = IF j <= i - 1 THEN a[j] ELSE b[j - (i - 1)]
        BY <2>1, <2>2, <2>3
    <2> QED BY <2>4 DEF a, b
<1>5. DOMAIN pending' = 1..n - 1 BY <1>1, <1>4, LenProperties
<1>6. \A j \in 1..n - 1 : /\ j < i => pending'[j] = pending[j]
                          /\ ~(j < i) => pending'[j] = pending[j + 1]
    <2> SUFFICES ASSUME NEW j \in 1..n - 1
                 PROVE  /\ j < i => pending'[j] = pending[j]
                        /\ ~(j < i) => pending'[j] = pending[j + 1]
        OBVIOUS
    <2>1. CASE j < i BY <2>1, <1>1, <1>2, <1>4
    <2>2. CASE ~(j < i)
        <3>1. j - (i - 1) \in 1..n - i /\ i + (j - (i - 1)) = j + 1 BY <2>2, <1>1
        <3>2. pending'[j] = SubSeq(pending, i + 1, n)[j - (i - 1)] BY <2>2, <1>1, <1>4
        <3>3. SubSeq(pending, i + 1, n)[j - (i - 1)] = pending[i + (j - (i - 1))] BY <1>3, <3>1
        <3> QED BY <2>2, <3>1, <3>2, <3>3
    <2> QED BY <2>1, <2>2
<1>7. IsInjective(pending') BY <1>1, <1>5, <1>6 DEF IsInjective
<1>8. Range(pending') \subseteq Range(pending)
    <2> SUFFICES ASSUME NEW j \in 1..n - 1 PROVE pending'[j] \in Range(pending)
        BY <1>5 DEF Range
    <2>1. j \in DOMAIN pending /\ j + 1 \in DOMAIN pending BY <1>1
    <2> QED BY <2>1, <1>6 DEF Range
<1> QED BY <1>4, <1>7, <1>8

\* A walk takes the next entry of its scope out and remembers its place.
LEMMA CancelPendingTypes ==
    ASSUME TypeInv, NEW t \in Thread, CancelPending(t)
    PROVE  TypeInv'
<1> DEFINE w == Top(t)
<1>1. stack[t] # <<>> /\ w.at = "cancel" BY DEF CancelPending, In, Top
<1>2. /\ w.left \in {-1} \cup Nat /\ w.prev \in Cmd \cup {None}
      /\ \A l \in {-1} \cup Nat, p \in Cmd \cup {None} : [w EXCEPT !.left = l, !.prev = p] \in Calls
    BY <1>1, TopTypes DEF TypeInv, TypeOK
<1>3. pending \in Seq(Cmd) /\ Len(pending) \in Nat /\ DOMAIN pending = 1..Len(pending)
    BY LenProperties DEF TypeInv, TypeOK
<1>4. PICK i \in Hits(w) :
          /\ pending' = RemoveAt(pending, i)
          /\ gap' = [gap EXCEPT ![t] = [q |-> "pending", cmd |-> pending[i]]]
          /\ Goto(t, <<[w EXCEPT !.left = Left(w) - (i - Visited(w)),
                                 !.prev = IF i = Visited(w) + 1 THEN @ ELSE pending[i - 1]]>>)
    BY DEF CancelPending
<1>5. /\ i \in DOMAIN pending /\ 0 < i - Visited(w) /\ i - Visited(w) <= Left(w)
      /\ w.prev \in Range(pending) \cup {None}
    BY <1>4 DEF Hits
<1>6. Left(w) \in Int
    <2>1. \A x \in {-1} \cup Nat : x \in Int OBVIOUS
    <2>2. w.left \in Int BY ONLY <2>1, <1>2
    <2> QED BY <2>2, <1>3 DEF Left
<1>7. Visited(w) \in 0..Len(pending)
    <2>1. CASE w.prev = None BY <2>1, <1>3 DEF Visited
    <2>2. CASE w.prev # None
        <3>1. \E k \in DOMAIN pending : pending[k] = w.prev BY <2>2, <1>5 DEF Range
        <3> QED BY <2>2, <3>1, <1>3 DEF Visited
    <2> QED BY <2>1, <2>2
<1>8. Left(w) - (i - Visited(w)) \in Nat BY <1>3, <1>5, <1>6, <1>7
<1>9. pending[i] \in Cmd /\ (i # Visited(w) + 1 => pending[i - 1] \in Cmd)
    <2>1. pending[i] \in Cmd BY <1>3, <1>5, ElementOfSeq
    <2>2. ASSUME i # Visited(w) + 1 PROVE i - 1 \in 1..Len(pending) BY <2>2, <1>3, <1>5, <1>7
    <2> QED BY <2>1, <2>2, <1>3, ElementOfSeq
<1>10. (IF i = Visited(w) + 1 THEN w.prev ELSE pending[i - 1]) \in Cmd \cup {None} BY <1>2, <1>9
<1>11. stack' \in [Thread -> Seq(Calls)]
    <2> DEFINE w2 == [w EXCEPT !.left = Left(w) - (i - Visited(w)),
                              !.prev = IF i = Visited(w) + 1 THEN @ ELSE pending[i - 1]]
    <2>1. w2 \in Calls BY <1>2, <1>8, <1>10
    <2>2. Goto(t, <<w2>>) BY <1>4
    <2> HIDE DEF w2
    <2>3. <<w2>> \in Seq(Calls) BY <2>1
    <2> QED BY <2>2, <2>3, <1>1, GotoTypes DEF TypeInv, TypeOK
<1>12. gap' \in [Thread -> {NoGap} \cup [q : Queue, cmd : Cmd]]
    <2>1. [q |-> "pending", cmd |-> pending[i]] \in [q : Queue, cmd : Cmd] BY <1>9 DEF Queue
    <2> QED BY <2>1, <1>4 DEF TypeInv, TypeOK
<1>13. pending' \in Seq(Cmd) /\ IsInjective(pending') /\ Range(pending') \subseteq Range(pending)
    BY <1>4, <1>5, RemoveAtTypes DEF TypeInv, TypeOK
<1>14. UNCHANGED <<active, bitmap, blocking, flags, marked, timing, history>> BY DEF CancelPending
<1> QED BY <1>11, <1>12, <1>13, <1>14 DEF timing, history, TypeInv, TypeOK

LEMMA MoveTypes ==
    ASSUME TypeInv, NEW t \in Thread, Move(t)
    PROVE  TypeInv'
<1>1. pending \in Seq(Cmd) /\ pending # <<>> BY DEF Move, TypeInv, TypeOK
<1>2. /\ Head(pending) \in Cmd /\ Tail(pending) \in Seq(Cmd) /\ Len(Tail(pending)) = Len(pending) - 1
      /\ \A i \in 1..Len(Tail(pending)) : Tail(pending)[i] = pending[i + 1]
    BY <1>1, HeadTailProperties
<1>3. Activate(Head(pending)) /\ Enter(t, <<Call("start", Head(pending))>>) /\ pending' = Tail(pending)
    BY DEF Move
<1>4. /\ active' \subseteq Cmd /\ marked' \subseteq Cmd /\ blocking' \in BOOLEAN
      /\ bitmap' \subseteq {VdevOf[d] : d \in Cmd} /\ stack' \in [Thread -> Seq(Calls)]
    BY <1>2, <1>3, ActivateTypes
<1>5. /\ Len(pending) \in Nat /\ DOMAIN pending = 1..Len(pending)
      /\ DOMAIN Tail(pending) = 1..Len(pending) - 1
    BY <1>1, <1>2, LenProperties
<1>6. IsInjective(pending) BY DEF TypeInv, TypeOK
<1>7. \A i \in DOMAIN pending' : i + 1 \in DOMAIN pending /\ pending'[i] = pending[i + 1]
    BY <1>2, <1>3, <1>5
<1>8. IsInjective(pending')
    <2> SUFFICES ASSUME NEW i \in DOMAIN pending', NEW j \in DOMAIN pending', pending'[i] = pending'[j]
                 PROVE  i = j
        BY DEF IsInjective
    <2>1. i + 1 = j + 1 BY <1>6, <1>7 DEF IsInjective
    <2> QED BY <2>1, <1>3, <1>5
<1>9. Range(pending') \subseteq Range(pending) BY <1>7 DEF Range
<1> QED BY <1>2, <1>3, <1>4, <1>8, <1>9 DEF Move, timing, history, TypeInv, TypeOK

LEMMA CancelActiveTypes ==
    ASSUME TypeInv, NEW t \in Thread, CancelActive(t)
    PROVE  TypeInv'
<1>1. PICK c \in active :
          /\ active' = active \ {c} /\ timer' = [timer EXCEPT ![c] = "off"]
          /\ flags' = [flags EXCEPT ![c] = {}] /\ last' = "cancelled"
          /\ gap' = [gap EXCEPT ![t] = [q |-> "active", cmd |-> c]]
    BY DEF CancelActive
<1>2. c \in Cmd /\ [q |-> "active", cmd |-> c] \in [q : Queue, cmd : Cmd] BY DEF Queue, TypeInv, TypeOK
<1>3. gap' \in [Thread -> {NoGap} \cup [q : Queue, cmd : Cmd]] BY <1>1, <1>2 DEF TypeInv, TypeOK
<1>4. flags' \in [Cmd -> SUBSET {"removal", "cancel"}]
    <2>1. {} \in SUBSET {"removal", "cancel"} OBVIOUS
    <2> QED BY <2>1, <1>1 DEF TypeInv, TypeOK
<1>5. timer' \in [Cmd -> {"off", "armed", "fired"}] BY <1>1 DEF TypeInv, TypeOK
<1>6. active' \subseteq Cmd /\ last' \in {"none", "removed", "cancelled"} BY <1>1 DEF TypeInv, TypeOK
<1> QED BY <1>3, <1>4, <1>5, <1>6 DEF CancelActive, TypeInv, TypeOK

LEMMA CancelEndsTypes ==
    ASSUME TypeInv, NEW t \in Thread, CancelEnds(t)
    PROVE  TypeInv'
<1>1. stack' \in [Thread -> Seq(Calls)] BY ReturnTypes DEF CancelEnds, In, TypeInv, TypeOK
<1>2. flags \in [Cmd -> SUBSET {"removal", "cancel"}] BY DEF TypeInv, TypeOK
<1>3. \A c \in Cmd : flags[c] \cup {"cancel"} \in SUBSET {"removal", "cancel"} BY <1>2
<1>4. flags' \in [Cmd -> SUBSET {"removal", "cancel"}] BY <1>2, <1>3 DEF CancelEnds
<1> QED BY <1>1, <1>4 DEF CancelEnds, timing, history, TypeInv, TypeOK

\* The calls that a step pushes.
LEMMA CallTypes ==
    /\ \A at \in {"start", "callback", "done", "failed", "release", "timeout"}, c \in Cmd :
           <<Call(at, c)>> \in Seq(Calls)
    /\ \A q \in Queue, scope \in SUBSET Cmd, one \in BOOLEAN : <<Walk(q, scope, one)>> \in Seq(Calls)
    /\ \A scope \in SUBSET Cmd : <<Walk("pending", scope, FALSE), Walk("active", scope, FALSE)>> \in Seq(Calls)
    /\ Scopes \subseteq SUBSET Cmd /\ \A c \in Cmd : Same(c) \in SUBSET Cmd
<1>1. \A at \in {"start", "callback", "done", "failed", "release", "timeout"}, c \in Cmd : Call(at, c) \in Calls
    BY DEF Call, Calls
<1>2. \A q \in Queue, scope \in SUBSET Cmd, one \in BOOLEAN : Walk(q, scope, one) \in Calls
    <2> TAKE q \in Queue, scope \in SUBSET Cmd, one \in BOOLEAN
    <2>1. -1 \in {-1} \cup Nat /\ None \in Cmd \cup {None} OBVIOUS
    <2>2. Walk(q, scope, one) \in [at : {"cancel"}, q : Queue, scope : SUBSET Cmd, one : BOOLEAN,
                                   left : {-1} \cup Nat, prev : Cmd \cup {None}]
        BY <2>1 DEF Walk
    <2> QED BY <2>2 DEF Calls
<1>3. \A x \in Calls : <<x>> \in Seq(Calls) OBVIOUS
<1>4. \A x, y \in Calls : <<x, y>> \in Seq(Calls) OBVIOUS
<1>5. "pending" \in Queue /\ "active" \in Queue /\ FALSE \in BOOLEAN BY DEF Queue
<1>6. Scopes \subseteq SUBSET Cmd /\ \A c \in Cmd : Same(c) \in SUBSET Cmd BY DEF Scopes, Same
<1> QED BY <1>1, <1>2, <1>3, <1>4, <1>5, <1>6

\* The steps that change no more than a stack, a timer or a mark.
LEMMA CallStepTypes ==
    ASSUME TypeInv, NEW t \in Thread,
           StartTimer(t) \/ TimerFails(t) \/ CallbackReturns(t) \/ MoveEnds(t) \/ ActivationEnds(t)
               \/ ActivationCancels(t) \/ TimeoutLate(t) \/ Release(t)
    PROVE  TypeInv'
<1> USE DEF lists, timing, history
<1>1. stack \in [Thread -> Seq(Calls)] /\ active \subseteq Cmd BY DEF TypeInv, TypeOK
<1>2. CASE StartTimer(t)
    <2>1. stack[t] # <<>> /\ Top(t).at = "start" BY <1>2 DEF StartTimer, In, Top
    <2>2. Top(t).cmd \in Cmd BY <1>1, <2>1, TopTypes
    <2>3. stack' \in [Thread -> Seq(Calls)] BY <1>1, <1>2, <2>1, <2>2, CallTypes, GotoTypes DEF StartTimer
    <2>4. timer' \in [Cmd -> {"off", "armed", "fired"}] BY <1>2 DEF StartTimer, TypeInv, TypeOK
    <2> QED BY <1>2, <2>3, <2>4 DEF StartTimer, TypeInv, TypeOK
<1>3. CASE TimerFails(t) \/ CallbackReturns(t)
    <2>1. PICK at \in {"done", "failed"} : Activated(t, at) BY <1>3 DEF TimerFails, CallbackReturns
    <2>2. stack[t] # <<>> /\ Top(t).at \in {"start", "callback"}
        BY <1>3 DEF TimerFails, CallbackReturns, In, Top
    <2>3. Top(t).cmd \in Cmd BY <1>1, <2>2, TopTypes
    <2>4. <<Call(at, Top(t).cmd)>> \in Seq(Calls) BY <2>3, CallTypes
    <2>5. stack' \in [Thread -> Seq(Calls)] BY <1>1, <2>1, <2>2, <2>4, GotoTypes DEF Activated
    <2> QED BY <2>1, <2>5 DEF Activated, TypeInv, TypeOK
<1>4. CASE MoveEnds(t) \/ ActivationEnds(t) \/ TimeoutLate(t)
    <2>1. stack[t] # <<>> /\ Return(t) BY <1>4 DEF MoveEnds, ActivationEnds, TimeoutLate, In
    <2>2. stack' \in [Thread -> Seq(Calls)] BY <1>1, <2>1, ReturnTypes
    <2> QED BY <1>4, <2>2 DEF MoveEnds, ActivationEnds, TimeoutLate, TypeInv, TypeOK
<1>5. CASE ActivationCancels(t)
    <2>1. stack[t] # <<>> /\ Top(t).cmd \in Cmd BY <1>1, <1>5 DEF ActivationCancels, In
    <2>2. <<Walk("active", {Top(t).cmd}, TRUE)>> \in Seq(Calls) BY <2>1, CallTypes DEF Queue
    <2>3. stack' \in [Thread -> Seq(Calls)] BY <1>1, <1>5, <2>1, <2>2, GotoTypes DEF ActivationCancels
    <2> QED BY <1>5, <2>3 DEF ActivationCancels, TypeInv, TypeOK
<1>6. CASE Release(t)
    <2>1. stack[t] # <<>> /\ Top(t).at = "release" BY <1>6 DEF Release, In, Top
    <2>2. Top(t).cmd \in Cmd BY <1>1, <2>1, TopTypes
    <2>3. stack' \in [Thread -> Seq(Calls)] BY <1>1, <1>6, <2>1, ReturnTypes DEF Release
    <2> QED BY <1>6, <2>2, <2>3 DEF Release, TypeInv, TypeOK
<1> QED BY <1>2, <1>3, <1>4, <1>5, <1>6

\* A requester is told of a command that a cancel has taken out.
LEMMA ToldTypes ==
    ASSUME TypeInv, NEW t \in Thread, PendingTold(t) \/ ActiveTold(t), stack[t] # <<>>
    PROVE  TypeInv'
<1> USE DEF lists, timing, history
<1>1. gap[t].cmd \in Cmd
    <2>1. gap[t] \in {NoGap} \cup [q : Queue, cmd : Cmd] /\ gap[t] # NoGap
        BY DEF PendingTold, ActiveTold, NoGap, TypeInv, TypeOK
    <2> QED BY <2>1
<1>2. gap' \in [Thread -> {NoGap} \cup [q : Queue, cmd : Cmd]] BY DEF PendingTold, ActiveTold, TypeInv, TypeOK
<1>3. stack' \in [Thread -> Seq(Calls)] BY ReturnTypes DEF PendingTold, ActiveTold, TypeInv, TypeOK
<1>4. CASE PendingTold(t) BY <1>1, <1>2, <1>3, <1>4 DEF PendingTold, TypeInv, TypeOK
<1>5. CASE ActiveTold(t) BY <1>1, <1>2, <1>3, <1>5 DEF ActiveTold, TypeInv, TypeOK
<1> QED BY <1>4, <1>5

\* Who tells a requester of a command is in the walk that has taken it out.
Telling == \A t \in Thread : gap[t] # NoGap => stack[t] # <<>> /\ Top(t).at = "cancel"

\* Calls of a thread that tells nobody disturb nothing.
LEMMA TellingKept ==
    ASSUME Telling, NEW t \in Thread, gap[t] = NoGap, UNCHANGED gap,
           \A u \in Thread \ {t} : stack'[u] = stack[u]
    PROVE  Telling'
BY DEF Telling, Top

LEMMA TellingCall ==
    ASSUME TypeInv, Telling, NEW t \in Thread, UNCHANGED gap, Idle(t) \/ \E at : In(t, at),
           (\E calls : Goto(t, calls)) \/ (\E calls : Enter(t, calls))
               \/ (\E calls : stack' = [stack EXCEPT ![t] = calls]) \/ UNCHANGED stack
    PROVE  Telling'
<1>1. gap[t] = NoGap BY DEF Idle, In, Telling
<1>2. \A u \in Thread \ {t} : stack'[u] = stack[u] BY DEF Goto, Enter, TypeInv, TypeOK
<1> QED BY <1>1, <1>2, TellingKept

\* A step either leaves the telling alone, begins it or ends it.
LEMMA TellingTakes ==
    ASSUME TypeInv, TypeInv', Telling, NEW t \in Thread, CancelPending(t) \/ CancelActive(t)
    PROVE  Telling'
<1>1. stack[t] # <<>> /\ Top(t).at = "cancel" /\ gap[t] = NoGap BY DEF CancelPending, CancelActive, In, Top
<1>2. \A u \in Thread \ {t} : gap'[u] = gap[u]
    <2>1. PICK g : gap' = [gap EXCEPT ![t] = g] BY DEF CancelPending, CancelActive
    <2> QED BY <2>1 DEF TypeInv, TypeOK
<1>3. \A u \in Thread \ {t} : stack'[u] = stack[u]
    BY DEF CancelPending, CancelActive, Goto, TypeInv, TypeOK
<1>4. stack'[t] # <<>> /\ Head(stack'[t]).at = "cancel"
    <2>1. CASE CancelActive(t) BY <2>1, <1>1 DEF CancelActive, Top
    <2>2. CASE CancelPending(t)
        <3>1. PICK l, p : Goto(t, <<[Top(t) EXCEPT !.left = l, !.prev = p]>>) BY <2>2 DEF CancelPending
        <3> DEFINE w2 == [Top(t) EXCEPT !.left = l, !.prev = p]
        <3>2. stack'[t] = <<w2>> \o Tail(stack[t]) BY <3>1 DEF Goto, TypeInv, TypeOK
        <3>3. Top(t) \in Calls /\ Tail(stack[t]) \in Seq(Calls) BY <1>1, TopTypes DEF TypeInv, TypeOK
        <3>4. w2.at = "cancel" BY <1>1, <3>3 DEF Calls
        <3>5. stack'[t] \in Seq(Calls) BY DEF TypeInv, TypeOK
        <3> HIDE DEF w2
        <3>6. Len(<<w2>>) = 1 /\ <<w2>>[1] = w2 OBVIOUS
        <3>7. stack'[t][1] = w2 /\ Len(stack'[t]) > 0
            <4>1. Tail(stack[t]) \in Seq(Calls \cup {w2}) /\ <<w2>> \in Seq(Calls \cup {w2})
                BY <3>3, SeqMonotonic
            <4>2. Len(stack'[t]) = 1 + Len(Tail(stack[t])) /\ stack'[t][1] = w2
                BY <3>2, <3>6, <4>1, ConcatProperties, LenProperties
            <4> QED BY <3>3, <4>2, LenProperties
        <3> QED BY <3>4, <3>5, <3>7
    <2> QED BY <2>1, <2>2
<1> QED BY <1>1, <1>2, <1>3, <1>4 DEF Telling, Top

LEMMA TellingTold ==
    ASSUME TypeInv, Telling, NEW t \in Thread, PendingTold(t) \/ ActiveTold(t)
    PROVE  Telling'
<1>1. gap'[t] = NoGap /\ \A u \in Thread \ {t} : gap'[u] = gap[u]
    BY DEF PendingTold, ActiveTold, TypeInv, TypeOK
<1>2. \A u \in Thread \ {t} : stack'[u] = stack[u]
    BY DEF PendingTold, ActiveTold, Return, Goto, TypeInv, TypeOK
<1> QED BY <1>1, <1>2 DEF Telling, Top

TypeStrong == TypeInv /\ Telling

LEMMA TypeStep == TypeStrong /\ [Next]_vars => TypeStrong'
<1> SUFFICES ASSUME TypeInv, Telling, [Next]_vars PROVE TypeInv' /\ Telling'
    BY DEF TypeStrong
<1> USE DEF lists, timing, history
<1>0. stack \in [Thread -> Seq(Calls)] /\ active \subseteq Cmd /\ <<>> \in Seq(Calls)
    BY EmptySeq DEF TypeInv, TypeOK
<1>1. ASSUME NEW t \in Thread, NEW c \in Cmd, Request(t, c) PROVE TypeInv' /\ Telling'
    <2>1. TypeInv' BY <1>1, RequestTypes
    <2>2. Telling'
        BY <1>1, TellingCall DEF Request, RequestRefused, RequestActive, RequestPending
    <2> QED BY <2>1, <2>2
<1>2. ASSUME NEW t \in Thread, NEW c \in active, NEW calls \in Seq(Calls), Dequeue(t, c, calls),
             UNCHANGED <<pending, mail, asked, released, gap>>, Idle(t) \/ \E at : In(t, at)
      PROVE  TypeInv' /\ Telling'
    <2>1. TypeInv' BY <1>2, DequeueTypes
    <2>2. \E s : stack' = [stack EXCEPT ![t] = s] BY <1>2 DEF Dequeue
    <2>3. Telling' BY <1>2, <2>2, TellingCall
    <2> QED BY <2>1, <2>3
<1>3. ASSUME NEW t \in Thread, NEW c \in Cmd, RemoveCmd(t, c) PROVE TypeInv' /\ Telling'
    BY <1>0, <1>2, <1>3 DEF RemoveCmd
<1>4. ASSUME NEW t \in Thread, NEW c \in Cmd, CancelOne(t, c) PROVE TypeInv' /\ Telling'
    <2>1. <<Walk("pending", Same(c), TRUE)>> \in Seq(Calls) BY CallTypes DEF Queue
    <2>2. stack' \in [Thread -> Seq(Calls)] BY <1>0, <1>4, <2>1, EnterTypes DEF CancelOne
    <2>3. TypeInv' BY <1>4, <2>2 DEF CancelOne, TypeInv, TypeOK
    <2>4. Telling' BY <1>4, TellingCall DEF CancelOne
    <2> QED BY <2>3, <2>4
<1>5. ASSUME NEW t \in Thread, NEW scope \in Scopes, Purge(t, scope) PROVE TypeInv' /\ Telling'
    <2>1. <<Walk("pending", scope, FALSE), Walk("active", scope, FALSE)>> \in Seq(Calls) BY CallTypes
    <2>2. stack' \in [Thread -> Seq(Calls)] BY <1>0, <1>5, <2>1, EnterTypes DEF Purge
    <2>3. TypeInv' BY <1>5, <2>2 DEF Purge, TypeInv, TypeOK
    <2>4. Telling' BY <1>5, TellingCall DEF Purge
    <2> QED BY <2>3, <2>4
<1>6. ASSUME NEW c \in Cmd, Expire(c) PROVE TypeInv' /\ Telling'
    BY <1>6 DEF Expire, Telling, Top, TypeInv, TypeOK
<1>7. ASSUME NEW c \in Cmd, Timeout(c) PROVE TypeInv' /\ Telling'
    <2>1. <<Call("timeout", c)>> \in Seq(Calls) /\ Mc \in Thread BY CallTypes, SerAssumption
    <2>2. stack' \in [Thread -> Seq(Calls)] BY <1>0, <1>7, <2>1, EnterTypes DEF Timeout
    <2>3. TypeInv' BY <1>7, <2>2 DEF Timeout, TypeInv, TypeOK
    <2>4. Telling' BY <1>7, <2>1, TellingCall DEF Timeout
    <2> QED BY <2>3, <2>4
<1>8. ASSUME NEW t \in Thread, Continue(t) PROVE TypeInv' /\ Telling'
    <2>1. CASE \/ StartTimer(t) \/ TimerFails(t) \/ CallbackReturns(t) \/ MoveEnds(t) \/ ActivationEnds(t)
               \/ ActivationCancels(t) \/ TimeoutLate(t) \/ Release(t)
        <3>1. TypeInv' BY <2>1, CallStepTypes
        <3>2. \E at : In(t, at)
            BY <2>1 DEF StartTimer, TimerFails, CallbackReturns, MoveEnds, ActivationEnds, ActivationCancels,
               TimeoutLate, Release
        <3>3. UNCHANGED gap /\ \E calls : Goto(t, calls)
            BY <2>1 DEF StartTimer, TimerFails, CallbackReturns, Activated, MoveEnds, ActivationEnds,
               ActivationCancels, TimeoutLate, Release, Return
        <3> QED BY <3>1, <3>2, <3>3, TellingCall
    <2>2. CASE Move(t)
        <3>1. TypeInv' BY <2>2, MoveTypes
        <3>2. Telling' BY <2>2, TellingCall DEF Move
        <3> QED BY <3>1, <3>2
    <2>3. CASE ActivationRemoves(t)
        <3>1. (\E at : In(t, at)) /\ stack[t] # <<>> BY <2>3 DEF ActivationRemoves, In
        <3>2. Tail(stack[t]) \in Seq(Calls) BY <1>0, <3>1, TopTypes
        <3> QED BY <1>2, <2>3, <3>1, <3>2 DEF ActivationRemoves
    <2>4. CASE TimeoutRemoves(t)
        <3>1. (\E at : In(t, at)) /\ stack[t] # <<>> BY <2>4 DEF TimeoutRemoves, In
        <3>2. Tail(stack[t]) \in Seq(Calls) BY <1>0, <3>1, TopTypes
        <3>3. PICK c \in active : Dequeue(t, c, Tail(stack[t])) BY <2>4 DEF TimeoutRemoves
        <3> QED BY <1>2, <2>4, <3>1, <3>2, <3>3 DEF TimeoutRemoves
    <2>5. CASE CancelPending(t)
        <3>1. TypeInv' BY <2>5, CancelPendingTypes
        <3> QED BY <2>5, <3>1, TellingTakes
    <2>6. CASE CancelActive(t)
        <3>1. TypeInv' BY <2>6, CancelActiveTypes
        <3> QED BY <2>6, <3>1, TellingTakes
    <2>7. CASE PendingTold(t) \/ ActiveTold(t)
        <3>1. gap[t] # NoGap BY <2>7 DEF PendingTold, ActiveTold, NoGap
        <3>2. stack[t] # <<>> BY <3>1 DEF Telling
        <3>3. TypeInv' BY <2>7, <3>2, ToldTypes
        <3>4. Telling' BY <2>7, TellingTold
        <3> QED BY <3>3, <3>4
    <2>8. CASE CancelEnds(t)
        <3>1. TypeInv' BY <2>8, CancelEndsTypes
        <3>2. Telling' BY <2>8, TellingCall DEF CancelEnds, Return
        <3> QED BY <3>1, <3>2
    <2> QED BY <1>8, <2>1, <2>2, <2>3, <2>4, <2>5, <2>6, <2>7, <2>8 DEF Continue
<1>9. CASE UNCHANGED vars
    BY <1>9 DEF vars, Telling, Top, TypeInv, TypeOK
<1> QED BY <1>1, <1>3, <1>4, <1>5, <1>6, <1>7, <1>8, <1>9 DEF Next

\* The lists, stacks and marks keep their types, and nothing is queued twice.
THEOREM SerTypeOK == Safety => []TypeOK
<1>1. Init => TypeStrong
    <2>1. Init => Telling BY DEF Init, Telling
    <2> QED BY <2>1, TypeInit DEF TypeStrong
<1>2. TypeStrong => TypeOK BY DEF TypeStrong, TypeInv
<1> QED BY <1>1, <1>2, TypeStep, PTL DEF Safety

-----------------------------------------------------------------------------
(***************************************************************************)
(* Nothing is stranded.  Whoever empties the active list has pushed a move *)
(* on its stack, and only the move itself takes it off again.  A cancel    *)
(* that is telling its requester has already set last.                     *)
(***************************************************************************)
StrandedInv == NoStranded /\ (Cancelling # {} => last = "cancelled")

\* What lies deeper in a stack stays there.
LEMMA DeeperKept ==
    ASSUME NEW s \in Seq(Calls), NEW S, NEW calls \in Seq(S), NEW i \in DOMAIN s
    PROVE  \E j \in DOMAIN (calls \o s) : (calls \o s)[j] = s[i]
<1>1. calls \in Seq(Calls \cup S) /\ s \in Seq(Calls \cup S) BY SeqMonotonic
<1>2. Len(calls) \in Nat /\ Len(s) \in Nat /\ i \in 1..Len(s) BY LenProperties
<1>3. /\ calls \o s \in Seq(Calls \cup S) /\ Len(calls \o s) = Len(calls) + Len(s)
      /\ \A k \in 1..Len(calls) + Len(s) :
             (calls \o s)[k] = IF k <= Len(calls) THEN calls[k] ELSE s[k - Len(calls)]
    BY <1>1, ConcatProperties
<1>4. (calls \o s)[i + Len(calls)] = s[(i + Len(calls)) - Len(calls)] BY <1>2, <1>3
<1>5. (i + Len(calls)) - Len(calls) = i BY <1>2
<1>6. i + Len(calls) \in DOMAIN (calls \o s) BY <1>2, <1>3, LenProperties
<1> QED BY <1>4, <1>5, <1>6

LEMMA EnterKeeps ==
    ASSUME TypeInv, NEW t \in Thread, NEW S, NEW calls \in Seq(S), Enter(t, calls), NEW at
    PROVE  Calling(at) \subseteq Calling(at)'
<1>1. stack'[t] = calls \o stack[t] /\ stack[t] \in Seq(Calls) /\ \A u \in Thread \ {t} : stack'[u] = stack[u]
    BY DEF Enter, TypeInv, TypeOK
<1>2. \A i \in DOMAIN stack[t] : \E j \in DOMAIN stack'[t] : stack'[t][j] = stack[t][i]
    <2> DEFINE s == stack[t]
               r == stack'[t]
    <2>1. s \in Seq(Calls) /\ calls \in Seq(S) /\ r = calls \o s BY <1>1
    <2> HIDE DEF s, r
    <2>2. \A i \in DOMAIN s : \E j \in DOMAIN (calls \o s) : (calls \o s)[j] = s[i] BY <2>1, DeeperKept
    <2>3. \A i \in DOMAIN s : \E j \in DOMAIN r : r[j] = s[i] BY <2>1, <2>2
    <2> QED BY <2>3 DEF s, r
<1>3. ASSUME NEW u \in Calling(at)
      PROVE  u \in Calling(at)'
    <2>1. PICK i \in DOMAIN stack[u] : stack[u][i].at = at BY <1>3 DEF Calling
    <2>2. u \in Thread BY <1>3 DEF Calling
    <2>3. \E j \in DOMAIN stack'[u] : stack'[u][j] = stack[u][i]
        <3>1. CASE u = t BY <3>1, <2>1, <1>2
        <3>2. CASE u # t BY <3>2, <2>1, <2>2, <1>1
        <3> QED BY <3>1, <3>2
    <2> QED BY <2>1, <2>2, <2>3 DEF Calling
<1> QED BY <1>3

LEMMA GotoKeeps ==
    ASSUME TypeInv, NEW t \in Thread, NEW S, NEW calls \in Seq(S), Goto(t, calls), stack[t] # <<>>,
           NEW at, Top(t).at # at
    PROVE  Calling(at) \subseteq Calling(at)'
<1>1. /\ stack'[t] = calls \o Tail(stack[t]) /\ stack[t] \in Seq(Calls)
      /\ \A u \in Thread \ {t} : stack'[u] = stack[u]
    BY DEF Goto, TypeInv, TypeOK
<1>2. /\ Tail(stack[t]) \in Seq(Calls) /\ Len(Tail(stack[t])) = Len(stack[t]) - 1
      /\ \A i \in 1..Len(Tail(stack[t])) : Tail(stack[t])[i] = stack[t][i + 1]
    BY <1>1, HeadTailProperties
<1>3. Len(stack[t]) \in Nat /\ DOMAIN stack[t] = 1..Len(stack[t]) /\ DOMAIN Tail(stack[t]) = 1..Len(stack[t]) - 1
    BY <1>1, <1>2, LenProperties
<1>4. ASSUME NEW i \in DOMAIN stack[t], stack[t][i].at = at
      PROVE  \E j \in DOMAIN stack'[t] : stack'[t][j].at = at
    <2>1. i # 1 BY <1>4, <1>1 DEF Top
    <2>2. i - 1 \in DOMAIN Tail(stack[t]) /\ Tail(stack[t])[i - 1] = stack[t][i] BY <2>1, <1>2, <1>3
    <2>3. \E j \in DOMAIN stack'[t] : stack'[t][j] = Tail(stack[t])[i - 1]
        <3> DEFINE s == Tail(stack[t])
                   r == stack'[t]
        <3>1. s \in Seq(Calls) /\ calls \in Seq(S) /\ r = calls \o s BY <1>1, <1>2
        <3> HIDE DEF s, r
        <3>2. \A k \in DOMAIN s : \E j \in DOMAIN (calls \o s) : (calls \o s)[j] = s[k] BY <3>1, DeeperKept
        <3>3. \A k \in DOMAIN s : \E j \in DOMAIN r : r[j] = s[k] BY <3>1, <3>2
        <3> QED BY <3>3, <2>2 DEF s, r
    <2> QED BY <1>4, <2>2, <2>3
<1> QED BY <1>1, <1>4 DEF Calling

LEMMA StrandedKept ==
    ASSUME StrandedInv, UNCHANGED <<bitmap, last, gap>>, pending # <<>> \/ pending' = <<>>,
           Calling("move") \subseteq Calling("move")'
    PROVE  StrandedInv'
<1>1. Cancelling' = Cancelling BY DEF Cancelling
<1> QED BY <1>1 DEF StrandedInv, NoStranded

\* With the radio held nobody is stranded.
LEMMA StrandedHeld ==
    ASSUME StrandedInv, bitmap' # {}, UNCHANGED <<last, gap>>
    PROVE  StrandedInv'
<1>1. Cancelling' = Cancelling BY DEF Cancelling
<1> QED BY <1>1 DEF StrandedInv, NoStranded

\* The end of a command pushes the move that looks for the next.
LEMMA StrandedDequeue ==
    ASSUME TypeInv, ExclusiveInv, StrandedInv, NEW t \in Thread, NEW c \in active, NEW calls \in Seq(Calls),
           Dequeue(t, c, calls), UNCHANGED <<pending, gap>>
    PROVE  StrandedInv'
<1>1. Cancelling = {} /\ bitmap # {} BY DEF ExclusiveInv, Exclusive
<1>2. Cancelling' = {} BY <1>1 DEF Cancelling
<1>3. CASE c \in marked BY <1>1, <1>3, StrandedHeld DEF Dequeue
<1>4. CASE c \notin marked
    <2>1. stack'[t] = <<Call("move", None), Call("release", c)>> \o calls
        BY <1>4 DEF Dequeue, TypeInv, TypeOK
    <2>2. c \in Cmd /\ Call("move", None) \in Calls /\ Call("release", c) \in Calls
        BY DEF Call, Calls, TypeInv, TypeOK
    <2>3. <<Call("move", None), Call("release", c)>> \in Seq(Calls) BY <2>2
    <2>4. DOMAIN stack'[t] = 1..2 + Len(calls) /\ stack'[t][1] = Call("move", None)
        BY <2>1, <2>3, ConcatProperties, LenProperties
    <2>5. Len(calls) \in Nat /\ Call("move", None).at = "move" BY LenProperties DEF Call
    <2>6. 1 \in DOMAIN stack'[t] /\ stack'[t][1].at = "move" BY <2>4, <2>5
    <2>7. t \in Calling("move")' BY <2>6 DEF Calling
    <2> QED BY <1>2, <2>7 DEF StrandedInv, NoStranded
<1> QED BY <1>3, <1>4

\* The steps within a call, other than the ends of commands and of moves.
LEMMA StrandedCallStep ==
    ASSUME TypeInv, StrandedInv, NEW t \in Thread,
           StartTimer(t) \/ TimerFails(t) \/ CallbackReturns(t) \/ ActivationEnds(t) \/ ActivationCancels(t)
               \/ TimeoutLate(t) \/ Release(t) \/ CancelEnds(t)
    PROVE  StrandedInv'
<1> USE DEF lists, timing, history
<1>1. stack[t] # <<>> /\ Top(t).at # "move"
    BY DEF StartTimer, TimerFails, CallbackReturns, ActivationEnds, ActivationCancels, TimeoutLate, Release,
       CancelEnds, In, Top
<1>2. \A x : <<x>> \in Seq({x}) OBVIOUS
<1>3. <<>> \in Seq(Calls) BY EmptySeq
<1>4. \E S : \E calls \in Seq(S) : Goto(t, calls)
    BY <1>2, <1>3 DEF StartTimer, TimerFails, CallbackReturns, Activated, ActivationEnds, ActivationCancels,
       TimeoutLate, Release, CancelEnds, Return
<1>5. Calling("move") \subseteq Calling("move")' BY <1>1, <1>4, GotoKeeps
<1>6. UNCHANGED <<pending, bitmap, last, gap>>
    BY DEF StartTimer, TimerFails, CallbackReturns, Activated, ActivationEnds, ActivationCancels,
       TimeoutLate, Release, CancelEnds
<1> QED BY <1>5, <1>6, StrandedKept

\* The steps of a cancel that take a command out or tell of it.
LEMMA StrandedCancel ==
    ASSUME TypeInv, Telling, ExclusiveInv, StrandedInv, NEW t \in Thread,
           CancelPending(t) \/ CancelActive(t) \/ PendingTold(t) \/ ActiveTold(t)
    PROVE  StrandedInv'
<1> USE DEF lists, timing, history
<1>0. \A u \in Thread : gap[u] \in {NoGap} \cup [q : Queue, cmd : Cmd] /\ gap \in [Thread -> {NoGap} \cup [q : Queue, cmd : Cmd]]
    BY DEF TypeInv, TypeOK
<1>1. CASE CancelPending(t)
    <2>1. stack[t] # <<>> /\ Top(t).at # "move" /\ gap[t] = NoGap BY <1>1 DEF CancelPending, In, Top
    <2>2. /\ Hits(Top(t)) # {}
          /\ \E x, g : gap' = [gap EXCEPT ![t] = g] /\ g.q = "pending" /\ Goto(t, <<x>>)
        BY <1>1 DEF CancelPending
    <2>3. PICK x, g : gap' = [gap EXCEPT ![t] = g] /\ g.q = "pending" /\ Goto(t, <<x>>)
        BY <2>2
    <2>4. <<x>> \in Seq({x}) OBVIOUS
    <2>5. Calling("move") \subseteq Calling("move")' BY <2>1, <2>3, <2>4, GotoKeeps
    <2>6. Cancelling' = Cancelling BY <1>0, <2>1, <2>3 DEF Cancelling, NoGap
    <2>7. pending # <<>> BY <2>2 DEF Hits, Range
    <2>8. UNCHANGED <<bitmap, last>> BY <1>1 DEF CancelPending
    <2> QED BY <2>5, <2>6, <2>7, <2>8 DEF StrandedInv, NoStranded
<1>2. CASE CancelActive(t)
    BY <1>2 DEF CancelActive, StrandedInv, NoStranded
<1>3. CASE PendingTold(t)
    <2>1. gap[t] # NoGap /\ gap[t].q = "pending" BY <1>3 DEF PendingTold, NoGap
    <2>2. stack[t] # <<>> /\ Top(t).at # "move" BY <2>1 DEF Telling
    <2>3. <<>> \in Seq(Calls) BY EmptySeq
    <2>4. Goto(t, <<>>) \/ UNCHANGED stack BY <1>3 DEF PendingTold, Return
    <2>5. Calling("move") \subseteq Calling("move")' 
        <3>1. CASE Goto(t, <<>>) BY <3>1, <2>2, <2>3, GotoKeeps
        <3>2. CASE UNCHANGED stack BY <3>2 DEF Calling
        <3> QED BY <2>4, <3>1, <3>2
    <2>6. Cancelling' = Cancelling BY <1>0, <1>3, <2>1 DEF PendingTold, Cancelling, NoGap
    <2>7. UNCHANGED <<pending, bitmap, last>> BY <1>3 DEF PendingTold
    <2> QED BY <2>5, <2>6, <2>7 DEF StrandedInv, NoStranded
<1>4. CASE ActiveTold(t)
    <2>1. t \in Cancelling /\ UNCHANGED last BY <1>4 DEF ActiveTold, Cancelling
    <2>2. last' = "cancelled" BY <2>1 DEF StrandedInv
    <2> QED BY <2>2 DEF StrandedInv, NoStranded
<1> QED BY <1>1, <1>2, <1>3, <1>4

LEMMA StrandedStep == TypeStrong /\ ExclusiveInv /\ StrandedInv /\ [Next]_vars => StrandedInv'
<1> SUFFICES ASSUME TypeInv, Telling, ExclusiveInv, StrandedInv, [Next]_vars PROVE StrandedInv'
    BY DEF TypeStrong
<1> USE DEF lists, timing, history
<1>1. \A x : <<x>> \in Seq({x}) OBVIOUS
<1>2. \A x, y : <<x, y>> \in Seq({x, y}) OBVIOUS
<1>3. <<>> \in Seq(Calls) BY EmptySeq
<1>4. ASSUME NEW t \in Thread, NEW c \in Cmd, Request(t, c) PROVE StrandedInv'
    <2>1. CASE RequestRefused(t, c)
        <3>1. Calling("move")' = Calling("move") BY <2>1 DEF RequestRefused, Calling
        <3> QED BY <2>1, <3>1, StrandedKept DEF RequestRefused
    <2>2. CASE RequestActive(t, c)
        BY <2>2, StrandedHeld DEF RequestActive, Activate
    <2>3. CASE RequestPending(t, c)
        <3>1. CASE bitmap # {} BY <2>3, <3>1, StrandedHeld DEF RequestPending
        <3>2. CASE bitmap = {}
            <4>1. PendingOf(VdevOf[c]) # {} BY <2>3, <3>2 DEF RequestPending, Allowed
            <4>2. pending # <<>> BY <4>1 DEF PendingOf, Range
            <4>3. Calling("move")' = Calling("move") BY <2>3 DEF RequestPending, Calling
            <4> QED BY <2>3, <4>2, <4>3, StrandedKept DEF RequestPending
        <3> QED BY <3>1, <3>2
    <2> QED BY <1>4, <2>1, <2>2, <2>3 DEF Request
<1>5. ASSUME NEW t \in Thread, NEW c \in Cmd, RemoveCmd(t, c) PROVE StrandedInv'
    BY <1>3, <1>5, StrandedDequeue DEF RemoveCmd
<1>6. ASSUME NEW t \in Thread, NEW c \in Cmd, CancelOne(t, c) PROVE StrandedInv'
    <2>1. Calling("move") \subseteq Calling("move")' BY <1>1, <1>6, EnterKeeps DEF CancelOne
    <2> QED BY <1>6, <2>1, StrandedKept DEF CancelOne
<1>7. ASSUME NEW t \in Thread, NEW scope \in Scopes, Purge(t, scope) PROVE StrandedInv'
    <2>1. Calling("move") \subseteq Calling("move")' BY <1>2, <1>7, EnterKeeps DEF Purge
    <2> QED BY <1>7, <2>1, StrandedKept DEF Purge
<1>8. ASSUME NEW c \in Cmd, Expire(c) PROVE StrandedInv'
    <2>1. Calling("move")' = Calling("move") BY <1>8 DEF Expire, Calling
    <2> QED BY <1>8, <2>1, StrandedKept DEF Expire
<1>9. ASSUME NEW c \in Cmd, Timeout(c) PROVE StrandedInv'
    <2>1. Calling("move") \subseteq Calling("move")'
        <3>1. CASE UNCHANGED stack BY <3>1 DEF Calling
        <3>2. CASE Enter(Mc, <<Call("timeout", c)>>)
            BY <1>1, <3>2, EnterKeeps, SerAssumption
        <3> QED BY <1>9, <3>1, <3>2 DEF Timeout
    <2> QED BY <1>9, <2>1, StrandedKept DEF Timeout
<1>10. ASSUME NEW t \in Thread, Continue(t) PROVE StrandedInv'
    <2>1. CASE \/ StartTimer(t) \/ TimerFails(t) \/ CallbackReturns(t) \/ ActivationEnds(t)
               \/ ActivationCancels(t) \/ TimeoutLate(t) \/ Release(t) \/ CancelEnds(t)
        BY <2>1, StrandedCallStep
    <2>2. CASE Move(t)
        BY <2>2, StrandedHeld DEF Move, Activate
    <2>3. CASE MoveEnds(t)
        <3>1. Cancelling' = Cancelling BY <2>3 DEF MoveEnds, Cancelling
        <3> QED BY <2>3, <3>1 DEF MoveEnds, StrandedInv, NoStranded
    <2>4. CASE ActivationRemoves(t)
        <3>1. stack[t] # <<>> BY <2>4 DEF ActivationRemoves, In
        <3>2. Tail(stack[t]) \in Seq(Calls) BY <3>1, TopTypes DEF TypeInv, TypeOK
        <3> QED BY <2>4, <3>2, StrandedDequeue DEF ActivationRemoves
    <2>5. CASE TimeoutRemoves(t)
        <3>1. stack[t] # <<>> BY <2>5 DEF TimeoutRemoves, In
        <3>2. Tail(stack[t]) \in Seq(Calls) BY <3>1, TopTypes DEF TypeInv, TypeOK
        <3>3. PICK c \in active : Dequeue(t, c, Tail(stack[t])) BY <2>5 DEF TimeoutRemoves
        <3> QED BY <2>5, <3>2, <3>3, StrandedDequeue DEF TimeoutRemoves
    <2>6. CASE CancelPending(t) \/ CancelActive(t) \/ PendingTold(t) \/ ActiveTold(t)
        BY <2>6, StrandedCancel
    <2> QED BY <1>10, <2>1, <2>2, <2>3, <2>4, <2>5, <2>6 DEF Continue
<1>11. CASE UNCHANGED vars
    <2>1. Calling("move")' = Calling("move") BY <1>11 DEF vars, Calling
    <2> QED BY <1>11, <2>1, StrandedKept DEF vars
<1> QED BY <1>4, <1>5, <1>6, <1>7, <1>8, <1>9, <1>10, <1>11 DEF Next

\* A command that waits has an active one before it, or somebody on the way to
\* move it (wlan_serialization_internal.c:515-530), but for a cancelled one.
THEOREM NobodyStranded == Safety => []NoStranded
<1>1. Init => TypeStrong /\ StrandedInv
    <2>1. Init => Telling BY DEF Init, Telling
    <2>2. Init => StrandedInv BY DEF Init, StrandedInv, NoStranded, Cancelling, NoGap
    <2> QED BY <2>1, <2>2, TypeInit DEF TypeStrong
<1>2. StrandedInv => NoStranded BY DEF StrandedInv
<1> QED BY <1>1, <1>2, TypeStep, ExclusiveInit, ExclusiveStep, StrandedStep, PTL DEF Safety
=============================================================================
