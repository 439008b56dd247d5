---------------------- MODULE SerializationReleaseProofs ----------------------
(***************************************************************************)
(* The serialization, for any sets of commands, vdevs and threads: a       *)
(* requester is told once to free its command, when nothing holds it any   *)
(* more, and an active command always has its timer.                       *)
(***************************************************************************)
EXTENDS SerializationProofs

-----------------------------------------------------------------------------
(***************************************************************************)
(* Places in a stack, counted from the bottom, so that what is pushed      *)
(* moves nothing.                                                          *)
(***************************************************************************)
Holds(s, p, y) == p \in 1..Len(s) /\ s[Len(s) + 1 - p] = y

LEMMA HoldsPushed ==
    ASSUME NEW S, NEW s \in Seq(S), NEW x \in S, NEW p \in Nat, NEW y
    PROVE  Holds(<<x>> \o s, p, y) <=> Holds(s, p, y) \/ (p = Len(s) + 1 /\ x = y)
<1> DEFINE n == Len(s)
           r == <<x>> \o s
<1>1. n \in Nat BY LenProperties
<1>2. Len(r) = n + 1 /\ \A i \in 1..n + 1 : r[i] = IF i <= 1 THEN x ELSE s[i - 1]
    <2>1. <<x>> \in Seq(S) /\ Len(<<x>>) = 1 /\ <<x>>[1] = x OBVIOUS
    <2>2. Len(r) = 1 + n /\ \A i \in 1..1 + n : r[i] = IF i <= 1 THEN <<x>>[i] ELSE s[i - 1]
        BY <2>1, ConcatProperties
    <2>3. \A i \in 1..n + 1 : i <= 1 => i = 1 BY <1>1
    <2> QED BY <1>1, <2>1, <2>2, <2>3
<1> HIDE DEF n, r
<1>3. CASE p = n + 1
    <2>1. Len(r) + 1 - p = 1 /\ p \in 1..Len(r) /\ p \notin 1..n BY <1>1, <1>2, <1>3
    <2>2. r[1] = x BY <1>1, <1>2
    <2>3. Holds(r, p, y) <=> x = y BY <2>1, <2>2 DEF Holds
    <2>4. ~Holds(s, p, y) BY <2>1 DEF Holds, n
    <2> QED BY <1>3, <2>3, <2>4 DEF r, n
<1>4. CASE p # n + 1
    <2>1. p \in 1..Len(r) <=> p \in 1..n BY <1>1, <1>2, <1>4
    <2>2. ASSUME p \in 1..n PROVE r[Len(r) + 1 - p] = s[n + 1 - p]
        <3>1. Len(r) + 1 - p \in 2..n + 1 /\ (Len(r) + 1 - p) - 1 = n + 1 - p BY <1>1, <1>2, <2>2
        <3>2. r[Len(r) + 1 - p] = s[(Len(r) + 1 - p) - 1] BY <1>1, <1>2, <3>1
        <3> QED BY <3>1, <3>2
    <2>3. Holds(r, p, y) <=> Holds(s, p, y) BY <2>1, <2>2 DEF Holds, n
    <2> QED BY <1>4, <2>3 DEF r, n
<1> QED BY <1>3, <1>4

LEMMA HoldsTail ==
    ASSUME NEW S, NEW s \in Seq(S), s # <<>>, NEW p \in Nat, NEW y
    PROVE  Holds(Tail(s), p, y) <=> Holds(s, p, y) /\ p # Len(s)
<1> DEFINE n == Len(s)
           r == Tail(s)
<1>1. /\ n \in Nat /\ n > 0 /\ Len(r) = n - 1
      /\ \A i \in 1..n - 1 : r[i] = s[i + 1]
    BY HeadTailProperties, LenProperties, EmptySeq
<1> HIDE DEF n, r
<1>2. p \in 1..Len(r) <=> p \in 1..n /\ p # n BY <1>1
<1>3. ASSUME p \in 1..n, p # n PROVE r[Len(r) + 1 - p] = s[n + 1 - p]
    <2>1. Len(r) + 1 - p \in 1..n - 1 /\ (Len(r) + 1 - p) + 1 = n + 1 - p BY <1>1, <1>3
    <2>2. r[Len(r) + 1 - p] = s[(Len(r) + 1 - p) + 1] BY <1>1, <2>1
    <2> QED BY <2>1, <2>2
<1>4. Holds(r, p, y) <=> Holds(s, p, y) /\ p # n BY <1>2, <1>3 DEF Holds, n
<1> QED BY <1>4 DEF r, n

LEMMA HoldsTop ==
    ASSUME NEW S, NEW s \in Seq(S), s # <<>>
    PROVE  /\ Len(s) \in Nat \ {0} /\ \A y : Holds(s, Len(s), y) <=> Head(s) = y
<1>1. Len(s) \in Nat \ {0} /\ Head(s) = s[1] BY HeadTailProperties, LenProperties, EmptySeq
<1>2. Len(s) + 1 - Len(s) = 1 /\ Len(s) \in 1..Len(s) BY <1>1
<1> QED BY <1>1, <1>2 DEF Holds

\* Whatever is somewhere in a stack has a place, and the other way round.
LEMMA HoldsDomain ==
    ASSUME NEW S, NEW s \in Seq(S), NEW y
    PROVE  (\E i \in DOMAIN s : s[i] = y) <=> (\E p \in Nat : Holds(s, p, y))
<1>1. Len(s) \in Nat /\ DOMAIN s = 1..Len(s) BY LenProperties
<1>2. ASSUME NEW i \in DOMAIN s, s[i] = y PROVE \E p \in Nat : Holds(s, p, y)
    <2>1. Len(s) + 1 - i \in 1..Len(s) /\ Len(s) + 1 - (Len(s) + 1 - i) = i BY <1>1
    <2>2. Holds(s, Len(s) + 1 - i, y) BY <1>2, <2>1 DEF Holds
    <2> QED BY <2>1, <2>2, <1>1
<1>3. ASSUME NEW p \in Nat, Holds(s, p, y) PROVE \E i \in DOMAIN s : s[i] = y
    <2>1. Len(s) + 1 - p \in 1..Len(s) /\ s[Len(s) + 1 - p] = y BY <1>1, <1>3 DEF Holds
    <2> QED BY <1>1, <2>1
<1> QED BY <1>2, <1>3

-----------------------------------------------------------------------------
(***************************************************************************)
(* Where the calls about a command are, and what a step does to them.      *)
(***************************************************************************)
Sits(u, p, at, c) == Holds(stack[u], p, Call(at, c))

Depth(t) == Len(stack[t])
Acts == {"start", "callback", "done", "failed"}
Bound == Acts \cup {"release"}

LEMMA EnterSits ==
    ASSUME TypeInv, NEW t \in Thread, NEW x \in Calls, Enter(t, <<x>>)
    PROVE  \A u \in Thread, p \in Nat : \A at, c :
               Sits(u, p, at, c)' <=> Sits(u, p, at, c) \/ (u = t /\ p = Depth(t) + 1 /\ x = Call(at, c))
<1> TAKE u \in Thread, p \in Nat
<1> TAKE at, c
<1>1. stack[t] \in Seq(Calls) /\ stack'[t] = <<x>> \o stack[t] /\ (u # t => stack'[u] = stack[u])
    BY DEF Enter, TypeInv, TypeOK
<1>2. CASE u = t
    <2> DEFINE s == stack[t]
               r == stack'[t]
               y == Call(at, c)
    <2>1. s \in Seq(Calls) /\ r = <<x>> \o s BY <1>1
    <2> HIDE DEF s, r, y
    <2>2. Holds(<<x>> \o s, p, y) <=> Holds(s, p, y) \/ (p = Len(s) + 1 /\ x = y) BY <2>1, HoldsPushed
    <2>3. Holds(r, p, y) <=> Holds(s, p, y) \/ (p = Len(s) + 1 /\ x = y) BY <2>1, <2>2
    <2> QED BY <1>2, <2>3 DEF Sits, Depth, s, r, y
<1>3. CASE u # t BY <1>1, <1>3 DEF Sits
<1> QED BY <1>2, <1>3

LEMMA GotoSits ==
    ASSUME TypeInv, NEW t \in Thread, stack[t] # <<>>, NEW x \in Calls, Goto(t, <<x>>)
    PROVE  \A u \in Thread, p \in Nat : \A at, c :
               Sits(u, p, at, c)' <=> \/ Sits(u, p, at, c) /\ ~(u = t /\ p = Depth(t))
                                      \/ u = t /\ p = Depth(t) /\ x = Call(at, c)
<1> TAKE u \in Thread, p \in Nat
<1> TAKE at, c
<1>1. stack[t] \in Seq(Calls) /\ stack'[t] = <<x>> \o Tail(stack[t]) /\ (u # t => stack'[u] = stack[u])
    BY DEF Goto, TypeInv, TypeOK
<1>2. /\ Tail(stack[t]) \in Seq(Calls) /\ Len(Tail(stack[t])) = Len(stack[t]) - 1 /\ Len(stack[t]) \in Nat
    BY <1>1, HeadTailProperties, LenProperties
<1>3. CASE u = t
    <2> DEFINE s == Tail(stack[t])
               r == stack'[t]
               y == Call(at, c)
    <2>1. s \in Seq(Calls) /\ r = <<x>> \o s /\ Len(s) + 1 = Depth(t) BY <1>1, <1>2 DEF Depth
    <2>2. Holds(s, p, y) <=> Sits(t, p, at, c) /\ p # Depth(t) BY <1>1, HoldsTail DEF Sits, Depth
    <2> HIDE DEF s, r, y
    <2>3. Holds(<<x>> \o s, p, y) <=> Holds(s, p, y) \/ (p = Len(s) + 1 /\ x = y) BY <2>1, HoldsPushed
    <2>4. Holds(r, p, y) <=> (Sits(t, p, at, c) /\ p # Depth(t)) \/ (p = Depth(t) /\ x = y)
        BY <2>1, <2>2, <2>3
    <2> QED BY <1>3, <2>4 DEF Sits, r, y
<1>4. CASE u # t BY <1>1, <1>4 DEF Sits
<1> QED BY <1>3, <1>4

LEMMA ReturnSits ==
    ASSUME TypeInv, NEW t \in Thread, stack[t] # <<>>, Return(t)
    PROVE  \A u \in Thread, p \in Nat : \A at, c :
               Sits(u, p, at, c)' <=> Sits(u, p, at, c) /\ ~(u = t /\ p = Depth(t))
<1> TAKE u \in Thread, p \in Nat
<1> TAKE at, c
<1>1. stack[t] \in Seq(Calls) /\ stack'[t] = <<>> \o Tail(stack[t]) /\ (u # t => stack'[u] = stack[u])
    BY DEF Return, Goto, TypeInv, TypeOK
<1>2. Tail(stack[t]) \in Seq(Calls) BY <1>1, HeadTailProperties
<1>3. stack'[t] = Tail(stack[t]) BY <1>1, <1>2, ConcatEmptySeq
<1>4. CASE u = t BY <1>1, <1>3, <1>4, HoldsTail DEF Sits, Depth
<1>5. CASE u # t BY <1>1, <1>5 DEF Sits
<1> QED BY <1>4, <1>5

LEMMA TopSits ==
    ASSUME TypeInv, NEW t \in Thread, stack[t] # <<>>
    PROVE  Depth(t) \in Nat /\ \A at, c : Sits(t, Depth(t), at, c) <=> Top(t) = Call(at, c)
<1>1. stack[t] \in Seq(Calls) BY DEF TypeInv, TypeOK
<1> QED BY <1>1, HoldsTop DEF Sits, Depth, Top

\* A place holds one call.
LEMMA SitsOne ==
    \A u, p, at, c, bt, d : Sits(u, p, at, c) /\ Sits(u, p, bt, d) => at = bt /\ c = d
<1>1. \A at, c : Call(at, c).at = at /\ Call(at, c).cmd = c BY DEF Call
<1>2. \A u, p, at, c, bt, d : Sits(u, p, at, c) /\ Sits(u, p, bt, d) => Call(at, c) = Call(bt, d)
    BY DEF Sits, Holds
<1> QED BY <1>1, <1>2

-----------------------------------------------------------------------------
(***************************************************************************)
(* The life of a command.  It is in one place at a time: waiting, being    *)
(* activated, active, on its way out, or released.                         *)
(***************************************************************************)
\* Where a command is.
ListInv ==
    /\ active \subseteq Cmd /\ marked \subseteq active /\ active \cap Range(pending) = {}
    /\ active \cup Range(pending) \cup released \subseteq asked
    /\ released \cap (active \cup Range(pending)) = {}

\* An activation is under way in one place, with the command marked until its
\* call-back has returned.
ActInv ==
    \A u \in Thread, p \in Nat, at \in Acts, c \in Cmd : Sits(u, p, at, c) =>
        /\ c \in asked /\ c \notin Range(pending)
        /\ c \in marked <=> at \in {"start", "callback"}
        /\ \A v \in Thread, q \in Nat, bt \in Acts : Sits(v, q, bt, c) => u = v /\ p = q

\* Whoever is about to tell a requester RELEASE is the only one, and the
\* command is in no list.
Out(c) == c \in asked \ (active \cup Range(pending) \cup released)
LeaveInv ==
    \A u \in Thread, c \in Cmd :
        /\ \A p \in Nat : Sits(u, p, "release", c) =>
               /\ Out(c) /\ \A v \in Thread : gap[v].cmd # c
               /\ \A v \in Thread, q \in Nat : Sits(v, q, "release", c) => u = v /\ p = q
        /\ gap[u].cmd = c => Out(c) /\ \A v \in Thread : gap[v].cmd = c => u = v

\* The timer runs from before the call-back to the end of the command.
TimerInv ==
    /\ \A c \in Cmd : timer[c] # "off" => c \in active
    /\ \A u \in Thread, p \in Nat, c \in Cmd : Sits(u, p, "callback", c) => timer[c] # "off"
    /\ \A c \in active \ marked : timer[c] = "off" => \E u \in Thread, p \in Nat : Sits(u, p, "failed", c)

LifeInv == ListInv /\ ActInv /\ LeaveInv /\ TimerInv

\* A step that moves no command: calls may return, but not one that still has
\* to take its command out.
LEMMA LifeQuiet ==
    ASSUME LifeInv, UNCHANGED <<pending, active, marked, released, gap>>, asked \subseteq asked',
           \A c \in Cmd : timer'[c] = "off" <=> timer[c] = "off",
           \A u \in Thread, p \in Nat, at \in Bound, c \in Cmd :
               /\ Sits(u, p, at, c)' => Sits(u, p, at, c)
               /\ Sits(u, p, "failed", c) /\ c \in active => Sits(u, p, "failed", c)'
    PROVE  LifeInv'
<1>1. Acts \subseteq Bound /\ "release" \in Bound /\ "callback" \in Bound BY DEF Acts, Bound
<1>2. ListInv' BY DEF LifeInv, ListInv
<1>3. ActInv' BY <1>1 DEF LifeInv, ActInv
<1>4. LeaveInv' BY <1>1 DEF LifeInv, LeaveInv, Out
<1>5. TimerInv' BY <1>1 DEF LifeInv, TimerInv, ListInv
<1> QED BY <1>2, <1>3, <1>4, <1>5 DEF LifeInv

\* A command that was asked for or waits becomes active: nobody holds it.
LEMMA LifeActivates ==
    ASSUME LifeInv, NEW t \in Thread, NEW c \in Cmd, c \notin asked \/ c \in Range(pending), Activate(c),
           Range(pending') = Range(pending) \ {c}, asked' = asked \cup {c},
           UNCHANGED <<released, timer, gap>>, Depth(t) \in Nat,
           \A u \in Thread, p \in Nat, at \in Bound, d \in Cmd :
               Sits(u, p, at, d)' <=> Sits(u, p, at, d) \/ (u = t /\ p = Depth(t) + 1 /\ at = "start" /\ d = c)
    PROVE  LifeInv'
<1>1. Acts \subseteq Bound /\ "release" \in Bound /\ "callback" \in Acts /\ "failed" \in Acts
    BY DEF Acts, Bound
<1>2. c \notin active /\ c \notin marked /\ c \notin released BY DEF LifeInv, ListInv
<1>3. /\ \A u \in Thread, p \in Nat, at \in Acts : ~Sits(u, p, at, c)
      /\ \A u \in Thread, p \in Nat : ~Sits(u, p, "release", c)
      /\ \A u \in Thread : gap[u].cmd # c
    BY DEF LifeInv, ActInv, LeaveInv, Out
<1>4. /\ active' = active \cup {c} /\ marked' = marked \cup {c} BY DEF Activate
<1>5. ListInv' BY <1>2, <1>4 DEF LifeInv, ListInv
<1>6. ActInv' BY <1>1, <1>3, <1>4 DEF LifeInv, ActInv
<1>7. LeaveInv' BY <1>1, <1>3, <1>4 DEF LifeInv, LeaveInv, Out, Acts
<1>8. TimerInv'
    <2>1. \A d \in Cmd : timer'[d] # "off" => d \in active' BY <1>4 DEF LifeInv, TimerInv
    <2>2. \A u \in Thread, p \in Nat, d \in Cmd : Sits(u, p, "callback", d)' => timer'[d] # "off"
        BY <1>1 DEF LifeInv, TimerInv
    <2>3. ASSUME NEW d \in active' \ marked', timer'[d] = "off"
          PROVE  \E u \in Thread, p \in Nat : Sits(u, p, "failed", d)'
        <3>1. d \in Cmd /\ d \in active \ marked /\ timer[d] = "off" BY <1>4, <2>3 DEF LifeInv, ListInv
        <3>2. PICK u \in Thread, p \in Nat : Sits(u, p, "failed", d) BY <3>1 DEF LifeInv, TimerInv
        <3> QED BY <1>1, <3>1, <3>2
    <2> QED BY <2>1, <2>2, <2>3 DEF TimerInv
<1> QED BY <1>5, <1>6, <1>7, <1>8 DEF LifeInv

\* The timer is started between the activation and the call-back.
LEMMA LifeTimed ==
    ASSUME LifeInv, NEW t \in Thread, NEW c \in Cmd, NEW n \in Nat, Sits(t, n, "start", c),
           UNCHANGED <<pending, active, marked, asked, released, gap>>,
           timer'[c] # "off", \A d \in Cmd \ {c} : timer'[d] = timer[d],
           \A u \in Thread, p \in Nat, at \in Bound, d \in Cmd :
               Sits(u, p, at, d)' <=> \/ Sits(u, p, at, d) /\ ~(u = t /\ p = n)
                                      \/ u = t /\ p = n /\ at = "callback" /\ d = c
    PROVE  LifeInv'
<1>1. /\ Acts \subseteq Bound /\ "release" \in Bound /\ "callback" \in Acts /\ "failed" \in Acts
      /\ "start" \in Acts /\ "release" \notin Acts
    BY DEF Acts, Bound
<1>2. /\ c \in asked /\ c \notin Range(pending) /\ c \in marked /\ c \in active
      /\ \A u \in Thread, p \in Nat, at \in Acts : Sits(u, p, at, c) => u = t /\ p = n
    BY <1>1 DEF LifeInv, ActInv, ListInv
<1>3. ListInv' BY DEF LifeInv, ListInv
<1>4. ActInv'
    <2>1. \A u \in Thread, p \in Nat, at \in Acts : Sits(u, p, at, c)' => u = t /\ p = n /\ at = "callback"
        BY <1>1, <1>2
    <2>2. \A u \in Thread, p \in Nat, at \in Acts, d \in Cmd : d # c /\ Sits(u, p, at, d)' => Sits(u, p, at, d)
        BY <1>1
    <2> QED BY <1>1, <1>2, <2>1, <2>2 DEF LifeInv, ActInv
<1>5. LeaveInv' BY <1>1 DEF LifeInv, LeaveInv, Out
<1>6. TimerInv'
    <2>1. \A d \in Cmd : timer'[d] # "off" => d \in active' BY <1>2 DEF LifeInv, TimerInv
    <2>2. \A u \in Thread, p \in Nat, d \in Cmd : Sits(u, p, "callback", d)' => timer'[d] # "off"
        BY <1>1 DEF LifeInv, TimerInv
    <2>3. ASSUME NEW d \in active' \ marked', timer'[d] = "off"
          PROVE  \E u \in Thread, p \in Nat : Sits(u, p, "failed", d)'
        <3>1. d \in Cmd /\ d # c /\ d \in active \ marked /\ timer[d] = "off"
            BY <1>2, <2>3 DEF LifeInv, ListInv
        <3>2. PICK u \in Thread, p \in Nat : Sits(u, p, "failed", d) BY <3>1 DEF LifeInv, TimerInv
        <3>3. ~(u = t /\ p = n) BY <3>1, <3>2, SitsOne
        <3>4. Sits(u, p, "failed", d)' BY <1>1, <3>1, <3>2, <3>3
        <3> QED BY <3>4
    <2> QED BY <2>1, <2>2, <2>3 DEF TimerInv
<1> QED BY <1>3, <1>4, <1>5, <1>6 DEF LifeInv

\* The call-back has returned, or was never made: the mark goes.
LEMMA LifeActivated ==
    ASSUME LifeInv, NEW t \in Thread, NEW c \in Cmd, NEW n \in Nat, NEW from, NEW to, Sits(t, n, from, c),
           (from = "start" /\ to = "failed") \/ (from = "callback" /\ to \in {"done", "failed"}),
           UNCHANGED <<pending, active, asked, released, timer, gap>>, marked' = marked \ {c},
           \A u \in Thread, p \in Nat, at \in Bound, d \in Cmd :
               Sits(u, p, at, d)' <=> \/ Sits(u, p, at, d) /\ ~(u = t /\ p = n)
                                      \/ u = t /\ p = n /\ at = to /\ d = c
    PROVE  LifeInv'
<1>1. /\ Acts \subseteq Bound /\ "release" \in Bound /\ "callback" \in Acts /\ "failed" \in Acts
      /\ "release" \notin Acts /\ from \in Acts /\ to \in Acts \ {"start", "callback"}
    BY DEF Acts, Bound
<1>2. /\ c \in asked /\ c \notin Range(pending) /\ c \in marked /\ c \in active
      /\ \A u \in Thread, p \in Nat, at \in Acts : Sits(u, p, at, c) => u = t /\ p = n
    BY <1>1 DEF LifeInv, ActInv, ListInv
<1>3. ListInv' BY DEF LifeInv, ListInv
<1>4. ActInv'
    <2>1. \A u \in Thread, p \in Nat, at \in Acts : Sits(u, p, at, c)' => u = t /\ p = n /\ at = to
        BY <1>1, <1>2
    <2>2. \A u \in Thread, p \in Nat, at \in Acts, d \in Cmd : d # c /\ Sits(u, p, at, d)' => Sits(u, p, at, d)
        BY <1>1
    <2> QED BY <1>1, <1>2, <2>1, <2>2 DEF LifeInv, ActInv
<1>5. LeaveInv' BY <1>1 DEF LifeInv, LeaveInv, Out
<1>6. TimerInv'
    <2>1. \A d \in Cmd : timer'[d] # "off" => d \in active' BY DEF LifeInv, TimerInv
    <2>2. \A u \in Thread, p \in Nat, d \in Cmd : Sits(u, p, "callback", d)' => timer'[d] # "off"
        BY <1>1 DEF LifeInv, TimerInv
    <2>3. ASSUME NEW d \in active' \ marked', timer'[d] = "off"
          PROVE  \E u \in Thread, p \in Nat : Sits(u, p, "failed", d)'
        <3>1. CASE d = c
            <4>1. to = "failed" BY <2>3, <3>1 DEF LifeInv, TimerInv
            <4>2. Sits(t, n, "failed", c)' BY <1>1, <4>1
            <4> QED BY <3>1, <4>2
        <3>2. CASE d # c
            <4>1. d \in Cmd /\ d \in active \ marked /\ timer[d] = "off" BY <3>2, <2>3 DEF LifeInv, ListInv
            <4>2. PICK u \in Thread, p \in Nat : Sits(u, p, "failed", d) BY <4>1 DEF LifeInv, TimerInv
            <4>3. ~(u = t /\ p = n) BY <3>2, <4>2, SitsOne
            <4>4. Sits(u, p, "failed", d)' BY <1>1, <4>1, <4>2, <4>3
            <4> QED BY <4>4
        <3> QED BY <3>1, <3>2
    <2> QED BY <2>1, <2>2, <2>3 DEF TimerInv
<1> QED BY <1>3, <1>4, <1>5, <1>6 DEF LifeInv

\* An active command is taken out: its release is to follow.
LEMMA LifeRemoved ==
    ASSUME LifeInv, NEW t \in Thread, NEW c \in active \ marked, NEW n \in Nat,
           active' = active \ {c}, timer'[c] = "off", \A d \in Cmd \ {c} : timer'[d] = timer[d],
           UNCHANGED <<pending, marked, asked, released, gap>>,
           \A u \in Thread, p \in Nat, at \in Bound, d \in Cmd :
               /\ Sits(u, p, at, d)' => Sits(u, p, at, d) \/ (u = t /\ p = n /\ at = "release" /\ d = c)
               /\ Sits(u, p, "failed", d) /\ d # c => Sits(u, p, "failed", d)'
    PROVE  LifeInv'
<1>1. /\ Acts \subseteq Bound /\ "release" \in Bound /\ "callback" \in Acts /\ "failed" \in Acts
      /\ "release" \notin Acts
    BY DEF Acts, Bound
<1>2. /\ c \in Cmd /\ c \in asked /\ c \notin Range(pending) /\ c \notin released
      /\ \A u \in Thread, p \in Nat : ~Sits(u, p, "release", c)
      /\ \A u \in Thread : gap[u].cmd # c
    BY DEF LifeInv, ListInv, LeaveInv, Out
<1>3. ListInv' BY DEF LifeInv, ListInv
<1>4. ActInv' BY <1>1 DEF LifeInv, ActInv
<1>5. LeaveInv' BY <1>1, <1>2 DEF LifeInv, LeaveInv, Out
<1>6. TimerInv'
    <2>1. \A d \in Cmd : timer'[d] # "off" => d \in active' BY <1>2 DEF LifeInv, TimerInv
    <2>2. \A u \in Thread, p \in Nat, d \in Cmd : Sits(u, p, "callback", d)' => timer'[d] # "off"
        <3> TAKE u \in Thread, p \in Nat, d \in Cmd
        <3>1. Sits(u, p, "callback", d)' => Sits(u, p, "callback", d) BY <1>1
        <3>2. Sits(u, p, "callback", d) => timer[d] # "off" /\ d \in marked
            BY <1>1 DEF LifeInv, TimerInv, ActInv
        <3> QED BY <3>1, <3>2
    <2>3. ASSUME NEW d \in active' \ marked', timer'[d] = "off"
          PROVE  \E u \in Thread, p \in Nat : Sits(u, p, "failed", d)'
        <3>1. d \in Cmd /\ d # c /\ d \in active \ marked /\ timer[d] = "off"
            BY <2>3 DEF LifeInv, ListInv
        <3>2. PICK u \in Thread, p \in Nat : Sits(u, p, "failed", d) BY <3>1 DEF LifeInv, TimerInv
        <3>3. Sits(u, p, "failed", d)' BY <1>1, <3>1, <3>2
        <3> QED BY <3>3
    <2> QED BY <2>1, <2>2, <2>3 DEF TimerInv
<1> QED BY <1>3, <1>4, <1>5, <1>6 DEF LifeInv

\* A requester is told, by the call that was to tell it.
LEMMA LifeReleased ==
    ASSUME LifeInv, NEW t \in Thread, NEW c \in Cmd, NEW n \in Nat, Sits(t, n, "release", c),
           released' = released \cup {c}, UNCHANGED <<pending, active, marked, asked, timer, gap>>,
           \A u \in Thread, p \in Nat, at \in Bound, d \in Cmd :
               Sits(u, p, at, d)' <=> Sits(u, p, at, d) /\ ~(u = t /\ p = n)
    PROVE  LifeInv'
<1>1. Acts \subseteq Bound /\ "release" \in Bound /\ "callback" \in Acts /\ "failed" \in Acts
    BY DEF Acts, Bound
<1>2. /\ Out(c) /\ \A v \in Thread : gap[v].cmd # c
      /\ \A v \in Thread, q \in Nat : Sits(v, q, "release", c) => v = t /\ q = n
    BY DEF LifeInv, LeaveInv
<1>3. ListInv' BY <1>2 DEF LifeInv, ListInv, Out
<1>4. ActInv' BY <1>1 DEF LifeInv, ActInv
<1>5. LeaveInv' BY <1>1, <1>2 DEF LifeInv, LeaveInv, Out
<1>6. \A u \in Thread, p \in Nat, d \in Cmd : Sits(u, p, "failed", d) => Sits(u, p, "failed", d)'
    <2> TAKE u \in Thread, p \in Nat, d \in Cmd
    <2>1. Sits(u, p, "failed", d) => ~(u = t /\ p = n) BY SitsOne
    <2> QED BY <1>1, <2>1
<1>7. TimerInv' BY <1>1, <1>6 DEF LifeInv, TimerInv, ListInv
<1> QED BY <1>3, <1>4, <1>5, <1>7 DEF LifeInv

\* A cancel has unlinked a command, and tells its requester next.
LEMMA LifeUnlinked ==
    ASSUME LifeInv, NEW t \in Thread, NEW c \in Cmd, c \in Range(pending) \/ c \in active \ marked,
           Range(pending') = Range(pending) \ {c}, active' = active \ {c},
           timer'[c] = "off", \A d \in Cmd \ {c} : timer'[d] = timer[d],
           gap'[t].cmd = c, \A u \in Thread \ {t} : gap'[u] = gap[u],
           UNCHANGED <<marked, asked, released>>,
           \A u \in Thread, p \in Nat, at \in Bound, d \in Cmd : Sits(u, p, at, d)' <=> Sits(u, p, at, d)
    PROVE  LifeInv'
<1>1. /\ Acts \subseteq Bound /\ "release" \in Bound /\ "callback" \in Acts /\ "failed" \in Acts
    BY DEF Acts, Bound
<1>2. /\ c \in asked /\ c \notin released /\ c \notin marked
      /\ \A u \in Thread, p \in Nat : ~Sits(u, p, "release", c)
      /\ \A u \in Thread : gap[u].cmd # c
    BY DEF LifeInv, ListInv, LeaveInv, Out
<1>3. ListInv' BY <1>2 DEF LifeInv, ListInv
<1>4. ActInv' BY <1>1 DEF LifeInv, ActInv
<1>5. LeaveInv'
    <2>1. \A d \in Cmd : Out(d) => Out(d)' BY DEF Out
    <2>2. Out(c)' BY <1>2 DEF Out
    <2> QED BY <1>1, <1>2, <2>1, <2>2 DEF LifeInv, LeaveInv
<1>6. TimerInv'
    <2>1. \A d \in Cmd : timer'[d] # "off" => d \in active' BY DEF LifeInv, TimerInv
    <2>2. \A u \in Thread, p \in Nat, d \in Cmd : Sits(u, p, "callback", d)' => timer'[d] # "off"
        <3> TAKE u \in Thread, p \in Nat, d \in Cmd
        <3>1. Sits(u, p, "callback", d)' => Sits(u, p, "callback", d) BY <1>1
        <3>2. Sits(u, p, "callback", d) => timer[d] # "off" /\ d \in marked
            BY <1>1 DEF LifeInv, TimerInv, ActInv
        <3> QED BY <3>1, <3>2, <1>2
    <2>3. ASSUME NEW d \in active' \ marked', timer'[d] = "off"
          PROVE  \E u \in Thread, p \in Nat : Sits(u, p, "failed", d)'
        <3>1. d \in Cmd /\ d # c /\ d \in active \ marked /\ timer[d] = "off"
            BY <2>3 DEF LifeInv, ListInv
        <3>2. PICK u \in Thread, p \in Nat : Sits(u, p, "failed", d) BY <3>1 DEF LifeInv, TimerInv
        <3> QED BY <1>1, <3>1, <3>2
    <2> QED BY <2>1, <2>2, <2>3 DEF TimerInv
<1> QED BY <1>3, <1>4, <1>5, <1>6 DEF LifeInv

\* The requester of an unlinked command is told.
LEMMA LifeTold ==
    ASSUME LifeInv, NEW t \in Thread, gap[t].cmd \in Cmd, released' = released \cup {gap[t].cmd},
           gap'[t].cmd \notin Cmd, \A u \in Thread \ {t} : gap'[u] = gap[u],
           UNCHANGED <<pending, active, marked, asked, timer>>,
           \A u \in Thread, p \in Nat, at \in Bound, d \in Cmd : Sits(u, p, at, d)' <=> Sits(u, p, at, d)
    PROVE  LifeInv'
<1> DEFINE c == gap[t].cmd
<1>1. /\ Acts \subseteq Bound /\ "release" \in Bound /\ "callback" \in Acts /\ "failed" \in Acts
    BY DEF Acts, Bound
<1>2. /\ Out(c) /\ \A u \in Thread : gap[u].cmd = c => u = t
      /\ \A u \in Thread, p \in Nat : ~Sits(u, p, "release", c)
    BY DEF LifeInv, LeaveInv
<1>3. ListInv' BY <1>2 DEF LifeInv, ListInv, Out
<1>4. ActInv' BY <1>1 DEF LifeInv, ActInv
<1>5. LeaveInv'
    <2>1. \A d \in Cmd \ {c} : Out(d) => Out(d)' BY DEF Out
    <2>2. \A u \in Thread : gap'[u].cmd # c BY <1>2
    <2>3. \A u \in Thread, d \in Cmd : gap'[u].cmd = d => gap[u].cmd = d /\ d # c BY <2>2
    <2>4. \A u \in Thread, p \in Nat, d \in Cmd : Sits(u, p, "release", d)' <=> Sits(u, p, "release", d) /\ d # c
        BY <1>1, <1>2
    <2> QED BY <2>1, <2>3, <2>4 DEF LifeInv, LeaveInv
<1>6. TimerInv' BY <1>1 DEF LifeInv, TimerInv, ListInv
<1> QED BY <1>3, <1>4, <1>5, <1>6 DEF LifeInv

\* A new command has to wait.
LEMMA LifeWaits ==
    ASSUME LifeInv, NEW c \in Cmd \ asked, asked' = asked \cup {c}, Range(pending') = Range(pending) \cup {c},
           UNCHANGED <<active, marked, released, timer, gap, stack>>
    PROVE  LifeInv'
<1>1. \A u, p, at, d : Sits(u, p, at, d)' <=> Sits(u, p, at, d) BY DEF Sits
<1>2. ListInv' BY DEF LifeInv, ListInv
<1>3. ActInv' BY <1>1 DEF LifeInv, ActInv
<1>4. LeaveInv'
    <2>1. \A d \in Cmd : Out(d) => Out(d)' BY DEF Out
    <2> QED BY <1>1, <2>1 DEF LifeInv, LeaveInv
<1>5. TimerInv' BY <1>1 DEF LifeInv, TimerInv
<1> QED BY <1>2, <1>3, <1>4, <1>5 DEF LifeInv

-----------------------------------------------------------------------------
(***************************************************************************)
(* What the operations do to the pending list.                             *)
(***************************************************************************)
LEMMA RangeTail ==
    ASSUME NEW S, NEW s \in Seq(S), s # <<>>, IsInjective(s)
    PROVE  Range(Tail(s)) = Range(s) \ {Head(s)} /\ Head(s) \in Range(s)
<1>1. /\ Len(s) \in Nat \ {0} /\ DOMAIN s = 1..Len(s) /\ Head(s) = s[1]
      /\ Tail(s) \in Seq(S) /\ Len(Tail(s)) = Len(s) - 1
      /\ \A i \in 1..Len(s) - 1 : Tail(s)[i] = s[i + 1]
    BY HeadTailProperties, LenProperties, EmptySeq
<1>2. DOMAIN Tail(s) = 1..Len(s) - 1 BY <1>1, LenProperties
<1>3. ASSUME NEW i \in DOMAIN Tail(s) PROVE Tail(s)[i] \in Range(s) \ {Head(s)}
    <2>1. i + 1 \in DOMAIN s /\ i + 1 # 1 /\ 1 \in DOMAIN s /\ Tail(s)[i] = s[i + 1] BY <1>1, <1>2, <1>3
    <2>2. s[i + 1] # s[1] BY <2>1 DEF IsInjective
    <2> QED BY <2>1, <2>2, <1>1 DEF Range
<1>4. ASSUME NEW i \in DOMAIN s, s[i] # Head(s) PROVE s[i] \in Range(Tail(s))
    <2>1. i - 1 \in 1..Len(s) - 1 /\ (i - 1) + 1 = i BY <1>1, <1>4
    <2>2. i - 1 \in DOMAIN Tail(s) /\ Tail(s)[i - 1] = s[i] BY <1>1, <1>2, <2>1
    <2> QED BY <2>2 DEF Range
<1> QED BY <1>1, <1>3, <1>4 DEF Range

LEMMA RangeRemoveAt ==
    ASSUME NEW S, NEW s \in Seq(S), IsInjective(s), NEW i \in DOMAIN s
    PROVE  Range(RemoveAt(s, i)) = Range(s) \ {s[i]}
<1> DEFINE n == Len(s)
           a == SubSeq(s, 1, i - 1)
           b == SubSeq(s, i + 1, n)
           r == a \o b
<1>1. n \in Nat /\ DOMAIN s = 1..n /\ i \in 1..n /\ RemoveAt(s, i) = r BY LenProperties DEF RemoveAt
<1>2. a \in Seq(S) /\ Len(a) = i - 1 /\ \A j \in 1..i - 1 : a[j] = s[j]
    BY <1>1, SubSeqProperties, ElementOfSeq
<1>3. b \in Seq(S) /\ Len(b) = n - i /\ \A j \in 1..n - i : b[j] = s[i + j]
    <2> HIDE DEF n
    <2>1. i + 1 \in 1..n + 1 /\ n \in i..n BY <1>1
    <2>2. \A k \in i + 1..n : s[k] \in S BY <1>1, ElementOfSeq
    <2>3. b \in Seq(S) /\ Len(b) = n - i BY <1>1, <2>1, <2>2, SubSeqProperties
    <2>4. ASSUME NEW j \in 1..n - i PROVE b[j] = s[i + j]
        <3>1. i + 1 \in Int /\ n \in Int /\ j \in 1..n - (i + 1) + 1 BY <1>1
        <3>2. \A k \in 1..n - (i + 1) + 1 : b[k] = s[(i + 1) + k - 1] BY <2>2, <3>1, SubSeqProperties
        <3>3. (i + 1) + j - 1 = i + j BY <1>1
        <3> QED BY <3>1, <3>2, <3>3
    <2> QED BY <2>3, <2>4
<1> HIDE DEF n, a, b
<1>4. /\ r \in Seq(S) /\ Len(r) = (i - 1) + (n - i)
      /\ \A j \in 1..(i - 1) + (n - i) : r[j] = IF j <= i - 1 THEN a[j] ELSE b[j - (i - 1)]
    <2>1. /\ r \in Seq(S) /\ Len(r) = Len(a) + Len(b)
          /\ \A j \in 1..Len(a) + Len(b) : r[j] = IF j <= Len(a) THEN a[j] ELSE b[j - Len(a)]
        BY <1>2, <1>3, ConcatProperties
    <2> QED BY <2>1, <1>2, <1>3
<1>5. DOMAIN r = 1..n - 1 BY <1>1, <1>4, LenProperties
<1> HIDE DEF r
<1>6. \A j \in 1..n - 1 : r[j] = s[IF j < i THEN j ELSE j + 1]
    <2> TAKE j \in 1..n - 1
    <2>1. CASE j < i
        <3>1. j \in 1..i - 1 /\ j <= i - 1 /\ j \in 1..(i - 1) + (n - i) BY <2>1, <1>1
        <3>2. r[j] = a[j] BY <3>1, <1>4
        <3>3. a[j] = s[j] BY <3>1, <1>2
        <3> QED BY <2>1, <3>2, <3>3
    <2>2. CASE ~(j < i)
        <3>1. /\ j - (i - 1) \in 1..n - i /\ i + (j - (i - 1)) = j + 1 /\ ~(j <= i - 1)
              /\ j \in 1..(i - 1) + (n - i)
            BY <2>2, <1>1
        <3>2. r[j] = b[j - (i - 1)] BY <3>1, <1>4
        <3>3. b[j - (i - 1)] = s[i + (j - (i - 1))] BY <3>1, <1>3
        <3> QED BY <2>2, <3>1, <3>2, <3>3
    <2> QED BY <2>1, <2>2
<1>7. ASSUME NEW j \in DOMAIN r PROVE r[j] \in Range(s) \ {s[i]}
    <2> DEFINE k == IF j < i THEN j ELSE j + 1
    <2>1. k \in DOMAIN s /\ k # i BY <1>1, <1>5, <1>7
    <2>2. r[j] = s[k] BY <1>5, <1>6, <1>7
    <2> HIDE DEF k
    <2>3. s[k] # s[i] BY <2>1 DEF IsInjective
    <2> QED BY <2>1, <2>2, <2>3 DEF Range
<1>8. ASSUME NEW k \in DOMAIN s, s[k] # s[i] PROVE s[k] \in Range(r)
    <2> DEFINE j == IF k < i THEN k ELSE k - 1
    <2>1. k # i BY <1>8
    <2>2. j \in 1..n - 1 /\ (IF j < i THEN j ELSE j + 1) = k BY <2>1, <1>1
    <2>3. j \in DOMAIN r /\ r[j] = s[k] BY <2>2, <1>5, <1>6
    <2> QED BY <2>3 DEF Range
<1>9. Range(r) = Range(s) \ {s[i]} BY <1>7, <1>8 DEF Range
<1> QED BY <1>1, <1>9

LEMMA RangeAdded ==
    ASSUME NEW S, NEW s \in Seq(S), NEW c \in S
    PROVE  Range(<<c>> \o s) = Range(s) \cup {c} /\ Range(Append(s, c)) = Range(s) \cup {c}
<1>1. Len(s) \in Nat /\ DOMAIN s = 1..Len(s) BY LenProperties
<1>2. Range(Append(s, c)) = Range(s) \cup {c}
    <2>1. /\ DOMAIN Append(s, c) = 1..Len(s) + 1 /\ Append(s, c)[Len(s) + 1] = c
          /\ \A i \in 1..Len(s) : Append(s, c)[i] = s[i]
        BY <1>1, AppendProperties, LenProperties
    <2> QED BY <1>1, <2>1 DEF Range
<1>3. Range(<<c>> \o s) = Range(s) \cup {c}
    <2> DEFINE r == <<c>> \o s
    <2>1. <<c>> \in Seq(S) /\ Len(<<c>>) = 1 /\ <<c>>[1] = c OBVIOUS
    <2>2. /\ r \in Seq(S) /\ Len(r) = 1 + Len(s)
          /\ \A i \in 1..1 + Len(s) : r[i] = IF i <= 1 THEN <<c>>[i] ELSE s[i - 1]
        BY <2>1, ConcatProperties
    <2>3. DOMAIN r = 1..Len(s) + 1 BY <1>1, <2>2, LenProperties
    <2> HIDE DEF r
    <2>4. r[1] = c /\ \A i \in 1..Len(s) : i + 1 \in DOMAIN r /\ r[i + 1] = s[i]
        <3>1. 1 \in 1..1 + Len(s) BY <1>1
        <3>2. ASSUME NEW i \in 1..Len(s) PROVE i + 1 \in DOMAIN r /\ r[i + 1] = s[i]
            <4>1. i + 1 \in 1..1 + Len(s) /\ ~(i + 1 <= 1) /\ (i + 1) - 1 = i BY <1>1, <3>2
            <4> QED BY <4>1, <2>2, <2>3
        <3> QED BY <3>1, <3>2, <2>1, <2>2
    <2>5. \A i \in DOMAIN r : i = 1 \/ (i - 1 \in DOMAIN s /\ r[i] = s[i - 1]) BY <1>1, <2>2, <2>3
    <2>6. 1 \in DOMAIN r BY <1>1, <2>3
    <2>7. Range(r) = Range(s) \cup {c} BY <1>1, <2>4, <2>5, <2>6 DEF Range
    <2> QED BY <2>7 DEF r
<1> QED BY <1>2, <1>3

-----------------------------------------------------------------------------
(***************************************************************************)
(* The steps.                                                              *)
(***************************************************************************)
\* The top of the stack of a thread that is in a call.
LEMMA TopCall ==
    ASSUME TypeInv, NEW t \in Thread, NEW at, In(t, at)
    PROVE  /\ stack[t] # <<>> /\ Depth(t) \in Nat
           /\ at \in Bound =>
                  /\ Top(t).cmd \in Cmd /\ Sits(t, Depth(t), at, Top(t).cmd)
                  /\ \A bt, c : Call(bt, c) = Top(t) => bt = at /\ c = Top(t).cmd
           /\ at \notin Bound => \A bt \in Bound : \A c : ~Sits(t, Depth(t), bt, c)
<1>1. stack[t] # <<>> /\ Top(t).at = at BY DEF In, Top
<1>2. stack \in [Thread -> Seq(Calls)] BY DEF TypeInv, TypeOK
<1>3. Top(t) \in Calls /\ (at \notin {"move", "cancel"} => Top(t).cmd \in Cmd) BY <1>1, <1>2, TopTypes
<1>4. Depth(t) \in Nat /\ \A bt, c : Sits(t, Depth(t), bt, c) <=> Top(t) = Call(bt, c) BY <1>1, TopSits
<1>5. \A bt, c : Call(bt, c).at = bt /\ Call(bt, c).cmd = c BY DEF Call
<1>6. ASSUME at \in Bound PROVE Top(t) = Call(at, Top(t).cmd)
    <2>1. at \notin {"move", "cancel"} BY <1>6 DEF Bound, Acts
    <2>2. Top(t) \in [at : {"start", "callback", "done", "failed", "release", "timeout"}, cmd : Cmd]
        BY <1>1, <1>3, <2>1 DEF Calls
    <2> QED BY <1>1, <2>2 DEF Call
<1>7. at \in Bound => at \notin {"move", "cancel"} BY DEF Bound, Acts
<1>8. \A bt, c : Call(bt, c) = Top(t) => bt = at /\ c = Top(t).cmd BY <1>1, <1>5
<1>9. CASE at \in Bound BY <1>1, <1>3, <1>4, <1>6, <1>7, <1>8, <1>9
<1>10. CASE at \notin Bound BY <1>1, <1>4, <1>8, <1>10
<1> QED BY <1>9, <1>10

LEMMA WalkTypes ==
    ASSUME NEW q \in Queue, NEW scope \in SUBSET Cmd, NEW one \in BOOLEAN
    PROVE  Walk(q, scope, one) \in Calls /\ Walk(q, scope, one).at \notin Bound
<1>1. -1 \in {-1} \cup Nat /\ None \in Cmd \cup {None} OBVIOUS
<1>2. Walk(q, scope, one) \in [at : {"cancel"}, q : Queue, scope : SUBSET Cmd, one : BOOLEAN,
                               left : {-1} \cup Nat, prev : Cmd \cup {None}]
    BY <1>1 DEF Walk
<1> QED BY <1>2 DEF Calls, Walk, Bound, Acts

\* Two calls are pushed.
LEMMA HoldsTwo ==
    ASSUME NEW S, NEW s \in Seq(S), NEW x \in S, NEW y \in S, NEW p \in Nat, NEW z
    PROVE  Holds(<<x, y>> \o s, p, z) <=>
               Holds(s, p, z) \/ (p = Len(s) + 1 /\ y = z) \/ (p = Len(s) + 2 /\ x = z)
<1> DEFINE r == <<y>> \o s
<1>1. <<y>> \in Seq(S) /\ <<x>> \in Seq(S) /\ <<x>> \o <<y>> = <<x, y>>
    <2>1. <<y>> \in Seq(S) /\ <<x>> \in Seq(S) OBVIOUS
    <2> DEFINE a == <<x>>
               b == <<y>>
               d == <<x, y>>
    <2>2. a \in Seq(S) /\ b \in Seq(S) /\ Len(a) = 1 /\ Len(b) = 1 /\ a[1] = x /\ b[1] = y OBVIOUS
    <2>3. d \in Seq(S) /\ Len(d) = 2 /\ d[1] = x /\ d[2] = y OBVIOUS
    <2> HIDE DEF a, b, d
    <2>4. /\ a \o b \in Seq(S) /\ Len(a \o b) = Len(a) + Len(b)
          /\ \A i \in 1..Len(a) + Len(b) : (a \o b)[i] = IF i <= Len(a) THEN a[i] ELSE b[i - Len(a)]
        BY <2>2, ConcatProperties
    <2>5. \A i \in 1..2 : (a \o b)[i] = d[i]
        <3>1. (a \o b)[1] = a[1] /\ (a \o b)[2] = b[1] BY <2>2, <2>4
        <3>2. \A i \in 1..2 : i = 1 \/ i = 2 OBVIOUS
        <3> QED BY <3>1, <3>2, <2>2, <2>3
    <2>6. a \o b = d BY <2>2, <2>3, <2>4, <2>5, SeqEqual
    <2> QED BY <2>1, <2>6 DEF a, b, d
<1>2. r \in Seq(S) /\ Len(r) = 1 + Len(s) /\ Len(s) \in Nat
    <2>1. Len(<<y>>) = 1 OBVIOUS
    <2> QED BY <1>1, <2>1, ConcatProperties, LenProperties
<1>3. <<x, y>> \o s = <<x>> \o r
    <2> DEFINE a == <<x>>
               b == <<y>>
    <2>1. a \in Seq(S) /\ b \in Seq(S) /\ <<x, y>> = a \o b /\ r = b \o s BY <1>1
    <2> HIDE DEF a, b, r
    <2>2. (a \o b) \o s = a \o (b \o s) BY <2>1, ConcatAssociative
    <2>3. <<x, y>> \o s = a \o r BY <2>1, <2>2
    <2> QED BY <2>3 DEF a
<1>4. Holds(r, p, z) <=> Holds(s, p, z) \/ (p = Len(s) + 1 /\ y = z) BY HoldsPushed
<1>5. Holds(<<x>> \o r, p, z) <=> Holds(r, p, z) \/ (p = Len(r) + 1 /\ x = z)
    <2> HIDE DEF r
    <2> QED BY <1>2, HoldsPushed
<1>6. Len(r) + 1 = Len(s) + 2 BY <1>2
<1> HIDE DEF r
<1> QED BY <1>3, <1>4, <1>5, <1>6

LEMMA PushKeepsLife ==
    ASSUME TypeInv, LifeInv, NEW t \in Thread, NEW x \in Calls, x.at \notin Bound, Enter(t, <<x>>),
           UNCHANGED <<pending, active, marked, released, asked, timer, gap>>
    PROVE  LifeInv'
<1>1. \A at \in Bound : \A c : x # Call(at, c) BY DEF Call
<1>2. \A u \in Thread, p \in Nat, at \in Bound, c \in Cmd : Sits(u, p, at, c)' <=> Sits(u, p, at, c)
    BY <1>1, EnterSits
<1>3. "failed" \in Bound BY DEF Bound, Acts
<1> QED BY <1>2, <1>3, LifeQuiet

\* What is not bound to a command may come and go.
LEMMA PopKeepsLife ==
    ASSUME TypeInv, LifeInv, NEW t \in Thread, NEW at, In(t, at), at \notin Bound,
           Return(t) \/ \E x \in Calls : x.at \notin Bound /\ Goto(t, <<x>>),
           UNCHANGED <<pending, active, marked, released, asked, timer, gap>>
    PROVE  LifeInv'
<1>1. stack[t] # <<>> /\ \A bt \in Bound : \A c : ~Sits(t, Depth(t), bt, c) BY TopCall
<1>2. \A u \in Thread, p \in Nat, bt \in Bound, c \in Cmd : Sits(u, p, bt, c)' <=> Sits(u, p, bt, c)
    <2>1. CASE Return(t) BY <2>1, <1>1, ReturnSits
    <2>2. ASSUME NEW x \in Calls, x.at \notin Bound, Goto(t, <<x>>)
          PROVE  \A u \in Thread, p \in Nat, bt \in Bound, c \in Cmd : Sits(u, p, bt, c)' <=> Sits(u, p, bt, c)
        <3>1. \A bt \in Bound : \A c : x # Call(bt, c) BY <2>2 DEF Call
        <3> QED BY <2>2, <3>1, <1>1, GotoSits
    <2> QED BY <2>1, <2>2
<1>3. "failed" \in Bound BY DEF Bound, Acts
<1> QED BY <1>2, <1>3, LifeQuiet

LEMMA DequeueLife ==
    ASSUME TypeInv, LifeInv, NEW t \in Thread, NEW c \in active, NEW calls \in Seq(Calls), Dequeue(t, c, calls),
           UNCHANGED <<pending, mail, asked, released, gap>>,
           \A p \in Nat : \A y : Holds(calls, p, y) => Holds(stack[t], p, y),
           \A p \in Nat, d \in Cmd : d # c /\ Sits(t, p, "failed", d) => Holds(calls, p, Call("failed", d))
    PROVE  LifeInv'
<1>1. c \in Cmd /\ "failed" \in Bound BY DEF LifeInv, ListInv, Bound, Acts
<1>2. CASE c \in marked
    <2>1. stack'[t] = calls /\ \A u \in Thread \ {t} : stack'[u] = stack[u]
        BY <1>2 DEF Dequeue, TypeInv, TypeOK
    <2>2. \A u \in Thread, p \in Nat, at \in Bound, d \in Cmd : Sits(u, p, at, d)' => Sits(u, p, at, d)
        BY <2>1 DEF Sits
    <2>3. \A u \in Thread, p \in Nat, d \in Cmd : Sits(u, p, "failed", d) => Sits(u, p, "failed", d)'
        <3> TAKE u \in Thread, p \in Nat, d \in Cmd
        <3>1. Sits(u, p, "failed", d) => d # c BY <1>2 DEF LifeInv, ActInv, Acts
        <3> QED BY <3>1, <2>1 DEF Sits
    <2>4. UNCHANGED <<active, marked, timer>> BY <1>2 DEF Dequeue
    <2> QED BY <2>2, <2>3, <2>4, LifeQuiet
<1>3. CASE c \notin marked
    <2> DEFINE n == Len(calls) + 1
               x == Call("move", None)
               y == Call("release", c)
               r == stack'[t]
    <2>1. r = <<x, y>> \o calls /\ \A u \in Thread \ {t} : stack'[u] = stack[u]
        BY <1>3 DEF Dequeue, TypeInv, TypeOK
    <2>2. /\ x \in Calls /\ y \in Calls /\ n \in Nat
          /\ \A at \in Bound : \A d : x # Call(at, d)
          /\ \A at, d : y = Call(at, d) <=> at = "release" /\ d = c
        BY <1>1, LenProperties DEF Call, Calls, Bound, Acts
    <2> HIDE DEF x, y, r
    <2>3. \A p \in Nat : \A z : Holds(r, p, z) <=>
              Holds(calls, p, z) \/ (p = Len(calls) + 1 /\ y = z) \/ (p = Len(calls) + 2 /\ x = z)
        BY <2>1, <2>2, HoldsTwo
    <2>4. \A p \in Nat, at \in Bound, d \in Cmd : Sits(t, p, at, d)' <=>
              Holds(calls, p, Call(at, d)) \/ (p = n /\ at = "release" /\ d = c)
        BY <2>2, <2>3 DEF Sits, r
    <2> HIDE DEF n
    <2>5. \A u \in Thread, p \in Nat, at \in Bound, d \in Cmd :
              /\ Sits(u, p, at, d)' => Sits(u, p, at, d) \/ (u = t /\ p = n /\ at = "release" /\ d = c)
              /\ Sits(u, p, "failed", d) /\ d # c => Sits(u, p, "failed", d)'
        <3> TAKE u \in Thread, p \in Nat, at \in Bound, d \in Cmd
        <3>1. CASE u = t
            <4>1. Holds(calls, p, Call(at, d)) => Sits(t, p, at, d) BY DEF Sits
            <4>2. Sits(t, p, "failed", d) /\ d # c => Holds(calls, p, Call("failed", d)) OBVIOUS
            <4> QED BY <3>1, <4>1, <4>2, <2>4, <1>1
        <3>2. CASE u # t BY <3>2, <2>1 DEF Sits
        <3> QED BY <3>1, <3>2
    <2>6. /\ active' = active \ {c} /\ timer'[c] = "off" /\ \A d \in Cmd \ {c} : timer'[d] = timer[d]
          /\ UNCHANGED marked
        BY <1>1, <1>3 DEF Dequeue, TypeInv, TypeOK
    <2>7. c \in active \ marked BY <1>3
    <2>8. LifeInv /\ t \in Thread /\ n \in Nat /\ UNCHANGED <<pending, marked, asked, released, gap>>
        BY <2>2, <2>6
    <2> QED BY ONLY <2>5, <2>6, <2>7, <2>8, LifeRemoved
<1> QED BY <1>2, <1>3

\* A request is refused, starts its command or queues it.
LEMMA RequestLife ==
    ASSUME TypeInv, LifeInv, NEW t \in Thread, NEW c \in Cmd, Request(t, c)
    PROVE  LifeInv'
<1> USE DEF lists, timing, history
<1>1. pending \in Seq(Cmd) BY DEF TypeInv, TypeOK
<1>2. CASE RequestRefused(t, c)
    <2>1. \A u, p, at, d : Sits(u, p, at, d)' <=> Sits(u, p, at, d) BY <1>2 DEF RequestRefused, Sits
    <2>2. "failed" \in Bound BY DEF Bound, Acts
    <2> QED BY <1>2, <2>1, <2>2, LifeQuiet DEF RequestRefused
<1>3. CASE RequestActive(t, c)
    <2>1. Call("start", c) \in Calls /\ Enter(t, <<Call("start", c)>>) /\ Activate(c)
        BY <1>3 DEF RequestActive, Call, Calls
    <2>2. \A at, d : Call("start", c) = Call(at, d) <=> at = "start" /\ d = c BY DEF Call
    <2>3. \A u \in Thread, p \in Nat, at \in Bound, d \in Cmd :
              Sits(u, p, at, d)' <=> Sits(u, p, at, d) \/ (u = t /\ p = Depth(t) + 1 /\ at = "start" /\ d = c)
        BY <2>1, <2>2, EnterSits
    <2>4. c \notin asked /\ asked' = asked \cup {c} /\ UNCHANGED <<pending, released, timer, gap>>
        BY <1>3 DEF RequestActive
    <2>5. Range(pending') = Range(pending) \ {c} BY <2>4 DEF LifeInv, ListInv
    <2>6. Depth(t) \in Nat BY LenProperties DEF TypeInv, TypeOK, Depth
    <2>7. LifeInv /\ t \in Thread /\ c \in Cmd OBVIOUS
    <2> QED BY ONLY <2>1, <2>3, <2>4, <2>5, <2>6, <2>7, LifeActivates
<1>4. CASE RequestPending(t, c)
    <2>1. c \notin asked /\ asked' = asked \cup {c} /\ UNCHANGED <<active, marked, released, timer, gap, stack>>
        BY <1>4 DEF RequestPending
    <2>2. Range(pending') = Range(pending) \cup {c} BY <1>1, <1>4, RangeAdded DEF RequestPending
    <2> QED BY <2>1, <2>2, LifeWaits
<1> QED BY <1>2, <1>3, <1>4 DEF Request

\* The first of the pending list becomes active.
LEMMA MoveLife ==
    ASSUME TypeInv, LifeInv, NEW t \in Thread, Move(t)
    PROVE  LifeInv'
<1> DEFINE c == Head(pending)
<1>1. pending \in Seq(Cmd) /\ pending # <<>> /\ IsInjective(pending) BY DEF Move, TypeInv, TypeOK
<1>2. c \in Cmd /\ c \in Range(pending) /\ Range(pending') = Range(pending) \ {c}
    BY <1>1, HeadTailProperties, RangeTail DEF Move
<1>3. Call("start", c) \in Calls /\ Enter(t, <<Call("start", c)>>) /\ Activate(c)
    BY <1>2 DEF Move, Call, Calls
<1>4. \A at, d : Call("start", c) = Call(at, d) <=> at = "start" /\ d = c BY DEF Call
<1>5. \A u \in Thread, p \in Nat, at \in Bound, d \in Cmd :
          Sits(u, p, at, d)' <=> Sits(u, p, at, d) \/ (u = t /\ p = Depth(t) + 1 /\ at = "start" /\ d = c)
    BY <1>3, <1>4, EnterSits
<1>6. c \in asked /\ UNCHANGED <<released, timer, gap, asked>>
    BY <1>2 DEF Move, timing, history, LifeInv, ListInv
<1>7. asked' = asked \cup {c} BY <1>6
<1>8. Depth(t) \in Nat BY LenProperties DEF TypeInv, TypeOK, Depth
<1>9. LifeInv /\ t \in Thread OBVIOUS
<1> HIDE DEF c
<1> QED BY ONLY <1>2, <1>3, <1>5, <1>6, <1>7, <1>8, <1>9, LifeActivates

\* The steps of an activation.
LEMMA ActivationLife ==
    ASSUME TypeInv, LifeInv, NEW t \in Thread,
           StartTimer(t) \/ TimerFails(t) \/ CallbackReturns(t) \/ ActivationEnds(t) \/ ActivationCancels(t)
    PROVE  LifeInv'
<1> USE DEF lists, timing, history
<1> DEFINE c == Top(t).cmd
           n == Depth(t)
<1>1. /\ "start" \in Bound /\ "callback" \in Bound /\ "done" \in Bound /\ "failed" \in Bound
    BY DEF Bound, Acts
<1>2. CASE StartTimer(t)
    <2>1. In(t, "start") /\ Goto(t, <<Call("callback", c)>>) BY <1>2 DEF StartTimer
    <2>2. stack[t] # <<>> /\ n \in Nat /\ c \in Cmd /\ Sits(t, n, "start", c) BY <1>1, <2>1, TopCall
    <2>3. Call("callback", c) \in Calls BY <2>2 DEF Call, Calls
    <2>4. \A at, d : Call("callback", c) = Call(at, d) <=> at = "callback" /\ d = c BY DEF Call
    <2>5. timer'[c] # "off" /\ \A d \in Cmd \ {c} : timer'[d] = timer[d]
        BY <1>2, <2>2 DEF StartTimer, TypeInv, TypeOK
    <2>6. UNCHANGED <<pending, active, marked, asked, released, gap>> BY <1>2 DEF StartTimer
    <2>7. \A u \in Thread, p \in Nat, at \in Bound, d \in Cmd :
              Sits(u, p, at, d)' <=> \/ Sits(u, p, at, d) /\ ~(u = t /\ p = n)
                                     \/ u = t /\ p = n /\ at = "callback" /\ d = c
        BY <2>1, <2>2, <2>3, <2>4, GotoSits
    <2>8. LifeInv /\ t \in Thread OBVIOUS
    <2> HIDE DEF c, n
    <2> QED BY ONLY <2>2, <2>5, <2>6, <2>7, <2>8, LifeTimed
<1>3. CASE TimerFails(t) \/ CallbackReturns(t)
    <2>1. PICK from, to : /\ \/ from = "start" /\ to = "failed"
                             \/ from = "callback" /\ to \in {"done", "failed"}
                          /\ In(t, from) /\ Activated(t, to)
        BY <1>3 DEF TimerFails, CallbackReturns
    <2>2. stack[t] # <<>> /\ n \in Nat /\ c \in Cmd /\ Sits(t, n, from, c) BY <1>1, <2>1, TopCall
    <2>3. Call(to, c) \in Calls /\ Goto(t, <<Call(to, c)>>) BY <2>1, <2>2 DEF Activated, Call, Calls
    <2>4. \A at, d : Call(to, c) = Call(at, d) <=> at = to /\ d = c BY DEF Call
    <2>5. marked' = marked \ {c} /\ UNCHANGED <<pending, active, asked, released, timer, gap>>
        BY <2>1 DEF Activated
    <2>6. \A u \in Thread, p \in Nat, at \in Bound, d \in Cmd :
              Sits(u, p, at, d)' <=> \/ Sits(u, p, at, d) /\ ~(u = t /\ p = n)
                                     \/ u = t /\ p = n /\ at = to /\ d = c
        BY <2>2, <2>3, <2>4, GotoSits
    <2>7. /\ LifeInv /\ t \in Thread /\ n \in Nat /\ c \in Cmd /\ Sits(t, n, from, c)
          /\ (from = "start" /\ to = "failed") \/ (from = "callback" /\ to \in {"done", "failed"})
        BY <2>1, <2>2
    <2> HIDE DEF c, n
    <2> QED BY ONLY <2>5, <2>6, <2>7, LifeActivated
<1>4. CASE ActivationEnds(t)
    <2>1. PICK at \in {"done", "failed"} : In(t, at) BY <1>4 DEF ActivationEnds
    <2>2. stack[t] # <<>> /\ n \in Nat /\ Sits(t, n, at, c) BY <1>1, <2>1, TopCall
    <2>3. \A u \in Thread, p \in Nat, bt \in Bound, d \in Cmd :
              Sits(u, p, bt, d)' <=> Sits(u, p, bt, d) /\ ~(u = t /\ p = n)
        BY <1>4, <2>2, ReturnSits DEF ActivationEnds
    <2>4. \A d \in Cmd : Sits(t, n, "failed", d) => d \notin active
        <3>1. \A d : Sits(t, n, "failed", d) => d = c /\ at = "failed" BY <2>2, SitsOne
        <3>2. at = "failed" => c \notin active
            BY <1>4, <2>1 DEF ActivationEnds, Failed, In, Top
        <3> QED BY <3>1, <3>2
    <2>5. /\ UNCHANGED <<pending, active, marked, released, gap, asked, timer>> /\ asked \subseteq asked'
          /\ LifeInv /\ \A d \in Cmd : timer'[d] = "off" <=> timer[d] = "off"
        BY <1>4 DEF ActivationEnds
    <2>6. \A u \in Thread, p \in Nat, bt \in Bound, d \in Cmd :
              /\ Sits(u, p, bt, d)' => Sits(u, p, bt, d)
              /\ Sits(u, p, "failed", d) /\ d \in active => Sits(u, p, "failed", d)'
        BY <1>1, <2>3, <2>4
    <2> QED BY ONLY <2>5, <2>6, LifeQuiet
<1>5. CASE ActivationCancels(t)
    <2> DEFINE x == Walk("active", {c}, TRUE)
    <2>1. In(t, "done") /\ Goto(t, <<x>>) BY <1>5 DEF ActivationCancels
    <2>2. stack[t] # <<>> /\ n \in Nat /\ c \in Cmd /\ Sits(t, n, "done", c) BY <1>1, <2>1, TopCall
    <2>3. x \in Calls
        <3>1. "active" \in Queue /\ {c} \in SUBSET Cmd BY <2>2 DEF Queue
        <3> QED BY <3>1, WalkTypes
    <2>4. \A at \in Bound : \A d : x # Call(at, d) BY DEF Walk, Call, Bound, Acts
    <2> HIDE DEF x
    <2>5. \A u \in Thread, p \in Nat, bt \in Bound, d \in Cmd :
              Sits(u, p, bt, d)' <=> Sits(u, p, bt, d) /\ ~(u = t /\ p = n)
        <3> TAKE u \in Thread, p \in Nat, bt \in Bound, d \in Cmd
        <3>1. Sits(u, p, bt, d)' <=> \/ Sits(u, p, bt, d) /\ ~(u = t /\ p = Depth(t))
                                     \/ u = t /\ p = Depth(t) /\ x = Call(bt, d)
            BY <2>1, <2>2, <2>3, GotoSits
        <3> QED BY <2>4, <3>1
    <2>6. \A d : ~Sits(t, n, "failed", d) BY <2>2, SitsOne
    <2>7. /\ UNCHANGED <<pending, active, marked, released, gap, asked, timer>> /\ asked \subseteq asked'
          /\ LifeInv /\ \A d \in Cmd : timer'[d] = "off" <=> timer[d] = "off"
        BY <1>5 DEF ActivationCancels
    <2>8. \A u \in Thread, p \in Nat, bt \in Bound, d \in Cmd :
              /\ Sits(u, p, bt, d)' => Sits(u, p, bt, d)
              /\ Sits(u, p, "failed", d) /\ d \in active => Sits(u, p, "failed", d)'
        BY <1>1, <2>5, <2>6
    <2> QED BY ONLY <2>7, <2>8, LifeQuiet
<1> QED BY <1>2, <1>3, <1>4, <1>5

\* A thread takes an active command out and goes on with what it was in.
LEMMA RemoveLife ==
    ASSUME TypeInv, LifeInv, NEW t \in Thread,
           (\E c \in Cmd : RemoveCmd(t, c)) \/ ActivationRemoves(t) \/ TimeoutRemoves(t)
    PROVE  LifeInv'
<1>1. stack[t] \in Seq(Calls) BY DEF TypeInv, TypeOK
<1>2. ASSUME NEW c \in Cmd, RemoveCmd(t, c) PROVE LifeInv'
    <2>1. stack[t] = <<>> /\ <<>> \in Seq(Calls) BY <1>2, EmptySeq DEF RemoveCmd, Idle
    <2>2. \A p \in Nat : \A d : ~Sits(t, p, "failed", d) BY <2>1, EmptySeq DEF Sits, Holds
    <2>3. \A p \in Nat : \A y : Holds(<<>>, p, y) => Holds(stack[t], p, y) BY <2>1
    <2>4. /\ c \in active /\ Dequeue(t, c, <<>>) /\ UNCHANGED <<pending, mail, asked, released, gap>>
        BY <1>2 DEF RemoveCmd
    <2> QED BY <2>1, <2>2, <2>3, <2>4, DequeueLife
<1>3. ASSUME stack[t] # <<>>, NEW c \in active, Dequeue(t, c, Tail(stack[t])),
             UNCHANGED <<pending, mail, asked, released, gap>>,
             \A d \in Cmd : d # c => ~Sits(t, Depth(t), "failed", d)
      PROVE  LifeInv'
    <2> DEFINE calls == Tail(stack[t])
    <2>1. calls \in Seq(Calls) BY <1>1, <1>3, HeadTailProperties
    <2>2. \A p \in Nat : \A y : Holds(calls, p, y) <=> Holds(stack[t], p, y) /\ p # Depth(t)
        BY <1>1, <1>3, HoldsTail DEF Depth
    <2>3. \A p \in Nat, d \in Cmd : d # c /\ Sits(t, p, "failed", d) => Holds(calls, p, Call("failed", d))
        BY <1>3, <2>2 DEF Sits
    <2>4. \A p \in Nat : \A y : Holds(calls, p, y) => Holds(stack[t], p, y) BY <2>2
    <2> HIDE DEF calls
    <2>5. Dequeue(t, c, calls) BY <1>3 DEF calls
    <2> QED BY <1>3, <2>1, <2>3, <2>4, <2>5, DequeueLife
<1>4. CASE ActivationRemoves(t)
    <2>1. PICK at \in {"done", "failed"} : In(t, at) BY <1>4 DEF ActivationRemoves
    <2>2. /\ stack[t] # <<>> /\ Top(t).cmd \in active /\ Dequeue(t, Top(t).cmd, Tail(stack[t]))
          /\ UNCHANGED <<pending, mail, asked, released, gap>>
        BY <1>4, <2>1 DEF ActivationRemoves, In
    <2>3. Sits(t, Depth(t), at, Top(t).cmd) BY <2>1, TopCall DEF Bound, Acts
    <2>4. \A d \in Cmd : d # Top(t).cmd => ~Sits(t, Depth(t), "failed", d) BY <2>3, SitsOne
    <2> QED BY <1>3, <2>2, <2>4
<1>5. CASE TimeoutRemoves(t)
    <2>1. In(t, "timeout") BY <1>5 DEF TimeoutRemoves
    <2>2. stack[t] # <<>> /\ \A d : ~Sits(t, Depth(t), "failed", d) BY <2>1, TopCall DEF Bound, Acts
    <2>3. PICK c \in active : Dequeue(t, c, Tail(stack[t])) BY <1>5 DEF TimeoutRemoves
    <2>4. UNCHANGED <<pending, mail, asked, released, gap>> BY <1>5 DEF TimeoutRemoves
    <2> QED BY <1>3, <2>2, <2>3, <2>4
<1> QED BY <1>2, <1>4, <1>5

\* A requester is told by the thread that has taken its command out.
LEMMA ReleaseLife ==
    ASSUME TypeInv, LifeInv, NEW t \in Thread, Release(t)
    PROVE  LifeInv'
<1> DEFINE c == Top(t).cmd
           n == Depth(t)
<1>1. In(t, "release") /\ Return(t) /\ released' = released \cup {c} BY DEF Release
<1>2. stack[t] # <<>> /\ n \in Nat /\ c \in Cmd /\ Sits(t, n, "release", c) BY <1>1, TopCall DEF Bound
<1>3. \A u \in Thread, p \in Nat, at \in Bound, d \in Cmd :
          Sits(u, p, at, d)' <=> Sits(u, p, at, d) /\ ~(u = t /\ p = n)
    BY <1>1, <1>2, ReturnSits
<1>4. UNCHANGED <<pending, active, marked, asked, timer, gap>> BY DEF Release, lists, timing
<1>5. LifeInv /\ t \in Thread /\ released' = released \cup {c} BY <1>1
<1> HIDE DEF c, n
<1> QED BY ONLY <1>2, <1>3, <1>4, <1>5, LifeReleased

\* A cancel takes a command out, and then tells of it.
LEMMA CancelLife ==
    ASSUME TypeInv, Telling, LifeInv, NEW t \in Thread,
           CancelPending(t) \/ CancelActive(t) \/ PendingTold(t) \/ ActiveTold(t)
    PROVE  LifeInv'
<1> USE DEF lists, timing, history
<1>1. /\ pending \in Seq(Cmd) /\ IsInjective(pending)
      /\ gap \in [Thread -> {NoGap} \cup [q : Queue, cmd : Cmd]] /\ timer \in [Cmd -> {"off", "armed", "fired"}]
    BY DEF TypeInv, TypeOK
<1>2. CASE CancelPending(t)
    <2>1. In(t, "cancel") BY <1>2 DEF CancelPending
    <2>2. PICK i \in Hits(Top(t)) : /\ pending' = RemoveAt(pending, i)
                                    /\ gap' = [gap EXCEPT ![t] = [q |-> "pending", cmd |-> pending[i]]]
                                    /\ \E l, q : Goto(t, <<[Top(t) EXCEPT !.left = l, !.prev = q]>>)
        BY <1>2 DEF CancelPending
    <2> DEFINE c == pending[i]
    <2>3. i \in DOMAIN pending /\ c \in Cmd /\ c \in Range(pending) BY <1>1, <2>2, ElementOfSeq, LenProperties DEF Hits, Range
    <2>4. Range(pending') = Range(pending) \ {c} BY <1>1, <2>2, <2>3, RangeRemoveAt
    <2>5. gap'[t].cmd = c /\ \A u \in Thread \ {t} : gap'[u] = gap[u] BY <1>1, <2>2
    <2>6. UNCHANGED <<active, marked, asked, released, timer>> BY <1>2 DEF CancelPending
    <2>7. c \notin active /\ active' = active \ {c} /\ timer'[c] = "off" /\ \A d \in Cmd \ {c} : timer'[d] = timer[d]
        BY <2>3, <2>6 DEF LifeInv, ListInv, TimerInv
    <2>8. \A u \in Thread, p \in Nat, at \in Bound, d \in Cmd : Sits(u, p, at, d)' <=> Sits(u, p, at, d)
        <3>1. TypeInv' BY <1>2, CancelPendingTypes
        <3>2. stack[t] # <<>> /\ \A bt \in Bound : \A d : ~Sits(t, Depth(t), bt, d)
            BY <2>1, TopCall DEF Bound, Acts
        <3>3. PICK x : Goto(t, <<x>>) /\ x.at = "cancel"
            <4>1. PICK l, q : Goto(t, <<[Top(t) EXCEPT !.left = l, !.prev = q]>>) BY <2>2
            <4>2. Top(t).at = "cancel" BY <2>1 DEF In, Top
            <4>3. Top(t) \in Calls BY <1>1, <3>2, TopTypes DEF TypeInv, TypeOK
            <4>4. [Top(t) EXCEPT !.left = l, !.prev = q].at = "cancel" BY <4>2, <4>3 DEF Calls
            <4> QED BY <4>1, <4>4
        <3>4. x \in Calls
            <4>1. stack'[t] = <<x>> \o Tail(stack[t]) /\ stack'[t] \in Seq(Calls)
                BY <3>1, <3>3 DEF Goto, TypeInv, TypeOK
            <4>2. Tail(stack[t]) \in Seq(Calls) BY <3>2, HeadTailProperties DEF TypeInv, TypeOK
            <4> DEFINE s == Tail(stack[t])
                       a == <<x>>
            <4>3. s \in Seq(Calls \cup {x}) /\ a \in Seq(Calls \cup {x}) /\ Len(a) = 1 /\ a[1] = x
                BY <4>2, SeqMonotonic
            <4> HIDE DEF s, a
            <4>4. /\ Len(a \o s) = Len(a) + Len(s) /\ Len(s) \in Nat
                  /\ \A j \in 1..Len(a) + Len(s) : (a \o s)[j] = IF j <= Len(a) THEN a[j] ELSE s[j - Len(a)]
                BY <4>3, ConcatProperties, LenProperties
            <4>5. (a \o s)[1] = x /\ 1 \in 1..Len(a \o s) BY <4>3, <4>4
            <4>6. a \o s \in Seq(Calls) BY <4>1 DEF a, s
            <4> QED BY <4>5, <4>6, ElementOfSeq
        <3>5. \A at \in Bound : \A d : x # Call(at, d) BY <3>3 DEF Call, Bound, Acts
        <3> QED BY <3>2, <3>3, <3>4, <3>5, GotoSits
    <2>9. LifeInv /\ t \in Thread OBVIOUS
    <2> HIDE DEF c
    <2> QED BY ONLY <2>3, <2>4, <2>5, <2>6, <2>7, <2>8, <2>9, LifeUnlinked
<1>3. CASE CancelActive(t)
    <2>1. PICK c \in active \ marked : /\ active' = active \ {c} /\ timer' = [timer EXCEPT ![c] = "off"]
                                       /\ gap' = [gap EXCEPT ![t] = [q |-> "active", cmd |-> c]]
        BY <1>3 DEF CancelActive
    <2>2. c \in Cmd /\ c \notin Range(pending) BY <2>1 DEF LifeInv, ListInv
    <2>3. UNCHANGED <<pending, marked, asked, released, stack>> BY <1>3 DEF CancelActive
    <2>4. timer'[c] = "off" /\ \A d \in Cmd \ {c} : timer'[d] = timer[d] BY <1>1, <2>1, <2>2
    <2>5. gap'[t].cmd = c /\ \A u \in Thread \ {t} : gap'[u] = gap[u] BY <1>1, <2>1
    <2>6. Range(pending') = Range(pending) \ {c} BY <2>2, <2>3
    <2>7. \A u, p, at, d : Sits(u, p, at, d)' <=> Sits(u, p, at, d) BY <2>3 DEF Sits
    <2>8. LifeInv /\ t \in Thread /\ c \in active \ marked /\ active' = active \ {c} BY <2>1
    <2> QED BY ONLY <2>2, <2>3, <2>4, <2>5, <2>6, <2>7, <2>8, LifeUnlinked
<1>4. CASE PendingTold(t) \/ ActiveTold(t)
    <2>1. gap[t] # NoGap BY <1>4 DEF PendingTold, ActiveTold, NoGap
    <2>2. gap[t].cmd \in Cmd BY <1>1, <2>1
    <2>3. gap' = [gap EXCEPT ![t] = NoGap] /\ released' = released \cup {gap[t].cmd}
        BY <1>4 DEF PendingTold, ActiveTold
    <2>4. NoGap.cmd \notin Cmd BY SerAssumption DEF NoGap
    <2>5. gap'[t].cmd \notin Cmd /\ \A u \in Thread \ {t} : gap'[u] = gap[u] BY <1>1, <2>3, <2>4
    <2>6. UNCHANGED <<pending, active, marked, asked, timer>> BY <1>4 DEF PendingTold, ActiveTold
    <2>7. \A u \in Thread, p \in Nat, at \in Bound, d \in Cmd : Sits(u, p, at, d)' <=> Sits(u, p, at, d)
        <3>1. stack[t] # <<>> /\ Top(t).at = "cancel" BY <2>1 DEF Telling
        <3>2. \A bt \in Bound : \A d : Top(t) # Call(bt, d) BY <3>1 DEF Call, Bound, Acts
        <3>3. \A bt \in Bound : \A d : ~Sits(t, Depth(t), bt, d) BY <3>1, <3>2, TopSits
        <3>4. Return(t) \/ UNCHANGED stack BY <1>4 DEF PendingTold, ActiveTold
        <3>5. CASE Return(t) BY <3>1, <3>3, <3>5, ReturnSits
        <3>6. CASE UNCHANGED stack BY <3>6 DEF Sits
        <3> QED BY <3>4, <3>5, <3>6
    <2>8. LifeInv /\ t \in Thread OBVIOUS
    <2> QED BY ONLY <2>2, <2>3, <2>5, <2>6, <2>7, <2>8, LifeTold
<1> QED BY <1>2, <1>3, <1>4

\* A cancel or a time-out begins: calls that are bound to no command.
LEMMA BeginLife ==
    ASSUME TypeInv, LifeInv,
           \/ \E t \in Thread, c \in Cmd : CancelOne(t, c)
           \/ \E t \in Thread, scope \in Scopes : Purge(t, scope)
           \/ \E c \in Cmd : Timeout(c)
    PROVE  LifeInv'
<1> USE DEF lists, timing, history
<1>1. Scopes \subseteq SUBSET Cmd /\ (\A c \in Cmd : Same(c) \in SUBSET Cmd) /\ Mc \in Thread
    BY CallTypes, SerAssumption
<1>2. "active" \in Queue /\ "pending" \in Queue /\ TRUE \in BOOLEAN /\ FALSE \in BOOLEAN BY DEF Queue
<1>3. ASSUME NEW t \in Thread, NEW c \in Cmd, CancelOne(t, c) PROVE LifeInv'
    <2> DEFINE x == Walk("pending", Same(c), TRUE)
    <2>1. x \in Calls /\ x.at \notin Bound BY <1>1, <1>2, WalkTypes
    <2>2. Enter(t, <<x>>) /\ UNCHANGED <<pending, active, marked, released, asked, timer, gap>>
        BY <1>3 DEF CancelOne
    <2> HIDE DEF x
    <2> QED BY <2>1, <2>2, PushKeepsLife
<1>4. ASSUME NEW t \in Thread, NEW scope \in Scopes, Purge(t, scope) PROVE LifeInv'
    <2> DEFINE x == Walk("pending", scope, FALSE)
               y == Walk("active", scope, FALSE)
    <2>1. x \in Calls /\ y \in Calls /\ x.at \notin Bound /\ y.at \notin Bound BY <1>1, <1>2, WalkTypes
    <2>2. Enter(t, <<x, y>>) /\ UNCHANGED <<pending, active, marked, released, asked, timer, gap>>
        BY <1>4 DEF Purge
    <2> HIDE DEF x, y
    <2>3. \A at \in Bound : \A d : x # Call(at, d) /\ y # Call(at, d) BY <2>1 DEF Call
    <2>4. stack[t] \in Seq(Calls) /\ stack'[t] = <<x, y>> \o stack[t] /\ \A u \in Thread \ {t} : stack'[u] = stack[u]
        BY <2>2 DEF Enter, TypeInv, TypeOK
    <2>5. \A u \in Thread, p \in Nat, at \in Bound, d \in Cmd : Sits(u, p, at, d)' <=> Sits(u, p, at, d)
        <3> TAKE u \in Thread, p \in Nat, at \in Bound, d \in Cmd
        <3>1. CASE u = t
            <4> DEFINE s == stack[t]
                       z == Call(at, d)
            <4>1. s \in Seq(Calls) BY <2>4
            <4> HIDE DEF s, z
            <4>2. Holds(<<x, y>> \o s, p, z) <=>
                      Holds(s, p, z) \/ (p = Len(s) + 1 /\ y = z) \/ (p = Len(s) + 2 /\ x = z)
                BY <2>1, <4>1, HoldsTwo
            <4>3. x # z /\ y # z BY <2>3 DEF z
            <4>4. Holds(<<x, y>> \o s, p, z) <=> Holds(s, p, z) BY <4>2, <4>3
            <4> QED BY <3>1, <4>4, <2>4 DEF Sits, s, z
        <3>2. CASE u # t BY <3>2, <2>4 DEF Sits
        <3> QED BY <3>1, <3>2
    <2>6. "failed" \in Bound BY DEF Bound, Acts
    <2> QED BY <2>2, <2>5, <2>6, LifeQuiet
<1>5. ASSUME NEW c \in Cmd, Timeout(c) PROVE LifeInv'
    <2>1. UNCHANGED <<pending, active, marked, released, asked, timer, gap>> BY <1>5 DEF Timeout
    <2>2. CASE Enter(Mc, <<Call("timeout", c)>>)
        <3>1. Call("timeout", c) \in Calls /\ Call("timeout", c).at \notin Bound BY DEF Call, Calls, Bound, Acts
        <3> QED BY <1>1, <2>1, <2>2, <3>1, PushKeepsLife
    <2>3. CASE UNCHANGED stack
        <3>1. \A u, p, at, d : Sits(u, p, at, d)' <=> Sits(u, p, at, d) BY <2>3 DEF Sits
        <3>2. "failed" \in Bound BY DEF Bound, Acts
        <3> QED BY <2>1, <3>1, <3>2, LifeQuiet
    <2> QED BY <1>5, <2>2, <2>3 DEF Timeout
<1> QED BY <1>3, <1>4, <1>5

\* A timer runs out, or nothing happens.
LEMMA IdleLife ==
    ASSUME TypeInv, LifeInv, (\E c \in Cmd : Expire(c)) \/ UNCHANGED vars
    PROVE  LifeInv'
<1> USE DEF lists, timing, history
<1>1. UNCHANGED <<pending, active, marked, released, asked, gap, stack>> BY DEF Expire, vars
<1>2. \A u, p, at, d : Sits(u, p, at, d)' <=> Sits(u, p, at, d) BY <1>1 DEF Sits
<1>3. \A d \in Cmd : timer'[d] = "off" <=> timer[d] = "off" BY DEF Expire, vars, TypeInv, TypeOK
<1>4. "failed" \in Bound BY DEF Bound, Acts
<1> QED BY <1>1, <1>2, <1>3, <1>4, LifeQuiet

\* A walk or a move comes to its end, or a time-out is late.
LEMMA EndLife ==
    ASSUME TypeInv, LifeInv, NEW t \in Thread, MoveEnds(t) \/ TimeoutLate(t) \/ CancelEnds(t)
    PROVE  LifeInv'
<1> USE DEF lists, timing, history
<1>1. PICK at \in {"move", "timeout", "cancel"} : In(t, at) BY DEF MoveEnds, TimeoutLate, CancelEnds
<1>2. at \notin Bound BY DEF Bound, Acts
<1>3. Return(t) /\ UNCHANGED <<pending, active, marked, released, asked, timer, gap>>
    BY DEF MoveEnds, TimeoutLate, CancelEnds
<1> QED BY <1>1, <1>2, <1>3, PopKeepsLife

LEMMA LifeInit == Init => LifeInv
<1> SUFFICES ASSUME Init PROVE LifeInv
    OBVIOUS
<1>1. Range(pending) = {} BY DEF Init, Range
<1>2. \A u \in Thread, p \in Nat : \A at, c : ~Sits(u, p, at, c)
    <2>1. \A u \in Thread : Len(stack[u]) = 0 BY EmptySeq DEF Init
    <2> QED BY <2>1 DEF Sits, Holds
<1>3. \A u \in Thread, c \in Cmd : gap[u].cmd # c BY SerAssumption DEF Init, NoGap
<1>4. ListInv BY <1>1 DEF Init, ListInv
<1>5. ActInv /\ LeaveInv BY <1>2, <1>3 DEF ActInv, LeaveInv, Acts
<1>6. TimerInv BY <1>2 DEF Init, TimerInv
<1> QED BY <1>4, <1>5, <1>6 DEF LifeInv

LEMMA LifeStep == TypeStrong /\ LifeInv /\ [Next]_vars => LifeInv'
<1> SUFFICES ASSUME TypeInv, Telling, LifeInv, [Next]_vars PROVE LifeInv'
    BY DEF TypeStrong
<1>1. ASSUME NEW t \in Thread, NEW c \in Cmd, Request(t, c) \/ RemoveCmd(t, c) \/ CancelOne(t, c) PROVE LifeInv'
    BY <1>1, RequestLife, RemoveLife, BeginLife
<1>2. ASSUME NEW t \in Thread, NEW scope \in Scopes, Purge(t, scope) PROVE LifeInv'
    BY <1>2, BeginLife
<1>3. ASSUME NEW c \in Cmd, Expire(c) \/ Timeout(c) PROVE LifeInv'
    BY <1>3, BeginLife, IdleLife
<1>4. ASSUME NEW t \in Thread, Continue(t) PROVE LifeInv'
    BY <1>4, MoveLife, ReleaseLife, ActivationLife, RemoveLife, CancelLife, EndLife DEF Continue
<1>5. CASE UNCHANGED vars
    BY <1>5, IdleLife
<1> QED BY <1>1, <1>2, <1>3, <1>4, <1>5 DEF Next

-----------------------------------------------------------------------------
(***************************************************************************)
(* What follows.                                                           *)
(***************************************************************************)
\* The calls on a command, as ReleaseOrder and TimerHeld look for them.
LEMMA CallsSit ==
    ASSUME TypeInv, NEW at, NEW c, NEW t
    PROVE  t \in CallsOn(at, c) <=> t \in Thread /\ \E p \in Nat : Sits(t, p, at, c)
<1>1. CASE t \in Thread
    <2> DEFINE s == stack[t]
               y == Call(at, c)
    <2>1. s \in Seq(Calls) BY <1>1 DEF TypeInv, TypeOK
    <2> HIDE DEF s, y
    <2>2. (\E i \in DOMAIN s : s[i] = y) <=> (\E p \in Nat : Holds(s, p, y)) BY <2>1, HoldsDomain
    <2> QED BY <1>1, <2>2 DEF CallsOn, Sits, s, y
<1>2. CASE t \notin Thread BY <1>2 DEF CallsOn
<1> QED BY <1>1, <1>2

LEMMA LifeOrder == TypeInv /\ LifeInv => ReleaseOrder
<1> SUFFICES ASSUME TypeInv, LifeInv, NEW c \in Cmd
             PROVE  /\ c \in released => Leaving(c) = {}
                    /\ \A t, u \in Leaving(c) : t = u
                    /\ c \in released \/ Leaving(c) # {} =>
                           /\ c \notin active /\ c \notin Range(pending)
                           /\ CallsOn("start", c) \cup CallsOn("callback", c) = {}
    BY DEF ReleaseOrder
<1>1. \A t \in Leaving(c) : t \in Thread /\ (gap[t].cmd = c \/ \E p \in Nat : Sits(t, p, "release", c))
    BY CallsSit DEF Leaving
<1>2. Leaving(c) # {} => Out(c) BY <1>1 DEF LifeInv, LeaveInv
<1>3. \A t, u \in Leaving(c) : t = u
    <2> SUFFICES ASSUME NEW t \in Leaving(c), NEW u \in Leaving(c) PROVE t = u
        OBVIOUS
    <2>1. t \in Thread /\ u \in Thread BY <1>1
    <2>2. CASE gap[t].cmd = c
        <3>1. \A p \in Nat : ~Sits(u, p, "release", c) BY <2>1, <2>2 DEF LifeInv, LeaveInv
        <3>2. gap[u].cmd = c BY <1>1, <3>1
        <3> QED BY <2>1, <2>2, <3>2 DEF LifeInv, LeaveInv
    <2>3. CASE gap[t].cmd # c
        <3>1. PICK p \in Nat : Sits(t, p, "release", c) BY <1>1, <2>3
        <3>2. gap[u].cmd # c BY <2>1, <3>1 DEF LifeInv, LeaveInv
        <3>3. PICK q \in Nat : Sits(u, q, "release", c) BY <1>1, <3>2
        <3> QED BY <2>1, <3>1, <3>3 DEF LifeInv, LeaveInv
    <2> QED BY <2>2, <2>3
<1>4. CallsOn("start", c) \cup CallsOn("callback", c) # {} => c \in active
    <2>1. ASSUME NEW t \in CallsOn("start", c) \cup CallsOn("callback", c) PROVE c \in marked
        <3>1. t \in Thread /\ \E p \in Nat : Sits(t, p, "start", c) \/ Sits(t, p, "callback", c)
            BY <2>1, CallsSit
        <3> QED BY <3>1 DEF LifeInv, ActInv, Acts
    <2> QED BY <2>1 DEF LifeInv, ListInv
<1>5. c \in released => c \notin active /\ c \notin Range(pending) BY DEF LifeInv, ListInv
<1> QED BY <1>2, <1>3, <1>4, <1>5 DEF Out

LEMMA LifeTimer == TypeInv /\ LifeInv => TimerHeld
<1> SUFFICES ASSUME TypeInv, LifeInv PROVE TimerHeld
    OBVIOUS
<1>1. \A c \in Cmd : timer[c] # "off" => c \in active BY DEF LifeInv, TimerInv
<1>2. ASSUME NEW c \in active \ marked, timer[c] = "off" PROVE CallsOn("failed", c) # {}
    <2>1. PICK u \in Thread, p \in Nat : Sits(u, p, "failed", c) BY <1>2 DEF LifeInv, TimerInv
    <2>2. u \in CallsOn("failed", c) BY <2>1, CallsSit
    <2> QED BY <2>2
<1> QED BY <1>1, <1>2 DEF TimerHeld

LEMMA LifeAlways == Safety => []LifeInv /\ []TypeStrong
<1>1. Init => TypeStrong
    <2>1. Init => Telling BY DEF Init, Telling
    <2> QED BY <2>1, TypeInit DEF TypeStrong
<1> QED BY <1>1, TypeStep, LifeInit, LifeStep, PTL DEF Safety

\* Whatever interleaving of removals, time-outs, cancels and failures a
\* command goes through, its requester is told RELEASE once, after the command
\* has left both lists and its ACTIVATE call-back has returned
\* (wlan_serialization_internal.c:524-539, wlan_serialization_non_scan.c:699-724).
THEOREM ReleasedOnce == Safety => []ReleaseOrder
<1>1. TypeStrong /\ LifeInv => ReleaseOrder BY LifeOrder DEF TypeStrong
<1> QED BY <1>1, LifeAlways, PTL

\* An active command has its timer from before its call-back to its end, or
\* its activation has failed and is about to take it out ("an active command
\* should always have the timer", wlan_serialization_non_scan.c:643-646).
THEOREM ActiveHasTimer == Safety => []TimerHeld
<1>1. TypeStrong /\ LifeInv => TimerHeld BY LifeTimer DEF TypeStrong
<1> QED BY <1>1, LifeAlways, PTL
=============================================================================
