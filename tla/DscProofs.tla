----------------------------- MODULE DscProofs -----------------------------
(***************************************************************************)
(* Safety of the Driver Synchronization Core for every tree of contexts    *)
(* and every set of threads.                                               *)
(***************************************************************************)
EXTENDS Dsc, Integers, TLAPS

----------------------------------------------------------------------------
(* The tree. *)

LEMMA Tree ==
  /\ Driver \in Node /\ Psoc \subseteq Node /\ Vdev \subseteq Node
  /\ Driver \notin Psoc /\ Driver \notin Vdev /\ \A p \in Psoc : p \notin Vdev
  /\ \A v \in Vdev : PsocOf[v] \in Psoc
  /\ Ancestors(Driver) = {}
  /\ \A p \in Psoc : Ancestors(p) = {Driver}
  /\ \A v \in Vdev : Ancestors(v) = {Driver, PsocOf[v]}
  /\ \A n \in Node : n = Driver \/ n \in Psoc \/ n \in Vdev
<1>1. Driver \in Node /\ Psoc \subseteq Node /\ Vdev \subseteq Node
  BY DEF Node
<1>2. Driver \notin Psoc /\ Driver \notin Vdev /\ \A p \in Psoc : p \notin Vdev
  BY TreeAssumption
<1>3. \A v \in Vdev : PsocOf[v] \in Psoc
  BY TreeAssumption
<1>4. Ancestors(Driver) = {}
  BY <1>2 DEF Ancestors
<1>5. \A p \in Psoc : Ancestors(p) = {Driver}
  BY <1>2 DEF Ancestors
<1>6. \A v \in Vdev : Ancestors(v) = {Driver, PsocOf[v]}
  BY <1>2 DEF Ancestors
<1> QED BY <1>1, <1>2, <1>3, <1>4, <1>5, <1>6 DEF Node

LEMMA NoneIsFresh == None \notin Caller /\ None \notin Node
BY NoneAssumption DEF Node

LEMMA DownTree ==
  /\ Below(Driver) = Psoc \cup Vdev
  /\ \A p \in Psoc : Below(p) = VdevsOf(p)
  /\ \A v \in Vdev : Below(v) = {}
BY Tree DEF Below, VdevsOf, Node

\* Contexts with a common one down-tree are up-tree of one another.
LEMMA UpTreeIsAChain ==
  ASSUME NEW m \in Node, NEW k \in Node, NEW n \in Subtree(m), n \in Subtree(k)
  PROVE  n \in Node /\ Related(m, k)
BY Tree DEF Subtree, Below, Related

LEMMA SubtreeIsRelated ==
  ASSUME NEW m \in Node, NEW n \in Subtree(m)
  PROVE  n \in Node /\ Related(m, n) /\ Related(n, m)
BY DEF Subtree, Below, Related

LEMMA SubtreeNested ==
  ASSUME NEW m \in Node, NEW n \in Subtree(m)
  PROVE  Subtree(n) \subseteq Subtree(m)
BY Tree DEF Subtree, Below, Node

LEMMA RelatedIsSymmetric ==
  ASSUME NEW m \in Node, NEW n \in Node, Related(m, n)
  PROVE  Related(n, m)
BY DEF Related
----------------------------------------------------------------------------
(* What the tests of the core establish. *)

\* A context whose test succeeds has no transition in flight around it, and no
\* waiter on it or up-tree.
LEMMA CanTransSound ==
  ASSUME NEW n \in Node, CanTrans(n) = "SUCCESS"
  PROVE  /\ \A m \in Node : Related(m, n) => ~Active(m)
         /\ \A m \in {n} \cup Ancestors(n) : ~Queued(m)
<1>1. CASE n = Driver
  BY <1>1, Tree, DownTree DEF CanTrans, DriverCanTrans, ActiveOrQueued, ActiveDownTree, Related
<1>2. CASE n \in Psoc
  <2>1. CanTrans(n) = PsocCanTrans(n)
    BY <1>2, Tree DEF CanTrans
  <2>2. ~ActiveOrQueued(Driver) /\ ~ActiveOrQueued(n) /\ \A m \in Below(n) : ~Active(m)
    BY <2>1 DEF PsocCanTrans, ActiveDownTree
  <2> QED BY <1>2, <2>2, Tree DEF ActiveOrQueued, Related, Below
<1>3. CASE n \in Vdev
  <2>1. CanTrans(n) = VdevCanTrans(n)
    BY <1>3, Tree DEF CanTrans
  <2>2. ~ActiveOrQueued(Driver) /\ ~ActiveOrQueued(PsocOf[n]) /\ ~ActiveOrQueued(n)
    BY <2>1 DEF VdevCanTrans
  <2> QED BY <1>3, <2>2, Tree DEF ActiveOrQueued, Related
<1> QED BY <1>1, <1>2, <1>3, Tree

\* The end of the transition on n starts waiters that exist, that nothing else
\* in flight excludes and that do not exclude each other.
LEMMA TriggersSound ==
  ASSUME NEW n \in Node, Active(n), TreeExclusion, NEW m \in Triggers(n)
  PROVE  /\ m \in Node /\ Queued(m)
         /\ \A k \in Node : Active(k) /\ Related(k, m) => k = n
         /\ \A k \in Triggers(n) : Related(k, m) => k = m
         /\ \A k \in Ancestors(m) : ~Queued(k)
         /\ Related(m, n)
<1>0. \A k \in Node : Active(k) /\ Related(k, n) => k = n
  BY DEF TreeExclusion
<1>1. CASE n = Driver
  <2>1. m \in DriverTriggers /\ Triggers(n) = DriverTriggers
    BY <1>1, Tree DEF Triggers
  <2>2. \A k \in Node : Related(k, n)
    BY <1>1, Tree DEF Related
  <2> QED BY <1>0, <1>1, <2>1, <2>2, Tree DEF DriverTriggers, Related
<1>2. CASE n \in Psoc
  <2>1. m \in PsocTriggers(n) /\ Triggers(n) = PsocTriggers(n)
    BY <1>2, Tree DEF Triggers
  <2>2. CASE Queued(Driver)
    <3>1. m = Driver /\ DriverCanTrigger(n) /\ Triggers(n) \subseteq {Driver}
      BY <2>1, <2>2 DEF PsocTriggers
    <3> QED BY <1>2, <2>2, <3>1, Tree DEF DriverCanTrigger, Related
  <2>3. CASE ~Queued(Driver) /\ Queued(n)
    <3>1. m = n /\ Triggers(n) = {n}
      BY <2>1, <2>3 DEF PsocTriggers
    <3> QED BY <1>0, <1>2, <2>3, <3>1, Tree DEF Related
  <2>4. CASE ~Queued(Driver) /\ ~Queued(n)
    <3>1. m \in VdevsOf(n) /\ Queued(m) /\ Triggers(n) \subseteq VdevsOf(n)
      BY <2>1, <2>4 DEF PsocTriggers
    <3>2. \A k \in VdevsOf(n) : k \in Vdev /\ PsocOf[k] = n
      BY DEF VdevsOf
    <3>3. \A k \in Node : Related(k, m) => Related(k, n)
      BY <1>2, <3>1, <3>2, Tree DEF Related
    <3> QED BY <1>0, <1>2, <2>4, <3>1, <3>2, <3>3, Tree DEF Related
  <2> QED BY <2>2, <2>3, <2>4
<1>3. CASE n \in Vdev
  <2>1. m \in VdevTriggers(n) /\ Triggers(n) = VdevTriggers(n)
    BY <1>3, Tree DEF Triggers
  <2>2. CASE Queued(Driver)
    <3>1. m = Driver /\ DriverCanTrigger(n) /\ Triggers(n) \subseteq {Driver}
      BY <2>1, <2>2 DEF VdevTriggers
    <3> QED BY <1>3, <2>2, <3>1, Tree DEF DriverCanTrigger, Related
  <2>3. CASE ~Queued(Driver) /\ Queued(PsocOf[n])
    <3>1. m = PsocOf[n] /\ PsocCanTrigger(m, n) /\ Triggers(n) \subseteq {m}
      BY <2>1, <2>3 DEF VdevTriggers
    <3>2. \A k \in Node : Related(k, m) => k = Driver \/ k \in Subtree(m)
      BY <1>3, <3>1, Tree DEF Related, Subtree, Below
    <3> QED BY <1>3, <2>3, <3>1, <3>2, Tree DEF PsocCanTrigger, ActiveOrQueued, Related
  <2>4. CASE ~Queued(Driver) /\ ~Queued(PsocOf[n])
    <3>1. m = n /\ Queued(n) /\ Triggers(n) \subseteq {n}
      BY <2>1, <2>4 DEF VdevTriggers
    <3> QED BY <1>0, <1>3, <2>4, <3>1, Tree DEF Related
  <2> QED BY <2>2, <2>3, <2>4
<1> QED BY <1>1, <1>2, <1>3, Tree
----------------------------------------------------------------------------
(* The queues. *)

LEMMA HeadTail ==
  ASSUME NEW S, NEW q \in Seq(S), q # <<>>
  PROVE  /\ Head(q) \in S /\ Tail(q) \in Seq(S)
         /\ 1 \in DOMAIN q /\ Head(q) = q[1]
         /\ \A i \in DOMAIN Tail(q) : i \in Nat /\ i + 1 \in DOMAIN q /\ Tail(q)[i] = q[i+1]
         /\ \A i \in DOMAIN q : i # 1 => i - 1 \in DOMAIN Tail(q) /\ Tail(q)[i-1] = q[i]
OBVIOUS

LEMMA Appended ==
  ASSUME NEW S, NEW q \in Seq(S), NEW x \in S
  PROVE  /\ Append(q, x) \in Seq(S)
         /\ \A i \in DOMAIN q : i \in DOMAIN Append(q, x) /\ Append(q, x)[i] = q[i]
         /\ \A i \in DOMAIN Append(q, x) :
              (i \in DOMAIN q /\ Append(q, x)[i] = q[i]) \/ (i = Len(q) + 1 /\ Append(q, x)[i] = x)
         /\ Len(q) + 1 \in DOMAIN Append(q, x)
OBVIOUS

----------------------------------------------------------------------------
(* Exclusion.  A trans_stop hands the tree to the waiters it dequeues; that  *)
(* they are asleep, each at one context, is what makes the hand-over sound:  *)
(* exclusion is inductive together with the accounts of queues and owners.   *)

Core == TypeOK /\ TreeExclusion /\ GrantConsistency

LEMMA CoreInit == Init => Core
<1> SUFFICES ASSUME Init PROVE Core
    OBVIOUS
<1>1. TypeOK
  <2>1. QueueAccounting
    <3>1. \A n \in Node : DOMAIN queue[n] = {}
      BY DEF Init
    <3> QED BY <3>1 DEF Init, QueueAccounting
  <2>2. queue \in [Node -> Seq(Caller)]
    BY DEF Init
  <2> QED BY <2>1, <2>2, Tree DEF Init, TypeOK, PC
<1>2. TreeExclusion /\ GrantConsistency
  BY DEF Init, TreeExclusion, GrantConsistency, Active, Owns
<1> QED BY <1>1, <1>2 DEF Core

\* The waiters a trans_stop dequeues.
LEMMA HeadsAsleep ==
  ASSUME Core, NEW n \in Node, Active(n), NEW m \in Triggers(n)
  PROVE  /\ m \in Node /\ Head(queue[m]) \in Caller
         /\ pc[Head(queue[m])] = "queued" /\ at[Head(queue[m])] = m
<1>1. m \in Node /\ queue[m] # <<>>
  BY TriggersSound DEF Core, Queued
<1>2. queue[m] \in Seq(Caller)
  BY <1>1 DEF Core, TypeOK
<1>3. Head(queue[m]) \in Caller /\ 1 \in DOMAIN queue[m] /\ queue[m][1] = Head(queue[m])
  BY <1>1, <1>2, HeadTail
<1> QED BY <1>1, <1>3 DEF Core, TypeOK, QueueAccounting

LEMMA CoreTransStart ==
  ASSUME Core, NEW c \in Caller, NEW n \in Node, TransStart(c, n)
  PROVE  Core'
<1> USE DEF Core
<1>1. \A m \in Node : Related(m, n) => ~Active(m)
  BY CanTransSound DEF TransStart
<1>2. Related(n, n) /\ ~Active(n)
  BY <1>1 DEF Related
<1>3. TypeOK'
  <2>1. QueueAccounting'
    BY DEF TransStart, TypeOK, QueueAccounting
  <2> QED BY <2>1, NoneIsFresh DEF TransStart, TypeOK, PC, platform
<1>4. TreeExclusion'
  <2>1. \A m \in Node : active'[m] = IF m = n THEN c ELSE active[m]
    BY DEF TransStart, TypeOK
  <2> QED BY <1>1, <2>1, RelatedIsSymmetric DEF TreeExclusion, Active
<1>5. GrantConsistency'
  <2>1. /\ \A m \in Node : active'[m] = IF m = n THEN c ELSE active[m]
        /\ \A d \in Caller : /\ pc'[d] = IF d = c THEN "holding" ELSE pc[d]
                            /\ at'[d] = IF d = c THEN n ELSE at[d]
    BY DEF TransStart, TypeOK
  <2>2. ~Owns(c)
    BY DEF TransStart, Owns
  <2>3. ASSUME NEW d \in Caller, Owns(d)'
        PROVE  active'[at'[d]] = d
    <3>1. CASE d = c
      BY <2>1, <3>1
    <3>2. CASE d # c
      <4>1. Owns(d) /\ at'[d] = at[d] /\ active[at[d]] = d
        BY <2>1, <2>3, <3>2 DEF Owns, GrantConsistency
      <4>2. at[d] \in Node
        BY <4>1 DEF Owns, TypeOK
      <4>3. at[d] # n
        BY <1>2, <4>1, NoneIsFresh DEF Active
      <4> QED BY <2>1, <4>1, <4>2, <4>3
    <3> QED BY <3>1, <3>2
  <2>4. ASSUME NEW m \in Node, Active(m)'
        PROVE  Owns(active[m])' /\ at'[active'[m]] = m
    <3>1. CASE m = n
      BY <2>1, <3>1 DEF Owns
    <3>2. CASE m # n
      <4>1. Active(m) /\ active'[m] = active[m] /\ active[m] \in Caller
        BY <2>1, <2>4, <3>2 DEF Active, TypeOK
      <4>2. Owns(active[m]) /\ at[active[m]] = m
        BY <4>1 DEF GrantConsistency
      <4> QED BY <2>1, <2>2, <4>1, <4>2 DEF Owns
    <3> QED BY <3>1, <3>2
  <2> QED BY <2>3, <2>4 DEF GrantConsistency
<1> QED BY <1>3, <1>4, <1>5

LEMMA CoreTransStartWait ==
  ASSUME Core, NEW c \in Caller, NEW n \in Node, TransStartWait(c, n)
  PROVE  Core'
<1> USE DEF Core
<1>1. /\ queue[n] \in Seq(Caller) /\ queue'[n] = Append(queue[n], c)
      /\ \A m \in Node : m # n => queue'[m] = queue[m]
  BY DEF TransStartWait, TypeOK
<1>2. \A d \in Caller : /\ pc'[d] = IF d = c THEN "queued" ELSE pc[d]
                      /\ at'[d] = IF d = c THEN n ELSE at[d]
  BY DEF TransStartWait, TypeOK
<1>3. \A m \in Node : ~\E i \in DOMAIN queue[m] : queue[m][i] = c
  BY DEF TransStartWait, TypeOK, QueueAccounting
<1>4. QueueAccounting'
  <2>1. \A m \in Node : \A i, j \in DOMAIN queue'[m] : queue'[m][i] = queue'[m][j] => i = j
    <3>1. ASSUME NEW m \in Node, m # n
          PROVE  \A i, j \in DOMAIN queue'[m] : queue'[m][i] = queue'[m][j] => i = j
      BY <1>1, <3>1 DEF TypeOK, QueueAccounting
    <3>2. \A i, j \in DOMAIN queue'[n] : queue'[n][i] = queue'[n][j] => i = j
      <4>1. \A i, j \in DOMAIN queue[n] : queue[n][i] = queue[n][j] => i = j
        BY DEF TypeOK, QueueAccounting
      <4>2. \A i \in DOMAIN queue'[n] :
              \/ i \in DOMAIN queue[n] /\ queue'[n][i] = queue[n][i]
              \/ i = Len(queue[n]) + 1 /\ queue'[n][i] = c
        BY <1>1, Appended
      <4> QED BY <1>3, <4>1, <4>2
    <3> QED BY <3>1, <3>2
  <2>2. ASSUME NEW m \in Node, NEW d \in Caller
        PROVE  pc'[d] = "queued" /\ at'[d] = m <=> \E i \in DOMAIN queue'[m] : queue'[m][i] = d
    <3>1. CASE m # n
      BY <1>1, <1>2, <1>3, <3>1 DEF TypeOK, QueueAccounting
    <3>2. CASE m = n /\ d = c
      BY <1>1, <1>2, <3>2, Appended
    <3>3. CASE m = n /\ d # c
      <4>1. (\E i \in DOMAIN queue'[n] : queue'[n][i] = d) <=> \E i \in DOMAIN queue[n] : queue[n][i] = d
        BY <1>1, <3>3, Appended
      <4> QED BY <1>2, <3>3, <4>1 DEF TypeOK, QueueAccounting
    <3> QED BY <3>1, <3>2, <3>3
  <2> QED BY <2>1, <2>2 DEF QueueAccounting
<1>5. TypeOK'
  <2>1. queue' \in [Node -> Seq(Caller)]
    BY <1>1, Appended DEF TransStartWait, TypeOK
  <2> QED BY <1>4, <2>1, NoneIsFresh DEF TransStartWait, TypeOK, PC, platform
<1>6. TreeExclusion' /\ GrantConsistency'
  <2>1. ~Owns(c)
    BY DEF TransStartWait, Owns
  <2> QED BY <1>2, <2>1 DEF TransStartWait, TreeExclusion, GrantConsistency, Active, Owns, TypeOK
<1> QED BY <1>5, <1>6

LEMMA CoreTransStop ==
  ASSUME Core, NEW c \in Caller, TransStop(c)
  PROVE  Core'
<1> DEFINE n == at[c]
           T == Triggers(n)
<1> USE DEF Core
<1>0. n \in Node /\ Active(n) /\ active[n] = c /\ Owns(c)
  <2>1. Owns(c) /\ n \in Node
    BY DEF TransStop, Owns, TypeOK
  <2> QED BY <2>1, NoneIsFresh DEF GrantConsistency, Active
<1>1. \A m \in T :
        /\ m \in Node /\ queue[m] # <<>> /\ Head(queue[m]) \in Caller
        /\ pc[Head(queue[m])] = "queued" /\ at[Head(queue[m])] = m
        /\ \A k \in Node : Active(k) /\ Related(k, m) => k = n
        /\ \A k \in T : Related(k, m) => k = m
  BY <1>0, HeadsAsleep, TriggersSound DEF Queued
<1>2. \A m \in Node :
        /\ active'[m] = IF m \in T THEN Head(queue[m]) ELSE IF m = n THEN None ELSE active[m]
        /\ queue'[m] = IF m \in T THEN Tail(queue[m]) ELSE queue[m]
  BY DEF TransStop
<1>3. \A d \in Caller :
        /\ pc'[d] = IF \E m \in T : d = Head(queue[m]) THEN "granted"
                    ELSE IF d = c THEN "idle" ELSE pc[d]
        /\ at'[d] = IF d = c THEN None ELSE at[d]
  BY DEF TransStop, TypeOK
<1>4. \A m \in T : Head(queue[m]) # c
  BY <1>0, <1>1 DEF Owns
<1>5. \A m \in Node : queue[m] \in Seq(Caller)
  BY DEF TypeOK
<1>6. QueueAccounting'
  <2>1. ASSUME NEW m \in Node, NEW i \in DOMAIN queue'[m], NEW j \in DOMAIN queue'[m],
               queue'[m][i] = queue'[m][j]
        PROVE  i = j
    <3>1. CASE m \notin T
      BY <1>2, <2>1, <3>1 DEF TypeOK, QueueAccounting
    <3>2. CASE m \in T
      <4>1. /\ i \in Nat /\ j \in Nat
            /\ i + 1 \in DOMAIN queue[m] /\ j + 1 \in DOMAIN queue[m]
            /\ queue[m][i + 1] = queue[m][j + 1]
        <5>1. queue'[m] = Tail(queue[m]) /\ queue[m] \in Seq(Caller) /\ queue[m] # <<>>
          BY <1>1, <1>2, <1>5, <3>2
        <5>2. \A k \in DOMAIN queue'[m] :
                k \in Nat /\ k + 1 \in DOMAIN queue[m] /\ queue'[m][k] = queue[m][k+1]
          BY <5>1, HeadTail
        <5> QED BY <2>1, <5>2
      <4>2. i + 1 = j + 1
        BY <4>1 DEF TypeOK, QueueAccounting
      <4> QED BY <4>1, <4>2
    <3> QED BY <3>1, <3>2
  <2>2. ASSUME NEW m \in Node, NEW d \in Caller
        PROVE  pc'[d] = "queued" /\ at'[d] = m <=> \E i \in DOMAIN queue'[m] : queue'[m][i] = d
    <3>1. CASE d = c
      <4>1. pc'[d] = "idle"
        BY <1>3, <1>4, <3>1
      <4>2. \A i \in DOMAIN queue[m] : queue[m][i] # c
        <5>1. pc[c] # "queued"
          BY <1>0 DEF Owns
        <5> QED BY <5>1 DEF TypeOK, QueueAccounting
      <4>3. \A i \in DOMAIN queue'[m] : queue'[m][i] # c
        <5>1. CASE m \in T
          <6>1. queue'[m] = Tail(queue[m]) /\ queue[m] \in Seq(Caller) /\ queue[m] # <<>>
            BY <1>1, <1>2, <1>5, <5>1
          <6>2. \A k \in DOMAIN queue'[m] :
                  k + 1 \in DOMAIN queue[m] /\ queue'[m][k] = queue[m][k+1]
            BY <6>1, HeadTail
          <6> QED BY <4>2, <6>2
        <5>2. CASE m \notin T
          BY <1>2, <4>2, <5>2
        <5> QED BY <5>1, <5>2
      <4> QED BY <3>1, <4>1, <4>3
    <3>2. CASE d # c /\ m \notin T
      <4>1. pc[d] = "queued" /\ at[d] = m => \A k \in T : d # Head(queue[k])
        BY <1>1, <3>2
      <4>2. pc'[d] = "queued" => \A k \in T : d # Head(queue[k])
        BY <1>3
      <4>3. pc'[d] = "queued" /\ at'[d] = m <=> pc[d] = "queued" /\ at[d] = m
        BY <1>3, <3>2, <4>1, <4>2
      <4>4. queue'[m] = queue[m]
        BY <1>2, <3>2
      <4> QED BY <4>3, <4>4 DEF TypeOK, QueueAccounting
    <3>3. CASE d # c /\ m \in T
      <4>1. pc'[d] = "queued" /\ at'[d] = m <=> pc[d] = "queued" /\ at[d] = m /\ d # Head(queue[m])
        BY <1>1, <1>3, <3>3
      <4>2. pc[d] = "queued" /\ at[d] = m <=> \E i \in DOMAIN queue[m] : queue[m][i] = d
        BY DEF TypeOK, QueueAccounting
      <4>3. \A i \in DOMAIN queue[m] : queue[m][i] = Head(queue[m]) => i = 1
        BY <1>1, <1>5, <3>3, HeadTail DEF TypeOK, QueueAccounting
      <4>4. (\E i \in DOMAIN queue'[m] : queue'[m][i] = d)
              <=> \E i \in DOMAIN queue[m] : queue[m][i] = d /\ d # Head(queue[m])
        <5>1. /\ \A i \in DOMAIN Tail(queue[m]) :
                   i \in Nat /\ i + 1 \in DOMAIN queue[m] /\ Tail(queue[m])[i] = queue[m][i+1]
              /\ \A i \in DOMAIN queue[m] :
                   i # 1 => i - 1 \in DOMAIN Tail(queue[m]) /\ Tail(queue[m])[i-1] = queue[m][i]
              /\ Head(queue[m]) = queue[m][1]
          BY <1>1, <1>5, <3>3, HeadTail
        <5>2. \A i \in DOMAIN Tail(queue[m]) : i + 1 # 1
          BY <5>1
        <5>3. \A i \in DOMAIN Tail(queue[m]) : queue[m][i + 1] # Head(queue[m])
          BY <4>3, <5>1, <5>2
        <5>4. queue'[m] = Tail(queue[m])
          BY <1>2, <3>3
        <5>5. ASSUME NEW i \in DOMAIN queue'[m], queue'[m][i] = d
              PROVE  \E j \in DOMAIN queue[m] : queue[m][j] = d /\ d # Head(queue[m])
          BY <5>1, <5>3, <5>4, <5>5
        <5>6. ASSUME NEW i \in DOMAIN queue[m], queue[m][i] = d, d # Head(queue[m])
              PROVE  \E j \in DOMAIN queue'[m] : queue'[m][j] = d
          BY <5>1, <5>4, <5>6
        <5> QED BY <5>5, <5>6
      <4> QED BY <4>1, <4>2, <4>4
    <3> QED BY <3>1, <3>2, <3>3
  <2> QED BY <2>1, <2>2 DEF QueueAccounting
<1>7. TypeOK'
  <2>1. queue' \in [Node -> Seq(Caller)]
    BY <1>1, <1>2, <1>5, HeadTail DEF TransStop
  <2>2. active' \in [Node -> Caller \cup {None}]
    BY <1>1, <1>2 DEF TransStop, TypeOK
  <2>3. pc' \in [Caller -> PC] /\ at' \in [Caller -> Node \cup {None}]
    BY <1>3 DEF TransStop, TypeOK, PC
  <2>4. \A d \in Caller : pc'[d] \notin {"idle", "aborted"} => at'[d] # None
    BY <1>1, <1>3, <1>4, NoneAssumption DEF TypeOK, Node
  <2>5. \A d \in Caller : pc'[d] = "sleeping" => on'[d] # None
    BY <1>3 DEF TransStop, TypeOK
  <2> QED BY <1>6, <2>1, <2>2, <2>3, <2>4, <2>5 DEF TransStop, TypeOK, platform
<1>8. TreeExclusion'
  BY <1>0, <1>1, <1>2, RelatedIsSymmetric DEF TreeExclusion, Active
<1>9. GrantConsistency'
  <2>1. ASSUME NEW d \in Caller, Owns(d)'
        PROVE  active'[at'[d]] = d
    <3>1. CASE \E m \in T : d = Head(queue[m])
      BY <1>1, <1>2, <1>3, <1>4, <3>1
    <3>2. CASE \A m \in T : d # Head(queue[m])
      <4>1. d # c /\ Owns(d) /\ at'[d] = at[d]
        BY <1>3, <2>1, <3>2 DEF Owns
      <4>2. at[d] \in Node /\ at[d] # n /\ active[at[d]] = d
        <5>1. active[at[d]] = d /\ at[d] \in Node
          BY <4>1 DEF Owns, GrantConsistency, TypeOK
        <5> QED BY <1>0, <4>1, <5>1
      <4>3. Active(at[d])
        BY <4>2, NoneAssumption DEF Active
      <4>4. Related(at[d], at[d])
        BY DEF Related
      <4>5. at[d] \notin T
        BY <1>1, <4>2, <4>3, <4>4
      <4> QED BY <1>2, <4>1, <4>2, <4>5
    <3> QED BY <3>1, <3>2
  <2>2. ASSUME NEW m \in Node, Active(m)'
        PROVE  Owns(active[m])' /\ at'[active'[m]] = m
    <3>1. CASE m \in T
      BY <1>1, <1>2, <1>3, <1>4, <3>1 DEF Owns
    <3>2. CASE m \notin T
      <4>1. m # n /\ active'[m] = active[m] /\ Active(m)
        BY <1>2, <2>2, <3>2 DEF Active
      <4>2. active[m] \in Caller /\ Owns(active[m]) /\ at[active[m]] = m
        BY <4>1 DEF GrantConsistency, TypeOK, Active
      <4>3. active[m] # c
        BY <4>1, <4>2
      <4>4. \A k \in T : active[m] # Head(queue[k])
        BY <1>1, <4>2 DEF Owns
      <4> QED BY <1>3, <4>1, <4>2, <4>3, <4>4 DEF Owns
    <3> QED BY <3>1, <3>2
  <2> QED BY <2>1, <2>2 DEF GrantConsistency
<1> QED BY <1>7, <1>8, <1>9

\* A caller that neither waits nor changes what it owns disturbs no account.
LEMMA CoreOneCaller ==
  ASSUME Core, NEW c \in Caller, UNCHANGED <<active, queue>>,
         \A d \in Caller : d # c => pc'[d] = pc[d] /\ at'[d] = at[d],
         pc[c] # "queued", pc'[c] # "queued",
         Owns(c)' <=> Owns(c), Owns(c) => at'[c] = at[c]
  PROVE  TreeExclusion' /\ GrantConsistency' /\ QueueAccounting'
<1> USE DEF Core
<1>1. TreeExclusion'
  BY DEF TreeExclusion, Active
<1>2. \A d \in Caller : (Owns(d)' <=> Owns(d)) /\ (Owns(d) => at'[d] = at[d])
  BY DEF Owns
<1>3. GrantConsistency'
  <2>1. \A n \in Node : Active(n)' => active[n] \in Caller /\ Active(n)
    BY DEF Active, TypeOK
  <2> QED BY <1>2, <2>1 DEF GrantConsistency
<1>4. QueueAccounting'
  <2>1. \A d \in Caller, n \in Node :
          pc'[d] = "queued" /\ at'[d] = n <=> pc[d] = "queued" /\ at[d] = n
    OBVIOUS
  <2> QED BY <2>1 DEF TypeOK, QueueAccounting
<1> QED BY <1>1, <1>3, <1>4

LEMMA CoreFree ==
  ASSUME Core, NEW n \in Node, n # Driver, Free(n)
  PROVE  Core'
<1> USE DEF Core
<1>1. /\ \A m \in Node : queue'[m] = IF m = n THEN <<>> ELSE queue[m]
      /\ \A d \in Caller : pc'[d] = IF \E i \in DOMAIN queue[n] : queue[n][i] = d
                                  THEN "aborted" ELSE pc[d]
  BY DEF Free, TypeOK
<1>2. \A d \in Caller : (\E i \in DOMAIN queue[n] : queue[n][i] = d) <=> pc[d] = "queued" /\ at[d] = n
  BY DEF TypeOK, QueueAccounting
<1>3. \A d \in Caller : pc'[d] = IF pc[d] = "queued" /\ at[d] = n THEN "aborted" ELSE pc[d]
  BY <1>1, <1>2
<1>4. QueueAccounting'
  <2>1. ASSUME NEW m \in Node
        PROVE  \A i, j \in DOMAIN queue'[m] : queue'[m][i] = queue'[m][j] => i = j
    <3>1. CASE m = n
      <4>1. queue'[m] = <<>>
        BY <1>1, <3>1
      <4>2. DOMAIN queue'[m] = {}
        BY <4>1
      <4> QED BY <4>2
    <3>2. CASE m # n
      BY <1>1, <3>2 DEF TypeOK, QueueAccounting
    <3> QED BY <3>1, <3>2
  <2>2. ASSUME NEW m \in Node, NEW d \in Caller
        PROVE  pc'[d] = "queued" /\ at'[d] = m <=> \E i \in DOMAIN queue'[m] : queue'[m][i] = d
    <3>1. CASE m = n
      BY <1>1, <1>3, <3>1 DEF Free
    <3>2. CASE m # n
      BY <1>1, <1>3, <3>2 DEF Free, TypeOK, QueueAccounting
    <3> QED BY <3>1, <3>2
  <2> QED BY <2>1, <2>2 DEF QueueAccounting
<1>5. TypeOK'
  <2>1. queue' \in [Node -> Seq(Caller)]
    BY DEF Free, TypeOK
  <2>2. pc' \in [Caller -> PC]
    BY DEF Free, TypeOK, PC
  <2>3. \A d \in Caller : /\ pc'[d] \notin {"idle", "aborted"} => at'[d] # None
                        /\ pc'[d] = "sleeping" => on'[d] # None
    BY <1>3 DEF Free, TypeOK
  <2> QED BY <1>4, <2>1, <2>2, <2>3 DEF Free, TypeOK, platform
<1>6. TreeExclusion' /\ GrantConsistency'
  <2>1. \A d \in Caller : (Owns(d)' <=> Owns(d)) /\ at'[d] = at[d]
    BY <1>3 DEF Owns, Free
  <2>2. active' = active /\ \A m \in Node : Active(m) => active[m] \in Caller
    BY DEF Free, Active, TypeOK
  <2> QED BY <2>1, <2>2 DEF TreeExclusion, GrantConsistency, Active
<1> QED BY <1>5, <1>6

\* The steps that touch neither active_desc nor a queue.
LEMMA CoreProceed ==
  ASSUME Core, NEW c \in Caller, Proceed(c), ~TransStop(c)
  PROVE  Core'
<1> USE DEF Core
<1>1. CASE WaitGranted(c)
  BY <1>1, CoreOneCaller DEF WaitGranted, TypeOK, PC, Owns, platform
<1>2. CASE WaitAborted(c)
  BY <1>2, CoreOneCaller DEF WaitAborted, TypeOK, PC, Owns, platform
<1>3. CASE OpStop(c)
  BY <1>3, CoreOneCaller DEF OpStop, TypeOK, PC, Owns, platform
<1>4. ASSUME NEW n \in Node, WaitForOps(c, n)
      PROVE  Core'
  BY <1>4, CoreOneCaller DEF WaitForOps, TypeOK, PC, Owns, platform
<1>5. CASE Wake(c)
  BY <1>5, CoreOneCaller DEF Wake, TypeOK, PC, Owns, platform
<1>6. CASE Drained(c)
  BY <1>6, CoreOneCaller DEF Drained, TypeOK, PC, Owns, platform
<1>7. ASSUME NEW n \in Node, VisitQuiet(c, n)
      PROVE  Core'
  BY <1>7, CoreOneCaller DEF VisitQuiet, TypeOK, PC, Owns, platform
<1>8. ASSUME NEW n \in Node, VisitBusy(c, n)
      PROVE  Core'
  BY <1>8, CoreOneCaller, NoneIsFresh DEF VisitBusy, TypeOK, PC, Owns, platform
<1> QED BY <1>1, <1>2, <1>3, <1>4, <1>5, <1>6, <1>7, <1>8 DEF Proceed, Drain

LEMMA CoreRest ==
  ASSUME Core,
         \/ \E n \in Node : Create(n)
         \/ \E c \in Caller, n \in Node : OpStart(c, n)
         \/ SetRecovering \/ SetUnloading \/ UNCHANGED vars
  PROVE  Core'
<1> USE DEF Core
<1>1. ASSUME NEW c \in Caller, NEW n \in Node, OpStart(c, n)
      PROVE  Core'
  BY <1>1, CoreOneCaller, NoneIsFresh DEF OpStart, TypeOK, PC, Owns, platform
<1>2. ASSUME UNCHANGED <<active, queue, pc, at>>
      PROVE  TreeExclusion' /\ GrantConsistency' /\ QueueAccounting'
  BY <1>2 DEF TreeExclusion, GrantConsistency, QueueAccounting, TypeOK, Active, Owns
<1>3. ASSUME NEW n \in Node, Create(n)
      PROVE  Core'
  BY <1>2, <1>3 DEF Create, TypeOK, platform
<1>4. CASE SetRecovering \/ SetUnloading \/ UNCHANGED vars
  BY <1>2, <1>4 DEF SetRecovering, SetUnloading, vars, TypeOK
<1> QED BY <1>1, <1>3, <1>4

LEMMA CoreStep == Core /\ [Next]_vars => Core'
<1> SUFFICES ASSUME Core, [Next]_vars PROVE Core'
    OBVIOUS
<1>1. ASSUME NEW c \in Caller, NEW n \in Node, Destroy(c, n)
      PROVE  Core'
  BY <1>1, CoreFree DEF Destroy, MayDestroy
<1>2. ASSUME NEW c \in Caller, Proceed(c)
      PROVE  Core'
  BY <1>2, CoreProceed, CoreTransStop
<1> QED BY <1>1, <1>2, CoreTransStart, CoreTransStartWait, CoreRest DEF Next

\* Every structure of the core keeps its type, and each thread asleep in
\* __dsc_tran_wait has its tran in exactly one place of one queue.
THEOREM DscTypeOK == Spec => []TypeOK
BY CoreInit, CoreStep, PTL DEF Spec, Core

\* Whatever trans_stop hands over and in whatever order transitions come, no
\* two in flight are related in the tree (wlan_dsc.h:20-47).
THEOREM DscTreeExclusion == Spec => []TreeExclusion
BY CoreInit, CoreStep, PTL DEF Spec, Core

\* The active_desc of a context and its owner's view of it never part.
THEOREM DscGrantConsistency == Spec => []GrantConsistency
BY CoreInit, CoreStep, PTL DEF Spec, Core
----------------------------------------------------------------------------
(* Draining.  wait_for_ops looks at each context once, under the lock, and   *)
(* sleeps at most once for each; that nothing runs in the subtree when it    *)
(* returns rests on the contexts already visited staying quiet, and on each  *)
(* event having one sleeper and meaning what it says.                        *)

OpAccounting ==
  \A n \in Node, c \in Caller : c \in ops[n] <=> pc[c] = "op" /\ at[c] = n

TodoAccounting ==
  \A c \in Caller :
    /\ todo[c] # {} => pc[c] \in {"draining", "sleeping"} /\ todo[c] \subseteq Subtree(at[c])
    /\ pc[c] = "sleeping" => on[c] \in todo[c]

VisitedQuiet ==
  \A c \in Caller : pc[c] \in {"draining", "sleeping", "drained"} =>
    \A n \in Subtree(at[c]) \ todo[c] : ops[n] = {}

EventMeansQuiet ==
  \A c \in Caller : pc[c] = "sleeping" /\ on[c] \in signalled => ops[on[c]] = {}

DrainInv ==
  /\ Core
  /\ OpAccounting /\ TodoAccounting /\ VisitedQuiet /\ EventMeansQuiet
  /\ NoLostWakeup /\ DetachedQuiet

LEMMA DrainInit == Init => DrainInv
<1> SUFFICES ASSUME Init PROVE DrainInv
    OBVIOUS
<1>1. OpAccounting /\ TodoAccounting /\ VisitedQuiet /\ EventMeansQuiet /\ NoLostWakeup
  BY DEF Init, OpAccounting, TodoAccounting, VisitedQuiet, EventMeansQuiet, NoLostWakeup
<1>2. DetachedQuiet
  BY DEF Init, DetachedQuiet, ActiveOrQueued, Active, Queued
<1> QED BY <1>1, <1>2, CoreInit DEF DrainInv

\* The owner of a transition keeps others out of its subtree.
LEMMA OwnersSubtree ==
  ASSUME Core, NEW c \in Caller, Owns(c), NEW n \in Subtree(at[c])
  PROVE  /\ at[c] \in Node /\ n \in Node /\ Active(at[c]) /\ active[at[c]] = c
         /\ Related(at[c], n)
<1>1. at[c] \in Node /\ active[at[c]] = c
  <2>1. active[at[c]] = c
    BY DEF Core, GrantConsistency
  <2>2. at[c] \in Node
    BY DEF Core, TypeOK, Owns
  <2> QED BY <2>1, <2>2
<1>2. Active(at[c])
  BY <1>1, NoneIsFresh DEF Active
<1>3. n \in Node /\ Related(at[c], n)
  BY <1>1 DEF Subtree, Below, Related
<1> QED BY <1>1, <1>2, <1>3

\* Two owners never drain the same context.
LEMMA OneDrainer ==
  ASSUME Core, NEW c \in Caller, NEW d \in Caller, Owns(c), Owns(d),
         NEW n \in Subtree(at[c]), n \in Subtree(at[d])
  PROVE  c = d
<1>1. Related(at[c], at[d])
  BY OwnersSubtree, UpTreeIsAChain
<1> QED BY <1>1, OwnersSubtree DEF Core, TreeExclusion

\* No operation starts in the subtree of an owner.
LEMMA NoNewOps ==
  ASSUME Core, NEW c \in Caller, Owns(c), NEW n \in Node, CanTrans(n) = "SUCCESS"
  PROVE  n \notin Subtree(at[c])
BY OwnersSubtree, CanTransSound

\* What only some caller c changes, of its own place in the core.
LEMMA DrainStart ==
  ASSUME DrainInv, Core', NEW c \in Caller, NEW n \in Node,
         TransStart(c, n) \/ TransStartWait(c, n)
  PROVE  DrainInv'
<1> USE DEF DrainInv
<1>1. /\ pc[c] = "idle" /\ n \in attached /\ pc'[c] \in {"holding", "queued"} /\ at'[c] = n
      /\ \A d \in Caller : d # c => pc'[d] = pc[d] /\ at'[d] = at[d]
      /\ UNCHANGED <<attached, ops, signalled, todo, on>>
      /\ \A m \in Node : m # n => active'[m] = active[m] /\ queue'[m] = queue[m]
  BY DEF TransStart, TransStartWait, Core, TypeOK
<1>2. todo[c] = {}
  BY <1>1 DEF TodoAccounting
<1>3. OpAccounting' /\ TodoAccounting'
  BY <1>1, <1>2 DEF OpAccounting, TodoAccounting
<1>4. VisitedQuiet' /\ EventMeansQuiet' /\ NoLostWakeup'
  BY <1>1 DEF VisitedQuiet, EventMeansQuiet, NoLostWakeup
<1>5. DetachedQuiet'
  BY <1>1, <1>2 DEF DetachedQuiet, ActiveOrQueued, Active, Queued
<1> QED BY <1>3, <1>4, <1>5

LEMMA DrainOpStart ==
  ASSUME DrainInv, Core', NEW c \in Caller, NEW n \in Node, OpStart(c, n)
  PROVE  DrainInv'
<1> USE DEF DrainInv
<1>1. /\ pc[c] = "idle" /\ n \in attached /\ pc'[c] = "op" /\ at'[c] = n
      /\ \A d \in Caller : d # c => pc'[d] = pc[d] /\ at'[d] = at[d]
      /\ UNCHANGED <<attached, active, queue, signalled, todo, on>>
      /\ \A m \in Node : ops'[m] = IF m = n THEN ops[n] \cup {c} ELSE ops[m]
  BY DEF OpStart, Core, TypeOK
<1>2. todo[c] = {}
  BY <1>1 DEF TodoAccounting
<1>3. OpAccounting' /\ TodoAccounting'
  BY <1>1, <1>2 DEF OpAccounting, TodoAccounting
<1>4. \A d \in Caller : Owns(d) => n \notin Subtree(at[d])
  BY NoNewOps DEF OpStart
<1>5. VisitedQuiet'
  BY <1>1, <1>4, OwnersSubtree DEF VisitedQuiet, Owns
<1>6. \A d \in Caller : pc[d] = "sleeping" => on[d] # n /\ on[d] \in Node
  BY <1>4, OwnersSubtree DEF TodoAccounting, Owns
<1>7. EventMeansQuiet' /\ NoLostWakeup'
  BY <1>1, <1>6 DEF EventMeansQuiet, NoLostWakeup
<1>8. DetachedQuiet'
  BY <1>1, <1>2 DEF DetachedQuiet, ActiveOrQueued, Active, Queued
<1> QED BY <1>3, <1>5, <1>7, <1>8

LEMMA DrainTransStop ==
  ASSUME DrainInv, Core', NEW c \in Caller, TransStop(c)
  PROVE  DrainInv'
<1> DEFINE n == at[c]
           T == Triggers(n)
<1> USE DEF DrainInv
<1>0. n \in Node /\ Active(n)
  BY OwnersSubtree DEF TransStop, Owns, Subtree
<1>1. /\ \A m \in Node :
           /\ active'[m] = IF m \in T THEN Head(queue[m]) ELSE IF m = n THEN None ELSE active[m]
           /\ queue'[m] = IF m \in T THEN Tail(queue[m]) ELSE queue[m]
      /\ \A d \in Caller :
           /\ pc'[d] = IF \E m \in T : d = Head(queue[m]) THEN "granted"
                       ELSE IF d = c THEN "idle" ELSE pc[d]
           /\ at'[d] = IF d = c THEN None ELSE at[d]
      /\ UNCHANGED <<attached, ops, signalled, todo, on>>
  BY DEF TransStop, Core, TypeOK
<1>2. \A m \in T : /\ m \in Node /\ m \in attached /\ Head(queue[m]) \in Caller
                   /\ pc[Head(queue[m])] = "queued" /\ at[Head(queue[m])] = m
  BY <1>0, HeadsAsleep, TriggersSound DEF DetachedQuiet, ActiveOrQueued
<1>3. pc[c] \in {"holding", "drained"} /\ todo[c] = {}
  BY DEF TransStop, TodoAccounting
<1> DEFINE Kept(d) == pc'[d] = pc[d] /\ at'[d] = at[d]
           Woken(d) == pc[d] = "queued" /\ pc'[d] = "granted" /\ at'[d] = at[d] /\ todo[d] = {}
           Gone(d) == d = c /\ pc'[d] = "idle"
<1>4. \A d \in Caller : Kept(d) \/ Woken(d) \/ Gone(d)
  <2>1. ASSUME NEW d \in Caller, \E m \in T : d = Head(queue[m])
        PROVE  Woken(d)
    <3>1. pc[d] = "queued" /\ d # c
      BY <1>2, <1>3, <2>1
    <3>2. todo[d] = {}
      BY <3>1 DEF TodoAccounting
    <3> QED BY <1>1, <2>1, <3>1, <3>2
  <2>2. ASSUME NEW d \in Caller, ~\E m \in T : d = Head(queue[m])
        PROVE  Kept(d) \/ Gone(d)
    BY <1>1, <2>2
  <2> QED BY <2>1, <2>2
<1>5. OpAccounting' /\ TodoAccounting'
  BY <1>1, <1>3, <1>4 DEF OpAccounting, TodoAccounting
<1>6. VisitedQuiet' /\ EventMeansQuiet' /\ NoLostWakeup'
  BY <1>1, <1>4 DEF VisitedQuiet, EventMeansQuiet, NoLostWakeup
<1>7. DetachedQuiet'
  <2>1. ASSUME NEW m \in Node \ attached'
        PROVE  ~ActiveOrQueued(m)' /\ ops'[m] = {}
    <3>1. ~ActiveOrQueued(m) /\ ops[m] = {} /\ m \notin T
      BY <1>1, <1>2, <2>1 DEF DetachedQuiet
    <3> QED BY <1>1, <3>1 DEF ActiveOrQueued, Active, Queued
  <2>2. \A d \in Caller : pc'[d] \notin {"idle", "aborted"} => {at'[d]} \cup todo'[d] \subseteq attached'
    BY <1>1, <1>4 DEF DetachedQuiet
  <2> QED BY <2>1, <2>2 DEF DetachedQuiet
<1> QED BY <1>5, <1>6, <1>7

LEMMA DrainOpStop ==
  ASSUME DrainInv, Core', NEW c \in Caller, OpStop(c)
  PROVE  DrainInv'
<1> USE DEF DrainInv
<1>1. /\ pc[c] = "op" /\ pc'[c] = "idle" /\ at[c] \in Node /\ c \in ops[at[c]]
      /\ \A d \in Caller : d # c => pc'[d] = pc[d] /\ at'[d] = at[d]
      /\ UNCHANGED <<attached, active, queue, todo, on>>
      /\ \A m \in Node : ops'[m] = IF m = at[c] THEN ops[m] \ {c} ELSE ops[m]
      /\ \A m \in Node : m \in signalled' <=> m \in signalled \/ (m = at[c] /\ ops[m] = {c})
  <2>1. pc[c] = "op" /\ at[c] \in Node /\ c \in ops[at[c]]
    BY DEF OpStop, OpAccounting, Core, TypeOK
  <2>2. /\ pc'[c] = "idle"
        /\ \A d \in Caller : d # c => pc'[d] = pc[d] /\ at'[d] = at[d]
    BY DEF OpStop, Core, TypeOK
  <2>3. UNCHANGED <<attached, active, queue, todo, on>>
    BY DEF OpStop
  <2>4. \A m \in Node : ops'[m] = IF m = at[c] THEN ops[m] \ {c} ELSE ops[m]
    BY <2>1 DEF OpStop, Core, TypeOK
  <2>5. \A m \in Node : m \in signalled' <=> m \in signalled \/ (m = at[c] /\ ops[m] = {c})
    BY <2>1 DEF OpStop
  <2> QED BY <2>1, <2>2, <2>3, <2>4, <2>5
<1>2. todo[c] = {}
  BY <1>1 DEF TodoAccounting
<1>3. OpAccounting' /\ TodoAccounting'
  <2>1. \A m \in Node, d \in Caller : d \in ops'[m] <=> d \in ops[m] /\ d # c
    <3>1. \A m \in Node : c \in ops[m] => m = at[c]
      BY <1>1 DEF OpAccounting
    <3> QED BY <1>1, <3>1
  <2>2. OpAccounting'
    BY <1>1, <2>1 DEF OpAccounting
  <2> QED BY <1>1, <1>2, <2>2 DEF TodoAccounting
<1>4. \A m \in Node : ops'[m] \subseteq ops[m]
  BY <1>1
<1>5. VisitedQuiet'
  BY <1>1, <1>4, OwnersSubtree DEF VisitedQuiet, Owns
<1>6. \A d \in Caller : pc[d] = "sleeping" => on[d] \in Node
  BY OwnersSubtree DEF TodoAccounting, Owns
<1>7. EventMeansQuiet' /\ NoLostWakeup'
  <2>1. ops'[at[c]] = {} <=> ops[at[c]] = {c}
    BY <1>1
  <2>2. \A d \in Caller : pc'[d] = "sleeping" => d # c /\ pc[d] = "sleeping" /\ on'[d] = on[d]
    BY <1>1
  <2>3. ASSUME NEW d \in Caller, pc'[d] = "sleeping"
        PROVE  on'[d] \in signalled' <=> ops'[on'[d]] = {}
    <3>1. on[d] \in Node /\ on'[d] = on[d] /\ (on[d] \in signalled <=> ops[on[d]] = {})
      BY <1>6, <2>2, <2>3 DEF EventMeansQuiet, NoLostWakeup
    <3>2. CASE on[d] = at[c]
      BY <1>1, <2>1, <3>1, <3>2
    <3>3. CASE on[d] # at[c]
      BY <1>1, <3>1, <3>3
    <3> QED BY <3>2, <3>3
  <2> QED BY <2>3 DEF EventMeansQuiet, NoLostWakeup
<1>8. DetachedQuiet'
  BY <1>1, <1>2, <1>4 DEF DetachedQuiet, ActiveOrQueued, Active, Queued
<1> QED BY <1>3, <1>5, <1>7, <1>8

\* The steps of wait_for_ops itself.
LEMMA DrainVisit ==
  ASSUME DrainInv, Core', NEW c \in Caller, Drain(c)
  PROVE  DrainInv'
<1> USE DEF DrainInv
<1>0. /\ UNCHANGED <<attached, active, queue, ops, at>>
      /\ \A d \in Caller : d # c => pc'[d] = pc[d] /\ todo'[d] = todo[d] /\ on'[d] = on[d]
      /\ pc[c] \in {"holding", "draining", "sleeping", "drained"}
      /\ pc'[c] \in {"draining", "sleeping", "drained"}
  BY DEF Drain, WaitForOps, VisitQuiet, VisitBusy, Wake, Drained, Core, TypeOK
<1>1. OpAccounting'
  BY <1>0 DEF OpAccounting
<1>2. \A d \in Caller : pc[d] = "sleeping" => Owns(d) /\ on[d] \in Subtree(at[d]) /\ on[d] \in Node
  BY OwnersSubtree DEF TodoAccounting, Owns
<1>3. at[c] \in Node /\ Owns(c)
  BY <1>0, OwnersSubtree DEF Owns, Subtree
<1>4. DetachedQuiet'
  <2>1. todo'[c] \subseteq attached
    <3>1. todo[c] \subseteq attached
      BY <1>0 DEF DetachedQuiet
    <3> QED BY <3>1 DEF Drain, WaitForOps, VisitQuiet, VisitBusy, Wake, Drained, Core, TypeOK
  <2>2. at[c] \in attached
    BY <1>0 DEF DetachedQuiet
  <2> QED BY <1>0, <2>1, <2>2 DEF DetachedQuiet, ActiveOrQueued, Active, Queued
<1>5. ASSUME NEW n \in Node, WaitForOps(c, n)
      PROVE  DrainInv'
  <2>1. /\ \/ pc[c] = "holding" /\ n = at[c]
           \/ pc[c] = "drained" /\ n \in Subtree(at[c])
        /\ pc'[c] = "draining" /\ todo'[c] = Subtree(n) \cap attached
        /\ on' = on /\ signalled' = signalled
    BY <1>5 DEF WaitForOps, Core, TypeOK
  <2>2. Subtree(n) \subseteq Subtree(at[c])
    BY <1>3, <2>1, SubtreeNested
  <2>3. TodoAccounting' /\ EventMeansQuiet' /\ NoLostWakeup'
    BY <1>0, <2>1, <2>2 DEF TodoAccounting, EventMeansQuiet, NoLostWakeup
  <2>4. \A m \in Subtree(at[c]) \ attached : ops[m] = {}
    BY <1>3, OwnersSubtree DEF DetachedQuiet
  <2>5. \A m \in Subtree(at[c]) \ todo'[c] : ops[m] = {}
    BY <1>0, <2>1, <2>4 DEF VisitedQuiet, TodoAccounting
  <2>6. VisitedQuiet'
    BY <1>0, <2>1, <2>5 DEF VisitedQuiet
  <2> QED BY <1>1, <1>4, <2>3, <2>6
<1>6. ASSUME NEW n \in Node, VisitQuiet(c, n)
      PROVE  DrainInv'
  <2>1. /\ pc[c] = "draining" /\ pc' = pc /\ ops[n] = {} /\ todo'[c] = todo[c] \ {n}
        /\ on' = on /\ signalled' = signalled
    BY <1>6 DEF VisitQuiet, Core, TypeOK
  <2>2. TodoAccounting' /\ EventMeansQuiet' /\ NoLostWakeup' /\ VisitedQuiet'
    BY <1>0, <2>1 DEF TodoAccounting, EventMeansQuiet, NoLostWakeup, VisitedQuiet
  <2> QED BY <1>1, <1>4, <2>2
<1>7. ASSUME NEW n \in Node, VisitBusy(c, n)
      PROVE  DrainInv'
  <2>1. /\ pc[c] = "draining" /\ pc'[c] = "sleeping" /\ on'[c] = n /\ n \in todo[c]
        /\ ops[n] # {} /\ todo' = todo
        /\ signalled' = signalled \ {n}
    BY <1>7 DEF VisitBusy, NextVisit, Core, TypeOK
  <2>2. TodoAccounting' /\ VisitedQuiet'
    BY <1>0, <2>1 DEF TodoAccounting, VisitedQuiet
  <2>3. EventMeansQuiet' /\ NoLostWakeup'
    BY <1>0, <1>2, <2>1 DEF EventMeansQuiet, NoLostWakeup
  <2> QED BY <1>1, <1>4, <2>2, <2>3
<1>8. CASE Wake(c)
  <2>1. /\ pc[c] = "sleeping" /\ pc'[c] = "draining" /\ on[c] \in signalled
        /\ todo'[c] = todo[c] \ {on[c]}
        /\ signalled' = signalled \ {on[c]}
    BY <1>8, <1>2 DEF Wake, Core, TypeOK
  <2>2. ops[on[c]] = {}
    BY <2>1 DEF EventMeansQuiet
  <2>3. TodoAccounting' /\ VisitedQuiet'
    BY <1>0, <2>1, <2>2 DEF TodoAccounting, VisitedQuiet
  <2>4. \A d \in Caller : d # c /\ pc[d] = "sleeping" => on[d] # on[c]
    BY <1>2, <1>3, <2>1, OneDrainer
  <2>5. EventMeansQuiet' /\ NoLostWakeup'
    BY <1>0, <1>2, <2>1, <2>4 DEF EventMeansQuiet, NoLostWakeup
  <2> QED BY <1>1, <1>4, <2>3, <2>5
<1>9. CASE Drained(c)
  <2>1. /\ pc[c] = "draining" /\ pc'[c] = "drained" /\ todo[c] = {}
        /\ UNCHANGED <<todo, on, signalled>>
    BY <1>9 DEF Drained, Core, TypeOK
  <2>2. TodoAccounting' /\ VisitedQuiet' /\ EventMeansQuiet' /\ NoLostWakeup'
    BY <1>0, <2>1 DEF TodoAccounting, VisitedQuiet, EventMeansQuiet, NoLostWakeup
  <2> QED BY <1>1, <1>4, <2>2
<1> QED BY <1>5, <1>6, <1>7, <1>8, <1>9 DEF Drain

LEMMA DrainCreate ==
  ASSUME DrainInv, Core', NEW n \in Node, Create(n)
  PROVE  DrainInv'
<1> USE DEF DrainInv
<1>1. /\ UNCHANGED <<active, queue, ops, pc, at, todo, on>>
      /\ attached' = attached \cup {n} /\ signalled' = signalled \ {n} /\ n \notin attached
  BY DEF Create
<1>2. OpAccounting' /\ TodoAccounting' /\ VisitedQuiet'
  BY <1>1 DEF OpAccounting, TodoAccounting, VisitedQuiet
<1>3. \A d \in Caller : pc[d] = "sleeping" => on[d] # n
  BY <1>1 DEF TodoAccounting, DetachedQuiet
<1>4. EventMeansQuiet' /\ NoLostWakeup'
  BY <1>1, <1>3 DEF EventMeansQuiet, NoLostWakeup
<1>5. DetachedQuiet'
  BY <1>1 DEF DetachedQuiet, ActiveOrQueued, Active, Queued
<1> QED BY <1>2, <1>4, <1>5

LEMMA DrainDestroy ==
  ASSUME DrainInv, Core', NEW c \in Caller, NEW n \in Node, Destroy(c, n)
  PROVE  DrainInv'
<1> USE DEF DrainInv
<1>1. /\ UNCHANGED <<active, ops, signalled, at, todo, on>>
      /\ attached' = attached \ {n}
      /\ \A m \in Node : queue'[m] = IF m = n THEN <<>> ELSE queue[m]
      /\ ops[n] = {} /\ ~Active(n) /\ pc[c] \in {"idle", "holding", "drained"}
      /\ \A d \in Caller : n \notin todo[d]
  BY DEF Destroy, MayDestroy, Free, Core, TypeOK
<1>2. \A d \in Caller : pc'[d] = IF pc[d] = "queued" /\ at[d] = n THEN "aborted" ELSE pc[d]
  BY DEF Destroy, Free, Core, TypeOK, QueueAccounting
<1>3. \A d \in Caller : pc[d] = "queued" => todo[d] = {}
  BY DEF TodoAccounting
<1>4. OpAccounting' /\ TodoAccounting'
  BY <1>1, <1>2, <1>3 DEF OpAccounting, TodoAccounting
<1>5. VisitedQuiet' /\ EventMeansQuiet' /\ NoLostWakeup'
  BY <1>1, <1>2 DEF VisitedQuiet, EventMeansQuiet, NoLostWakeup
<1>6. ASSUME NEW d \in Caller, pc'[d] \notin {"idle", "aborted"}
      PROVE  at[d] # n
  <2>1. pc[d] = pc'[d] /\ ~(pc[d] = "queued" /\ at[d] = n)
    BY <1>2, <1>6
  <2>2. CASE Owns(d)
    BY <1>1, <2>2, OwnersSubtree DEF Subtree
  <2>3. CASE pc[d] = "op"
    BY <1>1, <2>3 DEF OpAccounting
  <2> QED BY <1>6, <2>1, <2>2, <2>3 DEF Core, TypeOK, PC, Owns
<1>7. DetachedQuiet'
  <2>1. ASSUME NEW m \in Node \ attached'
        PROVE  ~ActiveOrQueued(m)' /\ ops'[m] = {}
    BY <1>1, <2>1 DEF DetachedQuiet, ActiveOrQueued, Active, Queued
  <2>2. ASSUME NEW d \in Caller, pc'[d] \notin {"idle", "aborted"}
        PROVE  {at'[d]} \cup todo'[d] \subseteq attached'
    <3>1. {at[d]} \cup todo[d] \subseteq attached
      BY <1>2, <2>2 DEF DetachedQuiet
    <3> QED BY <1>1, <1>6, <2>2, <3>1
  <2> QED BY <2>1, <2>2 DEF DetachedQuiet
<1> QED BY <1>4, <1>5, <1>7

LEMMA DrainStep == DrainInv /\ [Next]_vars => DrainInv'
<1> SUFFICES ASSUME DrainInv, [Next]_vars PROVE DrainInv'
    OBVIOUS
<1>0. Core'
  BY CoreStep DEF DrainInv
<1>1. ASSUME NEW c \in Caller, Proceed(c)
      PROVE  DrainInv'
  <2>1. CASE TransStop(c) \/ OpStop(c) \/ Drain(c)
    BY <1>0, <2>1, DrainTransStop, DrainOpStop, DrainVisit
  <2>2. CASE WaitGranted(c) \/ WaitAborted(c)
    <3>1. /\ UNCHANGED <<attached, active, queue, ops, signalled, todo, on>>
          /\ \A d \in Caller : d # c => pc'[d] = pc[d] /\ at'[d] = at[d]
          /\ pc[c] \in {"granted", "aborted"}
          /\ (pc'[c] = "holding" /\ at'[c] = at[c] /\ pc[c] = "granted") \/ pc'[c] = "idle"
      BY <2>2 DEF WaitGranted, WaitAborted, DrainInv, Core, TypeOK
    <3>2. todo[c] = {}
      BY <3>1 DEF DrainInv, TodoAccounting
    <3>3. OpAccounting' /\ TodoAccounting'
      BY <3>1, <3>2 DEF DrainInv, OpAccounting, TodoAccounting
    <3>4. VisitedQuiet' /\ EventMeansQuiet' /\ NoLostWakeup'
      BY <3>1 DEF DrainInv, VisitedQuiet, EventMeansQuiet, NoLostWakeup
    <3>5. DetachedQuiet'
      BY <3>1, <3>2 DEF DrainInv, DetachedQuiet, ActiveOrQueued, Active, Queued
    <3> QED BY <1>0, <3>3, <3>4, <3>5 DEF DrainInv
  <2> QED BY <1>1, <2>1, <2>2 DEF Proceed
<1>2. CASE SetRecovering \/ SetUnloading \/ UNCHANGED vars
  <2>1. UNCHANGED <<attached, active, queue, ops, signalled, pc, at, todo, on>>
    BY <1>2 DEF SetRecovering, SetUnloading, vars
  <2> QED BY <1>0, <2>1 DEF DrainInv, OpAccounting, TodoAccounting, VisitedQuiet, EventMeansQuiet,
             NoLostWakeup, DetachedQuiet, ActiveOrQueued, Active, Queued
<1> QED BY <1>0, <1>1, <1>2, DrainStart, DrainOpStart, DrainCreate, DrainDestroy DEF Next

LEMMA DrainInvariant == Spec => []DrainInv
BY DrainInit, DrainStep, PTL DEF Spec

\* When wait_for_ops has returned, and until its caller's transition ends, no
\* operation runs on the context or below it.
THEOREM DscDrainedExclusive == Spec => []DrainedExclusive
<1>1. DrainInv => DrainedExclusive
  BY DEF DrainInv, DrainedExclusive, VisitedQuiet, TodoAccounting
<1> QED BY <1>1, DrainInvariant, PTL

\* The reset of an ops.event never wipes out the signal it is there for.
THEOREM DscNoLostWakeup == Spec => []NoLostWakeup
<1>1. DrainInv => NoLostWakeup
  BY DEF DrainInv
<1> QED BY <1>1, DrainInvariant, PTL

\* No thread is inside a context that destroy has freed, as long as clients
\* keep to what destroy asks of them (MayDestroy).
THEOREM DscDetachedQuiet == Spec => []DetachedQuiet
<1>1. DrainInv => DetachedQuiet
  BY DEF DrainInv
<1> QED BY <1>1, DrainInvariant, PTL
----------------------------------------------------------------------------
(* Waiters.  A trans_stop looks at few queues; that no other queue is left   *)
(* with nobody to look at it follows from where the waiters can be.          *)

\* A caller that has to queue does so behind somebody.
LEMMA QueuedBehind ==
  ASSUME NEW n \in Node, CanTrans(n) \in {"E_AGAIN", "E_BUSY"}
  PROVE  \/ \E m \in Node : Active(m) /\ Related(m, n)
         \/ \E m \in Ancestors(n) : Queued(m)
         \/ Queued(n)
<1>1. CASE n = Driver
  <2>1. ActiveOrQueued(n) \/ ActiveDownTree(n)
    BY <1>1, Tree DEF CanTrans, DriverCanTrans
  <2> QED BY <2>1 DEF ActiveOrQueued, ActiveDownTree, Below, Related
<1>2. CASE n \in Psoc
  <2>1. CanTrans(n) = PsocCanTrans(n)
    BY <1>2, Tree DEF CanTrans
  <2>2. ActiveOrQueued(n) \/ ActiveDownTree(n)
    BY <2>1 DEF PsocCanTrans
  <2> QED BY <2>2 DEF ActiveOrQueued, ActiveDownTree, Below, Related
<1>3. CASE n \in Vdev
  <2>1. CanTrans(n) = VdevCanTrans(n)
    BY <1>3, Tree DEF CanTrans
  <2>2. ActiveOrQueued(PsocOf[n]) \/ ActiveOrQueued(n)
    BY <2>1 DEF VdevCanTrans
  <2> QED BY <1>3, <2>2, Tree DEF ActiveOrQueued, Related
<1> QED BY <1>1, <1>2, <1>3, Tree

\* The waiters that looked to the transition on n are started with its end, or
\* have somebody else to look to.
LEMMA TriggersComplete ==
  ASSUME NEW n \in Node, NEW k \in Node, Queued(k), Related(n, k),
         \A m \in Ancestors(k) : ~Queued(m)
  PROVE  \/ \E m \in Triggers(n) : Related(m, k)
         \/ \E m \in Node \ {n} : Active(m) /\ Related(m, k)
<1>1. CASE k \in Triggers(n)
  BY <1>1 DEF Related
<1>2. CASE k = Driver /\ n # Driver
  <2>1. \A m \in Node : Related(m, k)
    BY <1>2, Tree DEF Related
  <2>2. CASE DriverCanTrigger(n)
    <3>1. k \in Triggers(n)
      BY <1>2, <2>2, Tree DEF Triggers, PsocTriggers, VdevTriggers
    <3> QED BY <1>1, <3>1
  <2>3. CASE ~DriverCanTrigger(n)
    BY <2>1, <2>3 DEF DriverCanTrigger
  <2> QED BY <2>2, <2>3
<1>3. CASE n \in Vdev /\ k = PsocOf[n]
  <2>1. ~Queued(Driver)
    BY <1>3, Tree
  <2>2. CASE PsocCanTrigger(k, n)
    <3>1. k \in VdevTriggers(n)
      BY <1>3, <2>1, <2>2 DEF VdevTriggers
    <3>2. k \in Triggers(n)
      BY <1>3, <3>1, Tree DEF Triggers
    <3> QED BY <1>1, <3>2
  <2>3. CASE ~PsocCanTrigger(k, n)
    <3>1. Active(Driver) \/ \E m \in Subtree(k) \ {n} : Active(m)
      BY <2>1, <2>3 DEF PsocCanTrigger, ActiveOrQueued
    <3>2. CASE Active(Driver)
      BY <1>3, <3>2, Tree DEF Related
    <3>3. CASE \E m \in Subtree(k) \ {n} : Active(m)
      BY <3>3, SubtreeIsRelated
    <3> QED BY <3>1, <3>2, <3>3
  <2> QED BY <2>2, <2>3
<1>4. CASE n = Driver
  <2>1. k \in DriverTriggers
    BY Tree DEF DriverTriggers
  <2>2. Triggers(n) = DriverTriggers
    BY <1>4, Tree DEF Triggers
  <2> QED BY <1>1, <2>1, <2>2
<1>5. CASE n \in Psoc /\ k # Driver
  <2>1. ~Queued(Driver)
    BY <1>5, Tree
  <2>2. k = n \/ (k \in VdevsOf(n) /\ ~Queued(n))
    BY <1>5, Tree DEF Related, VdevsOf
  <2>3. k \in PsocTriggers(n)
    BY <2>1, <2>2 DEF PsocTriggers
  <2> QED BY <1>1, <1>5, <2>3, Tree DEF Triggers
<1>6. CASE n \in Vdev /\ k = n
  <2>1. k \in VdevTriggers(n)
    BY <1>6, Tree DEF VdevTriggers
  <2> QED BY <1>1, <1>6, <2>1, Tree DEF Triggers
<1> QED BY <1>2, <1>3, <1>4, <1>5, <1>6, Tree DEF Related

WaiterInv == DrainInv /\ NoLostWaiter

LEMMA WaiterStop ==
  ASSUME WaiterInv, NEW c \in Caller, TransStop(c)
  PROVE  NoLostWaiter'
<1> DEFINE n == at[c]
           T == Triggers(n)
<1> USE DEF WaiterInv, DrainInv
<1>0. n \in Node /\ Active(n)
  BY OwnersSubtree DEF TransStop, Owns, Subtree
<1>1. \A m \in Node :
        /\ active'[m] = IF m \in T THEN Head(queue[m]) ELSE IF m = n THEN None ELSE active[m]
        /\ queue'[m] = IF m \in T THEN Tail(queue[m]) ELSE queue[m]
  BY DEF TransStop
<1>2. \A m \in T : m \in Node /\ Head(queue[m]) \in Caller /\ Queued(m)
  BY <1>0, HeadsAsleep, TriggersSound DEF Core
<1>3. \A m \in T : Active(m)'
  BY <1>1, <1>2, NoneIsFresh DEF Active
<1>4. \A m \in Node \ {n} : Active(m) => Active(m)'
  BY <1>1, <1>3 DEF Active
<1> SUFFICES ASSUME NEW k \in Node, Queued(k)'
             PROVE  \/ \E m \in Node : Active(m)' /\ Related(m, k)
                    \/ \E m \in Ancestors(k) : Queued(m)'
    BY DEF NoLostWaiter
<1>5. Queued(k)
  BY <1>1, <1>2 DEF Queued
<1>6. CASE \E m \in Ancestors(k) : Queued(m)
  <2>1. PICK m \in Ancestors(k) : Queued(m)
    BY <1>6
  <2>2. m \in Node /\ Related(m, k)
    BY <2>1, Tree DEF Related
  <2>3. CASE m \in T
    BY <1>3, <2>2, <2>3
  <2>4. CASE m \notin T
    BY <1>1, <2>1, <2>2, <2>4 DEF Queued
  <2> QED BY <2>3, <2>4
<1>7. CASE \A m \in Ancestors(k) : ~Queued(m)
  <2>1. PICK m \in Node : Active(m) /\ Related(m, k)
    BY <1>5, <1>7 DEF NoLostWaiter
  <2>2. CASE m # n
    BY <1>4, <2>1, <2>2
  <2>3. CASE m = n
    BY <1>0, <1>2, <1>3, <1>4, <1>5, <1>7, <2>1, <2>3, TriggersComplete
  <2> QED BY <2>2, <2>3
<1> QED BY <1>6, <1>7

LEMMA WaiterStep == WaiterInv /\ [Next]_vars => WaiterInv'
<1> SUFFICES ASSUME WaiterInv, [Next]_vars PROVE NoLostWaiter'
    BY DrainStep DEF WaiterInv
<1> USE DEF WaiterInv, DrainInv
<1>1. ASSUME UNCHANGED <<active, queue>>
      PROVE  NoLostWaiter'
  BY <1>1 DEF NoLostWaiter, Active, Queued
<1>2. ASSUME NEW c \in Caller, NEW n \in Node, TransStart(c, n)
      PROVE  NoLostWaiter'
  <2>1. queue' = queue /\ \A m \in Node : Active(m) => Active(m)'
    BY <1>2, NoneIsFresh DEF TransStart, Active, Core, TypeOK
  <2> QED BY <2>1 DEF NoLostWaiter, Queued
<1>3. ASSUME NEW c \in Caller, NEW n \in Node, TransStartWait(c, n)
      PROVE  NoLostWaiter'
  <2>1. active' = active /\ \A m \in Node : m # n => queue'[m] = queue[m]
    BY <1>3 DEF TransStartWait, Core, TypeOK
  <2>2. \A m \in Node : Queued(m) => Queued(m)'
    <3>1. queue[n] \in Seq(Caller) /\ queue'[n] = Append(queue[n], c)
      BY <1>3 DEF TransStartWait, Core, TypeOK
    <3> QED BY <2>1, <3>1, Appended DEF Queued
  <2>3. \A m \in Node : Ancestors(m) \subseteq Node
    BY Tree
  <2>4. \/ \E m \in Node : Active(m) /\ Related(m, n)
        \/ \E m \in Ancestors(n) : Queued(m)
    BY <1>3, QueuedBehind DEF TransStartWait, NoLostWaiter
  <2> QED BY <2>1, <2>2, <2>3, <2>4 DEF NoLostWaiter, Active, Queued
<1>4. ASSUME NEW c \in Caller, Proceed(c)
      PROVE  NoLostWaiter'
  <2>1. CASE TransStop(c)
    BY <2>1, WaiterStop
  <2>2. CASE ~TransStop(c)
    <3>1. UNCHANGED <<active, queue>>
      BY <1>4, <2>2 DEF Proceed, Drain, WaitGranted, WaitAborted, OpStop, WaitForOps,
           VisitQuiet, VisitBusy, Wake, Drained
    <3> QED BY <1>1, <3>1
  <2> QED BY <2>1, <2>2
<1>5. ASSUME NEW c \in Caller, NEW n \in Node, Destroy(c, n)
      PROVE  NoLostWaiter'
  <2>1. /\ active' = active /\ Below(n) \cap attached = {}
        /\ \A m \in Node : queue'[m] = IF m = n THEN <<>> ELSE queue[m]
    BY <1>5 DEF Destroy, MayDestroy, Free, Core, TypeOK
  <2>2. \A m \in Node : n \in Ancestors(m) => ~Queued(m)
    BY <2>1 DEF Below, DetachedQuiet, ActiveOrQueued
  <2>3. \A m \in Node : Ancestors(m) \subseteq Node
    BY Tree
  <2> QED BY <2>1, <2>2, <2>3 DEF NoLostWaiter, Active, Queued
<1>6. ASSUME \/ \E n \in Node : Create(n)
             \/ \E c \in Caller, n \in Node : OpStart(c, n)
             \/ SetRecovering \/ SetUnloading \/ UNCHANGED vars
      PROVE  NoLostWaiter'
  BY <1>1, <1>6 DEF Create, OpStart, SetRecovering, SetUnloading, vars
<1> QED BY <1>2, <1>3, <1>4, <1>5, <1>6 DEF Next

LEMMA WaiterInvariant == Spec => []WaiterInv
<1>1. Init => WaiterInv
  BY DrainInit DEF Init, WaiterInv, NoLostWaiter, Queued
<1> QED BY <1>1, WaiterStep, PTL DEF Spec

\* However transitions and aborts interleave, a queued transition has one in
\* flight before it whose end will start it or pass it on.
THEOREM DscNoLostWaiter == Spec => []NoLostWaiter
<1>1. WaiterInv => NoLostWaiter
  BY DEF WaiterInv
<1> QED BY <1>1, WaiterInvariant, PTL

\* Waiters are started first in first out, and none past a waiter up-tree.
THEOREM DscHandoffOrder == Spec => HandoffOrder
<1> DEFINE Ordered ==
      \A n \in Node :
        active'[n] \notin {None, active[n]} =>
          /\ \A m \in Ancestors(n) : queue'[m] = <<>>
          /\ queue[n] # <<>> => active'[n] = Head(queue[n])
<1>1. ASSUME DrainInv, [Next]_vars
      PROVE  Ordered
  <2> USE DEF DrainInv
  <2>1. ASSUME active' = active
        PROVE  Ordered
    BY <2>1
  <2>2. ASSUME NEW c \in Caller, NEW n \in Node, TransStart(c, n)
        PROVE  Ordered
    <3>1. queue' = queue /\ \A m \in Node : m # n => active'[m] = active[m]
      BY <2>2 DEF TransStart, Core, TypeOK
    <3>2. \A m \in {n} \cup Ancestors(n) : queue[m] = <<>>
      BY <2>2, CanTransSound DEF TransStart, Queued
    <3> QED BY <3>1, <3>2
  <2>3. ASSUME NEW c \in Caller, TransStop(c)
        PROVE  Ordered
    <3> DEFINE n == at[c]
               T == Triggers(n)
    <3>1. n \in Node /\ Active(n)
      BY <1>1, <2>3, OwnersSubtree DEF TransStop, Owns, Subtree
    <3>2. \A m \in Node :
            /\ active'[m] = IF m \in T THEN Head(queue[m]) ELSE IF m = n THEN None ELSE active[m]
            /\ queue'[m] = IF m \in T THEN Tail(queue[m]) ELSE queue[m]
      BY <2>3 DEF TransStop
    <3>3. \A m \in T : Queued(m) /\ \A k \in Ancestors(m) : ~Queued(k)
      BY <1>1, <3>1, TriggersSound DEF Core
    <3>4. \A m \in Node : Ancestors(m) \subseteq Node
      BY Tree
    <3>5. \A m \in T : \A k \in Ancestors(m) : k \notin T /\ queue[k] = <<>>
      BY <3>3 DEF Queued
    <3> QED BY <3>2, <3>4, <3>5
  <2>4. ASSUME NEW c \in Caller, Proceed(c), ~TransStop(c)
        PROVE  active' = active
    BY <2>4 DEF Proceed, Drain, WaitGranted, WaitAborted, OpStop, WaitForOps,
         VisitQuiet, VisitBusy, Wake, Drained
  <2>5. ASSUME \/ \E n \in Node : Create(n)
               \/ \E c \in Caller, n \in Node :
                    TransStartWait(c, n) \/ OpStart(c, n) \/ Destroy(c, n)
               \/ SetRecovering \/ SetUnloading \/ UNCHANGED vars
        PROVE  active' = active
    BY <2>5 DEF Create, TransStartWait, OpStart, Destroy, Free, SetRecovering, SetUnloading, vars
  <2> QED BY <1>1, <2>1, <2>2, <2>3, <2>4, <2>5 DEF Next
<1>2. DrainInv /\ [Next]_vars => [Ordered]_vars
  BY <1>1
<1> QED BY <1>2, DrainInvariant, PTL DEF Spec, HandoffOrder
----------------------------------------------------------------------------
(* The core implements the tree lock.                                        *)

LEMMA SameTree ==
  /\ Lock!Node = Node
  /\ \A n : Lock!Subtree(n) = Subtree(n)
  /\ \A m, n : Lock!Related(m, n) <=> Related(m, n)
BY DEF Lock!Node, Node, Lock!Subtree, Subtree, Lock!Below, Below, Lock!Ancestors, Ancestors,
       Lock!Related, Related

LEMMA LockInitially == Init => Lock!LockInit
BY SameTree DEF Init, Lock!LockInit

\* The owners of transitions are told apart, so Core gives the lock's NoConflict.
LEMMA CoreNoConflict == Core => Lock!NoConflict(active)
<1> SUFFICES ASSUME Core, NEW m \in Node, NEW n \in Node, m # n, active[m] # None, active[n] # None
             PROVE  ~Related(m, n) /\ active[m] # active[n]
    BY SameTree DEF Lock!NoConflict
<1> QED BY DEF Core, TreeExclusion, GrantConsistency, Active

Inside == {c \in Caller : pc[c] = "drained"}

LEMMA LockStep ==
  ASSUME DrainInv, [Next]_vars
  PROVE  [Lock!LockNext]_<<active, ops, Inside>>
<1> USE DEF DrainInv
<1>0. /\ Core' /\ Lock!NoConflict(active)'
      /\ active' \in [Node -> Caller \cup {None}]
  <2>1. Core'
    BY CoreStep
  <2>2. Lock!NoConflict(active)'
    BY <2>1, CoreNoConflict, PTL
  <2> QED BY <2>1, <2>2 DEF Core, TypeOK
<1>1. ASSUME NEW c \in Caller, NEW n \in Node, TransStart(c, n)
      PROVE  Lock!Grant
  <2>1. ~Active(n)
    BY <1>1, CanTransSound DEF TransStart, Related
  <2>2. ops' = ops /\ \A m \in Node : m # n => active'[m] = active[m]
    BY <1>1 DEF TransStart, Core, TypeOK
  <2>3. Inside' = Inside
    BY <1>1 DEF TransStart, Inside, Core, TypeOK
  <2> QED BY <1>0, <2>1, <2>2, <2>3, SameTree DEF Lock!Grant, Active, Inside
<1>2. ASSUME NEW c \in Caller, NEW n \in Node, n = at[c], TransStop(c)
      PROVE  Lock!Release(n)
  <2> DEFINE T == Triggers(n)
  <2>1. n \in Node /\ Active(n) /\ active[n] = c /\ Related(n, n) /\ Owns(c)
    BY <1>2, OwnersSubtree DEF TransStop, Owns, Subtree, Related
  <2>2. /\ ops' = ops
        /\ \A m \in Node : active'[m] = IF m \in T THEN Head(queue[m])
                                       ELSE IF m = n THEN None ELSE active[m]
        /\ \A d \in Caller : pc'[d] = IF \E m \in T : d = Head(queue[m]) THEN "granted"
                                    ELSE IF d = c THEN "idle" ELSE pc[d]
    BY <1>2 DEF TransStop
  <2>3. \A m \in T : /\ m \in Node /\ Head(queue[m]) \in Caller /\ pc[Head(queue[m])] = "queued"
                     /\ \A k \in Node : Active(k) /\ Related(k, m) => k = n
    BY <2>1, HeadsAsleep, TriggersSound DEF Core
  <2>4. \A m \in Node \ {n} : active[m] # None => active'[m] = active[m]
    BY <2>2, <2>3 DEF Active, Related
  <2>5. \A m \in Node : active'[m] # c
    <3>1. \A m \in Node \ {n} : active[m] # c
      BY <2>1, NoneIsFresh DEF Core, GrantConsistency, Active
    <3>2. \A m \in T : Head(queue[m]) # c
      BY <2>1, <2>3 DEF Owns
    <3> QED BY <2>2, <3>1, <3>2, NoneIsFresh
  <2>6. Inside' = Inside \ {c}
    BY <2>2, <2>3 DEF Inside
  <2> QED BY <1>0, <2>1, <2>2, <2>4, <2>5, <2>6, SameTree DEF Lock!Release, Active, Inside
<1>3. ASSUME NEW c \in Caller, NEW n \in Node, n = at[c], Drained(c)
      PROVE  Lock!Enter(n)
  <2>1. active[n] = c /\ Active(n)
    BY <1>3, OwnersSubtree DEF Drained, Owns, Subtree
  <2>2. \A m \in Subtree(n) : ops[m] = {}
    BY <1>3 DEF Drained, VisitedQuiet
  <2>3. UNCHANGED <<active, ops>> /\ Inside' = Inside \cup {c}
    BY <1>3 DEF Drained, Inside, Core, TypeOK
  <2> QED BY <2>1, <2>2, <2>3, SameTree DEF Lock!Enter, Active, Inside
<1>4. ASSUME NEW c \in Caller, NEW n \in Node, OpStart(c, n)
      PROVE  Lock!Read(c, n)
  <2>1. \A m \in Node : Related(m, n) => active[m] = None
    BY <1>4, CanTransSound DEF OpStart, Active
  <2>2. Inside' = Inside
    BY <1>4 DEF OpStart, Inside, Core, TypeOK
  <2> QED BY <1>4, <2>1, <2>2, SameTree DEF Lock!Read, OpStart, Inside
<1>5. ASSUME NEW c \in Caller, NEW n \in Node, n = at[c], OpStop(c)
      PROVE  Lock!EndRead(c, n)
  <2>1. c \in ops[n]
    BY <1>5 DEF OpStop, OpAccounting
  <2>2. Inside' = Inside
    BY <1>5 DEF OpStop, Inside, Core, TypeOK
  <2> QED BY <1>5, <2>1, <2>2, SameTree DEF Lock!EndRead, OpStop, Inside
<1>6. ASSUME NEW c \in Caller, Proceed(c), ~TransStop(c), ~OpStop(c), ~Drained(c),
             ~\E m \in Node : WaitForOps(c, m)
      PROVE  UNCHANGED <<active, ops, Inside>>
  <2>1. UNCHANGED <<active, ops>>
    BY <1>6 DEF Proceed, Drain, WaitGranted, WaitAborted, VisitQuiet, VisitBusy, Wake
  <2>2. /\ \A d \in Caller : d # c => pc'[d] = pc[d]
        /\ pc[c] # "drained" /\ pc'[c] # "drained"
    BY <1>6 DEF Proceed, Drain, WaitGranted, WaitAborted, VisitQuiet, VisitBusy, Wake,
         Core, TypeOK
  <2> QED BY <2>1, <2>2 DEF Inside
<1>7. ASSUME \/ \E c \in Caller, n \in Node : TransStartWait(c, n) \/ Destroy(c, n)
             \/ \E n \in Node : Create(n)
             \/ SetRecovering \/ SetUnloading \/ UNCHANGED vars
      PROVE  UNCHANGED <<active, ops, Inside>>
  <2>1. UNCHANGED <<active, ops>>
    BY <1>7 DEF TransStartWait, Destroy, Free, Create, SetRecovering, SetUnloading, vars
  <2>2. ASSUME NEW c \in Caller, NEW n \in Node, TransStartWait(c, n)
        PROVE  Inside' = Inside
    BY <2>2 DEF TransStartWait, Inside, Core, TypeOK
  <2>3. ASSUME NEW c \in Caller, NEW n \in Node, Destroy(c, n)
        PROVE  Inside' = Inside
    <3>1. \A d \in Caller : pc'[d] = pc[d] \/ (pc[d] = "queued" /\ pc'[d] = "aborted")
      BY <2>3 DEF Destroy, Free, Core, TypeOK, QueueAccounting
    <3> QED BY <3>1 DEF Inside
  <2>4. ASSUME pc' = pc
        PROVE  Inside' = Inside
    BY <2>4 DEF Inside
  <2> QED BY <1>7, <2>1, <2>2, <2>3, <2>4 DEF Create, SetRecovering, SetUnloading, vars
<1>8. ASSUME NEW c \in Caller, NEW n \in Node, NEW m \in Node, n = at[c], WaitForOps(c, m)
      PROVE  Lock!Leave(n)
  <2>1. active[n] = c /\ Active(n)
    BY <1>8, OwnersSubtree DEF WaitForOps, Owns, Subtree
  <2>2. UNCHANGED <<active, ops>> /\ Inside' = Inside \ {c}
    BY <1>8 DEF WaitForOps, Inside, Core, TypeOK
  <2> QED BY <2>1, <2>2, SameTree DEF Lock!Leave, Active, Inside
<1> SUFFICES ASSUME ~UNCHANGED <<active, ops, Inside>>
             PROVE  Lock!LockNext
    OBVIOUS
<1>9. CASE \E c \in Caller : \/ TransStop(c) \/ Drained(c) \/ OpStop(c)
                            \/ \E m \in Node : WaitForOps(c, m)
  <2>1. PICK c \in Caller : \/ TransStop(c) \/ Drained(c) \/ OpStop(c)
                           \/ \E m \in Node : WaitForOps(c, m)
    BY <1>9
  <2>2. PICK n \in Node : n = at[c]
    BY <2>1 DEF TransStop, Drained, OpStop, WaitForOps, Core, TypeOK
  <2>3. Lock!Release(n) \/ Lock!Enter(n) \/ Lock!EndRead(c, n) \/ Lock!Leave(n)
    BY <1>2, <1>3, <1>5, <1>8, <2>1, <2>2
  <2> QED BY <2>3, SameTree DEF Lock!LockNext
<1>10. CASE \E c \in Caller, n \in Node : TransStart(c, n) \/ OpStart(c, n)
  BY <1>1, <1>4, <1>10, SameTree DEF Lock!LockNext
<1> QED BY <1>6, <1>7, <1>9, <1>10 DEF Next

\* The queues, the events and the order of service only restrict what the tree
\* lock allows: so the core has the lock's guarantees (wlan_dsc.h:20-47).
THEOREM DscImplementsTreeLock == Spec => ImplementsTreeLock
<1>1. DrainInv /\ [Next]_vars => [Lock!LockNext]_<<active, ops, Inside>>
  BY LockStep
<1>2. Spec => Lock!LockInit /\ [][Lock!LockNext]_<<active, ops, Inside>>
  BY <1>1, LockInitially, DrainInvariant, PTL DEF Spec
<1> QED BY <1>2, PTL DEF ImplementsTreeLock, Lock!LockSpec, Lock!lockVars, Inside
=============================================================================
