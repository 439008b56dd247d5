---------------------------- MODULE CamSyncProofs ----------------------------
(***************************************************************************)
(* The fences, for any number of rows and any finite set of threads, when  *)
(* no row is given out again while a call holds its index without a        *)
(* reference.                                                              *)
(***************************************************************************)
EXTENDS CamSync, FiniteSetTheorems, SequenceTheorems, TLAPS

-----------------------------------------------------------------------------
(***************************************************************************)
(* Lists without repetition, and what the operations do to them.           *)
(***************************************************************************)
LEMMA EmptyList ==
    /\ <<>> \in Seq(Obj) /\ IsInjective(<<>>) /\ Range(<<>>) = {} /\ Len(<<>>) = 0
    /\ \A s \in Seq(Obj) : s # <<>> <=> Range(s) # {}
<1>1. <<>> \in Seq(Obj) /\ IsInjective(<<>>) /\ Range(<<>>) = {} /\ Len(<<>>) = 0 BY DEF IsInjective, Range
<1>2. ASSUME NEW s \in Seq(Obj), s # <<>> PROVE Range(s) # {}
    <2>1. Len(s) \in Nat \ {0} /\ DOMAIN s = 1..Len(s) BY <1>2, EmptySeq, LenProperties
    <2>2. s[1] \in Range(s) BY <2>1 DEF Range
    <2> QED BY <2>2
<1> QED BY <1>1, <1>2

LEMMA RangeInObj == ASSUME NEW s \in Seq(Obj) PROVE Range(s) \subseteq Obj /\ Len(s) \in Nat
BY LenProperties, ElementOfSeq DEF Range

LEMMA TailOfList ==
    ASSUME NEW s \in Seq(Obj), s # <<>>
    PROVE  /\ Head(s) \in Obj /\ Head(s) \in Range(s) /\ Tail(s) \in Seq(Obj)
           /\ Len(s) \in Nat \ {0} /\ Len(Tail(s)) = Len(s) - 1 /\ Range(s) = Range(Tail(s)) \cup {Head(s)}
           /\ IsInjective(s) => IsInjective(Tail(s)) /\ Head(s) \notin Range(Tail(s))
           /\ Len(s) = 1 <=> Tail(s) = <<>>
<1>1. /\ Len(s) \in Nat \ {0} /\ DOMAIN s = 1..Len(s) /\ Head(s) = s[1] /\ Head(s) \in Obj
      /\ Tail(s) \in Seq(Obj) /\ Len(Tail(s)) = Len(s) - 1
      /\ \A i \in 1..Len(s) - 1 : Tail(s)[i] = s[i + 1]
    BY HeadTailProperties, LenProperties, EmptySeq
<1>2. DOMAIN Tail(s) = 1..Len(s) - 1 BY <1>1, LenProperties
<1>3. Head(s) \in Range(s) BY <1>1 DEF Range
<1>4. Range(Tail(s)) \subseteq Range(s)
    <2>1. \A i \in DOMAIN Tail(s) : i + 1 \in DOMAIN s /\ Tail(s)[i] = s[i + 1] BY <1>1, <1>2
    <2> QED BY <2>1 DEF Range
<1>5. Range(s) \subseteq Range(Tail(s)) \cup {Head(s)}
    <2>1. ASSUME NEW i \in DOMAIN s, i # 1 PROVE s[i] \in Range(Tail(s))
        <3>1. i - 1 \in 1..Len(s) - 1 /\ (i - 1) + 1 = i BY <1>1, <2>1
        <3>2. i - 1 \in DOMAIN Tail(s) /\ Tail(s)[i - 1] = s[i] BY <1>1, <1>2, <3>1
        <3> QED BY <3>2 DEF Range
    <2> QED BY <1>1, <2>1 DEF Range
<1>6. ASSUME IsInjective(s) PROVE IsInjective(Tail(s)) /\ Head(s) \notin Range(Tail(s))
    <2>1. \A i \in DOMAIN Tail(s) : i + 1 \in DOMAIN s /\ i + 1 # 1 /\ Tail(s)[i] = s[i + 1] BY <1>1, <1>2
    <2>2. 1 \in DOMAIN s BY <1>1
    <2>3. Head(s) \notin Range(Tail(s)) BY <1>6, <1>1, <2>1, <2>2 DEF Range, IsInjective
    <2>4. IsInjective(Tail(s))
        <3> SUFFICES ASSUME NEW i \in DOMAIN Tail(s), NEW j \in DOMAIN Tail(s), Tail(s)[i] = Tail(s)[j] PROVE i = j
            BY DEF IsInjective
        <3>1. s[i + 1] = s[j + 1] /\ i + 1 \in DOMAIN s /\ j + 1 \in DOMAIN s BY <2>1
        <3>2. i + 1 = j + 1 BY <1>6, <3>1 DEF IsInjective
        <3> QED BY <3>2, <1>2
    <2> QED BY <2>3, <2>4
<1>7. Len(s) = 1 <=> Tail(s) = <<>>
    <2>1. Len(<<>>) = 0 /\ \A r \in Seq(Obj) : r # <<>> => Len(r) # 0 BY EmptySeq
    <2>2. Tail(s) = <<>> <=> Len(Tail(s)) = 0 BY <2>1, <1>1
    <2>3. Len(s) = 1 <=> Len(Tail(s)) = 0 BY <1>1
    <2> QED BY <2>2, <2>3
<1> QED BY <1>1, <1>3, <1>4, <1>5, <1>6, <1>7

LEMMA AppendToList ==
    ASSUME NEW s \in Seq(Obj), NEW o \in Obj, IsInjective(s), o \notin Range(s)
    PROVE  /\ Append(s, o) \in Seq(Obj) /\ IsInjective(Append(s, o)) /\ Append(s, o) # <<>>
           /\ Range(Append(s, o)) = Range(s) \cup {o}
<1> DEFINE r == Append(s, o)
           n == Len(s)
<1>1. /\ n \in Nat /\ DOMAIN s = 1..n /\ r \in Seq(Obj) /\ r # <<>> /\ DOMAIN r = 1..n + 1 /\ r[n + 1] = o
      /\ \A i \in 1..n : r[i] = s[i]
    BY AppendProperties, LenProperties
<1> HIDE DEF r, n
<1>2. Range(r) = Range(s) \cup {o} BY <1>1 DEF Range
<1>3. \A i \in 1..n : r[i] \in Range(s) BY <1>1 DEF Range
<1>4. IsInjective(r)
    <2> SUFFICES ASSUME NEW i \in 1..n + 1, NEW j \in 1..n + 1, r[i] = r[j] PROVE i = j
        BY <1>1 DEF IsInjective
    <2>1. CASE i \in 1..n /\ j \in 1..n BY <2>1, <1>1 DEF IsInjective
    <2>2. CASE ~(i \in 1..n /\ j \in 1..n) BY <2>2, <1>1, <1>3
    <2> QED BY <2>1, <2>2
<1> QED BY <1>1, <1>2, <1>4 DEF r

LEMMA JoinedLists ==
    ASSUME NEW s \in Seq(Obj), NEW r \in Seq(Obj)
    PROVE  s \o r \in Seq(Obj) /\ Range(s) \subseteq Range(s \o r)
<1>1. /\ Len(s) \in Nat /\ Len(r) \in Nat /\ DOMAIN s = 1..Len(s) /\ s \o r \in Seq(Obj)
      /\ DOMAIN (s \o r) = 1..Len(s) + Len(r) /\ \A i \in 1..Len(s) : (s \o r)[i] = s[i]
    BY ConcatProperties, LenProperties
<1> QED BY <1>1 DEF Range

LEMMA RemoveAtList ==
    ASSUME NEW s \in Seq(Obj), IsInjective(s), NEW i \in DOMAIN s
    PROVE  /\ RemoveAt(s, i) \in Seq(Obj) /\ IsInjective(RemoveAt(s, i))
           /\ Range(RemoveAt(s, i)) = Range(s) \ {s[i]}
<1> DEFINE n == Len(s)
           a == SubSeq(s, 1, i - 1)
           b == SubSeq(s, i + 1, n)
           r == a \o b
           Old(j) == IF j < i THEN j ELSE j + 1
<1>1. n \in Nat /\ DOMAIN s = 1..n /\ i \in 1..n /\ RemoveAt(s, i) = r BY LenProperties DEF RemoveAt
<1>2. a \in Seq(Obj) /\ Len(a) = i - 1 /\ \A j \in 1..i - 1 : a[j] = s[j]
    BY <1>1, SubSeqProperties, ElementOfSeq
<1>3. b \in Seq(Obj) /\ Len(b) = n - i /\ \A j \in 1..n - i : b[j] = s[i + j]
    <2> HIDE DEF n
    <2>1. i + 1 \in 1..n + 1 /\ n \in i..n BY <1>1
    <2>2. \A k \in i + 1..n : s[k] \in Obj BY <1>1, ElementOfSeq
    <2>3. b \in Seq(Obj) /\ Len(b) = n - i BY <1>1, <2>1, <2>2, SubSeqProperties
    <2>4. ASSUME NEW j \in 1..n - i PROVE b[j] = s[i + j]
        <3>1. i + 1 \in Int /\ n \in Int /\ j \in 1..n - (i + 1) + 1 BY <1>1
        <3>2. \A k \in 1..n - (i + 1) + 1 : b[k] = s[(i + 1) + k - 1] BY <2>2, <3>1, SubSeqProperties
        <3>3. (i + 1) + j - 1 = i + j BY <1>1
        <3> QED BY <3>1, <3>2, <3>3
    <2> QED BY <2>3, <2>4
<1> HIDE DEF n, a, b
<1>4. /\ r \in Seq(Obj) /\ Len(r) = (i - 1) + (n - i)
      /\ \A j \in 1..(i - 1) + (n - i) : r[j] = IF j <= i - 1 THEN a[j] ELSE b[j - (i - 1)]
    <2>1. /\ r \in Seq(Obj) /\ Len(r) = Len(a) + Len(b)
          /\ \A j \in 1..Len(a) + Len(b) : r[j] = IF j <= Len(a) THEN a[j] ELSE b[j - Len(a)]
        BY <1>2, <1>3, ConcatProperties
    <2> QED BY <2>1, <1>2, <1>3
<1>5. DOMAIN r = 1..n - 1 BY <1>1, <1>4, LenProperties
<1> HIDE DEF r
<1>6. \A j \in 1..n - 1 : r[j] = s[Old(j)]
    <2> TAKE j \in 1..n - 1
    <2>1. CASE j < i
        <3>1. j \in 1..i - 1 /\ j <= i - 1 /\ j \in 1..(i - 1) + (n - i) BY <2>1, <1>1
        <3>2. r[j] = a[j] BY <3>1, <1>4
        <3>3. a[j] = s[j] BY <3>1, <1>2
        <3> QED BY <2>1, <3>2, <3>3
    <2>2. CASE ~(j < i)
        <3>1. /\ j - (i - 1) \in 1..n - i /\ i + (j - (i - 1)) = j + 1 /\ ~(j <= i - 1)
              /\ j \in 1..(i - 1) + (n - i)
            BY <2>2, <1>1
        <3>2. r[j] = b[j - (i - 1)] BY <3>1, <1>4
        <3>3. b[j - (i - 1)] = s[i + (j - (i - 1))] BY <3>1, <1>3
        <3> QED BY <2>2, <3>1, <3>2, <3>3
    <2> QED BY <2>1, <2>2
<1>7. \A j \in 1..n - 1 : Old(j) \in DOMAIN s /\ Old(j) # i BY <1>1
<1>8. \A j, k \in 1..n - 1 : Old(j) = Old(k) => j = k BY <1>1
<1>9. \A k \in 1..n : k # i => \E j \in 1..n - 1 : Old(j) = k
    <2> TAKE k \in 1..n
    <2> HAVE k # i
    <2> DEFINE j == IF k < i THEN k ELSE k - 1
    <2>1. j \in 1..n - 1 /\ Old(j) = k BY <1>1
    <2> QED BY <2>1
<1> HIDE DEF Old
<1>10. IsInjective(r) BY <1>5, <1>6, <1>7, <1>8 DEF IsInjective
<1>11. Range(r) \subseteq Range(s) \ {s[i]} BY <1>5, <1>6, <1>7 DEF Range, IsInjective
<1>12. Range(s) \ {s[i]} \subseteq Range(r)
    <2> SUFFICES ASSUME NEW k \in 1..n, s[k] # s[i] PROVE s[k] \in Range(r) BY <1>1 DEF Range
    <2>1. PICK j \in 1..n - 1 : Old(j) = k BY <1>9
    <2> QED BY <2>1, <1>5, <1>6 DEF Range
<1> QED BY <1>1, <1>4, <1>10, <1>11, <1>12

\* The one entry of an object is found and taken out.
LEMMA CleanOneList ==
    ASSUME NEW s \in Seq(Obj), IsInjective(s), NEW e
    PROVE  /\ CleanOne(s, e) \in Seq(Obj) /\ IsInjective(CleanOne(s, e))
           /\ Range(CleanOne(s, e)) = Range(s) \ {e}
<1>1. DOMAIN s = 1..Len(s) /\ Len(s) \in Nat BY LenProperties
<1>2. CASE \E i \in 1..Len(s) : s[i] = e
    <2>1. PICK i \in 1..Len(s) : s[i] = e BY <1>2
    <2> DEFINE I == {k \in 1..Len(s) : s[k] = e}
    <2>2. I = {i} BY <1>1, <2>1 DEF IsInjective
    <2>3. Min(I) = i BY <1>1, <2>2 DEF Min
    <2>4. SelectInSeq(s, LAMBDA v : v = e) = i BY <2>2, <2>3 DEF SelectInSeq
    <2>5. CleanOne(s, e) = RemoveAt(s, i) BY <1>2, <2>4 DEF CleanOne, RemoveFirst
    <2> QED BY <1>1, <2>1, <2>5, RemoveAtList
<1>3. CASE ~\E i \in 1..Len(s) : s[i] = e
    <2>1. CleanOne(s, e) = s BY <1>3 DEF CleanOne, RemoveFirst
    <2> QED BY <1>1, <1>3, <2>1 DEF Range
<1> QED BY <1>2, <1>3

-----------------------------------------------------------------------------
(***************************************************************************)
(* The inductive invariant.                                                *)
(***************************************************************************)
Ops == {"idle", "signal", "checked", "merge", "get", "wait", "put", "deinit", "unlink"}

\* What TypeOK leaves open, and that no list names an object twice.
TypeInv ==
    /\ TypeOK /\ pend \in [Obj -> SUBSET Obj] /\ bad \in [Obj -> BOOLEAN]
    /\ \A o \in Obj : IsInjective(parents[o]) /\ IsInjective(children[o])

CallInv ==
    /\ op \in [Thread -> Ops]
    /\ \A t \in Thread :
        /\ op[t] \notin {"idle", "checked"} => obj[t] \in Obj
        /\ op[t] = "signal" => ids[t] # <<>> /\ val[t] \in Status
        /\ op[t] \in {"signal", "checked", "merge"} => IsInjective(ids[t])
        /\ op[t] = "checked" => Len(ids[t]) < Wrap

Closing(t) == op[t] \in {"deinit", "unlink"}

\* What a call relies on: a merge holds its group and is its only user; who
\* waits or puts counts; who takes a row down is the last and the only one.
Role(t) ==
    /\ op[t] = "merge" => /\ obj[t] \in bitmap /\ lock[obj[t]] = t
                          /\ state[obj[t]] # "INVALID" /\ waitref[obj[t]] = 1
    /\ op[t] \in {"wait", "put"} => obj[t] \in bitmap
    /\ Closing(t) => /\ obj[t] \in bitmap /\ waitref[obj[t]] = 0
                     /\ \A u \in Thread : Closing(u) /\ obj[u] = obj[t] => u = t
    /\ op[t] = "get" => Unlocked(obj[t]) /\ (obj[t] \in bitmap \/ waitref[obj[t]] = 0)

UserInv ==
    /\ \A o \in Obj \ bitmap : state[o] = "INVALID"
    /\ \A o \in Obj : lock[o] # None => op[lock[o]] = "merge" /\ obj[lock[o]] = o
    /\ \A t \in Thread : Role(t)
    /\ UsersCounted

\* The objects that still have to be taken off the group a thread takes down.
Unlinking(g) == UNION {Range(ids[t]) : t \in {u \in Thread : op[u] = "unlink" /\ obj[u] = g}}

\* Only a group has children and only a plain object that has not been
\* signalled has parents; a group that is named by one can find it.
LinkRow(o) ==
    /\ parents[o] # <<>> => o \in bitmap /\ ~group[o] /\ state[o] \in {"ACTIVE", "INVALID"}
    /\ children[o] # <<>> => o \in bitmap /\ group[o]
    /\ state[o] # "INVALID" => \A g \in Range(parents[o]) :
           g \in bitmap /\ group[g] /\ o \in Range(children[g]) \cup Unlinking(g)

LinkCall(t) ==
    /\ op[t] = "unlink" => parents[obj[t]] = <<>> /\ children[obj[t]] = <<>>
    /\ op[t] = "signal" => \A p \in Range(ids[t]) \cap bitmap : group[p]
    /\ op[t] = "merge" => group[obj[t]] /\ Range(ids[t]) \cap Range(children[obj[t]]) = {}

LinkInv == (\A o \in Obj : LinkRow(o)) /\ (\A t \in Thread : LinkCall(t))

\* A child that has not been signalled is pending with every group it names.
PendRow(o) == state[o] = "ACTIVE" => \A g \in Range(parents[o]) : o \in pend[g]

\* What a merge has still to link is not pending, and leaves room in the count.
PendCall(t) ==
    op[t] = "merge" => /\ Range(ids[t]) \cap pend[obj[t]] = {}
                       /\ remaining[obj[t]] + Len(ids[t]) < Wrap

\* GroupCount for every group in the table, being merged or being destroyed too.
Tally(g) == remaining[g] = IF group[g] THEN Cardinality(pend[g]) + Cardinality(Signalling(g)) ELSE 0

CountInv == (\A o \in Obj : PendRow(o)) /\ (\A t \in Thread : PendCall(t)) /\ (\A g \in bitmap : Tally(g))

\* The signals on their way to a group that bring an error.
Errors(g) == {t \in Signalling(g) : val[t] # Success}

OutcomeRow(g) ==
    group[g] =>
        /\ Errors(g) # {} => bad[g]
        /\ state[g] = "SIGNALED_ERROR" => bad[g]
        /\ bad[g] => state[g] \in {"INVALID", "SIGNALED_ERROR"} \/ Errors(g) # {}
        /\ Unlocked(g) /\ state[g] = "ACTIVE" => remaining[g] > 0

OutcomeInv == \A g \in bitmap : OutcomeRow(g)

ToldRow(o) ==
    state[o] # "INVALID" =>
        /\ signaled[o] <=> Concluded(o) /\ Unlocked(o)
        /\ signaled[o] \/ ~Unlocked(o) => cbs[o] = 0 /\ ~payload[o]

ToldInv == \A o \in bitmap : ToldRow(o)

FenceInv == TypeInv /\ CallInv /\ UserInv /\ LinkInv /\ CountInv /\ OutcomeInv /\ ToldInv

-----------------------------------------------------------------------------
(***************************************************************************)
(* Types.                                                                  *)
(***************************************************************************)
\* What a call that goes on leaves to the thread, and to the others.
LEMMA Called ==
    ASSUME TypeOK, CallInv, NEW t \in Thread, NEW p, NEW o, NEW l, NEW v, Call(t, p, o, l, v)
    PROVE  /\ op'[t] = p /\ obj'[t] = o /\ ids'[t] = l /\ val'[t] = v
           /\ \A u \in Thread \ {t} : op'[u] = op[u] /\ obj'[u] = obj[u] /\ ids'[u] = ids[u] /\ val'[u] = val[u]
BY DEF Call, Set, TypeOK, CallInv

LEMMA CallTyped ==
    ASSUME TypeOK, CallInv, NEW t \in Thread, NEW p \in Ops, NEW o \in Obj \cup {None},
           NEW l \in Seq(Obj), NEW v \in Status \cup {None}, Call(t, p, o, l, v),
           p \notin {"idle", "checked"} => o \in Obj, p = "signal" => l # <<>> /\ v \in Status,
           p \in {"signal", "checked", "merge"} => IsInjective(l), p = "checked" => Len(l) < Wrap
    PROVE  /\ obj' \in [Thread -> Obj \cup {None}] /\ ids' \in [Thread -> Seq(Obj)]
           /\ val' \in [Thread -> Status \cup {None}] /\ CallInv'
<1>1. obj' \in [Thread -> Obj \cup {None}] /\ ids' \in [Thread -> Seq(Obj)] /\ val' \in [Thread -> Status \cup {None}]
    BY DEF Call, Set, TypeOK
<1>2. op' \in [Thread -> Ops] BY DEF Call, Set, CallInv
<1>3. /\ op'[t] = p /\ obj'[t] = o /\ ids'[t] = l /\ val'[t] = v
      /\ \A u \in Thread \ {t} : op'[u] = op[u] /\ obj'[u] = obj[u] /\ ids'[u] = ids[u] /\ val'[u] = val[u]
    BY Called
<1>4. ASSUME NEW u \in Thread
      PROVE  /\ op'[u] \notin {"idle", "checked"} => obj'[u] \in Obj
             /\ op'[u] = "signal" => ids'[u] # <<>> /\ val'[u] \in Status
             /\ op'[u] \in {"signal", "checked", "merge"} => IsInjective(ids'[u])
             /\ op'[u] = "checked" => Len(ids'[u]) < Wrap
    <2>1. CASE u = t BY <2>1, <1>3
    <2>2. CASE u # t BY <2>2, <1>3 DEF CallInv
    <2> QED BY <2>1, <2>2
<1> QED BY <1>1, <1>2, <1>4 DEF CallInv

\* The types of the rows, which a step may change one by one.
RowsTyped ==
    /\ bitmap \subseteq Obj /\ state \in [Obj -> States] /\ group \in [Obj -> BOOLEAN]
    /\ remaining \in [Obj -> 0 .. Wrap - 1] /\ ref \in [Obj -> Nat]
    /\ waitref \in [Obj -> Nat] /\ cbs \in [Obj -> Nat]
    /\ signaled \in [Obj -> BOOLEAN] /\ payload \in [Obj -> BOOLEAN]
    /\ parents \in [Obj -> Seq(Obj)] /\ children \in [Obj -> Seq(Obj)]
    /\ pend \in [Obj -> SUBSET Obj] /\ bad \in [Obj -> BOOLEAN]
    /\ \A p \in Obj : IsInjective(parents[p]) /\ IsInjective(children[p])

\* The row of a new object.
LEMMA InitRowTyped ==
    ASSUME TypeInv, NEW o \in Obj, NEW b \in BOOLEAN, InitRow(o, b)
    PROVE  RowsTyped'
<1>1. /\ bitmap' \subseteq Obj /\ state' \in [Obj -> States] /\ group' \in [Obj -> BOOLEAN]
      /\ ref' \in [Obj -> Nat] /\ waitref' \in [Obj -> Nat] /\ cbs' \in [Obj -> Nat]
    BY DEF InitRow, Set, TypeInv, TypeOK, States
<1>2. remaining' \in [Obj -> 0 .. Wrap - 1]
    <2>1. 0 \in 0 .. Wrap - 1 BY CamAssumption
    <2> QED BY <2>1 DEF InitRow, Set, TypeInv, TypeOK
<1>3. /\ signaled' \in [Obj -> BOOLEAN] /\ payload' \in [Obj -> BOOLEAN]
      /\ pend' \in [Obj -> SUBSET Obj] /\ bad' \in [Obj -> BOOLEAN]
    BY DEF InitRow, Set, TypeInv, TypeOK
<1>4. /\ parents' \in [Obj -> Seq(Obj)] /\ children' \in [Obj -> Seq(Obj)]
      /\ \A p \in Obj : IsInjective(parents'[p]) /\ IsInjective(children'[p])
    BY EmptyList DEF InitRow, Set, TypeInv, TypeOK
<1> QED BY <1>1, <1>2, <1>3, <1>4 DEF RowsTyped

\* The lists of one row are replaced.
LEMMA ListTyped ==
    ASSUME NEW f \in [Obj -> Seq(Obj)], \A q \in Obj : IsInjective(f[q]), NEW o \in Obj,
           NEW l \in Seq(Obj), IsInjective(l)
    PROVE  Set(f, o, l) \in [Obj -> Seq(Obj)] /\ \A q \in Obj : IsInjective(Set(f, o, l)[q])
BY DEF Set

\* The steps that leave the lists of the rows and the calls alone.
LEMMA PlainTyped ==
    ASSUME TypeInv, CallInv, NEW o \in Obj,
           \/ GetRef(o) \/ PutRef(o) \/ RegisterCallback(o) \/ Deregister(o)
           \/ RegisterPayload(o) \/ SignalShared(o)
    PROVE  TypeInv' /\ CallInv'
<1>1. CallInv' BY DEF GetRef, PutRef, RegisterCallback, Deregister, RegisterPayload, SignalShared, calls, CallInv
<1>2. /\ UNCHANGED <<bitmap, state, group, remaining, waitref, signaled, parents, children, lock, calls, ghosts>>
      /\ ref' \in [Obj -> Nat] /\ cbs' \in [Obj -> Nat] /\ payload' \in [Obj -> BOOLEAN]
    <2> USE DEF TypeInv, TypeOK, Set
    <2>1. CASE GetRef(o) BY <2>1 DEF GetRef
    <2>2. CASE PutRef(o)
        <3>1. ref[o] \in Nat /\ ref[o] > 0 BY <2>2 DEF PutRef
        <3>2. ref[o] - 1 \in Nat BY <3>1
        <3>3. ref' = Set(ref, o, ref[o] - 1) BY <2>2 DEF PutRef
        <3>4. ref' \in [Obj -> Nat] BY <3>2, <3>3
        <3> QED BY <2>2, <3>4 DEF PutRef
    <2>3. CASE RegisterCallback(o) BY <2>3 DEF RegisterCallback
    <2>4. CASE Deregister(o)
        <3>1. \/ cbs' = Set(cbs, o, 0) /\ UNCHANGED payload
              \/ payload' = Set(payload, o, FALSE) /\ UNCHANGED cbs
            BY <2>4 DEF Deregister
        <3>2. cbs' \in [Obj -> Nat]
            <4>1. 0 \in Nat OBVIOUS
            <4>2. CASE cbs' = Set(cbs, o, 0) BY <4>1, <4>2
            <4>3. CASE UNCHANGED cbs BY <4>3
            <4> QED BY <3>1, <4>2, <4>3
        <3>3. payload' \in [Obj -> BOOLEAN] BY <3>1
        <3> QED BY <2>4, <3>2, <3>3 DEF Deregister
    <2>5. CASE RegisterPayload(o) BY <2>5 DEF RegisterPayload
    <2>6. CASE SignalShared(o) BY <2>6 DEF SignalShared
    <2> QED BY <2>1, <2>2, <2>3, <2>4, <2>5, <2>6
<1> QED BY <1>1, <1>2 DEF TypeInv, TypeOK, calls, ghosts

\* The calls that bring no status.
LEMMA GoesOnTyped ==
    ASSUME TypeInv, CallInv, NEW t \in Thread, NEW p \in Ops, NEW o \in Obj \cup {None},
           NEW l \in Seq(Obj), Call(t, p, o, l, None),
           p \notin {"idle", "checked"} => o \in Obj, p # "signal",
           p \in {"checked", "merge"} => IsInjective(l), p = "checked" => Len(l) < Wrap,
           RowsTyped', lock' \in [Obj -> Thread \cup {None}]
    PROVE  TypeInv' /\ CallInv'
<1>1. /\ obj' \in [Thread -> Obj \cup {None}] /\ ids' \in [Thread -> Seq(Obj)]
      /\ val' \in [Thread -> Status \cup {None}] /\ CallInv'
    BY CallTyped DEF TypeInv
<1> QED BY <1>1 DEF TypeInv, TypeOK, RowsTyped

LEMMA SignalTyped ==
    ASSUME TypeInv, CallInv, NEW t \in Thread, NEW o \in Obj, NEW s \in Status, Signal(t, o, s)
    PROVE  TypeInv' /\ CallInv'
<1> USE DEF TypeInv
<1>1. /\ obj' \in [Thread -> Obj \cup {None}] /\ ids' \in [Thread -> Seq(Obj)]
      /\ val' \in [Thread -> Status \cup {None}] /\ CallInv'
    <2>1. CASE parents[o] = <<>> BY <2>1 DEF Signal, calls, TypeOK, CallInv
    <2>2. CASE parents[o] # <<>>
        <3>1. Call(t, "signal", o, parents[o], s) /\ parents[o] \in Seq(Obj) BY <2>2 DEF Signal, TypeOK
        <3> QED BY <2>2, <3>1, CallTyped DEF Ops
    <2> QED BY <2>1, <2>2
<1>2. /\ bitmap' \subseteq Obj /\ state' \in [Obj -> States] /\ group' \in [Obj -> BOOLEAN]
      /\ remaining' \in [Obj -> 0 .. Wrap - 1] /\ ref' \in [Obj -> Nat]
      /\ waitref' \in [Obj -> Nat] /\ cbs' \in [Obj -> Nat]
      /\ signaled' \in [Obj -> BOOLEAN] /\ payload' \in [Obj -> BOOLEAN]
      /\ children' \in [Obj -> Seq(Obj)] /\ lock' \in [Obj -> Thread \cup {None}]
    BY DEF Signal, Set, Dispatch, TypeOK, States
<1>3. parents' \in [Obj -> Seq(Obj)] /\ \A p \in Obj : IsInjective(parents'[p]) /\ IsInjective(children'[p])
    BY EmptyList DEF Signal, Set, TypeOK
<1>4. pend' \in [Obj -> SUBSET Obj] BY DEF Signal
<1>5. bad' \in [Obj -> BOOLEAN] BY DEF Signal
<1> QED BY <1>1, <1>2, <1>3, <1>4, <1>5 DEF TypeOK

LEMMA SignalParentTyped ==
    ASSUME TypeInv, CallInv, NEW t \in Thread, SignalParent(t)
    PROVE  TypeInv' /\ CallInv'
<1> USE DEF TypeInv
<1> DEFINE p == Head(ids[t])
           left == (remaining[p] - 1) % Wrap
<1>1. /\ op[t] = "signal" /\ ids[t] \in Seq(Obj) /\ ids[t] # <<>> /\ val[t] \in Status /\ obj[t] \in Obj
      /\ IsInjective(ids[t])
    BY DEF SignalParent, CallInv, TypeOK
<1>2. p \in Obj /\ Tail(ids[t]) \in Seq(Obj) /\ IsInjective(Tail(ids[t])) /\ (Len(ids[t]) # 1 => Tail(ids[t]) # <<>>)
    BY <1>1, TailOfList
<1>3. /\ obj' \in [Thread -> Obj \cup {None}] /\ ids' \in [Thread -> Seq(Obj)]
      /\ val' \in [Thread -> Status \cup {None}] /\ CallInv'
    <2>1. CASE Len(ids[t]) = 1
        <3>1. Call(t, "idle", None, <<>>, None) BY <2>1 DEF SignalParent, Return
        <3> QED BY <3>1, CallTyped, EmptyList DEF Ops
    <2>2. CASE Len(ids[t]) # 1
        <3>1. Call(t, "signal", obj[t], Tail(ids[t]), val[t]) BY <2>2 DEF SignalParent
        <3> QED BY <3>1, <2>2, <1>1, <1>2, CallTyped DEF Ops
    <2> QED BY <2>1, <2>2
<1>4. left \in 0 .. Wrap - 1
    <2>1. remaining[p] - 1 \in Int /\ Wrap \in Nat \ {0}
        <3>1. remaining[p] \in 0 .. Wrap - 1 BY <1>2 DEF TypeOK
        <3> QED BY <3>1, CamAssumption
    <2>2. \A n \in Int, w \in Nat \ {0} : n % w \in 0 .. w - 1 OBVIOUS
    <2> QED BY <2>1, <2>2
<1>5. remaining' \in [Obj -> 0 .. Wrap - 1]
    <2>1. remaining' = [remaining EXCEPT ![p] = left] BY DEF SignalParent, Set
    <2> HIDE DEF left
    <2> QED BY <2>1, <1>4 DEF TypeOK
<1>6. state' \in [Obj -> States] BY <1>1 DEF SignalParent, UpdateParentState, Set, TypeOK, States
<1>7. cbs' \in [Obj -> Nat] /\ payload' \in [Obj -> BOOLEAN] /\ signaled' \in [Obj -> BOOLEAN]
    <2>1. Dispatch(p) \/ UNCHANGED <<cbs, payload, signaled>> BY DEF SignalParent
    <2>2. cbs' \in [Obj -> Nat]
        <3>1. CASE cbs' = Set(cbs, p, 0) BY <3>1 DEF Set, TypeOK
        <3>2. CASE UNCHANGED cbs BY <3>2 DEF TypeOK
        <3> QED BY <2>1, <3>1, <3>2 DEF Dispatch
    <2>3. payload' \in [Obj -> BOOLEAN] BY <2>1 DEF Dispatch, Set, TypeOK
    <2>4. signaled' \in [Obj -> BOOLEAN] BY <2>1 DEF Dispatch, Set, TypeOK
    <2> QED BY <2>2, <2>3, <2>4
<1>8. UNCHANGED <<bitmap, group, ref, waitref, parents, children, lock, ghosts>> BY DEF SignalParent
<1> QED BY <1>3, <1>5, <1>6, <1>7, <1>8 DEF TypeOK, ghosts

LEMMA CreateTyped ==
    ASSUME TypeInv, CallInv, NEW o \in Obj, Create(o)
    PROVE  TypeInv' /\ CallInv'
<1>1. RowsTyped' BY InitRowTyped DEF Create
<1>2. CallInv' BY DEF Create, calls, CallInv
<1> QED BY <1>1, <1>2 DEF Create, calls, TypeInv, TypeOK, RowsTyped

LEMMA RowsStayTyped == ASSUME TypeInv, UNCHANGED <<bitmap, rows, ghosts>> PROVE RowsTyped'
BY DEF rows, ghosts, TypeInv, TypeOK, RowsTyped

\* Checking a merge, and the steps of a wait.
LEMMA CallsTyped ==
    ASSUME TypeInv, CallInv, UNCHANGED <<bitmap, rows, lock, ghosts>>, NEW t \in Thread,
           \/ \E l \in Lists : MergeChecks(t, l)
           \/ MergeFull(t) \/ WaitEnds(t) \/ \E o \in Obj : Wait(t, o)
    PROVE  TypeInv' /\ CallInv'
<1>1. RowsTyped' /\ lock' \in [Obj -> Thread \cup {None}] BY RowsStayTyped DEF TypeInv, TypeOK
<1>2. ASSUME NEW l \in Lists, MergeChecks(t, l) PROVE TypeInv' /\ CallInv'
    <2>1. l \in Seq(Obj) /\ IsInjective(l) /\ Len(l) < Wrap BY CamAssumption DEF Obj
    <2> QED BY <1>1, <1>2, <2>1, GoesOnTyped DEF MergeChecks, Ops
<1>3. CASE MergeFull(t) BY <1>1, <1>3, EmptyList, GoesOnTyped DEF MergeFull, Return, Ops
<1>4. CASE WaitEnds(t)
    <2>1. obj[t] \in Obj BY <1>4 DEF WaitEnds, CallInv
    <2> QED BY <1>1, <1>4, <2>1, EmptyList, GoesOnTyped DEF WaitEnds, Ops
<1>5. ASSUME NEW o \in Obj, Wait(t, o) PROVE TypeInv' /\ CallInv'
    BY <1>1, <1>5, EmptyList, GoesOnTyped DEF Wait, Ops
<1> QED BY <1>2, <1>3, <1>4, <1>5

LEMMA MergeBeginsTyped ==
    ASSUME TypeInv, CallInv, NEW t \in Thread, NEW g \in Obj, MergeBegins(t, g)
    PROVE  TypeInv' /\ CallInv'
<1>1. ids[t] \in Seq(Obj) /\ IsInjective(ids[t]) BY DEF MergeBegins, TypeInv, TypeOK, CallInv
<1>2. RowsTyped' BY InitRowTyped DEF MergeBegins
<1>3. lock' \in [Obj -> Thread \cup {None}] BY DEF MergeBegins, Set, TypeInv, TypeOK
<1> QED BY <1>1, <1>2, <1>3, GoesOnTyped DEF MergeBegins, Ops

\* What a thread that merges stands before.
LEMMA Merging ==
    ASSUME FenceInv, NEW t \in Thread, op[t] = "merge"
    PROVE  /\ obj[t] \in bitmap /\ obj[t] \in Obj /\ lock[obj[t]] = t /\ ~Unlocked(obj[t])
           /\ ids[t] \in Seq(Obj) /\ IsInjective(ids[t])
           /\ group[obj[t]] /\ state[obj[t]] # "INVALID"
           /\ ids[t] # <<>> => /\ Head(ids[t]) \in Obj
                               /\ Head(ids[t]) \notin pend[obj[t]] \cup Range(children[obj[t]])
                               /\ remaining[obj[t]] + 1 < Wrap
<1>1. obj[t] \in bitmap /\ lock[obj[t]] = t /\ group[obj[t]] /\ state[obj[t]] # "INVALID"
    BY DEF FenceInv, UserInv, Role, LinkInv, LinkCall
<1>2. ids[t] \in Seq(Obj) /\ IsInjective(ids[t]) /\ obj[t] \in Obj BY DEF FenceInv, TypeInv, TypeOK, CallInv
<1>3. ~Unlocked(obj[t]) BY <1>1, CamAssumption DEF Unlocked
<1>4. ASSUME ids[t] # <<>>
      PROVE  /\ Head(ids[t]) \in Obj /\ Head(ids[t]) \notin pend[obj[t]] \cup Range(children[obj[t]])
             /\ remaining[obj[t]] + 1 < Wrap
    <2>1. Head(ids[t]) \in Obj /\ Head(ids[t]) \in Range(ids[t]) /\ Len(ids[t]) \in Nat \ {0}
        BY <1>2, <1>4, TailOfList
    <2>2. /\ Range(ids[t]) \cap pend[obj[t]] = {} /\ Range(ids[t]) \cap Range(children[obj[t]]) = {}
          /\ remaining[obj[t]] + Len(ids[t]) < Wrap
        BY DEF FenceInv, LinkInv, LinkCall, CountInv, PendCall
    <2>3. remaining[obj[t]] \in Nat /\ Wrap \in Nat
        <3>1. remaining[obj[t]] \in 0 .. Wrap - 1 BY <1>2 DEF FenceInv, TypeInv, TypeOK
        <3> QED BY <3>1, CamAssumption
    <2> QED BY <2>1, <2>2, <2>3
<1> QED BY <1>1, <1>2, <1>3, <1>4

\* A child that is linked did not name the group before.
LEMMA NotLinked ==
    ASSUME FenceInv, NEW t \in Thread, op[t] = "merge", NEW c \in Obj, state[c] # "INVALID",
           c \notin Range(children[obj[t]])
    PROVE  obj[t] \notin Range(parents[c]) /\ Unlinking(obj[t]) = {}
<1>1. waitref[obj[t]] = 1 BY DEF FenceInv, UserInv, Role
<1>2. \A u \in Thread : op[u] = "unlink" => obj[u] # obj[t] BY <1>1 DEF FenceInv, UserInv, Role, Closing
<1>3. Unlinking(obj[t]) = {} BY <1>2 DEF Unlinking
<1>4. \A g \in Range(parents[c]) : c \in Range(children[g]) \cup Unlinking(g) BY DEF FenceInv, LinkInv, LinkRow
<1> QED BY <1>3, <1>4

LEMMA MergeLinksTyped ==
    ASSUME FenceInv, NEW t \in Thread, MergeLinks(t)
    PROVE  TypeInv' /\ CallInv'
<1> DEFINE g == obj[t]
           c == Head(ids[t])
<1>1. /\ op[t] = "merge" /\ ids[t] # <<>> /\ state[c] # "INVALID" /\ Call(t, "merge", g, Tail(ids[t]), None)
      /\ UNCHANGED <<bitmap, group, ref, waitref, signaled, cbs, payload, lock>>
    BY DEF MergeLinks
<1>2. /\ g \in Obj /\ c \in Obj /\ ids[t] \in Seq(Obj) /\ IsInjective(ids[t])
      /\ c \notin Range(children[g]) /\ remaining[g] + 1 < Wrap
    BY <1>1, Merging
<1>3. Tail(ids[t]) \in Seq(Obj) /\ IsInjective(Tail(ids[t])) BY <1>1, <1>2, TailOfList
<1>4. g \notin Range(parents[c]) BY <1>1, <1>2, NotLinked
<1>5. TypeInv /\ CallInv BY DEF FenceInv
<1>6. /\ remaining' \in [Obj -> 0 .. Wrap - 1] /\ pend' \in [Obj -> SUBSET Obj]
      /\ parents' \in [Obj -> Seq(Obj)] /\ children' \in [Obj -> Seq(Obj)]
      /\ \A p \in Obj : IsInjective(parents'[p]) /\ IsInjective(children'[p])
    <2>1. CASE state[c] = "ACTIVE"
        <3>1. /\ remaining' = Set(remaining, g, remaining[g] + 1) /\ pend' = Set(pend, g, pend[g] \cup {c})
              /\ children' = Set(children, g, Append(children[g], c))
              /\ parents' = Set(parents, c, Append(parents[c], g))
            BY <2>1 DEF MergeLinks
        <3>2. /\ Append(children[g], c) \in Seq(Obj) /\ IsInjective(Append(children[g], c))
              /\ Append(parents[c], g) \in Seq(Obj) /\ IsInjective(Append(parents[c], g))
            BY <1>2, <1>4, <1>5, AppendToList DEF TypeInv, TypeOK
        <3>3. remaining[g] + 1 \in 0 .. Wrap - 1
            <4>1. remaining[g] \in 0 .. Wrap - 1 BY <1>2, <1>5 DEF TypeInv, TypeOK
            <4> QED BY <4>1, <1>2, CamAssumption
        <3>4. remaining' \in [Obj -> 0 .. Wrap - 1]
            <4> DEFINE n == remaining[g] + 1
            <4>1. n \in 0 .. Wrap - 1 /\ remaining' = Set(remaining, g, n) BY <3>1, <3>3
            <4> HIDE DEF n
            <4> QED BY <4>1, <1>5 DEF Set, TypeInv, TypeOK
        <3>5. pend' \in [Obj -> SUBSET Obj] BY <3>1, <1>2, <1>5 DEF Set, TypeInv
        <3> HIDE DEF g, c
        <3>6. /\ parents' \in [Obj -> Seq(Obj)] /\ children' \in [Obj -> Seq(Obj)]
              /\ \A p \in Obj : IsInjective(parents'[p]) /\ IsInjective(children'[p])
            BY <3>1, <3>2, <1>2, <1>5 DEF Set, TypeInv, TypeOK
        <3> QED BY <3>4, <3>5, <3>6
    <2>2. CASE state[c] # "ACTIVE"
        <3>1. UNCHANGED <<remaining, children, parents, pend>> BY <2>2 DEF MergeLinks
        <3> QED BY <3>1, <1>5 DEF TypeInv, TypeOK
    <2> QED BY <2>1, <2>2
<1>7. state' \in [Obj -> States]
    <2>1. state' = state \/ state' = Set(state, g, state[c]) BY DEF MergeLinks
    <2> HIDE DEF g, c
    <2> QED BY <2>1, <1>2, <1>5 DEF Set, TypeInv, TypeOK
<1>8. bad' \in [Obj -> BOOLEAN]
    <2>1. CASE state[c] = "ACTIVE" BY <2>1, <1>5 DEF MergeLinks, TypeInv
    <2>2. CASE state[c] # "ACTIVE"
        <3>1. bad' = Set(bad, g, bad[g] \/ state[c] # Success) BY <2>2 DEF MergeLinks
        <3> HIDE DEF g, c
        <3> QED BY <3>1, <1>5 DEF Set, TypeInv
    <2> QED BY <2>1, <2>2
<1>9. RowsTyped' /\ lock' \in [Obj -> Thread \cup {None}]
    BY <1>1, <1>5, <1>6, <1>7, <1>8 DEF RowsTyped, TypeInv, TypeOK
<1> HIDE DEF g, c
<1> QED BY <1>1, <1>2, <1>3, <1>5, <1>9, GoesOnTyped DEF Ops

LEMMA MergeFailsTyped ==
    ASSUME TypeInv, CallInv, NEW t \in Thread, MergeFails(t)
    PROVE  TypeInv' /\ CallInv'
<1> DEFINE g == obj[t]
           f == [o \in Obj |-> IF o \in Range(children[g]) THEN CleanOne(parents[o], g) ELSE parents[o]]
<1>1. /\ Return(t) /\ state' = Set(state, g, "INVALID") /\ parents' = f
      /\ children' = Set(children, g, <<>>) /\ bitmap' = bitmap \ {g} /\ lock' = Set(lock, g, None)
      /\ pend' = Set(pend, g, {}) /\ bad' = Set(bad, g, FALSE)
      /\ UNCHANGED <<group, remaining, ref, waitref, signaled, cbs, payload>>
    BY DEF MergeFails
<1>2. \A o \in Obj : CleanOne(parents[o], g) \in Seq(Obj) /\ IsInjective(CleanOne(parents[o], g))
    BY CleanOneList DEF TypeInv, TypeOK
<1>3. parents' \in [Obj -> Seq(Obj)] /\ \A o \in Obj : IsInjective(parents'[o])
    BY <1>1, <1>2 DEF TypeInv, TypeOK
<1> HIDE DEF g, f
<1>4. children' \in [Obj -> Seq(Obj)] /\ \A o \in Obj : IsInjective(children'[o])
    BY <1>1, EmptyList DEF Set, TypeInv, TypeOK
<1>5. state' \in [Obj -> States] /\ lock' \in [Obj -> Thread \cup {None}] /\ bitmap' \subseteq Obj
    BY <1>1 DEF Set, TypeInv, TypeOK, States
<1>6. pend' \in [Obj -> SUBSET Obj] BY <1>1 DEF Set, TypeInv
<1>7. bad' \in [Obj -> BOOLEAN] BY <1>1 DEF Set, TypeInv
<1>8. RowsTyped' BY <1>1, <1>3, <1>4, <1>5, <1>6, <1>7 DEF RowsTyped, TypeInv, TypeOK
<1> QED BY <1>1, <1>5, <1>8, GoesOnTyped, EmptyList DEF Return, Ops

\* The other steps that leave the links alone.
LEMMA UseTyped ==
    ASSUME TypeInv, CallInv, NEW t \in Thread, NEW p \in Ops, NEW o \in Obj, NEW l \in {obj[t], None},
           Call(t, p, l, <<>>, None), p \notin {"idle", "checked"} => l \in Obj, p # "signal",
           bitmap' = bitmap, state' \in [Obj -> States], waitref' \in [Obj -> Nat],
           signaled' \in [Obj -> BOOLEAN], lock' \in [Obj -> Thread \cup {None}],
           UNCHANGED <<group, remaining, ref, parents, children, cbs, payload, ghosts>>
    PROVE  TypeInv' /\ CallInv'
<1>1. RowsTyped' BY DEF ghosts, RowsTyped, TypeInv, TypeOK
<1>2. l \in Obj \cup {None} BY DEF TypeInv, TypeOK
<1>3. <<>> \in Seq(Obj) /\ IsInjective(<<>>) /\ Len(<<>>) < Wrap BY EmptyList, CamAssumption
<1> QED BY <1>1, <1>2, <1>3, GoesOnTyped

LEMMA MergeEndsTyped ==
    ASSUME TypeInv, CallInv, NEW t \in Thread, MergeEnds(t)
    PROVE  TypeInv' /\ CallInv'
<1> DEFINE g == obj[t]
<1>1. g \in Obj BY DEF MergeEnds, CallInv
<1>2. /\ state' \in {state, Set(state, g, Success)} /\ signaled' \in {signaled, Set(signaled, g, TRUE)}
      /\ lock' = Set(lock, g, None) /\ Call(t, "idle", None, <<>>, None)
      /\ UNCHANGED <<bitmap, group, remaining, ref, waitref, parents, children, cbs, payload, ghosts>>
    BY DEF MergeEnds, Return
<1> HIDE DEF g
<1>3. state' \in [Obj -> States] BY <1>2 DEF Set, TypeInv, TypeOK, States, Status
<1>4. signaled' \in [Obj -> BOOLEAN] BY <1>2 DEF Set, TypeInv, TypeOK
<1>5. lock' \in [Obj -> Thread \cup {None}] BY <1>2 DEF Set, TypeInv, TypeOK
<1>6. waitref' \in [Obj -> Nat] /\ bitmap' = bitmap BY <1>2 DEF TypeInv, TypeOK
<1> QED BY <1>1, <1>2, <1>3, <1>4, <1>5, <1>6, UseTyped DEF Ops

LEMMA DestroyTyped ==
    ASSUME TypeInv, CallInv, NEW t \in Thread, NEW o \in Obj, Destroy(t, o)
    PROVE  TypeInv' /\ CallInv'
<1>1. state' \in [Obj -> States] BY DEF Destroy, Set, TypeInv, TypeOK, States
<1>2. signaled' \in [Obj -> BOOLEAN] BY DEF Destroy, Set, TypeInv, TypeOK
<1>3. RowsTyped' /\ lock' \in [Obj -> Thread \cup {None}]
    BY <1>1, <1>2 DEF Destroy, ghosts, RowsTyped, TypeInv, TypeOK
<1> QED BY <1>3, GoesOnTyped, EmptyList DEF Destroy, Ops

\* A count is put back only by somebody it was taken for.
LEMMA UserCounted ==
    ASSUME FenceInv, NEW t \in Thread, op[t] \in {"wait", "put"}
    PROVE  obj[t] \in bitmap /\ waitref[obj[t]] >= 1 /\ waitref[obj[t]] \in Nat
<1> DEFINE o == obj[t]
           users == {u \in Thread : op[u] \in {"wait", "put"} /\ obj[u] = o}
<1>1. o \in bitmap /\ o \in Obj BY DEF FenceInv, UserInv, Role, TypeInv, TypeOK
<1>2. IsFiniteSet(users) /\ users # {} BY CamAssumption, FS_Subset
<1>3. Cardinality(users) \in Nat /\ Cardinality(users) # 0 BY <1>2, FS_CardinalityType, FS_EmptySet
<1>4. waitref[o] = Cardinality(users) + (IF state[o] = "INVALID" THEN 0 ELSE 1)
    BY <1>1 DEF FenceInv, UserInv, UsersCounted
<1> HIDE DEF users, o
<1>5. waitref[o] >= 1 /\ waitref[o] \in Nat BY <1>3, <1>4
<1> QED BY <1>1, <1>5 DEF o

LEMMA WaitRefTyped ==
    ASSUME FenceInv, NEW t \in Thread, GetWaitRef(t) \/ PutWaitRef(t)
    PROVE  TypeInv' /\ CallInv'
<1>1. TypeInv /\ CallInv BY DEF FenceInv
<1>2. obj[t] \in Obj BY <1>1 DEF GetWaitRef, PutWaitRef, CallInv
<1>3. /\ UNCHANGED <<bitmap, state, signaled, lock, group, remaining, ref, parents, children, cbs, payload, ghosts>>
      /\ state' \in [Obj -> States] /\ signaled' \in [Obj -> BOOLEAN] /\ lock' \in [Obj -> Thread \cup {None}]
    BY <1>1 DEF GetWaitRef, PutWaitRef, TypeInv, TypeOK
<1>4. waitref' \in [Obj -> Nat]
    <2>1. CASE GetWaitRef(t)
        <3>1. waitref' = waitref \/ waitref' = Set(waitref, obj[t], waitref[obj[t]] + 1) BY <2>1 DEF GetWaitRef
        <3>2. waitref \in [Obj -> Nat] /\ waitref[obj[t]] + 1 \in Nat BY <1>1, <1>2 DEF TypeInv, TypeOK
        <3>3. CASE waitref' = Set(waitref, obj[t], waitref[obj[t]] + 1) BY <3>2, <3>3 DEF Set
        <3> QED BY <3>1, <3>2, <3>3
    <2>2. CASE PutWaitRef(t)
        <3>1. op[t] = "put" /\ waitref' = Set(waitref, obj[t], waitref[obj[t]] - 1) BY <2>2 DEF PutWaitRef
        <3>2. waitref[obj[t]] - 1 \in Nat BY <3>1, UserCounted
        <3> QED BY <3>1, <3>2, <1>1, <1>2 DEF Set, TypeInv, TypeOK
    <2> QED BY <2>1, <2>2
<1>5. \/ Call(t, "idle", None, <<>>, None)
      \/ \E p \in {"wait", "deinit"} : Call(t, p, obj[t], <<>>, None)
    BY DEF GetWaitRef, PutWaitRef, Return
<1>6. CASE Call(t, "idle", None, <<>>, None) BY <1>1, <1>2, <1>3, <1>4, <1>6, UseTyped DEF Ops
<1>7. ASSUME NEW p \in {"wait", "deinit"}, Call(t, p, obj[t], <<>>, None) PROVE TypeInv' /\ CallInv'
    <2>1. p \in Ops \ {"idle", "checked", "signal"} BY DEF Ops
    <2> QED BY <2>1, <1>1, <1>2, <1>3, <1>4, <1>7, UseTyped
<1> QED BY <1>5, <1>6, <1>7

LEMMA DeinitTyped ==
    ASSUME TypeInv, CallInv, NEW t \in Thread, DeinitBegins(t) \/ DeinitUnlinks(t) \/ DeinitEnds(t)
    PROVE  TypeInv' /\ CallInv'
<1> DEFINE o == obj[t]
<1>1. o \in Obj /\ ids[t] \in Seq(Obj) BY DEF DeinitBegins, DeinitUnlinks, DeinitEnds, CallInv, TypeInv, TypeOK
<1> HIDE DEF o
<1>2. CASE DeinitBegins(t)
    <2>1. /\ children' = Set(children, o, <<>>) /\ parents' = Set(parents, o, <<>>)
          /\ Call(t, "unlink", o, children[o] \o parents[o], None)
          /\ UNCHANGED <<bitmap, state, group, remaining, ref, waitref, signaled, cbs, payload, lock, ghosts>>
        BY <1>2 DEF DeinitBegins, o
    <2>2. children[o] \o parents[o] \in Seq(Obj) BY <1>1, JoinedLists DEF TypeInv, TypeOK
    <2>3. /\ parents' \in [Obj -> Seq(Obj)] /\ children' \in [Obj -> Seq(Obj)]
          /\ \A p \in Obj : IsInjective(parents'[p]) /\ IsInjective(children'[p])
        BY <2>1, EmptyList DEF Set, TypeInv, TypeOK
    <2>4. RowsTyped' /\ lock' \in [Obj -> Thread \cup {None}]
        BY <2>1, <2>3 DEF ghosts, RowsTyped, TypeInv, TypeOK
    <2> QED BY <2>1, <2>2, <2>4, <1>1, GoesOnTyped DEF Ops
<1>3. CASE DeinitUnlinks(t)
    <2> DEFINE p == Head(ids[t])
    <2>1. /\ ids[t] # <<>> /\ Call(t, "unlink", o, Tail(ids[t]), None)
          /\ UNCHANGED <<bitmap, state, group, remaining, ref, waitref, signaled, cbs, payload, lock, ghosts>>
          /\ parents' = parents \/ parents' = Set(parents, p, CleanOne(parents[p], o))
          /\ children' = children \/ children' = Set(children, p, CleanOne(children[p], o))
        BY <1>3 DEF DeinitUnlinks, o
    <2>2. Tail(ids[t]) \in Seq(Obj) /\ p \in Obj BY <1>1, <2>1, TailOfList
    <2> HIDE DEF p
    <2>3. /\ CleanOne(parents[p], o) \in Seq(Obj) /\ IsInjective(CleanOne(parents[p], o))
          /\ CleanOne(children[p], o) \in Seq(Obj) /\ IsInjective(CleanOne(children[p], o))
        BY <2>2, CleanOneList DEF TypeInv, TypeOK
    <2>4. parents' \in [Obj -> Seq(Obj)] /\ \A q \in Obj : IsInjective(parents'[q])
        <3>1. CASE parents' = parents BY <3>1 DEF TypeInv, TypeOK
        <3>2. CASE parents' = Set(parents, p, CleanOne(parents[p], o))
            BY <2>2, <2>3, <3>2, ListTyped DEF TypeInv, TypeOK
        <3> QED BY <2>1, <3>1, <3>2
    <2>5. children' \in [Obj -> Seq(Obj)] /\ \A q \in Obj : IsInjective(children'[q])
        <3>1. CASE children' = children BY <3>1 DEF TypeInv, TypeOK
        <3>2. CASE children' = Set(children, p, CleanOne(children[p], o))
            BY <2>2, <2>3, <3>2, ListTyped DEF TypeInv, TypeOK
        <3> QED BY <2>1, <3>1, <3>2
    <2>6. RowsTyped' /\ lock' \in [Obj -> Thread \cup {None}]
        BY <2>1, <2>4, <2>5 DEF ghosts, RowsTyped, TypeInv, TypeOK
    <2> QED BY <2>1, <2>2, <2>6, <1>1, GoesOnTyped DEF Ops
<1>4. CASE DeinitEnds(t)
    <2>1. /\ bitmap' = bitmap \ {o} /\ state' = Set(state, o, "INVALID") /\ Return(t) /\ UNCHANGED lock
          /\ group' = Set(group, o, FALSE) /\ remaining' = Set(remaining, o, 0)
          /\ ref' = Set(ref, o, 0) /\ waitref' = Set(waitref, o, 0)
          /\ signaled' = Set(signaled, o, FALSE)
          /\ parents' = Set(parents, o, <<>>) /\ children' = Set(children, o, <<>>)
          /\ cbs' = Set(cbs, o, 0) /\ payload' = Set(payload, o, FALSE)
          /\ pend' = Set(pend, o, {}) /\ bad' = Set(bad, o, FALSE)
        BY <1>4 DEF DeinitEnds, o
    <2>2. bitmap' \subseteq Obj /\ state' \in [Obj -> States]
        BY <2>1 DEF Set, TypeInv, TypeOK, States
    <2>3. ref' \in [Obj -> Nat] /\ waitref' \in [Obj -> Nat] /\ cbs' \in [Obj -> Nat]
        BY <2>1 DEF Set, TypeInv, TypeOK
    <2>4. remaining' \in [Obj -> 0 .. Wrap - 1]
        <3>1. 0 \in 0 .. Wrap - 1 BY CamAssumption
        <3> QED BY <2>1, <3>1 DEF Set, TypeInv, TypeOK
    <2>5. group' \in [Obj -> BOOLEAN] /\ signaled' \in [Obj -> BOOLEAN] BY <2>1 DEF Set, TypeInv, TypeOK
    <2>6. payload' \in [Obj -> BOOLEAN] /\ bad' \in [Obj -> BOOLEAN] BY <2>1 DEF Set, TypeInv, TypeOK
    <2>7. pend' \in [Obj -> SUBSET Obj] BY <2>1 DEF Set, TypeInv, TypeOK
    <2>8. /\ parents' \in [Obj -> Seq(Obj)] /\ children' \in [Obj -> Seq(Obj)]
          /\ \A p \in Obj : IsInjective(parents'[p]) /\ IsInjective(children'[p])
        BY <2>1, EmptyList DEF Set, TypeInv, TypeOK
    <2>9. RowsTyped' BY <2>2, <2>3, <2>4, <2>5, <2>6, <2>7, <2>8 DEF RowsTyped
    <2>10. lock' \in [Obj -> Thread \cup {None}] BY <2>1 DEF TypeInv, TypeOK
    <2> QED BY <2>1, <2>9, <2>10, GoesOnTyped, EmptyList DEF Return, Ops
<1> QED BY <1>2, <1>3, <1>4

LEMMA TypeStep == ASSUME FenceInv, [Next]_vars PROVE TypeInv' /\ CallInv'
<1>1. TypeInv /\ CallInv BY DEF FenceInv
<1>2. ASSUME NEW o \in Obj, \/ Create(o) \/ GetRef(o) \/ PutRef(o) \/ RegisterCallback(o)
                            \/ Deregister(o) \/ RegisterPayload(o) \/ SignalShared(o)
      PROVE  TypeInv' /\ CallInv'
    BY <1>1, <1>2, CreateTyped, PlainTyped
<1>3. ASSUME NEW t \in Thread, NEW o \in Obj,
             (\E s \in Status : Signal(t, o, s)) \/ Wait(t, o) \/ Destroy(t, o)
      PROVE  TypeInv' /\ CallInv'
    <2>1. CASE Wait(t, o)
        <3>1. UNCHANGED <<bitmap, rows, lock, ghosts>> BY <2>1 DEF Wait
        <3> QED BY <1>1, <2>1, <3>1, CallsTyped
    <2> QED BY <1>1, <1>3, <2>1, SignalTyped, DestroyTyped
<1>4. ASSUME NEW t \in Thread, NEW l \in Lists, MergeChecks(t, l) PROVE TypeInv' /\ CallInv'
    <2>1. UNCHANGED <<bitmap, rows, lock, ghosts>> BY <1>4 DEF MergeChecks
    <2> QED BY <1>1, <1>4, <2>1, CallsTyped
<1>5. ASSUME NEW t \in Thread, Continue(t) PROVE TypeInv' /\ CallInv'
    <2>1. CASE MergeFull(t) \/ WaitEnds(t)
        <3>1. UNCHANGED <<bitmap, rows, lock, ghosts>> BY <2>1 DEF MergeFull, WaitEnds
        <3> QED BY <1>1, <2>1, <3>1, CallsTyped
    <2>2. CASE SignalParent(t) BY <1>1, <2>2, SignalParentTyped
    <2>3. CASE \E o \in Obj : MergeBegins(t, o) BY <1>1, <2>3, MergeBeginsTyped
    <2>4. CASE MergeLinks(t) BY <2>4, MergeLinksTyped
    <2>5. CASE MergeFails(t) \/ MergeEnds(t) BY <1>1, <2>5, MergeFailsTyped, MergeEndsTyped
    <2>6. CASE GetWaitRef(t) \/ PutWaitRef(t) BY <2>6, WaitRefTyped
    <2>7. CASE DeinitBegins(t) \/ DeinitUnlinks(t) \/ DeinitEnds(t) BY <1>1, <2>7, DeinitTyped
    <2> QED BY <1>5, <2>1, <2>2, <2>3, <2>4, <2>5, <2>6, <2>7 DEF Continue
<1>6. CASE UNCHANGED vars
    <2>1. UNCHANGED <<bitmap, rows, ghosts>> /\ UNCHANGED <<lock, op, obj, ids, val>> BY <1>6 DEF vars, calls
    <2>2. RowsTyped' BY <1>1, <2>1, RowsStayTyped
    <2>3. TypeInv' BY <1>1, <2>1, <2>2 DEF RowsTyped, TypeInv, TypeOK
    <2> QED BY <1>1, <2>1, <2>3 DEF CallInv
<1> QED BY <1>2, <1>3, <1>4, <1>5, <1>6 DEF Next

-----------------------------------------------------------------------------
(***************************************************************************)
(* Users of a row.                                                         *)
(***************************************************************************)
Users(o) == {t \in Thread : op[t] \in {"wait", "put"} /\ obj[t] = o}

SameRole(t) ==
    /\ op'[t] = "merge" <=> op[t] = "merge"
    /\ op'[t] \in {"wait", "put"} <=> op[t] \in {"wait", "put"}
    /\ Closing(t)' <=> Closing(t)
    /\ op'[t] = "get" <=> op[t] = "get"
    /\ op[t] \notin {"idle", "signal", "checked"} => obj'[t] = obj[t]

LEMMA RoleKept ==
    ASSUME CallInv, NEW t \in Thread, Role(t), SameRole(t),
           op[t] \notin {"idle", "signal", "checked"} =>
               /\ lock'[obj[t]] = lock[obj[t]] /\ waitref'[obj[t]] = waitref[obj[t]]
               /\ (obj[t] \in bitmap' <=> obj[t] \in bitmap)
               /\ (state'[obj[t]] = "INVALID" <=> state[obj[t]] = "INVALID"),
           Closing(t) => \A u \in Thread : Closing(u)' /\ obj'[u] = obj[t] => Closing(u) /\ obj[u] = obj[t]
    PROVE  Role(t)'
BY DEF Role, SameRole, Closing, Unlocked

LEMMA UserKept ==
    ASSUME TypeInv, CallInv, UserInv, UNCHANGED <<bitmap, lock, waitref>>,
           \A o \in Obj : state'[o] = "INVALID" <=> state[o] = "INVALID",
           \A t \in Thread : SameRole(t)
    PROVE  UserInv'
<1>1. \A o \in Obj \ bitmap : state'[o] = "INVALID" BY DEF UserInv
<1>2. \A o \in Obj : lock[o] # None => lock[o] \in Thread BY DEF TypeInv, TypeOK
<1>3. \A o \in Obj : lock'[o] # None => op'[lock'[o]] = "merge" /\ obj'[lock'[o]] = o
    BY <1>2 DEF UserInv, SameRole
<1>4. ASSUME NEW t \in Thread PROVE Role(t)'
    <2>1. op[t] \notin {"idle", "signal", "checked"} => obj[t] \in Obj BY DEF CallInv
    <2>2. \A u \in Thread : Closing(u)' => Closing(u) /\ obj'[u] = obj[u] BY DEF SameRole, Closing
    <2> QED BY <2>1, <2>2, RoleKept DEF UserInv
<1>5. \A o : Users(o)' = Users(o) BY DEF Users, SameRole
<1>6. UsersCounted'
    <2> SUFFICES ASSUME NEW o \in bitmap
                 PROVE  /\ waitref[o] = Cardinality(Users(o)) + (IF state'[o] = "INVALID" THEN 0 ELSE 1)
                        /\ waitref[o] = 0 => \E t \in Thread : Closing(t)' /\ obj'[t] = o
        BY <1>5 DEF UsersCounted, Users, Closing
    <2>1. o \in Obj BY DEF TypeInv, TypeOK
    <2>2. /\ waitref[o] = Cardinality(Users(o)) + (IF state[o] = "INVALID" THEN 0 ELSE 1)
          /\ waitref[o] = 0 => \E t \in Thread : Closing(t) /\ obj[t] = o
        BY DEF UserInv, UsersCounted, Users, Closing
    <2>3. \A t \in Thread : Closing(t) => Closing(t)' /\ obj'[t] = obj[t] BY DEF SameRole, Closing
    <2> QED BY <2>1, <2>2, <2>3
<1> QED BY <1>1, <1>3, <1>4, <1>6 DEF UserInv

\* A call that goes on in the same role, or one that has none.
LEMMA CallSameRole ==
    ASSUME TypeOK, CallInv, NEW t \in Thread, NEW p, NEW o, NEW l, NEW v, Call(t, p, o, l, v),
           \/ op[t] \in {"idle", "signal", "checked"} /\ p \in {"idle", "signal", "checked"}
           \/ o = obj[t] /\ (p = op[t] \/ {p, op[t]} \in {{"wait", "put"}, {"deinit", "unlink"}})
    PROVE  \A u \in Thread : SameRole(u)
<1>1. /\ op'[t] = p /\ obj'[t] = o
      /\ \A u \in Thread \ {t} : op'[u] = op[u] /\ obj'[u] = obj[u]
    BY Called
<1>2. \A u \in Thread \ {t} : SameRole(u) BY <1>1 DEF SameRole, Closing
<1>3. SameRole(t)
    <2>1. CASE op[t] \in {"idle", "signal", "checked"} /\ p \in {"idle", "signal", "checked"}
        BY <2>1, <1>1 DEF SameRole, Closing
    <2>2. CASE o = obj[t] /\ p = op[t] BY <2>2, <1>1 DEF SameRole, Closing
    <2>3. CASE o = obj[t] /\ {p, op[t]} = {"wait", "put"}
        <3>1. op[t] \in {"wait", "put"} /\ p \in {"wait", "put"} BY <2>3
        <3> QED BY <3>1, <2>3, <1>1 DEF SameRole, Closing
    <2>4. CASE o = obj[t] /\ {p, op[t]} = {"deinit", "unlink"}
        <3>1. op[t] \in {"deinit", "unlink"} /\ p \in {"deinit", "unlink"} BY <2>4
        <3> QED BY <3>1, <2>4, <1>1 DEF SameRole, Closing
    <2> QED BY <2>1, <2>2, <2>3, <2>4
<1> QED BY <1>2, <1>3

LEMMA NoCallSameRole == ASSUME UNCHANGED calls PROVE \A u \in Thread : SameRole(u)
BY DEF calls, SameRole, Closing

\* The steps that change no role, no lock, no count and no row's validity.
LEMMA QuietUsers ==
    ASSUME FenceInv,
           \/ \E o \in Obj : \/ GetRef(o) \/ PutRef(o) \/ RegisterCallback(o) \/ Deregister(o)
                             \/ RegisterPayload(o) \/ SignalShared(o)
           \/ UNCHANGED vars
           \/ \E t \in Thread : \/ \E o \in Obj, s \in Status : Signal(t, o, s)
                                \/ \E l \in Lists : MergeChecks(t, l)
                                \/ SignalParent(t) \/ MergeFull(t) \/ MergeLinks(t) \/ WaitEnds(t)
                                \/ DeinitBegins(t) \/ DeinitUnlinks(t)
    PROVE  UserInv'
<1>1. TypeInv /\ TypeOK /\ CallInv /\ UserInv BY DEF FenceInv, TypeInv
<1>2. CASE UNCHANGED vars BY <1>1, <1>2, UserKept, NoCallSameRole DEF vars, rows
<1>3. ASSUME NEW o \in Obj, \/ GetRef(o) \/ PutRef(o) \/ RegisterCallback(o) \/ Deregister(o)
                            \/ RegisterPayload(o) \/ SignalShared(o)
      PROVE  UserInv'
    <2>1. UNCHANGED <<bitmap, lock, waitref, state, calls>>
        BY <1>3 DEF GetRef, PutRef, RegisterCallback, Deregister, RegisterPayload, SignalShared
    <2> QED BY <1>1, <2>1, UserKept, NoCallSameRole
<1>4. ASSUME NEW t \in Thread, NEW o \in Obj, NEW s \in Status, Signal(t, o, s) PROVE UserInv'
    <2>1. UNCHANGED <<bitmap, lock, waitref>> /\ state' = Set(state, o, s) /\ state[o] = "ACTIVE" /\ op[t] = "idle"
          /\ (UNCHANGED calls \/ Call(t, "signal", o, parents[o], s))
        BY <1>4 DEF Signal, Idle
    <2>2. \A p \in Obj : state'[p] = "INVALID" <=> state[p] = "INVALID"
        BY <1>1, <2>1 DEF Set, TypeInv, TypeOK, Status, Success
    <2>3. \A u \in Thread : SameRole(u) BY <1>1, <2>1, NoCallSameRole, CallSameRole
    <2> QED BY <1>1, <2>1, <2>2, <2>3, UserKept
<1>5. ASSUME NEW t \in Thread, SignalParent(t) PROVE UserInv'
    <2> DEFINE p == Head(ids[t])
    <2>1. /\ UNCHANGED <<bitmap, lock, waitref>> /\ UpdateParentState(p, val[t]) /\ op[t] = "signal"
          /\ \/ Call(t, "idle", None, <<>>, None) \/ Call(t, "signal", obj[t], Tail(ids[t]), val[t])
        BY <1>5 DEF SignalParent, Return
    <2>2. val[t] \in Status BY <1>1, <2>1 DEF CallInv
    <2> HIDE DEF p
    <2>3. \A q \in Obj : state'[q] = "INVALID" <=> state[q] = "INVALID"
        BY <1>1, <2>1, <2>2 DEF UpdateParentState, Set, TypeInv, TypeOK, Status, Success
    <2>4. \A u \in Thread : SameRole(u) BY <1>1, <2>1, CallSameRole
    <2> QED BY <1>1, <2>1, <2>3, <2>4, UserKept
<1>6. ASSUME NEW t \in Thread, (\E l \in Lists : MergeChecks(t, l)) \/ MergeFull(t) \/ WaitEnds(t) PROVE UserInv'
    <2>1. UNCHANGED <<bitmap, lock, waitref, state>> BY <1>6 DEF MergeChecks, MergeFull, WaitEnds, rows
    <2>2. \A u \in Thread : SameRole(u)
        BY <1>1, <1>6, CallSameRole DEF MergeChecks, MergeFull, WaitEnds, Idle, Return
    <2> QED BY <1>1, <2>1, <2>2, UserKept
<1>7. ASSUME NEW t \in Thread, MergeLinks(t) PROVE UserInv'
    <2> DEFINE g == obj[t]
               c == Head(ids[t])
    <2>1. /\ UNCHANGED <<bitmap, lock, waitref>> /\ state' \in {state, Set(state, g, state[c])}
          /\ state[c] # "INVALID" /\ op[t] = "merge" /\ Call(t, "merge", g, Tail(ids[t]), None)
        BY <1>7 DEF MergeLinks
    <2>2. state[g] # "INVALID" BY <2>1, Merging
    <2>3. \A u \in Thread : SameRole(u) BY <1>1, <2>1, CallSameRole
    <2> HIDE DEF g, c
    <2>4. \A q \in Obj : state'[q] = "INVALID" <=> state[q] = "INVALID"
        BY <1>1, <2>1, <2>2 DEF Set, TypeInv, TypeOK
    <2> QED BY <1>1, <2>1, <2>3, <2>4, UserKept
<1>8. ASSUME NEW t \in Thread, DeinitBegins(t) \/ DeinitUnlinks(t) PROVE UserInv'
    <2>1. UNCHANGED <<bitmap, lock, waitref, state>> BY <1>8 DEF DeinitBegins, DeinitUnlinks
    <2>2. \A u \in Thread : SameRole(u) BY <1>1, <1>8, CallSameRole DEF DeinitBegins, DeinitUnlinks
    <2> QED BY <1>1, <2>1, <2>2, UserKept
<1> QED BY <1>2, <1>3, <1>4, <1>5, <1>6, <1>7, <1>8

Outside == {"idle", "signal", "checked"}
Counted(o) ==
    /\ waitref[o] = Cardinality(Users(o)) + (IF state[o] = "INVALID" THEN 0 ELSE 1)
    /\ waitref[o] = 0 => \E t \in Thread : Closing(t) /\ obj[t] = o

LEMMA CountedOne == UsersCounted <=> \A o \in bitmap : Counted(o)
BY DEF UsersCounted, Counted, Users, Closing

\* The steps of one user of a row, or of the one who takes it.
LEMMA OneRow ==
    ASSUME TypeInv, CallInv, UserInv, NEW o \in Obj, NEW T \in SUBSET Thread,
           \A u \in Thread \ T : op'[u] = op[u] /\ obj'[u] = obj[u],
           \A u \in T : (op[u] \in Outside \/ obj[u] = o) /\ (op'[u] \in Outside \/ obj'[u] = o),
           \A q \in Obj \ {o} : /\ lock'[q] = lock[q] /\ waitref'[q] = waitref[q]
                                /\ (q \in bitmap' <=> q \in bitmap)
                                /\ (state'[q] = "INVALID" <=> state[q] = "INVALID"),
           bitmap' \subseteq Obj, \A u \in Thread : op'[u] \notin Outside /\ obj'[u] = o => Role(u)',
           o \notin bitmap' => state'[o] = "INVALID",
           lock'[o] # None => op'[lock'[o]] = "merge" /\ obj'[lock'[o]] = o,
           o \in bitmap' => Counted(o)'
    PROVE  UserInv'
<1>1. \A q \in Obj \ bitmap' : state'[q] = "INVALID" BY DEF UserInv
<1>2. \A q \in Obj : lock'[q] # None => op'[lock'[q]] = "merge" /\ obj'[lock'[q]] = q
    <2> SUFFICES ASSUME NEW q \in Obj \ {o}, lock[q] # None
                 PROVE  op'[lock[q]] = "merge" /\ obj'[lock[q]] = q
        OBVIOUS
    <2>1. lock[q] \in Thread /\ op[lock[q]] = "merge" /\ obj[lock[q]] = q BY DEF UserInv, TypeInv, TypeOK
    <2>2. lock[q] \notin T BY <2>1 DEF Outside
    <2> QED BY <2>1, <2>2
<1>3. ASSUME NEW u \in Thread PROVE Role(u)'
    <2>1. CASE op'[u] \notin Outside /\ obj'[u] = o BY <2>1
    <2>2. CASE op'[u] \in Outside BY <2>2 DEF Outside, Role, Closing
    <2>3. CASE op'[u] \notin Outside /\ obj'[u] # o
        <3>1. u \notin T /\ op'[u] = op[u] /\ obj'[u] = obj[u] /\ obj[u] \in Obj \ {o}
            BY <2>3 DEF CallInv, Outside
        <3>2. SameRole(u) BY <3>1 DEF SameRole, Closing
        <3>3. \A v \in Thread : Closing(v)' /\ obj'[v] = obj[u] => Closing(v) /\ obj[v] = obj[u]
            BY <3>1 DEF Closing, Outside
        <3> QED BY <3>1, <3>2, <3>3, RoleKept DEF UserInv
    <2> QED BY <2>1, <2>2, <2>3
<1>4. ASSUME NEW q \in bitmap' PROVE Counted(q)'
    <2>1. CASE q = o BY <2>1
    <2>2. CASE q # o
        <3>1. q \in bitmap /\ q \in Obj BY <2>2
        <3>2. Counted(q) BY <3>1, CountedOne DEF UserInv
        <3>3. \A u \in Thread : op'[u] \notin Outside /\ obj'[u] = q <=> op[u] \notin Outside /\ obj[u] = q
            BY <2>2
        <3>4. \A u \in Thread : obj[u] = q /\ op[u] \notin Outside => op'[u] = op[u] BY <2>2
        <3>5. Users(q)' = Users(q) BY <3>3, <3>4 DEF Users, Outside
        <3>6. \A u \in Thread : Closing(u)' /\ obj'[u] = q <=> Closing(u) /\ obj[u] = q
            BY <3>3, <3>4 DEF Closing, Outside
        <3> QED BY <2>2, <3>1, <3>2, <3>5, <3>6 DEF Counted
    <2> QED BY <2>1, <2>2
<1>5. UsersCounted'
    <2>1. \A q \in bitmap' : Counted(q)' BY <1>4
    <2>2. UsersCounted' <=> \A q \in bitmap' : Counted(q)' BY DEF UsersCounted, Counted, Users, Closing
    <2> QED BY <2>1, <2>2
<1> QED BY <1>1, <1>2, <1>3, <1>5 DEF UserInv

LEMMA OneRowBy ==
    ASSUME TypeInv, CallInv, UserInv, NEW o \in Obj, NEW t \in Thread,
           \A u \in Thread \ {t} : op'[u] = op[u] /\ obj'[u] = obj[u],
           op[t] \in Outside \/ obj[t] = o, op'[t] \in Outside \/ obj'[t] = o,
           \A q \in Obj \ {o} : /\ lock'[q] = lock[q] /\ waitref'[q] = waitref[q]
                                /\ (q \in bitmap' <=> q \in bitmap)
                                /\ (state'[q] = "INVALID" <=> state[q] = "INVALID"),
           bitmap' \subseteq Obj, \A u \in Thread : op'[u] \notin Outside /\ obj'[u] = o => Role(u)',
           o \notin bitmap' => state'[o] = "INVALID",
           lock'[o] # None => op'[lock'[o]] = "merge" /\ obj'[lock'[o]] = o,
           o \in bitmap' => Counted(o)'
    PROVE  UserInv'
<1> DEFINE T == {t}
<1>1. /\ T \in SUBSET Thread /\ \A u \in Thread \ T : op'[u] = op[u] /\ obj'[u] = obj[u]
      /\ \A u \in T : (op[u] \in Outside \/ obj[u] = o) /\ (op'[u] \in Outside \/ obj'[u] = o)
    OBVIOUS
<1> HIDE DEF T
<1> QED BY <1>1, OneRow

\* A free row has no user, and none of the calls under way stands at it.
LEMMA FreeRow ==
    ASSUME FenceInv, ~Reuse, NEW o \in Obj, Free(o)
    PROVE  /\ \A u \in Thread : op[u] \notin Outside => obj[u] # o
           /\ Users(o) = {} /\ Cardinality(Users(o)) = 0 /\ o \notin bitmap
           /\ \A u \in Thread : o \notin Range(ids[u])
<1>1. o \notin bitmap /\ o \notin Copied BY DEF Free
<1>2. \A u \in Thread : o \notin Range(ids[u]) BY <1>1 DEF Copied
<1>3. ASSUME NEW u \in Thread, op[u] \notin Outside PROVE obj[u] # o
    <2>1. CASE op[u] = "get"
        <3>1. obj[u] \in Copied BY <2>1, Zenon DEF Copied
        <3> QED BY <3>1, <1>1
    <2>2. CASE op[u] # "get"
        <3>1. op[u] \in {"merge", "wait", "put", "deinit", "unlink"}
            BY <1>3, <2>2 DEF FenceInv, CallInv, Ops, Outside
        <3> QED BY <3>1, <1>1 DEF FenceInv, UserInv, Role, Closing
    <2> QED BY <2>1, <2>2
<1>4. Users(o) = {} BY <1>3 DEF Users, Outside
<1> QED BY <1>1, <1>2, <1>3, <1>4, FS_EmptySet

LEMMA CreateUsers ==
    ASSUME FenceInv, ~Reuse, NEW o \in Obj, Create(o)
    PROVE  UserInv'
<1>1. TypeInv /\ CallInv /\ UserInv BY DEF FenceInv
<1>2. UNCHANGED <<lock, op, obj>> /\ Unlocked(o) /\ Free(o) BY DEF Create, calls
<1>3. bitmap' = bitmap \cup {o} /\ state' = Set(state, o, "ACTIVE") /\ waitref' = Set(waitref, o, 1)
    BY DEF Create, InitRow
<1>4. state'[o] = "ACTIVE" /\ waitref'[o] = 1 BY <1>1, <1>3 DEF Set, TypeInv, TypeOK
<1>5. Users(o)' = {} /\ Cardinality(Users(o)') = 0 BY <1>2, FreeRow DEF Users
<1>6. Counted(o)' BY <1>4, <1>5 DEF Counted
<1>7. \A q \in Obj \ {o} : /\ lock'[q] = lock[q] /\ waitref'[q] = waitref[q] /\ (q \in bitmap' <=> q \in bitmap)
                           /\ (state'[q] = "INVALID" <=> state[q] = "INVALID")
    BY <1>1, <1>2, <1>3 DEF Set, TypeInv, TypeOK
<1>8. bitmap' \subseteq Obj /\ o \in bitmap' BY <1>1, <1>3 DEF TypeInv, TypeOK
<1>9. \A u \in Thread : op'[u] \notin Outside => obj'[u] # o BY <1>2, FreeRow
<1>10. lock'[o] = None BY <1>2 DEF Unlocked
<1> DEFINE T == {}
<1>11. /\ T \in SUBSET Thread /\ \A u \in Thread \ T : op'[u] = op[u] /\ obj'[u] = obj[u]
       /\ \A u \in T : (op[u] \in Outside \/ obj[u] = o) /\ (op'[u] \in Outside \/ obj'[u] = o)
    BY <1>2
<1> HIDE DEF T
<1> QED BY <1>1, <1>6, <1>7, <1>8, <1>9, <1>10, <1>11, OneRow

LEMMA MergeBeginsUsers ==
    ASSUME FenceInv, ~Reuse, NEW t \in Thread, NEW g \in Obj, MergeBegins(t, g)
    PROVE  UserInv'
<1>1. TypeInv /\ TypeOK /\ CallInv /\ UserInv BY DEF FenceInv, TypeInv
<1>2. op[t] = "checked" /\ Call(t, "merge", g, ids[t], None) /\ Free(g) /\ lock' = Set(lock, g, t) BY DEF MergeBegins
<1>3. bitmap' = bitmap \cup {g} /\ state' = Set(state, g, "ACTIVE") /\ waitref' = Set(waitref, g, 1)
    BY DEF MergeBegins, InitRow
<1>4. /\ op'[t] = "merge" /\ obj'[t] = g
      /\ \A u \in Thread \ {t} : op'[u] = op[u] /\ obj'[u] = obj[u]
    BY <1>1, <1>2, Called
<1>5. state'[g] = "ACTIVE" /\ waitref'[g] = 1 /\ lock'[g] = t BY <1>1, <1>2, <1>3 DEF Set, TypeInv, TypeOK
<1>6. \A u \in Thread \ {t} : op'[u] \notin Outside => obj'[u] # g BY <1>2, <1>4, FreeRow
<1>7. Users(g)' = {} BY <1>4, <1>6 DEF Users, Outside
<1>8. Counted(g)' BY <1>5, <1>7, FS_EmptySet DEF Counted
<1>9. \A q \in Obj \ {g} : /\ lock'[q] = lock[q] /\ waitref'[q] = waitref[q] /\ (q \in bitmap' <=> q \in bitmap)
                           /\ (state'[q] = "INVALID" <=> state[q] = "INVALID")
    BY <1>1, <1>2, <1>3 DEF Set, TypeInv, TypeOK
<1>10. bitmap' \subseteq Obj /\ g \in bitmap' BY <1>1, <1>3 DEF TypeInv, TypeOK
<1>11. Role(t)' BY <1>4, <1>5, <1>10 DEF Role, Closing
<1>12. \A u \in Thread : op'[u] \notin Outside /\ obj'[u] = g => Role(u)' BY <1>6, <1>11
<1>13. op[t] \in Outside BY <1>2 DEF Outside
<1> QED BY <1>1, <1>4, <1>5, <1>8, <1>9, <1>10, <1>12, <1>13, OneRowBy

\* Nobody else stands at the row of a group that is being merged.
LEMMA MergeAlone ==
    ASSUME FenceInv, NEW t \in Thread, op[t] = "merge"
    PROVE  \A u \in Thread \ {t} : op[u] \notin Outside => obj[u] # obj[t]
<1> DEFINE g == obj[t]
<1>1. g \in bitmap /\ lock[g] = t /\ state[g] # "INVALID" /\ waitref[g] = 1 BY DEF FenceInv, UserInv, Role
<1>2. Cardinality(Users(g)) \in Nat /\ IsFiniteSet(Users(g))
    BY CamAssumption, FS_Subset, FS_CardinalityType DEF Users
<1>3. waitref[g] = Cardinality(Users(g)) + 1 BY <1>1 DEF FenceInv, UserInv, UsersCounted, Users
<1> HIDE DEF g
<1>4. Users(g) = {} BY <1>1, <1>2, <1>3, FS_EmptySet
<1> SUFFICES ASSUME NEW u \in Thread \ {t}, op[u] \notin Outside, obj[u] = g PROVE FALSE BY DEF g
<1>5. op[u] \notin {"wait", "put"} BY <1>4 DEF Users
<1>6. op[u] # "merge" BY <1>1 DEF FenceInv, UserInv, Role
<1>7. ~Closing(u) BY <1>1 DEF FenceInv, UserInv, Role
<1>8. op[u] # "get" BY <1>1, CamAssumption DEF FenceInv, UserInv, Role, Unlocked
<1> QED BY <1>5, <1>6, <1>7, <1>8 DEF FenceInv, CallInv, Ops, Outside, Closing

LEMMA MergeStopsUsers ==
    ASSUME FenceInv, NEW t \in Thread, MergeFails(t) \/ MergeEnds(t)
    PROVE  UserInv'
<1>0. PICK g \in Obj : g = obj[t] BY DEF MergeFails, MergeEnds, FenceInv, CallInv
<1>1. TypeInv /\ TypeOK /\ CallInv /\ UserInv BY DEF FenceInv, TypeInv
<1>2. /\ op[t] = "merge" /\ Call(t, "idle", None, <<>>, None) /\ lock' = Set(lock, g, None) /\ UNCHANGED waitref
      /\ \/ bitmap' = bitmap \ {g} /\ state' = Set(state, g, "INVALID")
         \/ bitmap' = bitmap /\ state' \in {state, Set(state, g, Success)}
    BY <1>0 DEF MergeFails, MergeEnds, Return
<1>3. g \in bitmap /\ g \in Obj /\ state[g] # "INVALID" BY <1>0, <1>2, Merging
<1>4. op'[t] = "idle" /\ \A u \in Thread \ {t} : op'[u] = op[u] /\ obj'[u] = obj[u] BY <1>1, <1>2, Called
<1>5. \A u \in Thread : op'[u] \notin Outside => obj'[u] # g BY <1>0, <1>2, <1>4, MergeAlone DEF Outside
<1>6. waitref[g] = 1 BY <1>0, <1>2 DEF FenceInv, UserInv, Role
<1>7. lock'[g] = None /\ (g \notin bitmap' => state'[g] = "INVALID") /\ (g \in bitmap' => state'[g] # "INVALID")
    BY <1>1, <1>2, <1>3 DEF Set, TypeInv, TypeOK, Success
<1>8. \A q \in Obj \ {g} : /\ lock'[q] = lock[q] /\ waitref'[q] = waitref[q] /\ (q \in bitmap' <=> q \in bitmap)
                           /\ (state'[q] = "INVALID" <=> state[q] = "INVALID")
    BY <1>1, <1>2 DEF Set, TypeInv, TypeOK
<1>9. Users(g)' = {} BY <1>5 DEF Users, Outside
<1>10. g \in bitmap' => Counted(g)' BY <1>2, <1>6, <1>7, <1>9, FS_EmptySet DEF Counted
<1>11. bitmap' \subseteq Obj BY <1>1, <1>2 DEF TypeInv, TypeOK
<1>12. obj[t] = g /\ op'[t] \in Outside BY <1>0, <1>4 DEF Outside
<1> QED BY <1>1, <1>3, <1>4, <1>5, <1>7, <1>8, <1>10, <1>11, <1>12, OneRowBy

\* Users are counted one by one.
LEMMA UserAdded ==
    ASSUME NEW o, NEW t \in Thread, t \notin Users(o), Users(o)' = Users(o) \cup {t}
    PROVE  Cardinality(Users(o)') = Cardinality(Users(o)) + 1 /\ Cardinality(Users(o)) \in Nat
<1>1. IsFiniteSet(Users(o)) BY CamAssumption, FS_Subset DEF Users
<1> QED BY <1>1, FS_AddElement, FS_CardinalityType

LEMMA UserLeft ==
    ASSUME NEW o, NEW t \in Thread, t \in Users(o), Users(o)' = Users(o) \ {t}
    PROVE  Cardinality(Users(o)') = Cardinality(Users(o)) - 1 /\ Cardinality(Users(o)) \in Nat
<1>1. IsFiniteSet(Users(o)) BY CamAssumption, FS_Subset DEF Users
<1> QED BY <1>1, FS_RemoveElement, FS_CardinalityType

LEMMA UsersOf ==
    ASSUME FenceInv, NEW o \in bitmap
    PROVE  /\ waitref[o] = Cardinality(Users(o)) + (IF state[o] = "INVALID" THEN 0 ELSE 1)
           /\ Cardinality(Users(o)) \in Nat /\ waitref[o] \in Nat
           /\ waitref[o] = 0 => \E t \in Thread : Closing(t) /\ obj[t] = o
           /\ state[o] # "INVALID" => \A t \in Thread : Closing(t) => obj[t] # o
<1>1. Counted(o) BY CountedOne DEF FenceInv, UserInv
<1>2. Cardinality(Users(o)) \in Nat BY CamAssumption, FS_Subset, FS_CardinalityType DEF Users
<1>3. waitref[o] \in Nat BY <1>1, <1>2 DEF Counted
<1>4. \A t \in Thread : Closing(t) => waitref[obj[t]] = 0 BY DEF FenceInv, UserInv, Role
<1>5. state[o] # "INVALID" => waitref[o] # 0 BY <1>1, <1>2 DEF Counted
<1> QED BY <1>1, <1>2, <1>3, <1>4, <1>5 DEF Counted

LEMMA WaitUsers ==
    ASSUME FenceInv, NEW t \in Thread, NEW o \in Obj, Wait(t, o)
    PROVE  UserInv'
<1>1. TypeInv /\ TypeOK /\ CallInv /\ UserInv BY DEF FenceInv, TypeInv
<1>2. /\ op[t] = "idle" /\ lock[o] = None /\ state[o] # "INVALID" /\ Call(t, "get", o, <<>>, None)
      /\ UNCHANGED <<bitmap, state, lock, waitref>>
    BY DEF Wait, Idle, Unlocked, rows
<1>3. o \in bitmap BY <1>1, <1>2 DEF UserInv
<1>4. op'[t] = "get" /\ obj'[t] = o /\ \A u \in Thread \ {t} : op'[u] = op[u] /\ obj'[u] = obj[u]
    BY <1>1, <1>2, Called
<1>5. Users(o)' = Users(o) BY <1>2, <1>4 DEF Users
<1>6. Counted(o)'
    <2>1. \A u \in Thread : Closing(u) => Closing(u)' /\ obj'[u] = obj[u] BY <1>2, <1>4 DEF Closing
    <2>2. Counted(o) BY <1>1, <1>3, CountedOne DEF UserInv
    <2> QED BY <1>2, <1>5, <2>1, <2>2 DEF Counted
<1>7. ASSUME NEW u \in Thread, op'[u] \notin Outside, obj'[u] = o PROVE Role(u)'
    <2>1. CASE u = t BY <2>1, <1>2, <1>3, <1>4 DEF Role, Closing, Unlocked
    <2>2. CASE u # t
        <3>1. SameRole(u) BY <2>2, <1>4 DEF SameRole, Closing
        <3>2. \A v \in Thread : Closing(v)' => Closing(v) /\ obj'[v] = obj[v] BY <1>4 DEF Closing
        <3> QED BY <3>1, <3>2, <1>1, <1>2, RoleKept DEF UserInv
    <2> QED BY <2>1, <2>2
<1>8. lock'[o] = None /\ bitmap' \subseteq Obj BY <1>1, <1>2 DEF TypeOK
<1>9. op[t] \in Outside BY <1>2 DEF Outside
<1> QED BY <1>1, <1>2, <1>3, <1>4, <1>6, <1>7, <1>8, <1>9, OneRowBy

LEMMA GetWaitRefUsers ==
    ASSUME FenceInv, NEW t \in Thread, GetWaitRef(t)
    PROVE  UserInv'
<1>1. TypeInv /\ TypeOK /\ CallInv /\ UserInv BY DEF FenceInv, TypeInv
<1>2. PICK o \in Obj : o = obj[t] BY DEF GetWaitRef, FenceInv, CallInv
<1>3. op[t] = "get" /\ UNCHANGED <<bitmap, state, lock>> BY DEF GetWaitRef
<1>4. lock[o] = None /\ (o \in bitmap \/ waitref[o] = 0) BY <1>1, <1>2, <1>3 DEF UserInv, Role, Unlocked
<1>5. waitref \in [Obj -> Nat] /\ bitmap \subseteq Obj BY <1>1 DEF TypeOK
<1>6. CASE waitref[o] > 0
    <2>1. waitref' = Set(waitref, o, waitref[o] + 1) /\ Call(t, "wait", o, <<>>, None) BY <1>2, <1>6 DEF GetWaitRef
    <2>2. op'[t] = "wait" /\ obj'[t] = o /\ \A u \in Thread \ {t} : op'[u] = op[u] /\ obj'[u] = obj[u]
        BY <1>1, <2>1, Called
    <2>3. o \in bitmap BY <1>4, <1>5, <1>6
    <2>4. waitref'[o] = waitref[o] + 1 /\ \A q \in Obj \ {o} : waitref'[q] = waitref[q] BY <1>5, <2>1 DEF Set
    <2>5. Users(o)' = Users(o) \cup {t} /\ t \notin Users(o) BY <1>3, <2>2 DEF Users
    <2>6. Counted(o)'
        <3>1. waitref[o] = Cardinality(Users(o)) + (IF state[o] = "INVALID" THEN 0 ELSE 1) BY <2>3, UsersOf
        <3>2. Cardinality(Users(o)') = Cardinality(Users(o)) + 1 /\ Cardinality(Users(o)) \in Nat BY <2>5, UserAdded
        <3>3. waitref'[o] = Cardinality(Users(o)') + (IF state'[o] = "INVALID" THEN 0 ELSE 1) /\ waitref'[o] # 0
            BY <1>3, <2>4, <3>1, <3>2
        <3> QED BY <3>3 DEF Counted
    <2>7. ASSUME NEW u \in Thread, op'[u] \notin Outside, obj'[u] = o PROVE Role(u)'
        <3>1. CASE u = t BY <3>1, <1>3, <2>2, <2>3 DEF Role, Closing
        <3>2. CASE u # t
            <4>1. op'[u] = op[u] /\ obj'[u] = obj[u] /\ obj[u] = o /\ Role(u) BY <3>2, <2>2, <2>7, <1>1 DEF UserInv
            <4>2. op[u] # "merge" BY <4>1, <1>4, CamAssumption DEF Role
            <4>3. ~Closing(u) BY <4>1, <1>6 DEF Role
            <4> QED BY <4>1, <4>2, <4>3, <1>3, <2>3 DEF Role, Closing, Unlocked
        <3> QED BY <3>1, <3>2
    <2> QED BY <1>1, <1>2, <1>3, <1>4, <1>5, <2>2, <2>3, <2>4, <2>6, <2>7, OneRowBy
<1>7. CASE ~(waitref[o] > 0)
    <2>1. UNCHANGED waitref /\ Call(t, "idle", None, <<>>, None) BY <1>2, <1>7 DEF GetWaitRef, Return
    <2>2. op'[t] = "idle" /\ \A u \in Thread \ {t} : op'[u] = op[u] /\ obj'[u] = obj[u] BY <1>1, <2>1, Called
    <2>3. ASSUME NEW u \in Thread, op'[u] \notin Outside, obj'[u] = o PROVE Role(u)'
        <3>1. u # t BY <2>2, <2>3 DEF Outside
        <3>2. SameRole(u) BY <3>1, <2>2 DEF SameRole, Closing
        <3>3. \A v \in Thread : Closing(v)' => Closing(v) /\ obj'[v] = obj[v] BY <2>2 DEF Closing
        <3> QED BY <3>2, <3>3, <1>1, <1>3, <2>1, RoleKept DEF UserInv
    <2>4. o \in bitmap => Counted(o)'
        <3>1. \A u \in Thread : Closing(u) => Closing(u)' /\ obj'[u] = obj[u] BY <1>3, <2>2 DEF Closing
        <3>2. o \in bitmap => Counted(o) BY <1>1, CountedOne DEF UserInv
        <3>3. Users(o)' = Users(o) BY <1>3, <2>2 DEF Users
        <3> QED BY <1>3, <2>1, <3>1, <3>2, <3>3 DEF Counted
    <2>5. op'[t] \in Outside /\ lock'[o] = None BY <2>2, <1>3, <1>4 DEF Outside
    <2>6. o \notin bitmap' => state'[o] = "INVALID" BY <1>1, <1>3 DEF UserInv
    <2> QED BY <1>1, <1>2, <1>3, <1>5, <2>1, <2>2, <2>3, <2>4, <2>5, <2>6, OneRowBy
<1> QED BY <1>6, <1>7

LEMMA DestroyUsers ==
    ASSUME FenceInv, NEW t \in Thread, NEW o \in Obj, Destroy(t, o)
    PROVE  UserInv'
<1>1. TypeInv /\ TypeOK /\ CallInv /\ UserInv BY DEF FenceInv, TypeInv
<1>2. /\ op[t] = "idle" /\ lock[o] = None /\ state[o] # "INVALID" /\ Call(t, "put", o, <<>>, None)
      /\ state' = Set(state, o, "INVALID") /\ UNCHANGED <<bitmap, lock, waitref>>
    BY DEF Destroy, Idle, Unlocked
<1>3. o \in bitmap BY <1>1, <1>2 DEF UserInv
<1>4. op'[t] = "put" /\ obj'[t] = o /\ \A u \in Thread \ {t} : op'[u] = op[u] /\ obj'[u] = obj[u]
    BY <1>1, <1>2, Called
<1>5. state'[o] = "INVALID" /\ \A q \in Obj \ {o} : state'[q] = state[q] BY <1>1, <1>2 DEF Set, TypeOK
<1>6. Users(o)' = Users(o) \cup {t} /\ t \notin Users(o) BY <1>2, <1>4 DEF Users
<1>7. Counted(o)'
    <2>1. waitref[o] = Cardinality(Users(o)) + 1 BY <1>2, <1>3, UsersOf
    <2>2. Cardinality(Users(o)') = Cardinality(Users(o)) + 1 /\ Cardinality(Users(o)) \in Nat BY <1>6, UserAdded
    <2>3. waitref'[o] = Cardinality(Users(o)') /\ waitref'[o] # 0 BY <1>2, <2>1, <2>2
    <2>4. Cardinality(Users(o)') \in Nat BY <2>2
    <2> QED BY <1>5, <2>3, <2>4 DEF Counted
<1>8. ASSUME NEW u \in Thread, op'[u] \notin Outside, obj'[u] = o PROVE Role(u)'
    <2>1. CASE u = t BY <2>1, <1>2, <1>3, <1>4 DEF Role, Closing
    <2>2. CASE u # t
        <3>1. op'[u] = op[u] /\ obj'[u] = obj[u] /\ obj[u] = o /\ Role(u) BY <2>2, <1>4, <1>8, <1>1 DEF UserInv
        <3>2. op[u] # "merge" BY <3>1, <1>2, CamAssumption DEF Role
        <3>3. ~Closing(u) BY <3>1, <1>2, <1>3, UsersOf
        <3> QED BY <3>1, <3>2, <3>3, <1>2, <1>3 DEF Role, Closing, Unlocked
    <2> QED BY <2>1, <2>2
<1>9. lock'[o] = None /\ bitmap' \subseteq Obj BY <1>1, <1>2 DEF TypeOK
<1>10. op[t] \in Outside BY <1>2 DEF Outside
<1> QED BY <1>1, <1>2, <1>3, <1>4, <1>5, <1>7, <1>8, <1>9, <1>10, OneRowBy

LEMMA PutWaitRefUsers ==
    ASSUME FenceInv, NEW t \in Thread, PutWaitRef(t)
    PROVE  UserInv'
<1>1. TypeInv /\ TypeOK /\ CallInv /\ UserInv BY DEF FenceInv, TypeInv
<1>2. PICK o \in Obj : o = obj[t] BY DEF PutWaitRef, FenceInv, CallInv
<1>3. /\ op[t] = "put" /\ UNCHANGED <<bitmap, state, lock>> /\ waitref' = Set(waitref, o, waitref[o] - 1)
      /\ IF waitref[o] = 1 THEN Call(t, "deinit", o, <<>>, None) ELSE Call(t, "idle", None, <<>>, None)
    BY <1>2 DEF PutWaitRef, Return
<1>4. o \in bitmap /\ waitref[o] >= 1 /\ waitref[o] \in Nat BY <1>2, <1>3, UserCounted
<1>5. waitref \in [Obj -> Nat] /\ bitmap \subseteq Obj BY <1>1 DEF TypeOK
<1>6. waitref'[o] = waitref[o] - 1 /\ \A q \in Obj \ {o} : waitref'[q] = waitref[q] BY <1>3, <1>5 DEF Set
<1>7. /\ op'[t] = (IF waitref[o] = 1 THEN "deinit" ELSE "idle") /\ (waitref[o] = 1 => obj'[t] = o)
      /\ \A u \in Thread \ {t} : op'[u] = op[u] /\ obj'[u] = obj[u]
    BY <1>1, <1>3, Called
<1>8. Users(o)' = Users(o) \ {t} /\ t \in Users(o) BY <1>2, <1>3, <1>7 DEF Users
<1>9. ASSUME NEW u \in Thread, Closing(u) PROVE obj[u] # o
    BY <1>1, <1>4, <1>9 DEF UserInv, Role
<1>10. Counted(o)'
    <2>1. waitref[o] = Cardinality(Users(o)) + (IF state[o] = "INVALID" THEN 0 ELSE 1) BY <1>4, UsersOf
    <2>2. Cardinality(Users(o)') = Cardinality(Users(o)) - 1 /\ Cardinality(Users(o)) \in Nat BY <1>8, UserLeft
    <2>3. waitref'[o] = Cardinality(Users(o)') + (IF state'[o] = "INVALID" THEN 0 ELSE 1)
        BY <1>3, <1>6, <2>1, <2>2
    <2>4. waitref'[o] = 0 => Closing(t)' /\ obj'[t] = o BY <1>4, <1>6, <1>7 DEF Closing
    <2> QED BY <2>3, <2>4 DEF Counted
<1>11. ASSUME NEW u \in Thread, op'[u] \notin Outside, obj'[u] = o PROVE Role(u)'
    <2>1. CASE u = t
        <3>1. waitref[o] = 1 /\ op'[t] = "deinit" BY <2>1, <1>7, <1>11 DEF Outside
        <3>2. waitref'[o] = 0 BY <3>1, <1>6
        <3>3. \A v \in Thread : Closing(v)' /\ obj'[v] = o => v = t BY <1>7, <1>9 DEF Closing
        <3> QED BY <2>1, <3>1, <3>2, <3>3, <1>3, <1>4, <1>7 DEF Role, Closing
    <2>2. CASE u # t
        <3>1. op'[u] = op[u] /\ obj'[u] = obj[u] /\ obj[u] = o /\ Role(u) BY <2>2, <1>7, <1>11, <1>1 DEF UserInv
        <3>2. ~Closing(u) BY <3>1, <1>9
        <3>3. op[u] # "merge" BY <3>1, <2>2, <1>2, <1>3, MergeAlone DEF Outside
        <3> QED BY <3>1, <3>2, <3>3, <1>3, <1>4 DEF Role, Closing, Unlocked
    <2> QED BY <2>1, <2>2
<1>12. lock'[o] # None => op'[lock'[o]] = "merge" /\ obj'[lock'[o]] = o
    <2> SUFFICES ASSUME lock[o] # None PROVE op'[lock[o]] = "merge" /\ obj'[lock[o]] = o BY <1>3
    <2>1. lock[o] \in Thread /\ op[lock[o]] = "merge" /\ obj[lock[o]] = o BY <1>1 DEF UserInv, TypeOK
    <2> QED BY <2>1, <1>3, <1>7
<1>13. op'[t] \in Outside \/ obj'[t] = o BY <1>7 DEF Outside
<1> QED BY <1>1, <1>2, <1>3, <1>4, <1>5, <1>6, <1>7, <1>10, <1>11, <1>12, <1>13, OneRowBy

LEMMA DeinitEndsUsers ==
    ASSUME FenceInv, NEW t \in Thread, DeinitEnds(t)
    PROVE  UserInv'
<1>1. TypeInv /\ TypeOK /\ CallInv /\ UserInv BY DEF FenceInv, TypeInv
<1>2. PICK o \in Obj : o = obj[t] BY DEF DeinitEnds, FenceInv, CallInv
<1>3. /\ op[t] = "unlink" /\ Unlocked(o) /\ Call(t, "idle", None, <<>>, None) /\ bitmap' = bitmap \ {o}
      /\ state' = Set(state, o, "INVALID") /\ waitref' = Set(waitref, o, 0) /\ UNCHANGED lock
    BY <1>2 DEF DeinitEnds, Return
<1>4. op'[t] = "idle" /\ \A u \in Thread \ {t} : op'[u] = op[u] /\ obj'[u] = obj[u] BY <1>1, <1>3, Called
<1>5. Closing(t) /\ o \in bitmap /\ waitref[o] = 0 BY <1>1, <1>2, <1>3 DEF UserInv, Role, Closing
<1>6. state'[o] = "INVALID" /\ waitref'[o] = 0 /\ \A q \in Obj \ {o} : state'[q] = state[q] /\ waitref'[q] = waitref[q]
    BY <1>1, <1>3 DEF Set, TypeOK
<1>7. Users(o) = {}
    <2>1. IsFiniteSet(Users(o)) BY CamAssumption, FS_Subset DEF Users
    <2>2. Cardinality(Users(o)) = 0 BY <1>5, UsersOf
    <2> QED BY <2>1, <2>2, FS_EmptySet
<1>8. ASSUME NEW u \in Thread, op'[u] \notin Outside, obj'[u] = o PROVE Role(u)'
    <2>1. u # t BY <1>4, <1>8 DEF Outside
    <2>2. op'[u] = op[u] /\ obj'[u] = obj[u] /\ obj[u] = o /\ Role(u) BY <2>1, <1>4, <1>8, <1>1 DEF UserInv
    <2>3. op[u] \notin {"wait", "put"} BY <2>2, <1>7 DEF Users
    <2>4. op[u] # "merge" BY <2>2, <1>5 DEF Role
    <2>5. ~Closing(u) BY <1>1, <1>2, <1>5, <2>1, <2>2 DEF UserInv, Role
    <2> QED BY <2>2, <2>3, <2>4, <2>5, <1>3, <1>6 DEF Role, Closing, Unlocked
<1>9. lock'[o] = None /\ bitmap' \subseteq Obj /\ o \notin bitmap' BY <1>1, <1>3 DEF Unlocked, TypeOK
<1>10. op'[t] \in Outside BY <1>4 DEF Outside
<1> QED BY <1>1, <1>2, <1>3, <1>4, <1>6, <1>8, <1>9, <1>10, OneRowBy

LEMMA UserStep == ASSUME FenceInv, ~Reuse, [Next]_vars PROVE UserInv'
BY QuietUsers, CreateUsers, MergeBeginsUsers, MergeStopsUsers, WaitUsers, GetWaitRefUsers, DestroyUsers,
   PutWaitRefUsers, DeinitEndsUsers
   DEF Next, Continue

-----------------------------------------------------------------------------
(***************************************************************************)
(* Links.                                                                  *)
(***************************************************************************)
LEMMA UnlinkingOf == \A g, o : o \in Unlinking(g) <=>
                         \E t \in Thread : op[t] = "unlink" /\ obj[t] = g /\ o \in Range(ids[t])
BY DEF Unlinking

\* Nothing is linked; a row may become invalid, and calls that work through a
\* list get on with it.
LEMMA LinkKept ==
    ASSUME FenceInv, UNCHANGED <<bitmap, group, parents, children>>,
           \A o \in Obj : state'[o] \in {state[o], "INVALID"} \/ parents[o] = <<>>,
           \A t \in Thread :
               /\ op'[t] \in {"unlink", "signal", "merge"} =>
                      op'[t] = op[t] /\ obj'[t] = obj[t] /\ Range(ids'[t]) \subseteq Range(ids[t])
               /\ op[t] = "unlink" => op'[t] = "unlink" /\ obj'[t] = obj[t] /\ ids'[t] = ids[t]
    PROVE  LinkInv'
<1>1. \A g, o : o \in Unlinking(g)' <=> o \in Unlinking(g)
    <2>1. \A g, o : o \in Unlinking(g)' <=>
              \E t \in Thread : op'[t] = "unlink" /\ obj'[t] = g /\ o \in Range(ids'[t])
        BY DEF Unlinking
    <2> QED BY <2>1, UnlinkingOf
<1>2. ASSUME NEW o \in Obj PROVE LinkRow(o)'
    <2>1. LinkRow(o) BY DEF FenceInv, LinkInv
    <2>2. CASE parents[o] = <<>>
        <3>1. Range(parents[o]) = {} BY <2>2, EmptyList
        <3> QED BY <2>1, <2>2, <3>1 DEF LinkRow
    <2>3. CASE state'[o] \in {state[o], "INVALID"} BY <2>1, <2>3, <1>1 DEF LinkRow
    <2> QED BY <2>2, <2>3
<1>3. ASSUME NEW t \in Thread PROVE LinkCall(t)'
    <2>1. LinkCall(t) BY DEF FenceInv, LinkInv
    <2> QED BY <2>1 DEF LinkCall
<1> QED BY <1>2, <1>3 DEF LinkInv

LEMMA QuietLinks ==
    ASSUME FenceInv,
           \/ \E o \in Obj : \/ GetRef(o) \/ PutRef(o) \/ RegisterCallback(o) \/ Deregister(o)
                             \/ RegisterPayload(o) \/ SignalShared(o)
           \/ UNCHANGED vars
           \/ \E t \in Thread : \/ \E o \in Obj : Wait(t, o) \/ Destroy(t, o)
                                \/ \E l \in Lists : MergeChecks(t, l)
                                \/ SignalParent(t) \/ MergeFull(t) \/ MergeEnds(t) \/ GetWaitRef(t)
                                \/ WaitEnds(t) \/ PutWaitRef(t)
    PROVE  LinkInv'
<1>1. TypeInv /\ TypeOK /\ CallInv /\ UserInv /\ LinkInv BY DEF FenceInv, TypeInv
<1>2. ASSUME UNCHANGED <<bitmap, group, parents, children, state, calls>> PROVE LinkInv'
    BY <1>2, LinkKept DEF calls
<1>3. ASSUME NEW t \in Thread, NEW p, p \notin {"unlink", "signal", "merge"}, NEW o, NEW l, NEW v, Call(t, p, o, l, v),
             op[t] # "unlink", UNCHANGED <<bitmap, group, parents, children>>,
             \A q \in Obj : state'[q] \in {state[q], "INVALID"} \/ parents[q] = <<>>
      PROVE  LinkInv'
    <2>1. /\ op'[t] = p
          /\ \A u \in Thread \ {t} : op'[u] = op[u] /\ obj'[u] = obj[u] /\ ids'[u] = ids[u]
        BY <1>1, <1>3, Called
    <2>2. \A u \in Thread :
              /\ op'[u] \in {"unlink", "signal", "merge"} =>
                     op'[u] = op[u] /\ obj'[u] = obj[u] /\ Range(ids'[u]) \subseteq Range(ids[u])
              /\ op[u] = "unlink" => op'[u] = "unlink" /\ obj'[u] = obj[u] /\ ids'[u] = ids[u]
        BY <1>3, <2>1
    <2> QED BY <1>3, <2>2, LinkKept
<1>4. ASSUME NEW o \in Obj, \/ GetRef(o) \/ PutRef(o) \/ RegisterCallback(o) \/ Deregister(o)
                            \/ RegisterPayload(o) \/ SignalShared(o)
      PROVE  LinkInv'
    BY <1>2, <1>4 DEF GetRef, PutRef, RegisterCallback, Deregister, RegisterPayload, SignalShared
<1>5. CASE UNCHANGED vars BY <1>2, <1>5 DEF vars, rows
<1>6. ASSUME NEW t \in Thread, NEW o \in Obj, Wait(t, o) PROVE LinkInv'
    <2>1. op[t] = "idle" /\ Call(t, "get", o, <<>>, None) /\ UNCHANGED <<bitmap, group, parents, children, state>>
        BY <1>6 DEF Wait, Idle, rows
    <2> QED BY <2>1, <1>3
<1>7. ASSUME NEW t \in Thread, NEW o \in Obj, Destroy(t, o) PROVE LinkInv'
    <2>1. /\ op[t] = "idle" /\ Call(t, "put", o, <<>>, None) /\ UNCHANGED <<bitmap, group, parents, children>>
          /\ state' = Set(state, o, "INVALID")
        BY <1>7 DEF Destroy, Idle
    <2>2. \A q \in Obj : state'[q] \in {state[q], "INVALID"} BY <1>1, <2>1 DEF Set, TypeOK
    <2> QED BY <2>1, <2>2, <1>3
<1>8. ASSUME NEW t \in Thread, NEW l \in Lists, MergeChecks(t, l) PROVE LinkInv'
    <2>1. op[t] = "idle" /\ Call(t, "checked", None, l, None) /\ UNCHANGED <<bitmap, group, parents, children, state>>
        BY <1>8 DEF MergeChecks, Idle, rows
    <2> QED BY <2>1, <1>3
<1>9. ASSUME NEW t \in Thread, MergeFull(t) \/ WaitEnds(t) PROVE LinkInv'
    <2>1. /\ op[t] \in {"checked", "wait"} /\ UNCHANGED <<bitmap, group, parents, children, state>>
          /\ Call(t, "idle", None, <<>>, None) \/ Call(t, "put", obj[t], <<>>, None)
        BY <1>9 DEF MergeFull, WaitEnds, Return, rows
    <2> QED BY <2>1, <1>3
<1>10. ASSUME NEW t \in Thread, GetWaitRef(t) \/ PutWaitRef(t) PROVE LinkInv'
    <2>1. /\ op[t] \in {"get", "put"} /\ UNCHANGED <<bitmap, group, parents, children, state>>
          /\ \/ Call(t, "idle", None, <<>>, None) \/ Call(t, "wait", obj[t], <<>>, None)
             \/ Call(t, "deinit", obj[t], <<>>, None)
        BY <1>10 DEF GetWaitRef, PutWaitRef, Return
    <2> QED BY <2>1, <1>3
<1>11. ASSUME NEW t \in Thread, MergeEnds(t) PROVE LinkInv'
    <2>1. PICK g \in Obj : g = obj[t] BY <1>1, <1>11 DEF MergeEnds, CallInv
    <2>2. /\ op[t] = "merge" /\ Call(t, "idle", None, <<>>, None) /\ UNCHANGED <<bitmap, group, parents, children>>
          /\ state' \in {state, Set(state, g, Success)}
        BY <1>11, <2>1 DEF MergeEnds, Return
    <2>3. group[g] /\ parents[g] = <<>> BY <1>1, <2>1, <2>2 DEF LinkInv, LinkCall, LinkRow
    <2>4. \A q \in Obj : state'[q] \in {state[q], "INVALID"} \/ parents[q] = <<>> BY <1>1, <2>2, <2>3 DEF Set, TypeOK
    <2> QED BY <2>2, <2>4, <1>3
<1>12. ASSUME NEW t \in Thread, SignalParent(t) PROVE LinkInv'
    <2>1. op[t] = "signal" /\ ids[t] \in Seq(Obj) /\ ids[t] # <<>>
        BY <1>1, <1>12 DEF SignalParent, CallInv, TypeOK
    <2>2. PICK p \in Obj : p = Head(ids[t]) /\ p \in Range(ids[t]) /\ Range(Tail(ids[t])) \subseteq Range(ids[t])
        BY <2>1, TailOfList
    <2>3. /\ UNCHANGED <<bitmap, group, parents, children>> /\ UpdateParentState(p, val[t])
          /\ \/ Call(t, "idle", None, <<>>, None) \/ Call(t, "signal", obj[t], Tail(ids[t]), val[t])
        BY <1>12, <2>2 DEF SignalParent, Return
    <2>4. parents[p] = <<>> \/ state[p] = "INVALID"
        BY <1>1, <2>1, <2>2 DEF LinkInv, LinkCall, LinkRow, UserInv
    <2>5. \A q \in Obj : state'[q] \in {state[q], "INVALID"} \/ parents[q] = <<>>
        BY <1>1, <2>3, <2>4 DEF UpdateParentState, Set, TypeOK, Success
    <2>6. CASE Call(t, "idle", None, <<>>, None) BY <2>1, <2>3, <2>5, <2>6, <1>3
    <2>7. CASE Call(t, "signal", obj[t], Tail(ids[t]), val[t])
        <3>1. /\ op'[t] = "signal" /\ obj'[t] = obj[t] /\ ids'[t] = Tail(ids[t])
              /\ \A u \in Thread \ {t} : op'[u] = op[u] /\ obj'[u] = obj[u] /\ ids'[u] = ids[u]
            BY <1>1, <2>7, Called
        <3> QED BY <2>1, <2>2, <2>3, <2>5, <3>1, LinkKept
    <2> QED BY <2>3, <2>6, <2>7
<1> QED BY <1>4, <1>5, <1>6, <1>7, <1>8, <1>9, <1>10, <1>11, <1>12

LEMMA UnlinkingThen == \A g, o : o \in Unlinking(g)' <=>
                           \E t \in Thread : op'[t] = "unlink" /\ obj'[t] = g /\ o \in Range(ids'[t])
BY DEF Unlinking

\* Who takes a row down finds it invalid, and is alone.
LEMMA ClosingRow ==
    ASSUME FenceInv, NEW t \in Thread, Closing(t)
    PROVE  /\ obj[t] \in bitmap /\ obj[t] \in Obj /\ state[obj[t]] = "INVALID" /\ waitref[obj[t]] = 0
           /\ \A u \in Thread \ {t} : Closing(u) => obj[u] # obj[t]
           /\ \A u \in Thread : op[u] = "merge" => obj[u] # obj[t]
<1>1. obj[t] \in bitmap /\ waitref[obj[t]] = 0 /\ \A u \in Thread \ {t} : Closing(u) => obj[u] # obj[t]
    BY DEF FenceInv, UserInv, Role
<1>2. obj[t] \in Obj BY <1>1 DEF FenceInv, TypeInv, TypeOK
<1>3. state[obj[t]] = "INVALID" BY <1>1, UsersOf
<1>4. \A u \in Thread : op[u] = "merge" => obj[u] # obj[t] BY <1>1 DEF FenceInv, UserInv, Role
<1> QED BY <1>1, <1>2, <1>3, <1>4

\* A new row is linked to nothing, and nothing knows its index.
LEMMA NewRowLinks ==
    ASSUME FenceInv, ~Reuse, NEW o \in Obj, NEW b \in BOOLEAN, Free(o), InitRow(o, b),
           \A t \in Thread : \/ op'[t] = op[t] /\ obj'[t] = obj[t] /\ ids'[t] = ids[t]
                             \/ op[t] = "checked" /\ op'[t] = "merge" /\ obj'[t] = o /\ ids'[t] = ids[t] /\ b
    PROVE  LinkInv'
<1>1. TypeInv /\ TypeOK /\ LinkInv BY DEF FenceInv, TypeInv
<1>2. /\ o \notin bitmap /\ \A t \in Thread : (op[t] \notin Outside => obj[t] # o) /\ o \notin Range(ids[t])
    BY FreeRow
<1>3. /\ bitmap' = bitmap \cup {o} /\ parents'[o] = <<>> /\ children'[o] = <<>> /\ group'[o] = b
      /\ \A q \in Obj \ {o} : /\ parents'[q] = parents[q] /\ children'[q] = children[q]
                              /\ state'[q] = state[q] /\ group'[q] = group[q]
    BY <1>1 DEF InitRow, Set, TypeOK
<1>4. \A g, q : q \in Unlinking(g) => q \in Unlinking(g)' BY UnlinkingOf, UnlinkingThen
<1>5. Range(<<>>) = {} BY EmptyList
<1>6. ASSUME NEW q \in Obj PROVE LinkRow(q)'
    <2>1. CASE q = o BY <2>1, <1>3, <1>5 DEF LinkRow
    <2>2. CASE q # o
        <3>1. LinkRow(q) BY <1>1 DEF LinkInv
        <3>2. \A g \in bitmap : g \in Obj \ {o} BY <1>1, <1>2 DEF TypeOK
        <3> QED BY <2>2, <3>1, <3>2, <1>3, <1>4 DEF LinkRow
    <2> QED BY <2>1, <2>2
<1>7. ASSUME NEW t \in Thread PROVE LinkCall(t)'
    <2>1. LinkCall(t) /\ (op[t] \in {"unlink", "merge"} => obj[t] \in Obj \ {o})
        BY <1>1, <1>2 DEF LinkInv, Outside, FenceInv, CallInv
    <2>2. CASE op'[t] = op[t] /\ obj'[t] = obj[t] /\ ids'[t] = ids[t]
        <3>1. op[t] = "signal" => \A p \in Range(ids[t]) \cap bitmap' : group'[p]
            <4>1. \A p \in Range(ids[t]) \cap bitmap' : p \in Range(ids[t]) \cap bitmap /\ p \in Obj \ {o}
                BY <1>1, <1>2, <1>3 DEF TypeOK
            <4> QED BY <4>1, <2>1, <1>3 DEF LinkCall
        <3> QED BY <2>1, <2>2, <3>1, <1>3 DEF LinkCall
    <2>3. CASE op[t] = "checked" /\ op'[t] = "merge" /\ obj'[t] = o /\ ids'[t] = ids[t] /\ b
        BY <2>3, <1>3, <1>5 DEF LinkCall
    <2> QED BY <2>2, <2>3
<1> QED BY <1>6, <1>7 DEF LinkInv

LEMMA NewLinks ==
    ASSUME FenceInv, ~Reuse, NEW o \in Obj, Create(o) \/ \E t \in Thread : MergeBegins(t, o)
    PROVE  LinkInv'
<1>1. TypeOK /\ CallInv BY DEF FenceInv, TypeInv
<1>2. CASE Create(o) BY <1>2, NewRowLinks DEF Create, calls
<1>3. ASSUME NEW t \in Thread, MergeBegins(t, o) PROVE LinkInv'
    <2>1. Free(o) /\ InitRow(o, TRUE) /\ op[t] = "checked" /\ Call(t, "merge", o, ids[t], None) BY <1>3 DEF MergeBegins
    <2>2. /\ op'[t] = "merge" /\ obj'[t] = o /\ ids'[t] = ids[t]
          /\ \A u \in Thread \ {t} : op'[u] = op[u] /\ obj'[u] = obj[u] /\ ids'[u] = ids[u]
        BY <1>1, <2>1, Called
    <2>3. \A u \in Thread : \/ op'[u] = op[u] /\ obj'[u] = obj[u] /\ ids'[u] = ids[u]
                            \/ op[u] = "checked" /\ op'[u] = "merge" /\ obj'[u] = o /\ ids'[u] = ids[u] /\ TRUE
        BY <2>1, <2>2
    <2> QED BY <2>1, <2>3, NewRowLinks
<1> QED BY <1>2, <1>3

\* The parents that were copied are groups; the object names none any more.
LEMMA SignalLinks ==
    ASSUME FenceInv, NEW t \in Thread, NEW o \in Obj, NEW s \in Status, Signal(t, o, s)
    PROVE  LinkInv'
<1>1. TypeOK /\ CallInv /\ LinkInv BY DEF FenceInv, TypeInv
<1>2. /\ op[t] = "idle" /\ state[o] = "ACTIVE" /\ state' = Set(state, o, s) /\ parents' = Set(parents, o, <<>>)
      /\ UNCHANGED <<bitmap, group, children>> /\ (UNCHANGED calls \/ Call(t, "signal", o, parents[o], s))
    BY DEF Signal, Idle
<1>3. /\ parents'[o] = <<>>
      /\ \A q \in Obj \ {o} : parents'[q] = parents[q] /\ state'[q] = state[q]
    BY <1>1, <1>2 DEF Set, TypeOK
<1>4. /\ \A u \in Thread \ {t} : op'[u] = op[u] /\ obj'[u] = obj[u] /\ ids'[u] = ids[u]
      /\ op'[t] = "idle" \/ (op'[t] = "signal" /\ ids'[t] = parents[o])
    BY <1>1, <1>2, Called DEF calls
<1>5. \A g, q : q \in Unlinking(g) => q \in Unlinking(g)' BY <1>2, <1>4, UnlinkingOf, UnlinkingThen
<1>6. Range(<<>>) = {} BY EmptyList
<1>7. ASSUME NEW q \in Obj PROVE LinkRow(q)'
    <2>1. LinkRow(q) BY <1>1 DEF LinkInv
    <2>2. CASE q = o BY <2>1, <2>2, <1>2, <1>3, <1>6 DEF LinkRow
    <2>3. CASE q # o BY <2>1, <2>3, <1>2, <1>3, <1>5 DEF LinkRow
    <2> QED BY <2>2, <2>3
<1>8. ASSUME NEW u \in Thread PROVE LinkCall(u)'
    <2>1. CASE u = t
        <3>1. \A p \in Range(parents[o]) : group[p] BY <1>1, <1>2 DEF LinkInv, LinkRow
        <3> QED BY <2>1, <3>1, <1>2, <1>4 DEF LinkCall
    <2>2. CASE u # t
        <3>1. LinkCall(u) /\ (op[u] = "unlink" => obj[u] \in Obj) BY <1>1 DEF LinkInv, CallInv
        <3> QED BY <2>2, <3>1, <1>2, <1>3, <1>4 DEF LinkCall
    <2> QED BY <2>1, <2>2
<1> QED BY <1>7, <1>8 DEF LinkInv

\* The child and the group name each other.
LEMMA MergeLinksLinks ==
    ASSUME FenceInv, NEW t \in Thread, MergeLinks(t)
    PROVE  LinkInv'
<1>1. TypeInv /\ TypeOK /\ CallInv /\ UserInv /\ LinkInv BY DEF FenceInv, TypeInv
<1>2. PICK g \in Obj : g = obj[t] BY <1>1 DEF MergeLinks, CallInv
<1>3. op[t] = "merge" /\ ids[t] # <<>> BY DEF MergeLinks
<1>4. /\ Head(ids[t]) \in Obj /\ ids[t] \in Seq(Obj) /\ IsInjective(ids[t])
      /\ Head(ids[t]) \notin Range(children[g]) /\ g \in bitmap /\ group[g] /\ state[g] # "INVALID"
    BY <1>2, <1>3, Merging
<1>5. PICK c \in Obj : c = Head(ids[t]) BY <1>4
<1>6. /\ ~group[c] /\ state[c] # "INVALID" /\ Call(t, "merge", g, Tail(ids[t]), None) /\ UNCHANGED <<bitmap, group>>
    BY <1>2, <1>5 DEF MergeLinks
<1>7. /\ op'[t] = "merge" /\ obj'[t] = g /\ ids'[t] = Tail(ids[t])
      /\ \A u \in Thread \ {t} : op'[u] = op[u] /\ obj'[u] = obj[u] /\ ids'[u] = ids[u]
    BY <1>1, <1>6, Called
<1>8. Range(Tail(ids[t])) \subseteq Range(ids[t]) /\ c \notin Range(Tail(ids[t])) BY <1>3, <1>4, <1>5, TailOfList
<1>9. CASE state[c] = "ACTIVE"
    <2>1. /\ children' = Set(children, g, Append(children[g], c)) /\ parents' = Set(parents, c, Append(parents[c], g))
          /\ UNCHANGED state
        BY <1>2, <1>5, <1>9 DEF MergeLinks
    <2>2. g \notin Range(parents[c]) BY <1>2, <1>3, <1>4, <1>5, <1>6, NotLinked
    <2>3. /\ Range(Append(children[g], c)) = Range(children[g]) \cup {c}
          /\ Range(Append(parents[c], g)) = Range(parents[c]) \cup {g}
        BY <1>1, <1>4, <1>5, <2>2, AppendToList DEF TypeInv, TypeOK
    <2>4. /\ Range(children'[g]) = Range(children[g]) \cup {c} /\ Range(parents'[c]) = Range(parents[c]) \cup {g}
          /\ \A q \in Obj \ {g} : children'[q] = children[q]
          /\ \A q \in Obj \ {c} : parents'[q] = parents[q]
        BY <1>1, <2>1, <2>3 DEF Set, TypeOK
    <2>5. \A h, q : q \in Unlinking(h) => q \in Unlinking(h)' BY <1>3, <1>7, UnlinkingOf, UnlinkingThen
    <2>6. c \in bitmap BY <1>1, <1>6 DEF UserInv
    <2>7. ASSUME NEW q \in Obj PROVE LinkRow(q)'
        <3>1. LinkRow(q) BY <1>1 DEF LinkInv
        <3>2. \A h \in Obj : Range(children[h]) \subseteq Range(children'[h]) BY <2>4
        <3>3. bitmap \subseteq Obj BY <1>1 DEF TypeOK
        <3>4. children'[q] # <<>> => q \in bitmap /\ group[q]
            <4>1. CASE q = g BY <4>1, <1>4
            <4>2. CASE q # g BY <4>2, <3>1, <2>4 DEF LinkRow
            <4> QED BY <4>1, <4>2
        <3>5. CASE q = c
            <4>1. \A h \in Range(parents'[q]) : h \in bitmap /\ group[h] /\ q \in Range(children'[h]) \cup Unlinking(h)'
                BY <3>1, <3>2, <3>3, <3>5, <2>4, <2>5, <1>4, <1>6 DEF LinkRow
            <4> QED BY <4>1, <3>4, <3>5, <2>1, <2>6, <1>6, <1>9 DEF LinkRow
        <3>6. CASE q # c
            <4>1. state[q] # "INVALID" =>
                      \A h \in Range(parents'[q]) : h \in bitmap /\ group[h] /\ q \in Range(children'[h]) \cup Unlinking(h)'
                BY <3>1, <3>2, <3>3, <3>6, <2>4, <2>5 DEF LinkRow
            <4> QED BY <4>1, <3>1, <3>4, <3>6, <2>1, <2>4, <1>6 DEF LinkRow
        <3> QED BY <3>5, <3>6
    <2>8. ASSUME NEW u \in Thread PROVE LinkCall(u)'
        <3>1. LinkCall(u) BY <1>1 DEF LinkInv
        <3>2. CASE u = t BY <3>1, <3>2, <1>2, <1>4, <1>6, <1>7, <1>8, <1>3, <2>4 DEF LinkCall
        <3>3. CASE u # t
            <4>1. op[u] \in {"unlink", "merge"} => obj[u] \in Obj \ {g}
                BY <3>3, <1>1, <1>2, <1>3, MergeAlone DEF CallInv, Outside
            <4>2. op[u] = "unlink" => obj[u] # c BY <1>6, ClosingRow DEF Closing
            <4> QED BY <3>1, <3>3, <4>1, <4>2, <1>6, <1>7, <2>4 DEF LinkCall
        <3> QED BY <3>2, <3>3
    <2> QED BY <2>7, <2>8 DEF LinkInv
<1>10. CASE state[c] # "ACTIVE"
    <2>1. UNCHANGED <<parents, children>> /\ state' \in {state, Set(state, g, state[c])}
        BY <1>2, <1>5, <1>10 DEF MergeLinks
    <2>2. parents[g] = <<>> BY <1>1, <1>4 DEF LinkInv, LinkRow
    <2>3. \A q \in Obj : state'[q] \in {state[q], "INVALID"} \/ parents[q] = <<>> BY <1>1, <2>1, <2>2 DEF Set, TypeOK
    <2> QED BY <1>2, <1>3, <1>6, <1>7, <1>8, <2>1, <2>3, LinkKept
<1> QED BY <1>9, <1>10

\* No live object keeps the name of a group whose merge failed.
LEMMA MergeFailsLinks ==
    ASSUME FenceInv, NEW t \in Thread, MergeFails(t)
    PROVE  LinkInv'
<1>1. TypeInv /\ TypeOK /\ CallInv /\ UserInv /\ LinkInv BY DEF FenceInv, TypeInv
<1>2. PICK g \in Obj : g = obj[t] BY <1>1 DEF MergeFails, CallInv
<1>3. /\ op[t] = "merge" /\ Call(t, "idle", None, <<>>, None) /\ bitmap' = bitmap \ {g} /\ UNCHANGED group
      /\ state' = Set(state, g, "INVALID") /\ children' = Set(children, g, <<>>)
      /\ parents' = [o \in Obj |-> IF o \in Range(children[g]) THEN CleanOne(parents[o], g) ELSE parents[o]]
    BY <1>2 DEF MergeFails, Return
<1>4. group[g] /\ parents[g] = <<>> BY <1>1, <1>2, <1>3, Merging DEF LinkInv, LinkRow
<1>5. /\ op'[t] = "idle"
      /\ \A u \in Thread \ {t} : op'[u] = op[u] /\ obj'[u] = obj[u] /\ ids'[u] = ids[u]
    BY <1>1, <1>3, Called
<1>6. state'[g] = "INVALID" /\ children'[g] = <<>>
      /\ \A q \in Obj \ {g} : state'[q] = state[q] /\ children'[q] = children[q]
    BY <1>1, <1>3 DEF Set, TypeOK
<1>7. \A q \in Obj : parents'[q] \in Seq(Obj) /\ Range(parents'[q]) \subseteq Range(parents[q])
    <2> TAKE q \in Obj
    <2>1. parents[q] \in Seq(Obj) /\ IsInjective(parents[q]) BY <1>1 DEF TypeInv, TypeOK
    <2> QED BY <1>3, <2>1, CleanOneList
<1>8. \A q \in Obj : parents[q] = <<>> => parents'[q] = <<>>
    <2> SUFFICES ASSUME NEW q \in Obj, parents[q] = <<>> PROVE parents'[q] = <<>> OBVIOUS
    <2>1. Range(parents'[q]) = {} BY <1>7, EmptyList
    <2> QED BY <1>7, <2>1, EmptyList
<1>9. \A q \in Obj : state[q] # "INVALID" => g \notin Range(parents'[q])
    <2> SUFFICES ASSUME NEW q \in Obj, state[q] # "INVALID" PROVE g \notin Range(parents'[q]) OBVIOUS
    <2>1. CASE q \in Range(children[g])
        <3>1. parents[q] \in Seq(Obj) /\ IsInjective(parents[q]) BY <1>1 DEF TypeInv, TypeOK
        <3> QED BY <2>1, <3>1, <1>3, CleanOneList
    <2>2. CASE q \notin Range(children[g]) BY <2>2, <1>2, <1>3, <1>7, NotLinked
    <2> QED BY <2>1, <2>2
<1>10. \A h, q : q \in Unlinking(h) => q \in Unlinking(h)' BY <1>3, <1>5, UnlinkingOf, UnlinkingThen
<1>11. ASSUME NEW q \in Obj PROVE LinkRow(q)'
    <2>1. LinkRow(q) BY <1>1 DEF LinkInv
    <2>2. CASE q = g BY <2>2, <1>4, <1>6, <1>8 DEF LinkRow
    <2>3. CASE q # g
        <3>1. ASSUME state[q] # "INVALID", NEW h \in Range(parents'[q])
              PROVE  h \in bitmap' /\ group[h] /\ q \in Range(children'[h]) \cup Unlinking(h)'
            <4>1. h \in Range(parents[q]) /\ h # g BY <3>1, <1>7, <1>9
            <4>2. h \in bitmap /\ h \in Obj BY <3>1, <4>1, <2>1, <1>1 DEF LinkRow, TypeOK
            <4> QED BY <3>1, <4>1, <4>2, <2>1, <1>3, <1>6, <1>10 DEF LinkRow
        <3> QED BY <2>1, <2>3, <3>1, <1>3, <1>6, <1>8 DEF LinkRow
    <2> QED BY <2>2, <2>3
<1>12. ASSUME NEW u \in Thread PROVE LinkCall(u)'
    <2>1. CASE u = t BY <2>1, <1>5 DEF LinkCall
    <2>2. CASE u # t
        <3>1. LinkCall(u) BY <1>1 DEF LinkInv
        <3>2. op[u] \in {"unlink", "merge"} => obj[u] \in Obj \ {g}
            BY <2>2, <1>1, <1>2, <1>3, MergeAlone DEF CallInv, Outside
        <3> QED BY <2>2, <3>1, <3>2, <1>3, <1>5, <1>6, <1>8 DEF LinkCall
    <2> QED BY <2>1, <2>2
<1> QED BY <1>11, <1>12 DEF LinkInv

\* The children of a group are still found on the copied list.
LEMMA DeinitBeginsLinks ==
    ASSUME FenceInv, NEW t \in Thread, DeinitBegins(t)
    PROVE  LinkInv'
<1>1. TypeInv /\ TypeOK /\ CallInv /\ UserInv /\ LinkInv BY DEF FenceInv, TypeInv
<1>2. PICK o \in Obj : o = obj[t] BY <1>1 DEF DeinitBegins, CallInv
<1>3. /\ op[t] = "deinit" /\ children' = Set(children, o, <<>>) /\ parents' = Set(parents, o, <<>>)
      /\ Call(t, "unlink", o, children[o] \o parents[o], None) /\ UNCHANGED <<bitmap, state, group>>
    BY <1>2 DEF DeinitBegins
<1>4. /\ op'[t] = "unlink" /\ obj'[t] = o /\ ids'[t] = children[o] \o parents[o]
      /\ \A u \in Thread \ {t} : op'[u] = op[u] /\ obj'[u] = obj[u] /\ ids'[u] = ids[u]
    BY <1>1, <1>3, Called
<1>5. /\ children'[o] = <<>> /\ parents'[o] = <<>>
      /\ \A q \in Obj \ {o} : children'[q] = children[q] /\ parents'[q] = parents[q]
    BY <1>1, <1>3 DEF Set, TypeOK
<1>6. \A h, q : q \in Unlinking(h) => q \in Unlinking(h)' BY <1>3, <1>4, UnlinkingOf, UnlinkingThen
<1>7. Range(children[o]) \subseteq Unlinking(o)'
    <2>1. Range(children[o]) \subseteq Range(ids'[t]) BY <1>1, <1>4, JoinedLists DEF TypeOK
    <2> QED BY <2>1, <1>4, UnlinkingThen
<1>8. \A h \in Obj : Range(children[h]) \cup Unlinking(h) \subseteq Range(children'[h]) \cup Unlinking(h)'
    BY <1>5, <1>6, <1>7
<1>9. ASSUME NEW q \in Obj PROVE LinkRow(q)'
    <2>1. LinkRow(q) /\ bitmap \subseteq Obj BY <1>1 DEF LinkInv, TypeOK
    <2>2. Range(parents'[q]) \subseteq Range(parents[q])
        <3>1. Range(<<>>) = {} BY EmptyList
        <3> QED BY <3>1, <1>5
    <2> QED BY <2>1, <2>2, <1>3, <1>5, <1>8 DEF LinkRow
<1>10. ASSUME NEW u \in Thread PROVE LinkCall(u)'
    <2>1. LinkCall(u) /\ (op[u] \in {"unlink", "merge"} => obj[u] \in Obj) BY <1>1 DEF LinkInv, CallInv
    <2>2. CASE u = t BY <2>2, <1>4, <1>5 DEF LinkCall
    <2>3. CASE u # t
        <3>1. Range(<<>>) = {} BY EmptyList
        <3> QED BY <2>1, <2>3, <3>1, <1>3, <1>4, <1>5 DEF LinkCall
    <2> QED BY <2>2, <2>3
<1> QED BY <1>9, <1>10 DEF LinkInv

\* A child that is taken off the group does not name it any more.
LEMMA DeinitUnlinksLinks ==
    ASSUME FenceInv, NEW t \in Thread, DeinitUnlinks(t)
    PROVE  LinkInv'
<1>1. TypeInv /\ TypeOK /\ CallInv /\ UserInv /\ LinkInv BY DEF FenceInv, TypeInv
<1>2. PICK o \in Obj : o = obj[t] BY <1>1 DEF DeinitUnlinks, CallInv
<1>3. op[t] = "unlink" /\ ids[t] \in Seq(Obj) /\ ids[t] # <<>> BY <1>1 DEF DeinitUnlinks, TypeOK
<1>4. PICK p \in Obj : p = Head(ids[t]) BY <1>3, TailOfList
<1>5. Range(ids[t]) = Range(Tail(ids[t])) \cup {p} BY <1>3, <1>4, TailOfList
<1>6. /\ Call(t, "unlink", o, Tail(ids[t]), None) /\ UNCHANGED <<bitmap, state, group>>
      /\ IF state[p] = "INVALID" THEN UNCHANGED <<parents, children>>
         ELSE /\ parents' = IF group[o] THEN Set(parents, p, CleanOne(parents[p], o)) ELSE parents
              /\ children' = IF group[o] THEN children ELSE Set(children, p, CleanOne(children[p], o))
    BY <1>2, <1>4 DEF DeinitUnlinks
<1>7. /\ op'[t] = "unlink" /\ obj'[t] = o /\ ids'[t] = Tail(ids[t])
      /\ \A u \in Thread \ {t} : op'[u] = op[u] /\ obj'[u] = obj[u] /\ ids'[u] = ids[u]
    BY <1>1, <1>6, Called
<1>8. state[o] = "INVALID" BY <1>2, <1>3, ClosingRow DEF Closing
<1>9. ASSUME NEW h, NEW q, q \in Unlinking(h), q # p \/ h # o PROVE q \in Unlinking(h)'
    <2>1. PICK u \in Thread : op[u] = "unlink" /\ obj[u] = h /\ q \in Range(ids[u]) BY <1>9, UnlinkingOf
    <2>2. op'[u] = "unlink" /\ obj'[u] = h /\ q \in Range(ids'[u]) BY <1>2, <1>3, <1>5, <1>7, <1>9, <2>1
    <2> QED BY <2>2, UnlinkingThen
<1>10. ASSUME NEW q \in Obj
       PROVE  /\ parents'[q] \in Seq(Obj) /\ Range(parents'[q]) \subseteq Range(parents[q])
              /\ children'[q] \in Seq(Obj) /\ Range(children'[q]) \subseteq Range(children[q])
              /\ Range(children[q]) \subseteq Range(children'[q]) \cup {o}
              /\ group[o] /\ q = p /\ state[p] # "INVALID" => o \notin Range(parents'[q])
    <2>1. /\ parents[q] \in Seq(Obj) /\ IsInjective(parents[q]) /\ children[q] \in Seq(Obj) /\ IsInjective(children[q])
        BY <1>1 DEF TypeInv, TypeOK
    <2>2. parents'[q] \in {parents[q], CleanOne(parents[q], o)} /\ children'[q] \in {children[q], CleanOne(children[q], o)}
        <3>1. /\ parents' \in {parents, Set(parents, p, CleanOne(parents[p], o))}
              /\ children' \in {children, Set(children, p, CleanOne(children[p], o))}
            BY <1>6
        <3>2. DOMAIN parents = Obj /\ DOMAIN children = Obj BY <1>1 DEF TypeInv, TypeOK
        <3>3. parents'[q] \in {parents[q], CleanOne(parents[q], o)}
            <4>1. CASE parents' = parents BY <4>1
            <4>2. CASE parents' = Set(parents, p, CleanOne(parents[p], o)) BY <4>2, <3>2 DEF Set
            <4> QED BY <3>1, <4>1, <4>2
        <3>4. children'[q] \in {children[q], CleanOne(children[q], o)}
            <4>1. CASE children' = children BY <4>1
            <4>2. CASE children' = Set(children, p, CleanOne(children[p], o)) BY <4>2, <3>2 DEF Set
            <4> QED BY <3>1, <4>1, <4>2
        <3> QED BY <3>3, <3>4
    <2>3. group[o] /\ q = p /\ state[p] # "INVALID" => parents'[q] = CleanOne(parents[q], o)
        BY <1>1, <1>6 DEF Set, TypeOK
    <2> QED BY <2>1, <2>2, <2>3, CleanOneList
<1>11. \A q \in Obj : (parents[q] = <<>> => parents'[q] = <<>>) /\ (children[q] = <<>> => children'[q] = <<>>)
    <2> TAKE q \in Obj
    <2>1. /\ parents[q] = <<>> => Range(parents'[q]) = {}
          /\ children[q] = <<>> => Range(children'[q]) = {}
        BY <1>10, EmptyList
    <2> QED BY <2>1, <1>10, EmptyList
<1>12. ASSUME NEW q \in Obj PROVE LinkRow(q)'
    <2>1. LinkRow(q) /\ bitmap \subseteq Obj BY <1>1 DEF LinkInv, TypeOK
    <2>2. ASSUME state[q] # "INVALID", NEW h \in Range(parents'[q])
          PROVE  h \in bitmap /\ group[h] /\ q \in Range(children'[h]) \cup Unlinking(h)'
        <3>1. h \in Range(parents[q]) /\ q # o BY <2>2, <1>8, <1>10
        <3>2. h \in bitmap /\ h \in Obj /\ group[h] /\ q \in Range(children[h]) \cup Unlinking(h)
            BY <2>1, <2>2, <3>1 DEF LinkRow
        <3>3. q # p \/ h # o BY <2>2, <3>2, <1>10
        <3> QED BY <3>1, <3>2, <3>3, <1>9, <1>10
    <2> QED BY <2>1, <2>2, <1>6, <1>11 DEF LinkRow
<1>13. ASSUME NEW u \in Thread PROVE LinkCall(u)'
    <2>1. LinkCall(u) /\ (op[u] \in {"unlink", "merge"} => obj[u] \in Obj) BY <1>1 DEF LinkInv, CallInv
    <2>2. CASE u = t BY <2>1, <2>2, <1>2, <1>3, <1>7, <1>11 DEF LinkCall
    <2>3. CASE u # t
        <3>1. op[u] = "unlink" => parents'[obj[u]] = <<>> /\ children'[obj[u]] = <<>> BY <2>1, <1>11 DEF LinkCall
        <3>2. op[u] = "merge" => Range(ids[u]) \cap Range(children'[obj[u]]) = {} BY <2>1, <1>10 DEF LinkCall
        <3> QED BY <2>1, <2>3, <3>1, <3>2, <1>6, <1>7 DEF LinkCall
    <2> QED BY <2>2, <2>3
<1> QED BY <1>12, <1>13 DEF LinkInv

\* Nothing live names a group by the time its row is cleared.
LEMMA Unnamed ==
    ASSUME FenceInv, NEW t \in Thread, op[t] = "unlink", ids[t] = <<>>
    PROVE  \A q \in Obj : state[q] # "INVALID" => obj[t] \notin Range(parents[q])
<1>1. \A u \in Thread \ {t} : Closing(u) => obj[u] # obj[t] BY ClosingRow DEF Closing
<1>2. Unlinking(obj[t]) = {} BY <1>1, UnlinkingOf, EmptyList DEF Closing
<1>3. Range(children[obj[t]]) = {} BY EmptyList DEF FenceInv, LinkInv, LinkCall
<1> QED BY <1>2, <1>3 DEF FenceInv, LinkInv, LinkRow

LEMMA DeinitEndsLinks ==
    ASSUME FenceInv, NEW t \in Thread, DeinitEnds(t)
    PROVE  LinkInv'
<1>1. TypeInv /\ TypeOK /\ CallInv /\ UserInv /\ LinkInv BY DEF FenceInv, TypeInv
<1>2. PICK o \in Obj : o = obj[t] BY <1>1 DEF DeinitEnds, CallInv
<1>3. /\ op[t] = "unlink" /\ ids[t] = <<>> /\ Call(t, "idle", None, <<>>, None) /\ bitmap' = bitmap \ {o}
      /\ state' = Set(state, o, "INVALID") /\ group' = Set(group, o, FALSE)
      /\ parents' = Set(parents, o, <<>>) /\ children' = Set(children, o, <<>>)
    BY <1>2 DEF DeinitEnds, Return
<1>4. /\ op'[t] = "idle"
      /\ \A u \in Thread \ {t} : op'[u] = op[u] /\ obj'[u] = obj[u] /\ ids'[u] = ids[u]
    BY <1>1, <1>3, Called
<1>5. /\ state'[o] = "INVALID" /\ parents'[o] = <<>> /\ children'[o] = <<>>
      /\ \A q \in Obj \ {o} : /\ state'[q] = state[q] /\ group'[q] = group[q]
                              /\ parents'[q] = parents[q] /\ children'[q] = children[q]
    BY <1>1, <1>3 DEF Set, TypeOK
<1>6. \A q \in Obj : state[q] # "INVALID" => o \notin Range(parents[q]) BY <1>2, <1>3, Unnamed
<1>7. ASSUME NEW h, NEW q, q \in Unlinking(h) PROVE q \in Unlinking(h)'
    <2>1. PICK u \in Thread : op[u] = "unlink" /\ obj[u] = h /\ q \in Range(ids[u]) BY <1>7, UnlinkingOf
    <2>2. u # t BY <1>3, <2>1, EmptyList
    <2> QED BY <1>4, <2>1, <2>2, UnlinkingThen
<1>8. ASSUME NEW q \in Obj PROVE LinkRow(q)'
    <2>1. LinkRow(q) /\ bitmap \subseteq Obj BY <1>1 DEF LinkInv, TypeOK
    <2>2. CASE q = o BY <2>2, <1>5 DEF LinkRow
    <2>3. CASE q # o
        <3>1. ASSUME state[q] # "INVALID", NEW h \in Range(parents[q])
              PROVE  h \in bitmap' /\ group'[h] /\ q \in Range(children'[h]) \cup Unlinking(h)'
            <4>1. h \in bitmap /\ h # o /\ group[h] /\ q \in Range(children[h]) \cup Unlinking(h)
                BY <2>1, <3>1, <1>6 DEF LinkRow
            <4> QED BY <4>1, <2>1, <1>3, <1>5, <1>7
        <3> QED BY <2>1, <2>3, <3>1, <1>3, <1>5 DEF LinkRow
    <2> QED BY <2>2, <2>3
<1>9. ASSUME NEW u \in Thread PROVE LinkCall(u)'
    <2>1. CASE u = t BY <2>1, <1>4 DEF LinkCall
    <2>2. CASE u # t
        <3>1. LinkCall(u) /\ (op[u] \in {"unlink", "merge"} => obj[u] \in Obj \ {o}) /\ bitmap \subseteq Obj
            BY <2>2, <1>1, <1>2, <1>3, ClosingRow DEF LinkInv, CallInv, Closing, TypeOK
        <3>2. op'[u] = op[u] /\ obj'[u] = obj[u] /\ ids'[u] = ids[u] BY <2>2, <1>4
        <3>3. op[u] = "unlink" => parents'[obj[u]] = <<>> /\ children'[obj[u]] = <<>> BY <3>1, <1>5 DEF LinkCall
        <3>4. op[u] = "signal" => \A p \in Range(ids[u]) \cap bitmap' : group'[p]
            BY <3>1, <1>3, <1>5 DEF LinkCall
        <3>5. op[u] = "merge" => group'[obj[u]] /\ Range(ids[u]) \cap Range(children'[obj[u]]) = {}
            BY <3>1, <1>5 DEF LinkCall
        <3> QED BY <3>2, <3>3, <3>4, <3>5 DEF LinkCall
    <2> QED BY <2>1, <2>2
<1> QED BY <1>8, <1>9 DEF LinkInv

LEMMA LinkStep == ASSUME FenceInv, ~Reuse, [Next]_vars PROVE LinkInv'
BY QuietLinks, NewLinks, SignalLinks, MergeLinksLinks, MergeFailsLinks, DeinitBeginsLinks, DeinitUnlinksLinks,
   DeinitEndsLinks
   DEF Next, Continue

-----------------------------------------------------------------------------
(***************************************************************************)
(* Counts.                                                                 *)
(***************************************************************************)
LEMMA Counting ==
    ASSUME TypeInv, NEW g \in Obj
    PROVE  /\ IsFiniteSet(pend[g]) /\ Cardinality(pend[g]) \in Nat
           /\ IsFiniteSet(Signalling(g)) /\ Cardinality(Signalling(g)) \in Nat
           /\ remaining[g] \in 0 .. Wrap - 1 /\ remaining[g] \in Nat /\ Wrap \in Nat \ {0}
<1>1. IsFiniteSet(Obj)
    <2>1. 1 \in Int /\ MaxObj \in Int BY CamAssumption
    <2> QED BY <2>1, FS_Interval DEF Obj
<1>2. IsFiniteSet(pend[g]) BY <1>1, FS_Subset DEF TypeInv
<1>3. IsFiniteSet(Signalling(g)) BY CamAssumption, FS_Subset DEF Signalling
<1>4. remaining[g] \in 0 .. Wrap - 1 BY DEF TypeInv, TypeOK
<1> QED BY <1>2, <1>3, <1>4, FS_CardinalityType, CamAssumption

\* A call that is not a signal, before or after, leaves the signals alone.
LEMMA QuietSignals ==
    ASSUME TypeOK, CallInv, NEW t \in Thread, NEW p, NEW o, NEW l, NEW v, Call(t, p, o, l, v),
           op[t] # "signal", p # "signal"
    PROVE  \A g : Signalling(g)' = Signalling(g) /\ Errors(g)' = Errors(g)
<1>1. op'[t] = p /\ \A u \in Thread \ {t} : op'[u] = op[u] /\ ids'[u] = ids[u] /\ val'[u] = val[u] BY Called
<1>2. \A g : Signalling(g)' = Signalling(g) /\ t \notin Signalling(g) BY <1>1 DEF Signalling
<1>3. \A g : \A u \in Signalling(g) : val'[u] = val[u] BY <1>1, <1>2 DEF Signalling
<1> QED BY <1>2, <1>3 DEF Errors

LEMMA NoCallSignals == ASSUME UNCHANGED calls PROVE \A g : Signalling(g)' = Signalling(g) /\ Errors(g)' = Errors(g)
BY DEF calls, Signalling, Errors

LEMMA CountKept ==
    ASSUME FenceInv, UNCHANGED <<bitmap, group, remaining, pend>>, \A g : Signalling(g)' = Signalling(g),
           \A q \in Obj : state'[q] = "ACTIVE" => state[q] = "ACTIVE" /\ Range(parents'[q]) \subseteq Range(parents[q]),
           \A u \in Thread : op'[u] = "merge" => op[u] = "merge" /\ obj'[u] = obj[u] /\ ids'[u] = ids[u]
    PROVE  CountInv'
<1>1. \A q \in Obj : PendRow(q)' BY DEF FenceInv, CountInv, PendRow
<1>2. \A u \in Thread : PendCall(u)' BY DEF FenceInv, CountInv, PendCall
<1>3. \A g \in bitmap' : Tally(g)' BY DEF FenceInv, CountInv, Tally
<1> QED BY <1>1, <1>2, <1>3 DEF CountInv

LEMMA QuietCounts ==
    ASSUME FenceInv,
           \/ \E o \in Obj : \/ GetRef(o) \/ PutRef(o) \/ RegisterCallback(o) \/ Deregister(o)
                             \/ RegisterPayload(o) \/ SignalShared(o)
           \/ UNCHANGED vars
           \/ \E t \in Thread : \/ \E o \in Obj : Wait(t, o) \/ Destroy(t, o)
                                \/ \E l \in Lists : MergeChecks(t, l)
                                \/ MergeFull(t) \/ MergeEnds(t) \/ GetWaitRef(t) \/ WaitEnds(t)
                                \/ PutWaitRef(t) \/ DeinitBegins(t) \/ DeinitUnlinks(t)
    PROVE  CountInv'
<1>1. TypeInv /\ TypeOK /\ CallInv BY DEF FenceInv, TypeInv
<1>2. ASSUME UNCHANGED <<bitmap, group, remaining, pend, parents, state, calls>> PROVE CountInv'
    BY <1>2, CountKept, NoCallSignals DEF calls
<1>3. ASSUME NEW t \in Thread, NEW p, p \notin {"signal", "merge"}, NEW o, NEW l, NEW v, Call(t, p, o, l, v),
             op[t] # "signal", UNCHANGED <<bitmap, group, remaining, pend>>,
             \A q \in Obj : state'[q] = "ACTIVE" =>
                 state[q] = "ACTIVE" /\ Range(parents'[q]) \subseteq Range(parents[q])
      PROVE  CountInv'
    <2>1. op'[t] = p /\ \A u \in Thread \ {t} : op'[u] = op[u] /\ obj'[u] = obj[u] /\ ids'[u] = ids[u]
        BY <1>1, <1>3, Called
    <2>2. \A g : Signalling(g)' = Signalling(g) BY <1>1, <1>3, QuietSignals
    <2> QED BY <1>3, <2>1, <2>2, CountKept
<1>4. ASSUME NEW o \in Obj, \/ GetRef(o) \/ PutRef(o) \/ RegisterCallback(o) \/ Deregister(o)
                            \/ RegisterPayload(o) \/ SignalShared(o)
      PROVE  CountInv'
    BY <1>2, <1>4 DEF GetRef, PutRef, RegisterCallback, Deregister, RegisterPayload, SignalShared, ghosts
<1>5. CASE UNCHANGED vars BY <1>2, <1>5 DEF vars, rows, ghosts
<1>6. ASSUME NEW t \in Thread, \/ \E o \in Obj : Wait(t, o)
                               \/ \E l \in Lists : MergeChecks(t, l)
                               \/ MergeFull(t) \/ WaitEnds(t) \/ GetWaitRef(t) \/ PutWaitRef(t)
      PROVE  CountInv'
    <2>1. UNCHANGED <<bitmap, group, remaining, pend, parents, state>>
        BY <1>6 DEF Wait, MergeChecks, MergeFull, WaitEnds, GetWaitRef, PutWaitRef, rows, ghosts
    <2>2. /\ op[t] # "signal"
          /\ \E p \in Ops \ {"signal", "merge"} : \E o, l : Call(t, p, o, l, None)
        BY <1>6 DEF Wait, MergeChecks, MergeFull, WaitEnds, GetWaitRef, PutWaitRef, Return, Idle, Ops
    <2> QED BY <2>1, <2>2, <1>3
<1>7. ASSUME NEW t \in Thread, NEW o \in Obj, Destroy(t, o) PROVE CountInv'
    <2>1. /\ op[t] = "idle" /\ Call(t, "put", o, <<>>, None) /\ UNCHANGED <<bitmap, group, remaining, pend, parents>>
          /\ state' = Set(state, o, "INVALID")
        BY <1>7 DEF Destroy, Idle, ghosts
    <2>2. \A q \in Obj : state'[q] = "ACTIVE" => state[q] = "ACTIVE" BY <1>1, <2>1 DEF Set, TypeOK
    <2> QED BY <2>1, <2>2, <1>3
<1>8. ASSUME NEW t \in Thread, MergeEnds(t) PROVE CountInv'
    <2>1. PICK g \in Obj : g = obj[t] BY <1>1, <1>8 DEF MergeEnds, CallInv
    <2>2. /\ op[t] = "merge" /\ Call(t, "idle", None, <<>>, None)
          /\ UNCHANGED <<bitmap, group, remaining, pend, parents>> /\ state' \in {state, Set(state, g, Success)}
        BY <1>8, <2>1 DEF MergeEnds, Return, ghosts
    <2>3. \A q \in Obj : state'[q] = "ACTIVE" => state[q] = "ACTIVE" BY <1>1, <2>2 DEF Set, TypeOK, Success
    <2> QED BY <2>2, <2>3, <1>3
<1>9. ASSUME NEW t \in Thread, DeinitBegins(t) PROVE CountInv'
    <2>1. PICK o \in Obj : o = obj[t] BY <1>1, <1>9 DEF DeinitBegins, CallInv
    <2>2. /\ op[t] = "deinit" /\ parents' = Set(parents, o, <<>>) /\ UNCHANGED <<bitmap, state, group, remaining, pend>>
          /\ Call(t, "unlink", o, children[o] \o parents[o], None)
        BY <1>9, <2>1 DEF DeinitBegins, ghosts
    <2>3. \A q \in Obj : parents'[q] = parents[q] \/ parents'[q] = <<>> BY <1>1, <2>2 DEF Set, TypeOK
    <2>4. \A q \in Obj : Range(parents'[q]) \subseteq Range(parents[q]) BY <2>3, EmptyList
    <2> QED BY <2>2, <2>4, <1>3
<1>10. ASSUME NEW t \in Thread, DeinitUnlinks(t) PROVE CountInv'
    <2>1. PICK o \in Obj : o = obj[t] BY <1>1, <1>10 DEF DeinitUnlinks, CallInv
    <2>2. /\ op[t] = "unlink" /\ Call(t, "unlink", o, Tail(ids[t]), None)
          /\ UNCHANGED <<bitmap, state, group, remaining, pend>>
          /\ parents' \in {parents, Set(parents, Head(ids[t]), CleanOne(parents[Head(ids[t])], o))}
        BY <1>10, <2>1 DEF DeinitUnlinks, ghosts
    <2>3. \A q \in Obj : parents'[q] \in {parents[q], CleanOne(parents[q], o)} BY <1>1, <2>2 DEF Set, TypeOK
    <2>4. \A q \in Obj : Range(CleanOne(parents[q], o)) \subseteq Range(parents[q])
        BY <1>1, CleanOneList DEF TypeInv, TypeOK
    <2>5. \A q \in Obj : Range(parents'[q]) \subseteq Range(parents[q]) BY <2>3, <2>4
    <2> QED BY <2>2, <2>5, <1>3
<1> QED BY <1>4, <1>5, <1>6, <1>7, <1>8, <1>9, <1>10

\* A new row counts nothing, and no signal is on its way to it.
LEMMA NewRowCounts ==
    ASSUME FenceInv, ~Reuse, NEW o \in Obj, NEW b \in BOOLEAN, Free(o), InitRow(o, b),
           \A t \in Thread : \/ op'[t] = op[t] /\ obj'[t] = obj[t] /\ ids'[t] = ids[t]
                             \/ op[t] = "checked" /\ op'[t] = "merge" /\ obj'[t] = o /\ ids'[t] = ids[t] /\ b
    PROVE  CountInv'
<1>1. TypeInv /\ TypeOK /\ CallInv /\ UserInv /\ LinkInv /\ CountInv BY DEF FenceInv, TypeInv
<1>2. /\ o \notin bitmap /\ \A t \in Thread : (op[t] \notin Outside => obj[t] # o) /\ o \notin Range(ids[t])
    BY FreeRow
<1>3. /\ bitmap' = bitmap \cup {o} /\ parents'[o] = <<>> /\ pend'[o] = {} /\ remaining'[o] = 0
      /\ \A q \in Obj \ {o} : /\ parents'[q] = parents[q] /\ pend'[q] = pend[q] /\ remaining'[q] = remaining[q]
                              /\ state'[q] = state[q] /\ group'[q] = group[q]
    BY <1>1 DEF InitRow, Set, TypeInv, TypeOK
<1>4. \A g : Signalling(g)' = Signalling(g) BY DEF Signalling
<1>5. Signalling(o)' = {} BY <1>2, <1>4 DEF Signalling
<1>6. bitmap \subseteq Obj BY <1>1 DEF TypeOK
<1>7. ASSUME NEW q \in Obj PROVE PendRow(q)'
    <2>1. CASE q = o BY <2>1, <1>3, EmptyList DEF PendRow
    <2>2. CASE q # o
        <3>1. state[q] = "ACTIVE" => \A g \in Range(parents[q]) : g \in Obj \ {o} /\ q \in pend[g]
            BY <1>1, <1>2, <1>6 DEF LinkInv, LinkRow, CountInv, PendRow
        <3> QED BY <2>2, <3>1, <1>3 DEF PendRow
    <2> QED BY <2>1, <2>2
<1>8. ASSUME NEW u \in Thread PROVE PendCall(u)'
    <2>1. CASE op'[u] = op[u] /\ obj'[u] = obj[u] /\ ids'[u] = ids[u]
        <3>1. PendCall(u) /\ (op[u] = "merge" => obj[u] \in Obj \ {o})
            BY <1>1, <1>2 DEF CountInv, CallInv, Outside
        <3> QED BY <2>1, <3>1, <1>3 DEF PendCall
    <2>2. CASE op[u] = "checked" /\ op'[u] = "merge" /\ obj'[u] = o /\ ids'[u] = ids[u] /\ b
        <3>1. Len(ids[u]) < Wrap /\ Len(ids[u]) \in Nat BY <2>2, <1>1, LenProperties DEF CallInv, TypeOK
        <3> QED BY <2>2, <3>1, <1>3 DEF PendCall
    <2> QED BY <2>1, <2>2
<1>9. ASSUME NEW g \in bitmap' PROVE Tally(g)'
    <2>1. CASE g = o
        <3>1. Cardinality({}) = 0 BY FS_EmptySet
        <3> QED BY <2>1, <3>1, <1>3, <1>5 DEF Tally
    <2>2. CASE g # o
        <3>1. g \in Obj \ {o} /\ Tally(g) BY <2>2, <1>1, <1>3, <1>6 DEF CountInv
        <3> QED BY <3>1, <1>3, <1>4 DEF Tally
    <2> QED BY <2>1, <2>2
<1> QED BY <1>7, <1>8, <1>9 DEF CountInv

LEMMA NewCounts ==
    ASSUME FenceInv, ~Reuse, NEW o \in Obj, Create(o) \/ \E t \in Thread : MergeBegins(t, o)
    PROVE  CountInv'
<1>1. TypeOK /\ CallInv BY DEF FenceInv, TypeInv
<1>2. CASE Create(o) BY <1>2, NewRowCounts DEF Create, calls
<1>3. ASSUME NEW t \in Thread, MergeBegins(t, o) PROVE CountInv'
    <2>1. Free(o) /\ InitRow(o, TRUE) /\ op[t] = "checked" /\ Call(t, "merge", o, ids[t], None) BY <1>3 DEF MergeBegins
    <2>2. /\ op'[t] = "merge" /\ obj'[t] = o /\ ids'[t] = ids[t]
          /\ \A u \in Thread \ {t} : op'[u] = op[u] /\ obj'[u] = obj[u] /\ ids'[u] = ids[u]
        BY <1>1, <2>1, Called
    <2>3. \A u \in Thread : \/ op'[u] = op[u] /\ obj'[u] = obj[u] /\ ids'[u] = ids[u]
                            \/ op[u] = "checked" /\ op'[u] = "merge" /\ obj'[u] = o /\ ids'[u] = ids[u] /\ TRUE
        BY <2>1, <2>2
    <2> QED BY <2>1, <2>3, NewRowCounts
<1> QED BY <1>2, <1>3

\* A child is pending until it is signalled, and then its signal is on its way.
LEMMA SignalSignals ==
    ASSUME FenceInv, NEW t \in Thread, NEW o \in Obj, NEW s \in Status, Signal(t, o, s)
    PROVE  /\ \A g \in Obj : t \notin Signalling(g)
           /\ \A g \in Range(parents[o]) : Signalling(g)' = Signalling(g) \cup {t}
           /\ \A g \in Obj \ Range(parents[o]) : Signalling(g)' = Signalling(g)
           /\ Range(parents[o]) # {} => val'[t] = s
           /\ \A u \in Thread \ {t} : val'[u] = val[u]
<1>1. TypeOK /\ CallInv BY DEF FenceInv, TypeInv
<1>2. op[t] = "idle" /\ (IF parents[o] = <<>> THEN UNCHANGED calls ELSE Call(t, "signal", o, parents[o], s))
    BY DEF Signal, Idle
<1>3. CASE parents[o] = <<>>
    <2>1. Range(parents[o]) = {} BY <1>3, EmptyList
    <2> QED BY <1>2, <1>3, <2>1 DEF calls, Signalling
<1>4. CASE parents[o] # <<>>
    <2>1. /\ op'[t] = "signal" /\ ids'[t] = parents[o] /\ val'[t] = s
          /\ \A u \in Thread \ {t} : op'[u] = op[u] /\ ids'[u] = ids[u] /\ val'[u] = val[u]
        BY <1>1, <1>2, <1>4, Called
    <2> QED BY <1>2, <2>1 DEF Signalling
<1> QED BY <1>3, <1>4

LEMMA SignalCounts ==
    ASSUME FenceInv, NEW t \in Thread, NEW o \in Obj, NEW s \in Status, Signal(t, o, s)
    PROVE  CountInv'
<1>1. TypeInv /\ TypeOK /\ CallInv /\ UserInv /\ LinkInv /\ CountInv BY DEF FenceInv, TypeInv
<1>2. /\ op[t] = "idle" /\ state[o] = "ACTIVE" /\ state' = Set(state, o, s) /\ parents' = Set(parents, o, <<>>)
      /\ UNCHANGED <<bitmap, group, remaining>> /\ (UNCHANGED calls \/ Call(t, "signal", o, parents[o], s))
      /\ pend' = [g \in Obj |-> IF g \in Range(parents[o]) THEN pend[g] \ {o} ELSE pend[g]]
    BY DEF Signal, Idle
<1>3. /\ state'[o] = s /\ s # "ACTIVE"
      /\ \A q \in Obj \ {o} : parents'[q] = parents[q] /\ state'[q] = state[q]
    BY <1>1, <1>2 DEF Set, TypeOK, Status, Success
<1>4. \A u \in Thread : op'[u] = "merge" => op[u] = "merge" /\ obj'[u] = obj[u] /\ ids'[u] = ids[u]
    BY <1>1, <1>2, Called DEF calls
<1>5. \A g \in Range(parents[o]) : g \in bitmap /\ group[g] /\ o \in pend[g]
    BY <1>1, <1>2 DEF LinkInv, LinkRow, CountInv, PendRow
<1>6. ASSUME NEW q \in Obj PROVE PendRow(q)'
    <2>1. CASE q = o BY <2>1, <1>3 DEF PendRow
    <2>2. CASE q # o
        <3>1. state[q] = "ACTIVE" => \A g \in Range(parents[q]) : g \in Obj /\ q \in pend[g]
            BY <1>1, RangeInObj DEF CountInv, PendRow, TypeOK
        <3> QED BY <2>2, <3>1, <1>2, <1>3 DEF PendRow
    <2> QED BY <2>1, <2>2
<1>7. ASSUME NEW u \in Thread PROVE PendCall(u)'
    <2>1. PendCall(u) /\ (op[u] = "merge" => obj[u] \in Obj) BY <1>1 DEF CountInv, CallInv
    <2> QED BY <2>1, <1>2, <1>4 DEF PendCall
<1>8. ASSUME NEW g \in bitmap PROVE Tally(g)'
    <2>1. g \in Obj /\ Tally(g) BY <1>1 DEF CountInv, TypeOK
    <2>2. CASE g \in Range(parents[o])
        <3>1. pend'[g] = pend[g] \ {o} /\ o \in pend[g] /\ group[g] BY <2>1, <2>2, <1>2, <1>5
        <3>2. Signalling(g)' = Signalling(g) \cup {t} /\ t \notin Signalling(g) BY <2>1, <2>2, SignalSignals
        <3>3. /\ IsFiniteSet(pend[g]) /\ Cardinality(pend[g]) \in Nat
              /\ IsFiniteSet(Signalling(g)) /\ Cardinality(Signalling(g)) \in Nat
            BY <1>1, <2>1, Counting
        <3>4. Cardinality(pend'[g]) = Cardinality(pend[g]) - 1
            <4>1. Cardinality(pend[g] \ {o}) = Cardinality(pend[g]) - 1 BY <3>1, <3>3, FS_RemoveElement
            <4> QED BY <3>1, <4>1
        <3>5. Cardinality(Signalling(g)') = Cardinality(Signalling(g)) + 1 BY <3>2, <3>3, FS_AddElement
        <3> QED BY <3>1, <3>3, <3>4, <3>5, <2>1, <1>2 DEF Tally
    <2>3. CASE g \notin Range(parents[o])
        <3>1. pend'[g] = pend[g] /\ Signalling(g)' = Signalling(g) BY <2>1, <2>3, <1>2, SignalSignals
        <3> QED BY <3>1, <2>1, <1>2 DEF Tally
    <2> QED BY <2>2, <2>3
<1> QED BY <1>2, <1>6, <1>7, <1>8 DEF CountInv

\* A signal arrives: it was on its way to one group, which has counted it.
LEMMA Arriving ==
    ASSUME FenceInv, NEW t \in Thread, SignalParent(t), NEW p \in Obj, p = Head(ids[t])
    PROVE  /\ op[t] = "signal" /\ Unlocked(p) /\ val[t] \in Status /\ t \in Signalling(p)
           /\ Signalling(p)' = Signalling(p) \ {t} /\ Errors(p)' = Errors(p) \ {t}
           /\ \A g \in Obj \ {p} : Signalling(g)' = Signalling(g) /\ Errors(g)' = Errors(g)
           /\ \A u \in Thread : op'[u] = "merge" => op[u] = "merge" /\ obj'[u] = obj[u] /\ ids'[u] = ids[u]
           /\ p \in bitmap => /\ group[p] /\ remaining[p] >= 1 /\ remaining'[p] = remaining[p] - 1
                              /\ remaining[p] \in Nat
           /\ p \notin bitmap => state[p] = "INVALID"
           /\ \A q \in Obj \ {p} : remaining'[q] = remaining[q]
<1>1. TypeInv /\ TypeOK /\ CallInv /\ UserInv /\ LinkInv /\ CountInv BY DEF FenceInv, TypeInv
<1>2. /\ op[t] = "signal" /\ Unlocked(p) /\ remaining' = Set(remaining, p, (remaining[p] - 1) % Wrap)
      /\ IF Len(ids[t]) = 1 THEN Call(t, "idle", None, <<>>, None) ELSE Call(t, "signal", obj[t], Tail(ids[t]), val[t])
    BY DEF SignalParent, Return
<1>3. ids[t] \in Seq(Obj) /\ ids[t] # <<>> /\ IsInjective(ids[t]) /\ val[t] \in Status BY <1>1, <1>2 DEF CallInv, TypeOK
<1>4. /\ p \in Range(ids[t]) /\ Range(ids[t]) = Range(Tail(ids[t])) \cup {p} /\ p \notin Range(Tail(ids[t]))
      /\ Len(ids[t]) = 1 => Range(Tail(ids[t])) = {}
    BY <1>3, TailOfList, EmptyList
<1>5. /\ \A u \in Thread \ {t} : op'[u] = op[u] /\ obj'[u] = obj[u] /\ ids'[u] = ids[u] /\ val'[u] = val[u]
      /\ \/ op'[t] = "idle" /\ Range(Tail(ids[t])) = {}
         \/ op'[t] = "signal" /\ ids'[t] = Tail(ids[t]) /\ val'[t] = val[t]
    BY <1>1, <1>2, <1>4, Called
<1>6. t \in Signalling(p) BY <1>2, <1>4 DEF Signalling
<1>7. Signalling(p)' = Signalling(p) \ {t} BY <1>4, <1>5 DEF Signalling
<1>8. \A g \in Obj \ {p} : Signalling(g)' = Signalling(g) BY <1>2, <1>4, <1>5 DEF Signalling
<1>9. Errors(p)' = Errors(p) \ {t}
    <2>1. \A u \in Signalling(p) \ {t} : val'[u] = val[u] BY <1>5 DEF Signalling
    <2> QED BY <2>1, <1>7 DEF Errors
<1>10. \A g \in Obj \ {p} : Errors(g)' = Errors(g)
    <2>1. \A g \in Obj \ {p} : \A u \in Signalling(g) : val'[u] = val[u] BY <1>4, <1>5 DEF Signalling
    <2> QED BY <2>1, <1>8 DEF Errors
<1>11. ASSUME p \in bitmap
       PROVE  group[p] /\ remaining[p] >= 1 /\ remaining'[p] = remaining[p] - 1 /\ remaining[p] \in Nat
    <2>1. group[p] /\ Tally(p) BY <1>1, <1>2, <1>4, <1>11 DEF LinkInv, LinkCall, CountInv
    <2>2. /\ Cardinality(pend[p]) \in Nat /\ Cardinality(Signalling(p)) \in Nat /\ IsFiniteSet(Signalling(p))
          /\ remaining[p] \in 0 .. Wrap - 1 /\ remaining[p] \in Nat /\ Wrap \in Nat \ {0}
        BY <1>1, Counting
    <2>3. Cardinality(Signalling(p)) # 0 BY <1>6, <2>2, FS_EmptySet
    <2>4. remaining[p] = Cardinality(pend[p]) + Cardinality(Signalling(p)) BY <2>1 DEF Tally
    <2>5. remaining[p] >= 1 BY <2>2, <2>3, <2>4
    <2>6. remaining[p] - 1 \in 0 .. Wrap - 1 BY <2>2, <2>5
    <2>7. \A n \in 0 .. Wrap - 1 : n % Wrap = n BY <2>2
    <2>8. (remaining[p] - 1) % Wrap = remaining[p] - 1 BY <2>6, <2>7
    <2>9. remaining'[p] = (remaining[p] - 1) % Wrap BY <1>1, <1>2 DEF Set, TypeOK
    <2> QED BY <2>1, <2>2, <2>5, <2>8, <2>9
<1>12. p \notin bitmap => state[p] = "INVALID" BY <1>1 DEF UserInv
<1>13. \A q \in Obj \ {p} : remaining'[q] = remaining[q] BY <1>1, <1>2 DEF Set, TypeOK
<1>14. \A u \in Thread : op'[u] = "merge" => op[u] = "merge" /\ obj'[u] = obj[u] /\ ids'[u] = ids[u] BY <1>5
<1> QED BY <1>2, <1>3, <1>6, <1>7, <1>8, <1>9, <1>10, <1>11, <1>12, <1>13, <1>14

LEMMA SignalParentCounts ==
    ASSUME FenceInv, NEW t \in Thread, SignalParent(t)
    PROVE  CountInv'
<1>1. TypeInv /\ TypeOK /\ CallInv /\ UserInv /\ LinkInv /\ CountInv BY DEF FenceInv, TypeInv
<1>2. ids[t] \in Seq(Obj) /\ ids[t] # <<>> BY <1>1 DEF SignalParent, CallInv, TypeOK
<1>3. PICK p \in Obj : p = Head(ids[t]) BY <1>2, TailOfList
<1>4. UNCHANGED <<bitmap, group, parents, pend>> /\ UpdateParentState(p, val[t])
    BY <1>3 DEF SignalParent, ghosts
<1>5. /\ Unlocked(p) /\ val[t] \in Status /\ t \in Signalling(p) /\ Signalling(p)' = Signalling(p) \ {t}
      /\ \A g \in Obj \ {p} : Signalling(g)' = Signalling(g)
      /\ \A u \in Thread : op'[u] = "merge" => op[u] = "merge" /\ obj'[u] = obj[u] /\ ids'[u] = ids[u]
      /\ p \in bitmap => group[p] /\ remaining'[p] = remaining[p] - 1
      /\ \A q \in Obj \ {p} : remaining'[q] = remaining[q]
    BY <1>3, Arriving
<1>6. \A q \in Obj : state'[q] = "ACTIVE" => state[q] = "ACTIVE"
    BY <1>1, <1>4, <1>5 DEF UpdateParentState, Set, TypeOK, Status, Success
<1>7. \A q \in Obj : PendRow(q)' BY <1>1, <1>4, <1>6 DEF CountInv, PendRow
<1>8. ASSUME NEW u \in Thread PROVE PendCall(u)'
    <2>1. PendCall(u) /\ (op[u] = "merge" => obj[u] \in Obj \ {p}) BY <1>1, <1>5, Merging DEF CountInv, CallInv
    <2> QED BY <2>1, <1>4, <1>5 DEF PendCall
<1>9. ASSUME NEW g \in bitmap PROVE Tally(g)'
    <2>1. g \in Obj /\ Tally(g) BY <1>1 DEF CountInv, TypeOK
    <2>2. CASE g = p
        <3>1. /\ Cardinality(pend[p]) \in Nat /\ Cardinality(Signalling(p)) \in Nat /\ IsFiniteSet(Signalling(p))
            BY <1>1, Counting
        <3>2. Cardinality(Signalling(p)') = Cardinality(Signalling(p)) - 1 BY <3>1, <1>5, FS_RemoveElement
        <3> QED BY <2>1, <2>2, <3>1, <3>2, <1>4, <1>5 DEF Tally
    <2>3. CASE g # p BY <2>1, <2>3, <1>4, <1>5 DEF Tally
    <2> QED BY <2>2, <2>3
<1> QED BY <1>4, <1>7, <1>8, <1>9 DEF CountInv

LEMMA MergeLinksCounts ==
    ASSUME FenceInv, NEW t \in Thread, MergeLinks(t)
    PROVE  CountInv'
<1>1. TypeInv /\ TypeOK /\ CallInv /\ UserInv /\ LinkInv /\ CountInv BY DEF FenceInv, TypeInv
<1>2. PICK g \in Obj : g = obj[t] BY <1>1 DEF MergeLinks, CallInv
<1>3. op[t] = "merge" /\ ids[t] # <<>> BY DEF MergeLinks
<1>4. /\ Head(ids[t]) \in Obj /\ ids[t] \in Seq(Obj) /\ IsInjective(ids[t]) /\ group[g] /\ state[g] # "INVALID"
      /\ Head(ids[t]) \notin pend[g] /\ Head(ids[t]) \notin Range(children[g])
    BY <1>2, <1>3, Merging
<1>5. PICK c \in Obj : c = Head(ids[t]) BY <1>4
<1>6. /\ ~group[c] /\ state[c] # "INVALID" /\ Call(t, "merge", g, Tail(ids[t]), None) /\ UNCHANGED <<bitmap, group>>
    BY <1>2, <1>5 DEF MergeLinks
<1>7. /\ op'[t] = "merge" /\ obj'[t] = g /\ ids'[t] = Tail(ids[t])
      /\ \A u \in Thread \ {t} : op'[u] = op[u] /\ obj'[u] = obj[u] /\ ids'[u] = ids[u]
    BY <1>1, <1>6, Called
<1>8. /\ Range(Tail(ids[t])) \subseteq Range(ids[t]) /\ c \notin Range(Tail(ids[t]))
      /\ Len(Tail(ids[t])) = Len(ids[t]) - 1 /\ Len(ids[t]) \in Nat
    BY <1>3, <1>4, <1>5, TailOfList
<1>9. \A h : Signalling(h)' = Signalling(h) BY <1>1, <1>3, <1>6, QuietSignals
<1>10. \A u \in Thread \ {t} : op[u] = "merge" => obj[u] \in Obj \ {g}
    BY <1>1, <1>2, <1>3, MergeAlone DEF CallInv, Outside
<1>11. /\ Cardinality(pend[g]) \in Nat /\ IsFiniteSet(pend[g]) /\ Cardinality(Signalling(g)) \in Nat
       /\ remaining[g] \in Nat /\ Wrap \in Nat
    BY <1>1, Counting
<1>12. CASE state[c] = "ACTIVE"
    <2>1. /\ remaining' = Set(remaining, g, remaining[g] + 1) /\ pend' = Set(pend, g, pend[g] \cup {c})
          /\ parents' = Set(parents, c, Append(parents[c], g)) /\ UNCHANGED state
        BY <1>2, <1>5, <1>12 DEF MergeLinks
    <2>2. g \notin Range(parents[c]) BY <1>2, <1>3, <1>4, <1>5, <1>6, NotLinked
    <2>3. Range(Append(parents[c], g)) = Range(parents[c]) \cup {g}
        BY <1>1, <2>2, AppendToList DEF TypeInv, TypeOK
    <2>4. /\ Range(parents'[c]) = Range(parents[c]) \cup {g} /\ \A q \in Obj \ {c} : parents'[q] = parents[q]
        BY <1>1, <2>1, <2>3 DEF Set, TypeOK
    <2>5. /\ pend'[g] = pend[g] \cup {c} /\ remaining'[g] = remaining[g] + 1
          /\ \A h \in Obj \ {g} : pend'[h] = pend[h] /\ remaining'[h] = remaining[h]
        BY <1>1, <2>1 DEF Set, TypeInv, TypeOK
    <2>6. ASSUME NEW q \in Obj PROVE PendRow(q)'
        <3>1. PendRow(q) /\ Range(parents[q]) \subseteq Obj BY <1>1, RangeInObj DEF CountInv, TypeOK
        <3>2. \A h \in Obj : pend[h] \subseteq pend'[h] BY <2>5
        <3>3. CASE q = c BY <3>1, <3>2, <3>3, <2>1, <2>4, <2>5 DEF PendRow
        <3>4. CASE q # c BY <3>1, <3>2, <3>4, <2>1, <2>4 DEF PendRow
        <3> QED BY <3>3, <3>4
    <2>7. ASSUME NEW u \in Thread PROVE PendCall(u)'
        <3>1. PendCall(u) BY <1>1 DEF CountInv
        <3>2. CASE u = t
            <4>1. Range(ids[t]) \cap pend[g] = {} /\ remaining[g] + Len(ids[t]) < Wrap
                BY <3>1, <3>2, <1>2, <1>3 DEF PendCall
            <4>2. Range(Tail(ids[t])) \cap (pend[g] \cup {c}) = {} BY <4>1, <1>8
            <4>3. (remaining[g] + 1) + (Len(ids[t]) - 1) < Wrap
                <5>1. \A a, b, n \in Nat : a + b < n => (a + 1) + (b - 1) < n OBVIOUS
                <5> QED BY <4>1, <5>1, <1>8, <1>11
            <4> QED BY <3>2, <4>2, <4>3, <2>5, <1>7, <1>8 DEF PendCall
        <3>3. CASE u # t BY <3>1, <3>3, <1>7, <1>10, <2>5 DEF PendCall
        <3> QED BY <3>2, <3>3
    <2>8. ASSUME NEW h \in bitmap PROVE Tally(h)'
        <3>1. h \in Obj /\ Tally(h) BY <1>1 DEF CountInv, TypeOK
        <3>2. CASE h = g
            <4>1. Cardinality(pend[g] \cup {c}) = Cardinality(pend[g]) + 1 BY <1>4, <1>5, <1>11, FS_AddElement
            <4> QED BY <3>1, <3>2, <4>1, <2>5, <1>4, <1>6, <1>9, <1>11 DEF Tally
        <3>3. CASE h # g BY <3>1, <3>3, <2>5, <1>6, <1>9 DEF Tally
        <3> QED BY <3>2, <3>3
    <2> QED BY <1>6, <2>6, <2>7, <2>8 DEF CountInv
<1>13. CASE state[c] # "ACTIVE"
    <2>1. UNCHANGED <<remaining, parents, pend>> /\ state' \in {state, Set(state, g, state[c])}
        BY <1>2, <1>5, <1>13 DEF MergeLinks
    <2>2. \A q \in Obj : state'[q] = "ACTIVE" => state[q] = "ACTIVE" BY <1>1, <1>13, <2>1 DEF Set, TypeOK
    <2>3. \A q \in Obj : PendRow(q)' BY <1>1, <2>1, <2>2 DEF CountInv, PendRow
    <2>4. ASSUME NEW u \in Thread PROVE PendCall(u)'
        <3>1. PendCall(u) BY <1>1 DEF CountInv
        <3>2. CASE u = t
            <4>1. Range(ids[t]) \cap pend[g] = {} /\ remaining[g] + Len(ids[t]) < Wrap
                BY <3>1, <3>2, <1>2, <1>3 DEF PendCall
            <4>2. Range(Tail(ids[t])) \cap pend[g] = {} /\ remaining[g] + (Len(ids[t]) - 1) < Wrap
                <5>1. \A a, b, n \in Nat : a + b < n => a + (b - 1) < n OBVIOUS
                <5> QED BY <4>1, <5>1, <1>8, <1>11
            <4> QED BY <3>2, <4>2, <2>1, <1>7, <1>8 DEF PendCall
        <3>3. CASE u # t BY <3>1, <3>3, <1>7, <2>1 DEF PendCall
        <3> QED BY <3>2, <3>3
    <2>5. \A h \in bitmap : Tally(h)' BY <1>1, <2>1, <1>6, <1>9 DEF CountInv, Tally
    <2> QED BY <1>6, <2>3, <2>4, <2>5 DEF CountInv
<1> QED BY <1>12, <1>13

\* A group that goes away is counted by nobody.
LEMMA GoneCounts ==
    ASSUME FenceInv, NEW t \in Thread, MergeFails(t) \/ DeinitEnds(t)
    PROVE  CountInv'
<1>1. TypeInv /\ TypeOK /\ CallInv /\ UserInv /\ LinkInv /\ CountInv BY DEF FenceInv, TypeInv
<1>2. PICK o \in Obj : o = obj[t] BY <1>1 DEF MergeFails, DeinitEnds, CallInv
<1>3. /\ op[t] \in {"merge", "unlink"} /\ Call(t, "idle", None, <<>>, None) /\ bitmap' = bitmap \ {o}
      /\ state' = Set(state, o, "INVALID") /\ pend' = Set(pend, o, {})
      /\ group' \in {group, Set(group, o, FALSE)} /\ remaining' \in {remaining, Set(remaining, o, 0)}
    BY <1>2 DEF MergeFails, DeinitEnds, Return
<1>4. \A u \in Thread : op'[u] = "merge" => op[u] = "merge" /\ obj'[u] = obj[u] /\ ids'[u] = ids[u] /\ u # t
    BY <1>1, <1>3, Called
<1>5. \A h : Signalling(h)' = Signalling(h) BY <1>1, <1>3, QuietSignals
<1>6. /\ state'[o] = "INVALID"
      /\ \A q \in Obj \ {o} : /\ state'[q] = state[q] /\ pend'[q] = pend[q]
                              /\ group'[q] = group[q] /\ remaining'[q] = remaining[q]
    BY <1>1, <1>3 DEF Set, TypeInv, TypeOK
<1>7. \A q \in Obj : Range(parents'[q]) \subseteq Range(parents[q])
    <2>1. CASE MergeFails(t)
        <3>1. \A q \in Obj : parents'[q] \in {parents[q], CleanOne(parents[q], o)} BY <2>1, <1>2 DEF MergeFails
        <3>2. \A q \in Obj : Range(CleanOne(parents[q], o)) \subseteq Range(parents[q])
            BY <1>1, CleanOneList DEF TypeInv, TypeOK
        <3> QED BY <3>1, <3>2
    <2>2. CASE DeinitEnds(t)
        <3>1. parents' = Set(parents, o, <<>>) BY <2>2, <1>2 DEF DeinitEnds
        <3>2. \A q \in Obj : parents'[q] \in {parents[q], <<>>} BY <1>1, <3>1 DEF Set, TypeOK
        <3> QED BY <3>2, EmptyList
    <2> QED BY <2>1, <2>2
<1>8. \A q \in Obj : state[q] # "INVALID" => o \notin Range(parents'[q])
    <2>1. CASE MergeFails(t)
        <3>1. op[t] = "merge" BY <2>1 DEF MergeFails
        <3> SUFFICES ASSUME NEW q \in Obj, state[q] # "INVALID" PROVE o \notin Range(parents'[q]) OBVIOUS
        <3>2. CASE q \in Range(children[o])
            <4>1. parents'[q] = CleanOne(parents[q], o) BY <2>1, <3>2, <1>2 DEF MergeFails
            <4> QED BY <4>1, <1>1, CleanOneList DEF TypeInv, TypeOK
        <3>3. CASE q \notin Range(children[o]) BY <3>1, <3>3, <1>2, <1>7, NotLinked
        <3> QED BY <3>2, <3>3
    <2>2. CASE DeinitEnds(t) BY <2>2, <1>2, <1>7, Unnamed DEF DeinitEnds
    <2> QED BY <2>1, <2>2
<1>9. ASSUME NEW q \in Obj PROVE PendRow(q)'
    <2>1. CASE q = o BY <2>1, <1>6 DEF PendRow
    <2>2. CASE q # o
        <3>1. state[q] = "ACTIVE" => \A h \in Range(parents'[q]) : h \in Obj \ {o} /\ q \in pend[h]
            BY <1>1, <1>7, <1>8, RangeInObj DEF CountInv, PendRow, TypeOK
        <3> QED BY <2>2, <3>1, <1>6 DEF PendRow
    <2> QED BY <2>1, <2>2
<1>10. ASSUME NEW u \in Thread PROVE PendCall(u)'
    <2>1. ASSUME op'[u] = "merge" PROVE obj[u] \in Obj \ {o}
        <3>1. u # t /\ op[u] = "merge" BY <2>1, <1>4
        <3>2. obj[u] # o BY <3>1, <1>2, <1>3, MergeAlone, ClosingRow DEF Closing, Outside
        <3> QED BY <3>1, <3>2, <1>1 DEF CallInv
    <2> QED BY <2>1, <1>1, <1>4, <1>6 DEF CountInv, PendCall
<1>11. ASSUME NEW g \in bitmap' PROVE Tally(g)'
    <2>1. g \in Obj \ {o} /\ Tally(g) BY <1>1, <1>3 DEF CountInv, TypeOK
    <2> QED BY <2>1, <1>5, <1>6 DEF Tally
<1> QED BY <1>9, <1>10, <1>11 DEF CountInv

LEMMA CountStep == ASSUME FenceInv, ~Reuse, [Next]_vars PROVE CountInv'
BY QuietCounts, NewCounts, SignalCounts, SignalParentCounts, MergeLinksCounts, GoneCounts DEF Next, Continue

-----------------------------------------------------------------------------
(***************************************************************************)
(* What a group comes to.                                                  *)
(***************************************************************************)
\* The rows that keep their group, and whose waiters learn nothing.
LEMMA OutcomeKept ==
    ASSUME NEW g, OutcomeRow(g), group'[g] = group[g], remaining'[g] = remaining[g], bad'[g] = bad[g],
           Errors(g)' = Errors(g), state'[g] \in {state[g], "INVALID"}, lock'[g] = lock[g]
    PROVE  OutcomeRow(g)'
BY DEF OutcomeRow, Unlocked

LEMMA QuietOutcome ==
    ASSUME FenceInv,
           \/ \E o \in Obj : \/ GetRef(o) \/ PutRef(o) \/ RegisterCallback(o) \/ Deregister(o)
                             \/ RegisterPayload(o) \/ SignalShared(o)
           \/ UNCHANGED vars
           \/ \E t \in Thread : \/ \E o \in Obj : Wait(t, o) \/ Destroy(t, o)
                                \/ \E l \in Lists : MergeChecks(t, l)
                                \/ MergeFull(t) \/ GetWaitRef(t) \/ WaitEnds(t)
                                \/ PutWaitRef(t) \/ DeinitBegins(t) \/ DeinitUnlinks(t)
    PROVE  OutcomeInv'
<1>1. TypeInv /\ TypeOK /\ CallInv /\ OutcomeInv BY DEF FenceInv, TypeInv
<1>2. ASSUME UNCHANGED <<bitmap, group, remaining, lock, bad>>, \A o \in Obj : state'[o] \in {state[o], "INVALID"},
             \A g : Errors(g)' = Errors(g)
      PROVE  OutcomeInv'
    <2>1. \A g \in bitmap : OutcomeRow(g)' BY <1>1, <1>2, OutcomeKept DEF OutcomeInv, TypeOK
    <2> QED BY <1>2, <2>1 DEF OutcomeInv
<1>3. ASSUME NEW o \in Obj, \/ GetRef(o) \/ PutRef(o) \/ RegisterCallback(o) \/ Deregister(o)
                            \/ RegisterPayload(o) \/ SignalShared(o)
      PROVE  OutcomeInv'
    <2>1. UNCHANGED <<bitmap, group, remaining, lock, state, calls, ghosts>>
        BY <1>3 DEF GetRef, PutRef, RegisterCallback, Deregister, RegisterPayload, SignalShared
    <2> QED BY <1>2, <2>1, NoCallSignals DEF ghosts
<1>4. CASE UNCHANGED vars BY <1>2, <1>4, NoCallSignals DEF vars, rows, ghosts
<1>5. ASSUME NEW t \in Thread, \/ \E o \in Obj : Wait(t, o)
                               \/ \E l \in Lists : MergeChecks(t, l)
                               \/ MergeFull(t) \/ WaitEnds(t) \/ GetWaitRef(t) \/ PutWaitRef(t)
                               \/ DeinitBegins(t) \/ DeinitUnlinks(t)
      PROVE  OutcomeInv'
    <2>1. UNCHANGED <<bitmap, group, remaining, lock, state, bad>>
        BY <1>5 DEF Wait, MergeChecks, MergeFull, WaitEnds, GetWaitRef, PutWaitRef, DeinitBegins, DeinitUnlinks,
                    rows, ghosts
    <2>2. /\ op[t] # "signal"
          /\ \E p \in Ops \ {"signal"} : \E o, l : Call(t, p, o, l, None)
        BY <1>5 DEF Wait, MergeChecks, MergeFull, WaitEnds, GetWaitRef, PutWaitRef, DeinitBegins, DeinitUnlinks,
                    Return, Idle, Ops
    <2>3. \A g : Errors(g)' = Errors(g) BY <1>1, <2>2, QuietSignals
    <2> QED BY <1>2, <2>1, <2>3
<1>6. ASSUME NEW t \in Thread, NEW o \in Obj, Destroy(t, o) PROVE OutcomeInv'
    <2>1. /\ op[t] = "idle" /\ Call(t, "put", o, <<>>, None) /\ UNCHANGED <<bitmap, group, remaining, lock, bad>>
          /\ state' = Set(state, o, "INVALID")
        BY <1>6 DEF Destroy, Idle, ghosts
    <2>2. \A q \in Obj : state'[q] \in {state[q], "INVALID"} BY <1>1, <2>1 DEF Set, TypeOK
    <2>3. \A g : Errors(g)' = Errors(g) BY <1>1, <2>1, QuietSignals
    <2> QED BY <1>2, <2>1, <2>2, <2>3
<1> QED BY <1>3, <1>4, <1>5, <1>6

LEMMA NewOutcome ==
    ASSUME FenceInv, ~Reuse, NEW o \in Obj, Create(o) \/ \E t \in Thread : MergeBegins(t, o)
    PROVE  OutcomeInv'
<1>1. TypeInv /\ TypeOK /\ CallInv /\ OutcomeInv BY DEF FenceInv, TypeInv
<1>2. o \notin bitmap /\ \A u \in Thread : o \notin Range(ids[u]) BY FreeRow DEF Create, MergeBegins
<1>3. \E b \in BOOLEAN : InitRow(o, b) BY DEF Create, MergeBegins
<1>4. /\ bitmap' = bitmap \cup {o} /\ bad'[o] = FALSE /\ state'[o] = "ACTIVE"
      /\ \A q \in Obj \ {o} : /\ bad'[q] = bad[q] /\ remaining'[q] = remaining[q]
                              /\ state'[q] = state[q] /\ group'[q] = group[q]
    BY <1>1, <1>3 DEF InitRow, Set, TypeInv, TypeOK
<1>5. \A g : Signalling(g)' = Signalling(g) /\ Errors(g)' = Errors(g)
    <2>1. CASE Create(o) BY <2>1, NoCallSignals DEF Create
    <2>2. ASSUME NEW t \in Thread, MergeBegins(t, o) PROVE \A g : Signalling(g)' = Signalling(g) /\ Errors(g)' = Errors(g)
        BY <1>1, <2>2, QuietSignals DEF MergeBegins
    <2> QED BY <2>1, <2>2
<1>6. Errors(o)' = {} BY <1>2, <1>5 DEF Errors, Signalling
<1>7. group'[o] => ~Unlocked(o)'
    <2>1. CASE Create(o) BY <2>1, <1>1 DEF Create, InitRow, Set, TypeOK
    <2>2. ASSUME NEW t \in Thread, MergeBegins(t, o) PROVE ~Unlocked(o)'
        <3>1. lock'[o] = t BY <1>1, <2>2 DEF MergeBegins, Set, TypeOK
        <3> QED BY <3>1, CamAssumption DEF Unlocked
    <2> QED BY <2>1, <2>2
<1>8. \A q \in Obj \ {o} : lock'[q] = lock[q]
    BY <1>1 DEF Create, MergeBegins, Set, TypeOK
<1>9. ASSUME NEW g \in bitmap' PROVE OutcomeRow(g)'
    <2>1. CASE g = o BY <2>1, <1>4, <1>6, <1>7 DEF OutcomeRow
    <2>2. CASE g # o
        <3>1. g \in Obj \ {o} /\ OutcomeRow(g) BY <2>2, <1>1, <1>4 DEF OutcomeInv, TypeOK
        <3> QED BY <3>1, <1>4, <1>5, <1>8, OutcomeKept
    <2> QED BY <2>1, <2>2
<1> QED BY <1>9 DEF OutcomeInv

LEMMA GoneOutcome ==
    ASSUME FenceInv, NEW t \in Thread, MergeFails(t) \/ DeinitEnds(t)
    PROVE  OutcomeInv'
<1>1. TypeInv /\ TypeOK /\ CallInv /\ OutcomeInv BY DEF FenceInv, TypeInv
<1>2. PICK o \in Obj : o = obj[t] BY <1>1 DEF MergeFails, DeinitEnds, CallInv
<1>3. /\ op[t] \in {"merge", "unlink"} /\ Call(t, "idle", None, <<>>, None) /\ bitmap' = bitmap \ {o}
      /\ state' = Set(state, o, "INVALID") /\ bad' = Set(bad, o, FALSE) /\ lock' \in {lock, Set(lock, o, None)}
      /\ group' \in {group, Set(group, o, FALSE)} /\ remaining' \in {remaining, Set(remaining, o, 0)}
    BY <1>2 DEF MergeFails, DeinitEnds, Return
<1>4. \A h : Errors(h)' = Errors(h) BY <1>1, <1>3, QuietSignals
<1>5. \A q \in Obj \ {o} : /\ state'[q] = state[q] /\ bad'[q] = bad[q] /\ lock'[q] = lock[q]
                           /\ group'[q] = group[q] /\ remaining'[q] = remaining[q]
    BY <1>1, <1>3 DEF Set, TypeInv, TypeOK
<1>6. ASSUME NEW g \in bitmap' PROVE OutcomeRow(g)'
    <2>1. g \in Obj \ {o} /\ OutcomeRow(g) BY <1>1, <1>3 DEF OutcomeInv, TypeOK
    <2> QED BY <2>1, <1>4, <1>5, OutcomeKept
<1> QED BY <1>6 DEF OutcomeInv

\* An error is known to the parents' ghosts before it is to their states.
LEMMA SignalOutcome ==
    ASSUME FenceInv, NEW t \in Thread, NEW o \in Obj, NEW s \in Status, Signal(t, o, s)
    PROVE  OutcomeInv'
<1>1. TypeInv /\ TypeOK /\ OutcomeInv /\ LinkInv BY DEF FenceInv, TypeInv
<1>2. /\ state[o] = "ACTIVE" /\ state' = Set(state, o, s) /\ UNCHANGED <<bitmap, group, remaining, lock>> /\ ~group[o]
      /\ bad' = [g \in Obj |-> bad[g] \/ (g \in Range(parents[o]) /\ s # Success)]
    BY DEF Signal
<1>3. \A g \in Obj \ {o} : state'[g] = state[g] BY <1>1, <1>2 DEF Set, TypeOK
<1>4. ASSUME NEW g \in bitmap PROVE OutcomeRow(g)'
    <2>1. g \in Obj /\ OutcomeRow(g) BY <1>1 DEF OutcomeInv, TypeOK
    <2>2. CASE g = o BY <2>2, <1>2 DEF OutcomeRow
    <2>3. CASE g # o /\ g \notin Range(parents[o])
        <3>1. Signalling(g)' = Signalling(g) /\ t \notin Signalling(g) /\ \A u \in Thread \ {t} : val'[u] = val[u]
            BY <2>1, <2>3, SignalSignals
        <3>2. \A u \in Signalling(g) : u \in Thread /\ u # t BY <3>1 DEF Signalling
        <3>3. Errors(g)' = Errors(g) BY <3>1, <3>2 DEF Errors
        <3>4. bad'[g] = bad[g] BY <1>1, <1>2, <2>1, <2>3 DEF TypeInv
        <3> QED BY <2>1, <2>3, <3>3, <3>4, <1>2, <1>3, OutcomeKept
    <2>4. CASE g # o /\ g \in Range(parents[o])
        <3>1. /\ Signalling(g)' = Signalling(g) \cup {t} /\ t \notin Signalling(g) /\ val'[t] = s
              /\ \A u \in Thread \ {t} : val'[u] = val[u]
            BY <2>1, <2>4, SignalSignals
        <3>2. \A u \in Signalling(g) : u \in Thread /\ u # t BY <3>1 DEF Signalling
        <3>3. Errors(g)' = IF s = Success THEN Errors(g) ELSE Errors(g) \cup {t} BY <3>1, <3>2 DEF Errors
        <3>4. bad'[g] <=> bad[g] \/ s # Success BY <1>2, <2>1, <2>4
        <3> QED BY <2>1, <2>4, <3>3, <3>4, <1>2, <1>3 DEF OutcomeRow, Unlocked
    <2> QED BY <2>2, <2>3, <2>4
<1> QED BY <1>2, <1>4 DEF OutcomeInv

\* The first error stays with the group.
LEMMA SignalParentOutcome ==
    ASSUME FenceInv, NEW t \in Thread, SignalParent(t)
    PROVE  OutcomeInv'
<1>1. TypeInv /\ TypeOK /\ CallInv /\ OutcomeInv BY DEF FenceInv, TypeInv
<1>2. ids[t] \in Seq(Obj) /\ ids[t] # <<>> BY <1>1 DEF SignalParent, CallInv, TypeOK
<1>3. PICK p \in Obj : p = Head(ids[t]) BY <1>2, TailOfList
<1>4. UNCHANGED <<bitmap, group, lock, bad>> /\ UpdateParentState(p, val[t]) BY <1>3 DEF SignalParent, ghosts
<1>5. /\ val[t] \in Status /\ t \in Signalling(p) /\ Errors(p)' = Errors(p) \ {t}
      /\ \A g \in Obj \ {p} : Errors(g)' = Errors(g) /\ remaining'[g] = remaining[g]
    BY <1>3, Arriving
<1>6. /\ state'[p] = IF state[p] \in {"ACTIVE", Success} THEN val[t] ELSE state[p]
      /\ \A q \in Obj \ {p} : state'[q] = state[q]
    BY <1>1, <1>4 DEF UpdateParentState, Set, TypeOK
<1>7. ASSUME NEW g \in bitmap PROVE OutcomeRow(g)'
    <2>1. g \in Obj /\ OutcomeRow(g) BY <1>1 DEF OutcomeInv, TypeOK
    <2>2. CASE g = p
        <3>1. t \in Errors(p) <=> val[t] = "SIGNALED_ERROR" BY <1>5 DEF Errors, Status, Success
        <3>2. state[p] \in States /\ val[t] \in Status BY <1>1, <1>5 DEF TypeOK
        <3>3. group[p] => (Errors(p)' # {} => bad[p]) BY <2>1, <2>2, <1>5 DEF OutcomeRow
        <3>4. group[p] => (state'[p] = "SIGNALED_ERROR" => bad[p]) BY <2>1, <2>2, <3>1, <1>6 DEF OutcomeRow
        <3>5. group[p] => (bad[p] => state'[p] \in {"INVALID", "SIGNALED_ERROR"} \/ Errors(p)' # {})
            <4>1. CASE state[p] \in {"INVALID", "SIGNALED_ERROR"} BY <4>1, <1>6 DEF Success
            <4>2. CASE t \in Errors(p) /\ state[p] \in {"ACTIVE", Success} BY <4>2, <3>1, <1>6
            <4>3. CASE t \notin Errors(p) BY <4>1, <4>3, <2>1, <2>2, <1>5 DEF OutcomeRow
            <4> QED BY <4>1, <4>2, <4>3, <3>2 DEF States, Status
        <3>6. state'[p] # "ACTIVE" BY <3>2, <1>6 DEF Status, Success
        <3> QED BY <2>2, <3>3, <3>4, <3>5, <3>6, <1>4 DEF OutcomeRow
    <2>3. CASE g # p BY <2>1, <2>3, <1>4, <1>5, <1>6, OutcomeKept
    <2> QED BY <2>2, <2>3
<1> QED BY <1>4, <1>7 DEF OutcomeInv

\* A child that has been signalled already brings its error along.
LEMMA MergeLinksOutcome ==
    ASSUME FenceInv, NEW t \in Thread, MergeLinks(t)
    PROVE  OutcomeInv'
<1>1. TypeInv /\ TypeOK /\ CallInv /\ OutcomeInv BY DEF FenceInv, TypeInv
<1>2. PICK g \in Obj : g = obj[t] BY <1>1 DEF MergeLinks, CallInv
<1>3. op[t] = "merge" /\ ids[t] # <<>> BY DEF MergeLinks
<1>4. Head(ids[t]) \in Obj /\ ~Unlocked(g) BY <1>2, <1>3, Merging
<1>5. PICK c \in Obj : c = Head(ids[t]) BY <1>4
<1>6. /\ state[c] # "INVALID" /\ Call(t, "merge", g, Tail(ids[t]), None) /\ UNCHANGED <<bitmap, group, lock>>
      /\ IF state[c] = "ACTIVE"
           THEN UNCHANGED <<state, bad>> /\ remaining' = Set(remaining, g, remaining[g] + 1)
           ELSE /\ state' = IF state[c] = Success THEN state ELSE Set(state, g, state[c])
                /\ bad' = Set(bad, g, bad[g] \/ state[c] # Success) /\ UNCHANGED remaining
    BY <1>2, <1>5 DEF MergeLinks
<1>7. \A h : Errors(h)' = Errors(h) BY <1>1, <1>3, <1>6, QuietSignals
<1>8. \A h \in Obj \ {g} : state'[h] = state[h] /\ bad'[h] = bad[h] /\ remaining'[h] = remaining[h]
    BY <1>1, <1>6 DEF Set, TypeInv, TypeOK
<1>9. \/ state'[g] = state[g] /\ bad'[g] = bad[g]
      \/ state'[g] = "SIGNALED_ERROR" /\ bad'[g]
    <2>1. state[c] \in {"ACTIVE", Success, "SIGNALED_ERROR"} BY <1>1, <1>6 DEF TypeOK, States, Status
    <2>2. CASE state[c] = "ACTIVE" BY <2>2, <1>6
    <2>3. CASE state[c] = Success
        <3>1. UNCHANGED state /\ bad' = Set(bad, g, bad[g] \/ state[c] # Success) BY <2>3, <1>6 DEF Success
        <3>2. bad'[g] <=> bad[g] BY <2>3, <3>1, <1>1 DEF Set, TypeInv
        <3>3. bad[g] \in BOOLEAN /\ bad'[g] \in BOOLEAN BY <2>3, <3>1, <1>1 DEF Set, TypeInv
        <3> QED BY <3>1, <3>2, <3>3
    <2>4. CASE state[c] = "SIGNALED_ERROR"
        <3>1. state' = Set(state, g, "SIGNALED_ERROR") /\ bad' = Set(bad, g, bad[g] \/ state[c] # Success)
            BY <2>4, <1>6 DEF Success
        <3>2. state[c] # Success BY <2>4 DEF Success
        <3>3. bad'[g] BY <3>1, <3>2, <1>1 DEF Set, TypeInv
        <3> QED BY <3>1, <3>3, <1>1 DEF Set, TypeOK
    <2> QED BY <2>1, <2>2, <2>3, <2>4
<1>10. ASSUME NEW h \in bitmap PROVE OutcomeRow(h)'
    <2>1. h \in Obj /\ OutcomeRow(h) BY <1>1 DEF OutcomeInv, TypeOK
    <2>2. CASE h = g BY <2>1, <2>2, <1>4, <1>6, <1>7, <1>9 DEF OutcomeRow, Unlocked
    <2>3. CASE h # g BY <2>1, <2>3, <1>6, <1>7, <1>8, OutcomeKept
    <2> QED BY <2>2, <2>3
<1> QED BY <1>6, <1>10 DEF OutcomeInv

\* A merge leaves a group that is still active something to wait for.
LEMMA MergeEndsOutcome ==
    ASSUME FenceInv, NEW t \in Thread, MergeEnds(t)
    PROVE  OutcomeInv'
<1>1. TypeInv /\ TypeOK /\ CallInv /\ OutcomeInv /\ CountInv BY DEF FenceInv, TypeInv
<1>2. PICK g \in Obj : g = obj[t] BY <1>1 DEF MergeEnds, CallInv
<1>3. /\ op[t] = "merge" /\ Call(t, "idle", None, <<>>, None) /\ lock' = Set(lock, g, None)
      /\ state' = IF remaining[g] = 0 /\ state[g] = "ACTIVE" THEN Set(state, g, Success) ELSE state
      /\ UNCHANGED <<bitmap, group, remaining, bad>>
    BY <1>2 DEF MergeEnds, Return, ghosts
<1>4. \A h : Errors(h)' = Errors(h) BY <1>1, <1>3, QuietSignals
<1>5. \A h \in Obj \ {g} : state'[h] = state[h] /\ lock'[h] = lock[h] BY <1>1, <1>3 DEF Set, TypeOK
<1>6. state'[g] = IF remaining[g] = 0 /\ state[g] = "ACTIVE" THEN Success ELSE state[g]
    BY <1>1, <1>3 DEF Set, TypeOK
<1>7. g \in bitmap /\ group[g] BY <1>2, <1>3, Merging
<1>8. remaining[g] = 0 => Errors(g) = {}
    <2>1. /\ Cardinality(pend[g]) \in Nat /\ Cardinality(Signalling(g)) \in Nat /\ IsFiniteSet(Signalling(g))
        BY <1>1, Counting
    <2>2. remaining[g] = 0 => Cardinality(Signalling(g)) = 0 BY <1>1, <1>7, <2>1 DEF CountInv, Tally
    <2> QED BY <2>1, <2>2, FS_EmptySet DEF Errors
<1>9. remaining[g] # 0 => remaining[g] > 0 BY <1>1, Counting
<1>10. ASSUME NEW h \in bitmap PROVE OutcomeRow(h)'
    <2>1. h \in Obj /\ OutcomeRow(h) BY <1>1 DEF OutcomeInv, TypeOK
    <2>2. CASE h = g BY <2>1, <2>2, <1>3, <1>4, <1>6, <1>8, <1>9 DEF OutcomeRow, Success
    <2>3. CASE h # g BY <2>1, <2>3, <1>3, <1>4, <1>5, OutcomeKept
    <2> QED BY <2>2, <2>3
<1> QED BY <1>3, <1>10 DEF OutcomeInv

LEMMA OutcomeStep == ASSUME FenceInv, ~Reuse, [Next]_vars PROVE OutcomeInv'
BY QuietOutcome, NewOutcome, GoneOutcome, SignalOutcome, SignalParentOutcome, MergeLinksOutcome, MergeEndsOutcome
   DEF Next, Continue

-----------------------------------------------------------------------------
(***************************************************************************)
(* Who is told.                                                            *)
(***************************************************************************)
LEMMA ToldKept ==
    ASSUME NEW o, ToldRow(o), UNCHANGED <<state[o], remaining[o], signaled[o], lock[o]>>,
           /\ cbs'[o] = cbs[o] \/ cbs'[o] = 0
           /\ payload'[o] = payload[o] \/ payload'[o] = FALSE
    PROVE  ToldRow(o)'
BY DEF ToldRow, Concluded, Unlocked

\* The steps that change what ToldRow says of no row.
LEMMA QuietTold ==
    ASSUME FenceInv,
           \/ \E o \in Obj : GetRef(o) \/ PutRef(o) \/ Deregister(o) \/ SignalShared(o)
           \/ UNCHANGED vars
           \/ \E t \in Thread : \/ \E o \in Obj : Wait(t, o)
                                \/ \E l \in Lists : MergeChecks(t, l)
                                \/ MergeFull(t) \/ GetWaitRef(t) \/ WaitEnds(t)
                                \/ PutWaitRef(t) \/ DeinitBegins(t) \/ DeinitUnlinks(t)
    PROVE  ToldInv'
<1>1. TypeOK /\ ToldInv BY DEF FenceInv, TypeInv
<1>2. UNCHANGED <<bitmap, state, remaining, signaled, lock>>
    BY DEF GetRef, PutRef, Deregister, SignalShared, vars, Wait, MergeChecks, MergeFull, GetWaitRef, WaitEnds,
           PutWaitRef, DeinitBegins, DeinitUnlinks, rows
<1>3. \A o \in Obj : (cbs'[o] = cbs[o] \/ cbs'[o] = 0) /\ (payload'[o] = payload[o] \/ payload'[o] = FALSE)
    <2>1. ASSUME NEW o \in Obj, Deregister(o)
          PROVE  \A q \in Obj : (cbs'[q] = cbs[q] \/ cbs'[q] = 0) /\ (payload'[q] = payload[q] \/ payload'[q] = FALSE)
        <3>1. /\ cbs' = Set(cbs, o, 0) \/ cbs' = cbs
              /\ payload' = Set(payload, o, FALSE) \/ payload' = payload
            BY <2>1 DEF Deregister
        <3> QED BY <3>1, <1>1 DEF Set, TypeOK
    <2>2. (\E o \in Obj : Deregister(o)) \/ UNCHANGED <<cbs, payload>>
        BY DEF GetRef, PutRef, SignalShared, vars, Wait, MergeChecks, MergeFull, GetWaitRef, WaitEnds,
               PutWaitRef, DeinitBegins, DeinitUnlinks, rows
    <2> QED BY <2>1, <2>2
<1>4. ASSUME NEW o \in bitmap PROVE ToldRow(o)'
    <2>1. o \in Obj /\ ToldRow(o) BY <1>1 DEF ToldInv, TypeOK
    <2> QED BY <2>1, <1>2, <1>3, ToldKept
<1> QED BY <1>2, <1>4 DEF ToldInv

\* One row is told, or has somebody to tell; the others are left alone.
LEMMA ToldOne ==
    ASSUME FenceInv, NEW p \in Obj, bitmap' \subseteq bitmap \cup {p},
           \A q \in Obj \ {p} : UNCHANGED <<state[q], remaining[q], signaled[q], lock[q], cbs[q], payload[q]>>,
           p \in bitmap' => ToldRow(p)'
    PROVE  ToldInv'
<1>1. TypeOK /\ ToldInv BY DEF FenceInv, TypeInv
<1>2. ASSUME NEW q \in bitmap' PROVE ToldRow(q)'
    <2>1. CASE q = p BY <2>1, <1>2
    <2>2. CASE q # p
        <3>1. q \in Obj \ {p} /\ ToldRow(q) BY <2>2, <1>1 DEF ToldInv, TypeOK
        <3> QED BY <3>1, ToldKept
    <2> QED BY <2>1, <2>2
<1> QED BY <1>2 DEF ToldInv

\* A callback or a payload is kept only while there is something to tell it.
LEMMA RegisterTold ==
    ASSUME FenceInv, NEW o \in Obj, RegisterCallback(o) \/ RegisterPayload(o)
    PROVE  ToldInv'
<1>1. TypeOK /\ ToldInv /\ UserInv BY DEF FenceInv, TypeInv
<1>2. /\ Unlocked(o) /\ state[o] # "INVALID" /\ ~Concluded(o)
      /\ UNCHANGED <<bitmap, state, remaining, signaled, lock>>
      /\ cbs' \in {cbs, Set(cbs, o, cbs[o] + 1)} /\ payload' \in {payload, Set(payload, o, TRUE)}
    BY DEF RegisterCallback, RegisterPayload, ToldAtOnce, Concluded
<1>3. \A q \in Obj \ {o} : cbs'[q] = cbs[q] /\ payload'[q] = payload[q] BY <1>1, <1>2 DEF Set, TypeOK
<1>4. o \in bitmap => ~signaled[o] BY <1>1, <1>2 DEF ToldInv, ToldRow
<1>5. o \in bitmap => ToldRow(o)' BY <1>2, <1>4 DEF ToldRow, Concluded, Unlocked
<1> QED BY <1>2, <1>3, <1>5, ToldOne

LEMMA NewTold ==
    ASSUME FenceInv, NEW o \in Obj, Create(o) \/ \E t \in Thread : MergeBegins(t, o)
    PROVE  ToldInv'
<1>1. TypeOK BY DEF FenceInv, TypeInv
<1>2. \E b \in BOOLEAN : InitRow(o, b) BY DEF Create, MergeBegins
<1>3. /\ bitmap' = bitmap \cup {o} /\ state'[o] = "ACTIVE" /\ signaled'[o] = FALSE /\ cbs'[o] = 0 /\ payload'[o] = FALSE
      /\ \A q \in Obj \ {o} : UNCHANGED <<state[q], remaining[q], signaled[q], cbs[q], payload[q]>>
    BY <1>1, <1>2 DEF InitRow, Set, TypeOK
<1>4. \A q \in Obj \ {o} : lock'[q] = lock[q] BY <1>1 DEF Create, MergeBegins, Set, TypeOK
<1>5. ToldRow(o)' BY <1>3 DEF ToldRow, Concluded, Status, Success
<1> QED BY <1>3, <1>4, <1>5, ToldOne

\* The steps after which nothing is promised of the row.
LEMMA GoneTold ==
    ASSUME FenceInv, NEW t \in Thread, MergeFails(t) \/ DeinitEnds(t) \/ \E o \in Obj : Destroy(t, o)
    PROVE  ToldInv'
<1>1. TypeOK /\ CallInv BY DEF FenceInv, TypeInv
<1>2. ASSUME NEW o \in Obj, Destroy(t, o) PROVE ToldInv'
    <2>1. /\ state' = Set(state, o, "INVALID") /\ signaled' = Set(signaled, o, TRUE)
          /\ UNCHANGED <<bitmap, remaining, lock, cbs, payload>>
        BY <1>2 DEF Destroy
    <2>2. /\ state'[o] = "INVALID" /\ \A q \in Obj \ {o} : state'[q] = state[q] /\ signaled'[q] = signaled[q]
        BY <2>1, <1>1 DEF Set, TypeOK
    <2>3. ToldRow(o)' BY <2>2 DEF ToldRow
    <2> QED BY <2>1, <2>2, <2>3, ToldOne
<1>3. CASE MergeFails(t) \/ DeinitEnds(t)
    <2>1. PICK o \in Obj : o = obj[t] BY <1>1, <1>3 DEF MergeFails, DeinitEnds, CallInv
    <2>2. /\ bitmap' = bitmap \ {o} /\ state' = Set(state, o, "INVALID") /\ lock' \in {lock, Set(lock, o, None)}
          /\ signaled' \in {signaled, Set(signaled, o, FALSE)} /\ remaining' \in {remaining, Set(remaining, o, 0)}
          /\ cbs' \in {cbs, Set(cbs, o, 0)} /\ payload' \in {payload, Set(payload, o, FALSE)}
        BY <1>3, <2>1 DEF MergeFails, DeinitEnds
    <2>3. /\ state'[o] = "INVALID" /\ o \notin bitmap'
          /\ \A q \in Obj \ {o} : state'[q] = state[q] /\ signaled'[q] = signaled[q] /\ remaining'[q] = remaining[q]
        BY <2>2, <1>1 DEF Set, TypeOK
    <2>4. \A q \in Obj \ {o} : lock'[q] = lock[q] /\ cbs'[q] = cbs[q] /\ payload'[q] = payload[q]
        BY <2>2, <1>1 DEF Set, TypeOK
    <2> QED BY <2>2, <2>3, <2>4, ToldOne
<1> QED BY <1>2, <1>3

\* A plain object concludes when it is signalled.
LEMMA SignalTold ==
    ASSUME FenceInv, NEW t \in Thread, NEW o \in Obj, NEW s \in Status, Signal(t, o, s)
    PROVE  ToldInv'
<1>1. TypeOK /\ UserInv /\ CountInv BY DEF FenceInv, TypeInv
<1>2. /\ Unlocked(o) /\ state[o] = "ACTIVE" /\ ~group[o] /\ state' = Set(state, o, s)
      /\ cbs' = Set(cbs, o, 0) /\ payload' = Set(payload, o, FALSE) /\ signaled' = Set(signaled, o, TRUE)
      /\ UNCHANGED <<bitmap, remaining, lock>>
    BY DEF Signal, Dispatch
<1>3. o \in bitmap BY <1>1, <1>2 DEF UserInv
<1>4. remaining[o] = 0 BY <1>1, <1>2, <1>3 DEF CountInv, Tally
<1>5. /\ state'[o] = s /\ cbs'[o] = 0 /\ payload'[o] = FALSE /\ signaled'[o] = TRUE
      /\ \A q \in Obj \ {o} : /\ state'[q] = state[q] /\ signaled'[q] = signaled[q]
                              /\ cbs'[q] = cbs[q] /\ payload'[q] = payload[q]
    BY <1>1, <1>2 DEF Set, TypeOK
<1>6. ToldRow(o)' BY <1>2, <1>4, <1>5 DEF ToldRow, Concluded, Unlocked
<1> QED BY <1>2, <1>5, <1>6, ToldOne

\* A group concludes with the last signal that is on its way to it.
LEMMA SignalParentTold ==
    ASSUME FenceInv, NEW t \in Thread, SignalParent(t)
    PROVE  ToldInv'
<1>1. TypeOK /\ CallInv /\ ToldInv BY DEF FenceInv, TypeInv
<1>2. ids[t] \in Seq(Obj) /\ ids[t] # <<>> BY <1>1 DEF SignalParent, CallInv, TypeOK
<1>3. PICK p \in Obj : p = Head(ids[t]) BY <1>2, TailOfList
<1>4. UNCHANGED <<bitmap, lock>> /\ UpdateParentState(p, val[t]) BY <1>3 DEF SignalParent
<1>5. /\ Unlocked(p) /\ val[t] \in Status /\ \A q \in Obj \ {p} : remaining'[q] = remaining[q]
      /\ p \in bitmap => remaining[p] >= 1 /\ remaining'[p] = remaining[p] - 1 /\ remaining[p] \in Nat
    BY <1>3, Arriving
<1>6. /\ state'[p] = IF state[p] \in {"ACTIVE", Success} THEN val[t] ELSE state[p]
      /\ \A q \in Obj \ {p} : state'[q] = state[q]
    BY <1>1, <1>4 DEF UpdateParentState, Set, TypeOK
<1>7. remaining'[p] = (remaining[p] - 1) % Wrap BY <1>1, <1>3 DEF SignalParent, Set, TypeOK
<1>8. IF state[p] # "INVALID" /\ remaining'[p] = 0 THEN Dispatch(p) ELSE UNCHANGED <<cbs, payload, signaled>>
    BY <1>3, <1>7 DEF SignalParent
<1>9. \A q \in Obj \ {p} : cbs'[q] = cbs[q] /\ payload'[q] = payload[q] /\ signaled'[q] = signaled[q]
    BY <1>1, <1>8 DEF Dispatch, Set, TypeOK
<1>10. ASSUME p \in bitmap PROVE ToldRow(p)'
    <2>1. CASE state[p] = "INVALID" BY <2>1, <1>6 DEF ToldRow, Success
    <2>2. CASE state[p] # "INVALID" /\ remaining'[p] = 0
        <3>1. cbs'[p] = 0 /\ payload'[p] = FALSE /\ signaled'[p] = TRUE
            BY <1>1, <1>8, <2>2 DEF Dispatch, Set, TypeOK
        <3>2. state'[p] \in Status
            <4>1. state[p] \in States BY <1>1 DEF TypeOK
            <4> QED BY <4>1, <2>2, <1>5, <1>6 DEF States, Status, Success
        <3> QED BY <3>1, <3>2, <2>2, <1>4, <1>5 DEF ToldRow, Concluded, Unlocked
    <2>3. CASE state[p] # "INVALID" /\ remaining'[p] # 0
        <3>1. UNCHANGED <<cbs, payload, signaled>> BY <2>3, <1>8
        <3>2. remaining[p] # 0 BY <1>5, <1>10
        <3>3. ~signaled[p] BY <3>2, <2>3, <1>1, <1>10 DEF ToldInv, ToldRow, Concluded
        <3> QED BY <3>1, <3>3, <2>3, <1>4, <1>5 DEF ToldRow, Concluded, Unlocked
    <2> QED BY <2>1, <2>2, <2>3
<1> QED BY <1>4, <1>5, <1>6, <1>9, <1>10, ToldOne

\* While its lock is held nobody registers with a group, or is told.
LEMMA MergeLinksTold ==
    ASSUME FenceInv, NEW t \in Thread, MergeLinks(t)
    PROVE  ToldInv'
<1>1. TypeOK /\ CallInv /\ ToldInv BY DEF FenceInv, TypeInv
<1>2. PICK g \in Obj : g = obj[t] BY <1>1 DEF MergeLinks, CallInv
<1>3. g \in bitmap /\ ~Unlocked(g) /\ state[g] # "INVALID" BY <1>2, Merging DEF MergeLinks
<1>4. /\ UNCHANGED <<bitmap, signaled, cbs, payload, lock>>
      /\ state' \in {state, Set(state, g, state[Head(ids[t])])}
      /\ remaining' \in {remaining, Set(remaining, g, remaining[g] + 1)}
    BY <1>2 DEF MergeLinks
<1>5. \A q \in Obj \ {g} : state'[q] = state[q] /\ remaining'[q] = remaining[q] BY <1>1, <1>4 DEF Set, TypeOK
<1>6. ToldRow(g)' BY <1>1, <1>3, <1>4 DEF ToldInv, ToldRow, Unlocked
<1> QED BY <1>4, <1>5, <1>6, ToldOne

LEMMA MergeEndsTold ==
    ASSUME FenceInv, NEW t \in Thread, MergeEnds(t)
    PROVE  ToldInv'
<1>1. TypeOK /\ CallInv /\ ToldInv BY DEF FenceInv, TypeInv
<1>2. PICK g \in Obj : g = obj[t] BY <1>1 DEF MergeEnds, CallInv
<1>3. g \in bitmap /\ ~Unlocked(g) /\ state[g] # "INVALID" BY <1>2, Merging DEF MergeEnds
<1>4. /\ lock' = Set(lock, g, None) /\ UNCHANGED <<bitmap, remaining, cbs, payload>>
      /\ IF remaining[g] = 0
           THEN /\ state' = IF state[g] = "ACTIVE" THEN Set(state, g, Success) ELSE state
                /\ signaled' = Set(signaled, g, TRUE)
           ELSE UNCHANGED <<state, signaled>>
    BY <1>2 DEF MergeEnds
<1>5. \A q \in Obj \ {g} : state'[q] = state[q] /\ signaled'[q] = signaled[q] /\ lock'[q] = lock[q]
    BY <1>1, <1>4 DEF Set, TypeOK
<1>6. lock'[g] = None /\ cbs[g] = 0 /\ ~payload[g] /\ ~signaled[g]
    BY <1>1, <1>3, <1>4 DEF Set, TypeOK, ToldInv, ToldRow
<1>7. ToldRow(g)'
    <2>1. CASE remaining[g] = 0
        <3>1. signaled'[g] = TRUE BY <1>1, <1>4, <2>1 DEF Set, TypeOK
        <3>2. state'[g] \in Status
            <4>1. state[g] \in States /\ state'[g] = IF state[g] = "ACTIVE" THEN Success ELSE state[g]
                BY <1>1, <1>4, <2>1 DEF Set, TypeOK
            <4> QED BY <4>1, <1>3 DEF States, Status
        <3> QED BY <3>1, <3>2, <2>1, <1>4, <1>6 DEF ToldRow, Concluded, Unlocked
    <2>2. CASE remaining[g] # 0 BY <2>2, <1>4, <1>6 DEF ToldRow, Concluded, Unlocked
    <2> QED BY <2>1, <2>2
<1> QED BY <1>4, <1>5, <1>7, ToldOne

LEMMA ToldStep == ASSUME FenceInv, [Next]_vars PROVE ToldInv'
BY QuietTold, RegisterTold, NewTold, GoneTold, SignalTold, SignalParentTold, MergeLinksTold, MergeEndsTold
   DEF Next, Continue

-----------------------------------------------------------------------------
(***************************************************************************)
(* The theorems.                                                           *)
(***************************************************************************)
LEMMA FenceInvInit == Init => FenceInv
<1> SUFFICES ASSUME Init PROVE FenceInv OBVIOUS
<1>1. \A t \in Thread : op[t] = "idle" /\ ids[t] = <<>> BY DEF Init
<1>2. TypeInv
    <2>1. 0 \in 0 .. Wrap - 1 BY CamAssumption
    <2> QED BY <2>1, EmptyList DEF Init, TypeInv, TypeOK, States
<1>3. CallInv BY <1>1 DEF Init, CallInv, Ops
<1>4. UserInv BY <1>1 DEF Init, UserInv, Role, Closing, UsersCounted
<1>5. LinkInv BY <1>1, EmptyList DEF Init, LinkInv, LinkRow, LinkCall
<1>6. CountInv BY <1>1 DEF Init, CountInv, PendRow, PendCall
<1>7. OutcomeInv /\ ToldInv BY DEF Init, OutcomeInv, ToldInv
<1> QED BY <1>2, <1>3, <1>4, <1>5, <1>6, <1>7 DEF FenceInv

\* The invariant holds in every behaviour.
LEMMA FenceInvHolds == ASSUME ~Reuse PROVE Safety => []FenceInv
<1>1. Init => FenceInv BY FenceInvInit
<1>2. FenceInv /\ [Next]_vars => FenceInv'
    <2> SUFFICES ASSUME FenceInv, [Next]_vars PROVE FenceInv' OBVIOUS
    <2> QED BY TypeStep, UserStep, LinkStep, CountStep, OutcomeStep, ToldStep DEF FenceInv
<1> QED BY <1>1, <1>2, PTL DEF Safety

\* Every field of a row keeps its type, whatever the number of rows, threads
\* and merges: the count of children stays below the width it is kept in and
\* wait_ref_cnt is never put back below 0 by cam_sync_put_wait_ref.
THEOREM FenceTypesHold == ASSUME ~Reuse PROVE Safety => []TypeOK
<1>1. FenceInv => TypeOK BY DEF FenceInv, TypeInv
<1> QED BY <1>1, FenceInvHolds, PTL

\* cam_sync_merge and cam_sync_signal agree on every child: a group counts
\* those that are still active and the signals on their way to it, no child
\* twice and none that was signalled before the merge.
THEOREM GroupsCount == ASSUME ~Reuse PROVE Safety => []GroupCount
<1>1. FenceInv => GroupCount BY DEF FenceInv, CountInv, Tally, GroupCount, Live
<1> QED BY <1>1, FenceInvHolds, PTL

\* A group that has heard of all its children is in error exactly when one of
\* them was: cam_sync_util_update_parent_state never overwrites an error, and
\* cam_sync_merge never forgets one it finds.
THEOREM GroupsConclude == ASSUME ~Reuse PROVE Safety => []GroupOutcome
<1>1. FenceInv => GroupOutcome
    <2> SUFFICES ASSUME FenceInv, NEW g \in Obj, Live(g), group[g], Signalling(g) = {}
                 PROVE  /\ state[g] = "SIGNALED_ERROR" <=> bad[g]
                        /\ pend[g] = {} /\ ~bad[g] => state[g] = Success
        BY DEF GroupOutcome
    <2>1. g \in bitmap /\ state[g] # "INVALID" /\ Unlocked(g) BY DEF Live
    <2>2. Errors(g) = {} BY DEF Errors
    <2>3. OutcomeRow(g) /\ Tally(g) BY <2>1 DEF FenceInv, OutcomeInv, CountInv
    <2>4. state[g] = "SIGNALED_ERROR" => bad[g] BY <2>3 DEF OutcomeRow
    <2>5. bad[g] => state[g] = "SIGNALED_ERROR" BY <2>1, <2>2, <2>3 DEF OutcomeRow
    <2>6. ASSUME pend[g] = {}, ~bad[g] PROVE state[g] = Success
        <3>1. remaining[g] = Cardinality({}) + Cardinality({}) BY <2>3, <2>6 DEF Tally
        <3>2. remaining[g] = 0 BY <3>1, FS_EmptySet
        <3>3. state[g] # "ACTIVE" BY <2>1, <2>3, <3>2 DEF OutcomeRow
        <3>4. state[g] \in States BY DEF FenceInv, TypeInv, TypeOK
        <3> QED BY <2>1, <2>4, <2>6, <3>3, <3>4 DEF States, Status
    <2>7. bad[g] \in BOOLEAN BY DEF FenceInv, TypeInv
    <2> QED BY <2>4, <2>5, <2>6, <2>7
<1> QED BY <1>1, FenceInvHolds, PTL

\* Nobody is woken early and nobody is left waiting: row->signaled is completed
\* with the object's conclusion, and a callback or payload that was registered
\* is not still on its list by then.
THEOREM WaitersAreTold == ASSUME ~Reuse PROVE Safety => []ToldWhenConcluded
<1>1. FenceInv => ToldWhenConcluded
    <2> SUFFICES ASSUME FenceInv, NEW o \in Obj, Live(o)
                 PROVE  /\ signaled[o] <=> Concluded(o)
                        /\ Concluded(o) => cbs[o] = 0 /\ ~payload[o]
        BY DEF ToldWhenConcluded
    <2>1. ToldRow(o) /\ state[o] # "INVALID" /\ Unlocked(o) BY DEF FenceInv, ToldInv, Live
    <2> QED BY <2>1 DEF ToldRow
<1> QED BY <1>1, FenceInvHolds, PTL

\* cam_sync_deinit_object takes a group off the list of every live child before
\* its row is cleared, and a merge that fails takes its links back.
THEOREM ParentsAreInUse == ASSUME ~Reuse PROVE Safety => []ParentsInUse
<1>1. FenceInv => ParentsInUse BY DEF FenceInv, LinkInv, LinkRow, ParentsInUse, Live
<1> QED BY <1>1, FenceInvHolds, PTL

\* wait_ref_cnt counts the creator and everybody between cam_sync_get_wait_ref
\* and cam_sync_put_wait_ref, and whoever brings it to 0 clears the row.
THEOREM UsersAreCounted == ASSUME ~Reuse PROVE Safety => []UsersCounted
<1>1. FenceInv => UsersCounted BY DEF FenceInv, UserInv
<1> QED BY <1>1, FenceInvHolds, PTL
=============================================================================
