----------------------------- MODULE HddSyncProofs -----------------------------
(***************************************************************************)
(* The threads of the host driver, any number of them, on one radio with   *)
(* any number of interfaces, running any of the programs: the registry     *)
(* stays consistent, no entry leaks, nobody starts a transition on a       *)
(* context that is gone, and, for the programs that do, the contract of    *)
(* the core is kept.                                                       *)
(***************************************************************************)
EXTENDS HddSync, DscProofs

----------------------------------------------------------------------------
(* The programs, call by call. *)

Call == {"create", "create_start", "register", "work", "rtnl_lock", "open", "open_register",
         "rtnl_unlock", "stop", "unregister", "wait", "destroy", "driver", "start",
         "set_unloading", "platform", "lookup", "read", "close", "close_wait", "close_netdev",
         "close_destroy", "wiphy", "clear_unloading", "check", "resume", "recovered",
         "trans_start", "idle_done", "validate", "open_dev", "stop_dev", "op_start", "op_stop"}

LEMMA ProbeCalls ==
  Prog["probe"] = <<"create", "create_start", "register", "work", "rtnl_lock", "open",
                    "open_register", "rtnl_unlock", "stop">>
<1> DEFINE s == <<"create", "create_start", "register", "work">>
           t == OpenAll
           u == <<"stop">>
           p == s \o t \o u
<1>1. /\ s = <<"create", "create_start", "register", "work">>
      /\ t = <<"rtnl_lock", "open", "open_register", "rtnl_unlock">>
      /\ u = <<"stop">>
  BY DEF OpenAll
<1>2. s \in Seq(Call) /\ t \in Seq(Call) /\ u \in Seq(Call)
  BY <1>1 DEF Call
<1> HIDE DEF s, t, u, p
<1>3. p \in Seq(Call) /\ Len(p) = 9
  BY <1>1, <1>2 DEF p
<1>4. p[1] = "create" /\ p[2] = "create_start" /\ p[3] = "register" /\ p[4] = "work" /\
      p[5] = "rtnl_lock" /\ p[6] = "open" /\ p[7] = "open_register" /\ p[8] = "rtnl_unlock" /\
      p[9] = "stop"
  BY <1>1, <1>2 DEF p
<1>5. p = <<"create", "create_start", "register", "work", "rtnl_lock", "open", "open_register",
            "rtnl_unlock", "stop">>
  BY <1>3, <1>4
<1> QED BY <1>5 DEF p, s, t, u, Prog

LEMMA ShutdownCalls ==
  Prog["shutdown"] = <<"check", "lookup", "read", "start", "wait">>
<1> DEFINE s == <<"check">>
           t == StartWait
           u == <<"wait">>
           p == s \o t \o u
<1>1. /\ s = <<"check">>
      /\ t = <<"lookup", "read", "start">>
      /\ u = <<"wait">>
  BY DEF StartWait
<1>2. s \in Seq(Call) /\ t \in Seq(Call) /\ u \in Seq(Call)
  BY <1>1 DEF Call
<1> HIDE DEF s, t, u, p
<1>3. p \in Seq(Call) /\ Len(p) = 5
  BY <1>1, <1>2 DEF p
<1>4. p[1] = "check" /\ p[2] = "lookup" /\ p[3] = "read" /\ p[4] = "start" /\ p[5] = "wait"
  BY <1>1, <1>2 DEF p
<1>5. p = <<"check", "lookup", "read", "start", "wait">>
  BY <1>3, <1>4
<1> QED BY <1>5 DEF p, s, t, u, Prog

LEMMA ModeCalls ==
  Prog["mode"] = <<"driver", "start", "wait", "validate", "close", "close_wait", "close_netdev",
                   "close_destroy", "rtnl_lock", "open", "open_register", "rtnl_unlock", "stop">>
<1> DEFINE s == <<"driver", "start", "wait", "validate">>
           t == CloseAll
           u == OpenAll
           v == <<"stop">>
           p == s \o t \o u \o v
<1>1. /\ s = <<"driver", "start", "wait", "validate">>
      /\ t = <<"close", "close_wait", "close_netdev", "close_destroy">>
      /\ u = <<"rtnl_lock", "open", "open_register", "rtnl_unlock">>
      /\ v = <<"stop">>
  BY DEF CloseAll, OpenAll
<1>2. s \in Seq(Call) /\ t \in Seq(Call) /\ u \in Seq(Call) /\ v \in Seq(Call)
  BY <1>1 DEF Call
<1> HIDE DEF s, t, u, v, p
<1>3. p \in Seq(Call) /\ Len(p) = 13
  BY <1>1, <1>2 DEF p
<1>4. p[1] = "driver" /\ p[2] = "start" /\ p[3] = "wait" /\ p[4] = "validate" /\
      p[5] = "close" /\ p[6] = "close_wait" /\ p[7] = "close_netdev" /\
      p[8] = "close_destroy" /\ p[9] = "rtnl_lock" /\ p[10] = "open" /\
      p[11] = "open_register" /\ p[12] = "rtnl_unlock" /\ p[13] = "stop"
  BY <1>1, <1>2 DEF p
<1>5. p = <<"driver", "start", "wait", "validate", "close", "close_wait", "close_netdev",
            "close_destroy", "rtnl_lock", "open", "open_register", "rtnl_unlock", "stop">>
  BY <1>3, <1>4
<1> QED BY <1>5 DEF p, s, t, u, v, Prog

LEMMA DelCalls ==
  Prog["del"] = <<"lookup", "read", "start", "wait", "unregister", "wait", "stop", "destroy",
                  "rtnl_unlock">>
<1> DEFINE s == StartWait
           t == <<"wait", "unregister", "wait", "stop", "destroy", "rtnl_unlock">>
           p == s \o t
<1>1. /\ s = <<"lookup", "read", "start">>
      /\ t = <<"wait", "unregister", "wait", "stop", "destroy", "rtnl_unlock">>
  BY DEF StartWait
<1>2. s \in Seq(Call) /\ t \in Seq(Call)
  BY <1>1 DEF Call
<1> HIDE DEF s, t, p
<1>3. p \in Seq(Call) /\ Len(p) = 9
  BY <1>1, <1>2 DEF p
<1>4. p[1] = "lookup" /\ p[2] = "read" /\ p[3] = "start" /\ p[4] = "wait" /\
      p[5] = "unregister" /\ p[6] = "wait" /\ p[7] = "stop" /\ p[8] = "destroy" /\
      p[9] = "rtnl_unlock"
  BY <1>1, <1>2 DEF p
<1>5. p = <<"lookup", "read", "start", "wait", "unregister", "wait", "stop", "destroy",
            "rtnl_unlock">>
  BY <1>3, <1>4
<1> QED BY <1>5 DEF p, s, t, Prog, Del

LEMMA RemoveCalls ==
  Remove = <<"platform", "lookup", "read", "start", "unregister", "wait", "set_unloading",
             "close", "close_wait", "close_netdev", "close_destroy", "wiphy", "clear_unloading",
             "stop", "destroy">>
<1> DEFINE s == <<"platform">>
           t == StartWait
           u == <<"unregister", "wait", "set_unloading">>
           v == CloseAll
           x == <<"wiphy", "clear_unloading", "stop", "destroy">>
           p == s \o t \o u \o v \o x
<1>1. /\ s = <<"platform">>
      /\ t = <<"lookup", "read", "start">>
      /\ u = <<"unregister", "wait", "set_unloading">>
      /\ v = <<"close", "close_wait", "close_netdev", "close_destroy">>
      /\ x = <<"wiphy", "clear_unloading", "stop", "destroy">>
  BY DEF StartWait, CloseAll
<1>2. s \in Seq(Call) /\ t \in Seq(Call) /\ u \in Seq(Call) /\ v \in Seq(Call) /\ x \in Seq(Call)
  BY <1>1 DEF Call
<1> HIDE DEF s, t, u, v, x, p
<1>3. p \in Seq(Call) /\ Len(p) = 15
  BY <1>1, <1>2 DEF p
<1>4. p[1] = "platform" /\ p[2] = "lookup" /\ p[3] = "read" /\ p[4] = "start" /\
      p[5] = "unregister" /\ p[6] = "wait" /\ p[7] = "set_unloading" /\ p[8] = "close" /\
      p[9] = "close_wait" /\ p[10] = "close_netdev" /\ p[11] = "close_destroy" /\
      p[12] = "wiphy" /\ p[13] = "clear_unloading" /\ p[14] = "stop" /\ p[15] = "destroy"
  BY <1>1, <1>2 DEF p
<1>5. p = <<"platform", "lookup", "read", "start", "unregister", "wait", "set_unloading",
            "close", "close_wait", "close_netdev", "close_destroy", "wiphy", "clear_unloading",
            "stop", "destroy">>
  BY <1>3, <1>4
<1> QED BY <1>5 DEF p, s, t, u, v, x, Remove

LEMMA UnloadCalls ==
  Prog["unload"] = <<"driver", "start", "set_unloading", "stop", "platform", "lookup", "read",
                     "start", "unregister", "wait", "set_unloading", "close", "close_wait",
                     "close_netdev", "close_destroy", "wiphy", "clear_unloading", "stop",
                     "destroy">>
<1> DEFINE s == <<"driver", "start", "set_unloading", "stop">>
           t == Remove
           p == s \o t
<1>1. /\ s = <<"driver", "start", "set_unloading", "stop">>
      /\ t = <<"platform", "lookup", "read", "start", "unregister", "wait", "set_unloading",
               "close", "close_wait", "close_netdev", "close_destroy", "wiphy",
               "clear_unloading", "stop", "destroy">>
  BY RemoveCalls
<1>2. s \in Seq(Call) /\ t \in Seq(Call)
  BY <1>1 DEF Call
<1> HIDE DEF s, t, p
<1>3. p \in Seq(Call) /\ Len(p) = 19
  BY <1>1, <1>2 DEF p
<1>4. p[1] = "driver" /\ p[2] = "start" /\ p[3] = "set_unloading" /\ p[4] = "stop" /\
      p[5] = "platform" /\ p[6] = "lookup" /\ p[7] = "read" /\ p[8] = "start" /\
      p[9] = "unregister" /\ p[10] = "wait" /\ p[11] = "set_unloading" /\ p[12] = "close" /\
      p[13] = "close_wait" /\ p[14] = "close_netdev" /\ p[15] = "close_destroy" /\
      p[16] = "wiphy" /\ p[17] = "clear_unloading" /\ p[18] = "stop" /\ p[19] = "destroy"
  BY <1>1, <1>2 DEF p
<1>5. p = <<"driver", "start", "set_unloading", "stop", "platform", "lookup", "read", "start",
            "unregister", "wait", "set_unloading", "close", "close_wait", "close_netdev",
            "close_destroy", "wiphy", "clear_unloading", "stop", "destroy">>
  BY <1>3, <1>4
<1> QED BY <1>5 DEF p, s, t, Prog

LEMMA ShortPrograms ==
  /\ Prog["probe_fail"] = <<"unregister", "wait", "stop", "destroy">>
  /\ Prog["reinit"] = <<"check", "resume", "recovered", "stop">>
  /\ Prog["idle"] = <<"trans_start", "wait", "stop", "idle_done">>
  /\ Prog["idle_busy"] = <<"idle_done">>
  /\ Prog["mode_fail"] = <<"stop">>
  /\ Prog["add"] = <<"create", "create_start", "work", "register", "stop", "rtnl_unlock">>
  /\ Prog["add_fail"] = <<"stop", "destroy", "rtnl_unlock">>
  /\ Prog["up"] = <<"trans_start", "wait", "open_dev", "stop", "rtnl_unlock">>
  /\ Prog["down"] = <<"trans_start", "wait", "stop_dev", "stop", "rtnl_unlock">>
  /\ Prog["op"] = <<"op_start", "op_stop">>
<1>1. Reinit = <<"check", "resume", "recovered", "stop">> BY DEF Reinit
<1> QED BY <1>1 DEF Prog

Job == {"probe", "probe_fail", "unload", "shutdown", "reinit", "idle", "idle_busy", "mode",
        "mode_fail", "add", "add_fail", "del", "up", "down", "op"}

LEMMA ProgJobs == DOMAIN Prog = Job
BY DEF Prog, Job

\* Which programs make a call, and where.
LEMMA Where ==
  ASSUME NEW j \in Job, NEW i \in 1 .. Len(Prog[j])
  PROVE
    /\ Prog[j][i] = "create" <=> (j \in {"probe", "add"} /\ i = 1)
    /\ Prog[j][i] = "create_start" <=> (j \in {"probe", "add"} /\ i = 2)
    /\ Prog[j][i] = "register" <=> (j = "probe" /\ i = 3) \/ (j = "add" /\ i = 4)
    /\ Prog[j][i] = "work" <=> (j = "probe" /\ i = 4) \/ (j = "add" /\ i = 3)
    /\ Prog[j][i] = "rtnl_lock" <=> (j = "probe" /\ i = 5) \/ (j = "mode" /\ i = 9)
    /\ Prog[j][i] = "open" <=> (j = "probe" /\ i = 6) \/ (j = "mode" /\ i = 10)
    /\ Prog[j][i] = "open_register" <=> (j = "probe" /\ i = 7) \/ (j = "mode" /\ i = 11)
    /\ Prog[j][i] = "rtnl_unlock" <=>
           (j = "probe" /\ i = 8) \/ (j = "mode" /\ i = 12) \/ (j = "add" /\ i = 6) \/
           (j = "add_fail" /\ i = 3) \/ (j = "del" /\ i = 9) \/ (j \in {"up", "down"} /\ i = 5)
    /\ Prog[j][i] = "stop" <=>
           (j = "probe" /\ i = 9) \/ (j \in {"probe_fail", "idle"} /\ i = 3) \/
           (j = "unload" /\ i \in {4, 18}) \/ (j \in {"reinit", "up", "down"} /\ i = 4) \/
           (j = "mode" /\ i = 13) \/ (j \in {"mode_fail", "add_fail"} /\ i = 1) \/
           (j = "add" /\ i = 5) \/ (j = "del" /\ i = 7)
    /\ Prog[j][i] = "unregister" <=>
           (j = "probe_fail" /\ i = 1) \/ (j = "unload" /\ i = 9) \/ (j = "del" /\ i = 5)
    /\ Prog[j][i] = "wait" <=>
           (j \in {"probe_fail", "idle", "up", "down"} /\ i = 2) \/ (j = "unload" /\ i = 10) \/
           (j = "shutdown" /\ i = 5) \/ (j = "mode" /\ i = 3) \/ (j = "del" /\ i \in {4, 6})
    /\ Prog[j][i] = "destroy" <=>
           (j = "probe_fail" /\ i = 4) \/ (j = "unload" /\ i = 19) \/
           (j = "add_fail" /\ i = 2) \/ (j = "del" /\ i = 8)
    /\ Prog[j][i] = "driver" <=> (j \in {"unload", "mode"} /\ i = 1)
    /\ Prog[j][i] = "start" <=>
           (j = "unload" /\ i \in {2, 8}) \/ (j = "shutdown" /\ i = 4) \/
           (j = "mode" /\ i = 2) \/ (j = "del" /\ i = 3)
    /\ Prog[j][i] = "set_unloading" <=> (j = "unload" /\ i \in {3, 11})
    /\ Prog[j][i] = "platform" <=> (j = "unload" /\ i = 5)
    /\ Prog[j][i] = "lookup" <=>
           (j = "unload" /\ i = 6) \/ (j = "shutdown" /\ i = 2) \/ (j = "del" /\ i = 1)
    /\ Prog[j][i] = "read" <=>
           (j = "unload" /\ i = 7) \/ (j = "shutdown" /\ i = 3) \/ (j = "del" /\ i = 2)
    /\ Prog[j][i] = "close" <=> (j = "unload" /\ i = 12) \/ (j = "mode" /\ i = 5)
    /\ Prog[j][i] = "close_wait" <=> (j = "unload" /\ i = 13) \/ (j = "mode" /\ i = 6)
    /\ Prog[j][i] = "close_netdev" <=> (j = "unload" /\ i = 14) \/ (j = "mode" /\ i = 7)
    /\ Prog[j][i] = "close_destroy" <=> (j = "unload" /\ i = 15) \/ (j = "mode" /\ i = 8)
    /\ Prog[j][i] = "wiphy" <=> (j = "unload" /\ i = 16)
    /\ Prog[j][i] = "clear_unloading" <=> (j = "unload" /\ i = 17)
    /\ Prog[j][i] = "check" <=> (j \in {"shutdown", "reinit"} /\ i = 1)
    /\ Prog[j][i] = "resume" <=> (j = "reinit" /\ i = 2)
    /\ Prog[j][i] = "recovered" <=> (j = "reinit" /\ i = 3)
    /\ Prog[j][i] = "trans_start" <=> (j \in {"idle", "up", "down"} /\ i = 1)
    /\ Prog[j][i] = "idle_done" <=> (j = "idle" /\ i = 4) \/ (j = "idle_busy" /\ i = 1)
    /\ Prog[j][i] = "validate" <=> (j = "mode" /\ i = 4)
    /\ Prog[j][i] = "open_dev" <=> (j = "up" /\ i = 3)
    /\ Prog[j][i] = "stop_dev" <=> (j = "down" /\ i = 3)
    /\ Prog[j][i] = "op_start" <=> (j = "op" /\ i = 1)
    /\ Prog[j][i] = "op_stop" <=> (j = "op" /\ i = 2)
<1>1. CASE j = "probe"
  BY <1>1, ProbeCalls
<1>2. CASE j = "probe_fail"
  BY <1>2, ShortPrograms
<1>3. CASE j = "unload"
  BY <1>3, UnloadCalls
<1>4. CASE j = "shutdown"
  BY <1>4, ShutdownCalls
<1>5. CASE j = "reinit"
  BY <1>5, ShortPrograms
<1>6. CASE j = "idle"
  BY <1>6, ShortPrograms
<1>7. CASE j = "idle_busy"
  BY <1>7, ShortPrograms
<1>8. CASE j = "mode"
  BY <1>8, ModeCalls
<1>9. CASE j = "mode_fail"
  BY <1>9, ShortPrograms
<1>10. CASE j = "add"
  BY <1>10, ShortPrograms
<1>11. CASE j = "add_fail"
  BY <1>11, ShortPrograms
<1>12. CASE j = "del"
  BY <1>12, DelCalls
<1>13. CASE j = "up"
  BY <1>13, ShortPrograms
<1>14. CASE j = "down"
  BY <1>14, ShortPrograms
<1>15. CASE j = "op"
  BY <1>15, ShortPrograms
<1> QED BY <1>1, <1>2, <1>3, <1>4, <1>5, <1>6, <1>7, <1>8, <1>9, <1>10, <1>11, <1>12, <1>13,
          <1>14, <1>15 DEF Job

LEMMA Lengths ==
  /\ Len(Prog["probe"]) = 9
  /\ Len(Prog["probe_fail"]) = 4
  /\ Len(Prog["unload"]) = 19
  /\ Len(Prog["shutdown"]) = 5
  /\ Len(Prog["reinit"]) = 4
  /\ Len(Prog["idle"]) = 4
  /\ Len(Prog["idle_busy"]) = 1
  /\ Len(Prog["mode"]) = 13
  /\ Len(Prog["mode_fail"]) = 1
  /\ Len(Prog["add"]) = 6
  /\ Len(Prog["add_fail"]) = 3
  /\ Len(Prog["del"]) = 9
  /\ Len(Prog["up"]) = 5
  /\ Len(Prog["down"]) = 5
  /\ Len(Prog["op"]) = 2
BY ShortPrograms, ProbeCalls, UnloadCalls, ShutdownCalls, ModeCalls, DelCalls

LEMMA LengthOf ==
  ASSUME NEW j \in Job
  PROVE  Len(Prog[j]) =
           IF j = "mode" THEN 13 ELSE IF j = "unload" THEN 19
           ELSE IF j \in {"probe", "del"} THEN 9 ELSE IF j = "add" THEN 6
           ELSE IF j \in {"shutdown", "up", "down"} THEN 5
           ELSE IF j \in {"probe_fail", "reinit", "idle"} THEN 4
           ELSE IF j = "add_fail" THEN 3 ELSE IF j = "op" THEN 2 ELSE 1
BY Lengths DEF Job
----------------------------------------------------------------------------
(* The inductive invariant. *)

\* The program has a transition: started, perhaps still to be granted, and not
\* stopped.
InTrans(c) ==
  \/ job[c] = "probe" /\ step[c] \in 3..9
  \/ job[c] = "probe_fail" /\ step[c] \in 1..3
  \/ job[c] = "unload" /\ step[c] \in 3..4 \cup 9..18
  \/ job[c] = "shutdown" /\ step[c] = 5
  \/ job[c] = "idle" /\ step[c] \in 2..3
  \/ job[c] = "mode" /\ step[c] \in 3..13
  \/ job[c] = "mode_fail"
  \/ job[c] = "add" /\ step[c] \in 3..5
  \/ job[c] = "add_fail" /\ step[c] = 1
  \/ job[c] = "del" /\ step[c] \in 4..7
  \/ job[c] \in {"up", "down"} /\ step[c] \in 2..4

\* Where it may still be waiting for it.
MayWait(c) ==
  \/ job[c] = "unload" /\ step[c] \in {3, 9}
  \/ job[c] = "shutdown" /\ step[c] = 5
  \/ job[c] = "mode" /\ step[c] = 3
  \/ job[c] = "del" /\ step[c] = 4

InOp(c) == job[c] = "op" /\ step[c] = 2

\* A thread is inside the core only where its program has a transition or an
\* operation; what a reinit has, and leaves, is the subject of other properties.
PcRow(c) ==
  /\ pc[c] \in {"queued", "granted"} => MayWait(c)
  /\ pc[c] = "op" <=> InOp(c)
  /\ InTrans(c) => pc[c] # "idle"
  /\ job[c] \notin {None, "reinit"} /\ ~InTrans(c) /\ ~InOp(c) => pc[c] = "idle"
  /\ pc[c] # "aborted"

HasRtnl(c) ==
  \/ job[c] \in {"add", "add_fail", "del", "up", "down"}
  \/ job[c] = "probe" /\ step[c] \in 6..8
  \/ job[c] = "mode" /\ step[c] \in 10..12

\* Where a thread has an interface's entry in vsync: it closes it or has just
\* opened it; while it has to take rtnl before it can destroy it, it is barred.
Barred(c) == (job[c] = "unload" /\ step[c] \in 13..14) \/ (job[c] = "mode" /\ step[c] \in 6..7)
Closes(c) == (job[c] = "unload" /\ step[c] = 15) \/ (job[c] = "mode" /\ step[c] = 8)
Opens(c) == (job[c] = "probe" /\ step[c] = 7) \/ (job[c] = "mode" /\ step[c] = 11)

JobRow(c) ==
  /\ job[c] # None => job[c] \in Job /\ step[c] \in 1 .. Len(Prog[job[c]])
  /\ PcRow(c)
  /\ rtnl = c <=> HasRtnl(c)
  /\ vsync[c] # None <=> Barred(c) \/ Closes(c) \/ Opens(c)
  /\ job[c] \in {"del", "up", "down"} => dev[c] \in NetDev
  /\ job[c] \notin {None, "op", "del", "up", "down"} => dev[c] \in Dev

JobTypes ==
  /\ job \in [Caller -> Job \cup {None}] /\ step \in [Caller -> Nat]
  /\ dev \in [Caller -> Dev \cup NetDev \cup {None}]
  /\ sync \in [Caller -> Sync \cup {None}] /\ vsync \in [Caller -> VdevSync \cup {None}]
  /\ ptr \in [Caller -> Node \cup {None}]

JobInv ==
  /\ JobTypes /\ rtnl \in Caller \cup {None}
  /\ \A c \in Caller : JobRow(c)
  /\ \A c, d \in Caller : PlatformCall(c) /\ PlatformCall(d) => c = d

RegType ==
  /\ inUse \subseteq Sync
  /\ key \in [Sync -> Dev \cup NetDev \cup {None}] /\ ctx \in [Sync -> Psoc \cup Vdev \cup {None}]
  /\ \A s \in PsocSync : key[s] \notin NetDev /\ ctx[s] \notin Vdev
  /\ \A s \in VdevSync : key[s] \notin Dev /\ ctx[s] \notin Psoc

\* Where a thread's entry is not registered, and its own to register or destroy.
Owner(c) ==
  \/ job[c] = "probe" /\ step[c] \in 2..3
  \/ job[c] = "probe_fail" /\ step[c] \in 2..4
  \/ job[c] = "unload" /\ step[c] \in 10..19
  \/ job[c] = "add" /\ step[c] \in 2..4
  \/ job[c] = "add_fail" /\ step[c] \in 1..2
  \/ job[c] = "del" /\ step[c] \in 6..8

\* Where a thread has looked its radio's, its interface's entry up.
Knows(c) ==
  \/ job[c] = "probe" /\ step[c] \in 4..9
  \/ job[c] = "probe_fail" /\ step[c] = 1
  \/ job[c] = "unload" /\ step[c] \in 7..9
  \/ job[c] = "shutdown" /\ step[c] \in 3..5
  \/ job[c] = "reinit" /\ step[c] \in 3..4

Seeks(c) == job[c] = "del" /\ step[c] \in 2..5

Mine(c) == {s \in Sync : (Owner(c) /\ s = sync[c]) \/ s = vsync[c]}

OwnKind(j) == IF j \in {"add", "add_fail", "del"} THEN VdevSync ELSE PsocSync

OwnInv ==
  /\ \A c \in Caller : Owner(c) => sync[c] \in OwnKind(job[c])
  /\ \A c, d \in Caller : c # d => Mine(c) \cap Mine(d) = {}
  /\ UNION {Mine(c) : c \in Caller} = {s \in inUse : key[s] = None}

\* What a thread has looked up is still what it was; an interface that somebody
\* is about to take away is held back by rtnl.
SeekRow(c) ==
  /\ Knows(c) => sync[c] \in inUse \cap PsocSync /\ key[sync[c]] = dev[c]
  /\ Seeks(c) => /\ sync[c] \in inUse \cap VdevSync
                 /\ key[sync[c]] = dev[c] \/ \E d \in Caller : Barred(d) /\ vsync[d] = sync[c]

PlaceRow(c) ==
  /\ job[c] \in {"unload", "mode"} /\ step[c] = 2 => ptr[c] = Driver
  /\ (job[c] = "unload" /\ step[c] = 8) \/ (job[c] = "shutdown" /\ step[c] = 4)
       \/ (job[c] = "del" /\ step[c] = 3) => ptr[c] = ctx[sync[c]]
  /\ (job[c] = "unload" /\ step[c] \in 3..4) \/ (job[c] = "mode" /\ step[c] \in 3..13) => at[c] = Driver
  /\ (job[c] = "unload" /\ step[c] \in 9..18) \/ (job[c] = "shutdown" /\ step[c] = 5) => at[c] \in Psoc
  /\ job[c] = "del" /\ step[c] \in 4..5 => at[c] = ctx[sync[c]]

SyncInv ==
  /\ RegType /\ RegistrySound /\ OwnInv
  /\ \A c \in Caller : SeekRow(c) /\ PlaceRow(c)

HddInv == Core /\ JobInv /\ SyncInv

----------------------------------------------------------------------------
(* What a step does to the program of its thread, and leaves to the others. *)

LEMMA NoJob == None \notin Job
BY JobsAssumption, ProgJobs

LEMMA Position ==
  ASSUME JobInv, NEW c \in Caller, NEW call, At(c, call)
  PROVE  /\ job[c] \in Job /\ step[c] \in 1 .. Len(Prog[job[c]])
         /\ Prog[job[c]][step[c]] = call /\ JobRow(c)
BY DEF JobInv, JobRow, At

Others(c) ==
  \A d \in Caller \ {c} :
    /\ job'[d] = job[d] /\ step'[d] = step[d] /\ dev'[d] = dev[d]
    /\ sync'[d] = sync[d] /\ ptr'[d] = ptr[d] /\ vsync'[d] = vsync[d]

Moved(c, j, i, k, s, p, v) ==
  /\ job'[c] = j /\ step'[c] = i /\ dev'[c] = k /\ sync'[c] = s /\ ptr'[c] = p /\ vsync'[c] = v
  /\ Others(c) /\ JobTypes'

Returned(c) ==
  IF job[c] = "shutdown" THEN Moved(c, "reinit", 1, dev[c], None, None, None)
  ELSE Moved(c, None, 0, None, None, None, None)

LEMMA Returns ==
  ASSUME JobTypes, NEW c \in Caller, Return(c)
  PROVE  Returned(c)
BY DEF JobTypes, Return, Goto, Returned, Moved, Others, Job

LEMMA Advances ==
  ASSUME JobTypes, NEW c \in Caller, job[c] \in Job, Advance(c)
  PROVE  IF step[c] = Len(Prog[job[c]]) THEN Returned(c)
         ELSE Moved(c, job[c], step[c] + 1, dev[c], sync[c], ptr[c], vsync[c])
<1>1. CASE step[c] = Len(Prog[job[c]])
  BY <1>1, Returns DEF Advance
<1>2. CASE step[c] # Len(Prog[job[c]])
  <2>1. Goto(c, job[c], step[c] + 1) /\ UNCHANGED <<dev, sync, ptr, vsync>>
    BY <1>2 DEF Advance
  <2> QED BY <1>2, <2>1 DEF JobTypes, Goto, Moved, Others
<1> QED BY <1>1, <1>2

LEMMA Fails ==
  ASSUME JobTypes, NEW c \in Caller, job[c] \in {"probe", "add", "mode", "idle"}, Fail(c)
  PROVE  LET j == IF job[c] = "probe" THEN "probe_fail" ELSE IF job[c] = "add" THEN "add_fail"
                  ELSE IF job[c] = "mode" THEN "mode_fail" ELSE "idle_busy" IN
         Moved(c, j, 1, dev[c], sync[c], ptr[c], vsync[c])
BY DEF JobTypes, Fail, FailOf, Goto, Moved, Others, Job

LEMMA Uses ==
  ASSUME JobTypes, NEW c \in Caller, job[c] \in Job, NEW s \in Sync, Use(c, s)
  PROVE  Moved(c, job[c], step[c] + 1, dev[c], s, ptr[c], vsync[c])
BY DEF JobTypes, Use, Goto, Moved, Others

LEMMA PlatformCalls ==
  ASSUME JobInv, NEW c \in Caller
  PROVE  PlatformCall(c) <=> \/ job[c] \in {"probe", "probe_fail", "shutdown", "reinit"}
                             \/ job[c] = "unload" /\ step[c] > 5
<1>1. CASE job[c] = "unload"
  <2>1. step[c] \in 1 .. 19
    BY <1>1, NoJob, Lengths DEF JobInv, JobRow, Job
  <2>2. \A i \in 1 .. 19 : Prog["unload"][i] = "platform" <=> i = 5
    BY UnloadCalls
  <2>3. (\E i \in 1 .. (step[c] - 1) : Prog["unload"][i] = "platform") <=> step[c] > 5
    BY <2>1, <2>2
  <2> QED BY <1>1, <2>3 DEF PlatformCall
<1>2. CASE job[c] # "unload"
  BY <1>2 DEF PlatformCall
<1> QED BY <1>1, <1>2

\* The thread makes the last call of its program.
Last(c) ==
  \/ job[c] = "mode" /\ step[c] = 13
  \/ job[c] = "unload" /\ step[c] = 19
  \/ job[c] \in {"probe", "del"} /\ step[c] = 9
  \/ job[c] = "add" /\ step[c] = 6
  \/ job[c] \in {"shutdown", "up", "down"} /\ step[c] = 5
  \/ job[c] \in {"probe_fail", "reinit", "idle"} /\ step[c] = 4
  \/ job[c] = "add_fail" /\ step[c] = 3
  \/ job[c] = "op" /\ step[c] = 2
  \/ job[c] \in {"idle_busy", "mode_fail"} /\ step[c] = 1

LEMMA LastCall ==
  ASSUME NEW c \in Caller, job[c] \in Job
  PROVE  Last(c) <=> step[c] = Len(Prog[job[c]])
<1>1. CASE job[c] \in {"probe", "probe_fail", "unload", "shutdown", "reinit"}
  BY <1>1, LengthOf DEF Last
<1>2. CASE job[c] \in {"idle", "idle_busy", "mode", "mode_fail", "add"}
  BY <1>2, LengthOf DEF Last
<1>3. CASE job[c] \in {"add_fail", "del", "up", "down", "op"}
  BY <1>3, LengthOf DEF Last
<1> QED BY <1>1, <1>2, <1>3 DEF Job

----------------------------------------------------------------------------
(* Steps of one thread that leave the registry alone. *)

\* What a step may do to the other threads: let one go on that is queued.
OthersInside(c) ==
  \A d \in Caller \ {c} :
    at'[d] = at[d] /\ (pc'[d] = pc[d] \/ (pc[d] = "queued" /\ pc'[d] = "granted"))

RtnlStep(c) == rtnl' = rtnl \/ (rtnl = None /\ rtnl' = c) \/ (rtnl = c /\ rtnl' = None)

LEMMA OtherRows ==
  ASSUME JobInv, NEW c \in Caller, Others(c), OthersInside(c), RtnlStep(c),
         NEW d \in Caller \ {c}
  PROVE  /\ JobRow(d)' /\ (PlatformCall(d)' <=> PlatformCall(d))
         /\ (Owner(d)' <=> Owner(d)) /\ (Knows(d)' <=> Knows(d)) /\ (Seeks(d)' <=> Seeks(d))
         /\ (Barred(d)' <=> Barred(d)) /\ (HasRtnl(d)' <=> HasRtnl(d))
         /\ Mine(d)' = Mine(d)
<1>1. job'[d] = job[d] /\ step'[d] = step[d] /\ dev'[d] = dev[d] /\ sync'[d] = sync[d]
      /\ vsync'[d] = vsync[d]
  BY DEF Others
<1>2. pc'[d] = pc[d] \/ (pc[d] = "queued" /\ pc'[d] = "granted")
  BY DEF OthersInside
<1>3. JobRow(d) BY DEF JobInv
<1>4. (InTrans(d)' <=> InTrans(d)) /\ (MayWait(d)' <=> MayWait(d)) /\ (InOp(d)' <=> InOp(d))
  BY <1>1 DEF InTrans, MayWait, InOp
<1>5. PcRow(d)'
  BY <1>1, <1>2, <1>3, <1>4 DEF JobRow, PcRow, InTrans, MayWait, InOp
<1>6. /\ (Barred(d)' <=> Barred(d)) /\ (HasRtnl(d)' <=> HasRtnl(d))
      /\ (Closes(d)' <=> Closes(d)) /\ (Opens(d)' <=> Opens(d))
  BY <1>1 DEF Barred, HasRtnl, Closes, Opens
<1>7. rtnl' = d <=> rtnl = d
  BY NoneIsFresh DEF RtnlStep
<1>8. JobRow(d)'
  BY <1>1, <1>3, <1>5, <1>6, <1>7 DEF JobRow
<1>9. (Owner(d)' <=> Owner(d)) /\ (Knows(d)' <=> Knows(d)) /\ (Seeks(d)' <=> Seeks(d))
  BY <1>1 DEF Owner, Knows, Seeks
<1>10. PlatformCall(d)' <=> PlatformCall(d)
  BY <1>1 DEF PlatformCall
<1>11. Mine(d)' = Mine(d)
  BY <1>1, <1>9 DEF Mine
<1> QED BY <1>6, <1>8, <1>9, <1>10, <1>11

LEMMA JobStep ==
  ASSUME JobInv, NEW c \in Caller, JobTypes', Others(c), OthersInside(c), RtnlStep(c), JobRow(c)',
         PlatformCall(c)' => PlatformCall(c) \/ PlatformIdle
  PROVE  JobInv'
<1>1. \A d \in Caller : JobRow(d)'
  BY OtherRows
<1>2. \A d \in Caller \ {c} : PlatformCall(d)' <=> PlatformCall(d)
  BY OtherRows
<1>3. \A d, e \in Caller : PlatformCall(d)' /\ PlatformCall(e)' => d = e
  BY <1>2 DEF JobInv, PlatformIdle
<1>4. rtnl' \in Caller \cup {None}
  BY DEF RtnlStep, JobInv
<1> QED BY <1>1, <1>3, <1>4 DEF JobInv

\* The step of a thread that keeps what it owns and what it has looked up.
Keeps(c) ==
  /\ Owner(c)' <=> Owner(c)
  /\ Owner(c) => sync'[c] = sync[c] /\ OwnKind(job'[c]) = OwnKind(job[c])
  /\ vsync'[c] = vsync[c]
  /\ Knows(c)' => sync'[c] \in inUse \cap PsocSync /\ key[sync'[c]] = dev'[c]
  /\ Seeks(c)' => \/ Seeks(c) /\ sync'[c] = sync[c] /\ dev'[c] = dev[c]
                  \/ sync'[c] \in inUse \cap VdevSync /\ key[sync'[c]] = dev'[c]
  /\ Barred(c) => rtnl = None \/ Barred(c)'
  /\ PlaceRow(c)'

LEMMA QuietStep ==
  ASSUME HddInv, Core', NEW c \in Caller, JobTypes', Others(c), OthersInside(c), RtnlStep(c),
         JobRow(c)', PlatformCall(c)' => PlatformCall(c) \/ PlatformIdle,
         UNCHANGED <<inUse, key, ctx, attached>>, Keeps(c)
  PROVE  HddInv'
<1>1. JobInv'
  BY JobStep DEF HddInv
<1>2. RegType' /\ RegistrySound'
  BY DEF HddInv, SyncInv, RegType, RegistrySound
<1>3. \A d \in Caller : Mine(d)' = Mine(d)
  <2>1. Mine(c)' = Mine(c)
    BY DEF Mine, Keeps
  <2> QED BY <2>1, OtherRows DEF HddInv
<1>4. OwnInv'
  <2>1. ASSUME NEW d \in Caller, Owner(d)'
        PROVE  sync'[d] \in OwnKind(job'[d])
    <3>1. CASE d = c
      BY <2>1, <3>1 DEF HddInv, SyncInv, OwnInv, Keeps
    <3>2. CASE d # c
      <4>1. Owner(d) /\ sync'[d] = sync[d] /\ job'[d] = job[d]
        BY <2>1, <3>2, OtherRows DEF HddInv, Others
      <4> QED BY <4>1 DEF HddInv, SyncInv, OwnInv
    <3> QED BY <3>1, <3>2
  <2>2. \A d, e \in Caller : d # e => Mine(d)' \cap Mine(e)' = {}
    BY <1>3 DEF HddInv, SyncInv, OwnInv
  <2>3. UNION {Mine(d)' : d \in Caller} = {s \in inUse' : key'[s] = None}
    BY <1>3 DEF HddInv, SyncInv, OwnInv
  <2> QED BY <2>1, <2>2, <2>3 DEF OwnInv, OwnKind
<1>5. ASSUME NEW d \in Caller
      PROVE  SeekRow(d)' /\ PlaceRow(d)'
  <2>1. \A e \in Caller : (e # c \/ Barred(c)' \/ ~Barred(c)) /\ Barred(e) => Barred(e)' /\ vsync'[e] = vsync[e]
    BY OtherRows DEF HddInv, Keeps, Others
  <2>2. \A e \in Caller : Seeks(e) => rtnl = e
    BY DEF HddInv, JobInv, JobRow, Seeks, HasRtnl
  <2>3. Seeks(d) => \A e \in Caller : Barred(e) => Barred(e)' /\ vsync'[e] = vsync[e]
    BY <2>1, <2>2, NoneIsFresh DEF Keeps
  <2>4. ASSUME Seeks(d), Seeks(d)', sync'[d] = sync[d], dev'[d] = dev[d]
        PROVE  sync'[d] \in inUse' \cap VdevSync
               /\ (key'[sync'[d]] = dev'[d] \/ \E e \in Caller : Barred(e)' /\ vsync'[e] = sync'[d])
    BY <2>3, <2>4 DEF HddInv, SyncInv, SeekRow
  <2>5. CASE d = c
    BY <2>4, <2>5 DEF Keeps, SeekRow
  <2>6. CASE d # c
    <3>1. /\ job'[d] = job[d] /\ step'[d] = step[d] /\ dev'[d] = dev[d]
          /\ sync'[d] = sync[d] /\ ptr'[d] = ptr[d] /\ at'[d] = at[d]
      BY <2>6 DEF Others, OthersInside
    <3>2. (Knows(d)' <=> Knows(d)) /\ (Seeks(d)' <=> Seeks(d))
      BY <2>6, OtherRows DEF HddInv
    <3>3. PlaceRow(d)'
      BY <3>1 DEF HddInv, SyncInv, PlaceRow
    <3>4. Knows(d)' => sync'[d] \in inUse' \cap PsocSync /\ key'[sync'[d]] = dev'[d]
      BY <3>1, <3>2 DEF HddInv, SyncInv, SeekRow
    <3> QED BY <2>4, <3>1, <3>2, <3>3, <3>4 DEF SeekRow
  <2> QED BY <2>5, <2>6
<1> QED BY <1>1, <1>2, <1>4, <1>5 DEF HddInv, SyncInv

----------------------------------------------------------------------------
(* The core, under the calls of the programs. *)

LEMMA CoreQuiet ==
  ASSUME Core, UNCHANGED <<attached, active, queue, ops, signalled, pc, at, todo, on>>,
         recovering' \in BOOLEAN, unloading' \in BOOLEAN
  PROVE  Core'
<1>1. TypeOK'
  BY DEF Core, TypeOK, QueueAccounting
<1>2. TreeExclusion' /\ GrantConsistency'
  BY DEF Core, TreeExclusion, GrantConsistency, Active, Owns
<1> QED BY <1>1, <1>2 DEF Core


LEMMA Unmoved ==
  ASSUME UNCHANGED vars, NEW c \in Caller
  PROVE  OthersInside(c) /\ pc' = pc /\ at' = at /\ attached' = attached
BY DEF vars, OthersInside

LEMMA InsideStart ==
  ASSUME Core, NEW c \in Caller, NEW n, TransStart(c, n)
  PROVE  /\ Core' /\ OthersInside(c) /\ attached' = attached
         /\ n \in attached /\ n \in Node /\ pc'[c] = "holding" /\ at'[c] = n
<1>1. n \in Node /\ n \in attached
  BY DEF TransStart, Core, TypeOK
<1>2. Core'
  BY <1>1, CoreTransStart
<1> QED BY <1>1, <1>2 DEF TransStart, OthersInside, Core, TypeOK

LEMMA InsideStartWait ==
  ASSUME Core, NEW c \in Caller, NEW n, TransStartWait(c, n)
  PROVE  /\ Core' /\ OthersInside(c) /\ attached' = attached
         /\ n \in attached /\ n \in Node /\ pc'[c] = "queued" /\ at'[c] = n
<1>1. n \in Node /\ n \in attached
  BY DEF TransStartWait, Core, TypeOK
<1>2. Core'
  BY <1>1, CoreTransStartWait
<1> QED BY <1>1, <1>2 DEF TransStartWait, OthersInside, Core, TypeOK

LEMMA InsideOpStart ==
  ASSUME Core, NEW c \in Caller, NEW n, OpStart(c, n)
  PROVE  Core' /\ OthersInside(c) /\ attached' = attached /\ pc'[c] = "op"
<1>1. n \in Node
  BY DEF OpStart, Core, TypeOK
<1>2. Core'
  BY <1>1, CoreRest
<1> QED BY <1>1, <1>2 DEF OpStart, OthersInside, Core, TypeOK

LEMMA InsideOpStop ==
  ASSUME Core, NEW c \in Caller, OpStop(c)
  PROVE  Core' /\ OthersInside(c) /\ attached' = attached /\ pc'[c] = "idle"
<1>1. ~TransStop(c)
  BY DEF OpStop, TransStop
<1>2. Core'
  BY <1>1, CoreProceed DEF Proceed
<1> QED BY <1>2 DEF OpStop, OthersInside, Core, TypeOK

LEMMA InsideStop ==
  ASSUME Core, NEW c \in Caller, TransStop(c)
  PROVE  Core' /\ OthersInside(c) /\ attached' = attached /\ pc'[c] = "idle"
<1> DEFINE n == at[c]
           T == Triggers(n)
<1>1. n \in Node /\ Active(n) /\ active[n] = c
  <2>1. Owns(c) /\ n \in Node
    BY DEF TransStop, Owns, Core, TypeOK
  <2> QED BY <2>1, NoneIsFresh DEF Core, GrantConsistency, Active
<1>2. \A m \in T : pc[Head(queue[m])] = "queued"
  BY <1>1, HeadsAsleep
<1>3. Core'
  BY CoreTransStop
<1>4. pc' = [d \in Caller |-> IF \E m \in T : d = Head(queue[m]) THEN "granted"
                              ELSE IF d = c THEN "idle" ELSE pc[d]]
  BY DEF TransStop
<1>5. pc[c] # "queued"
  BY DEF TransStop
<1>6. pc'[c] = "idle"
  BY <1>2, <1>4, <1>5
<1>7. OthersInside(c)
  <2> SUFFICES ASSUME NEW d \in Caller \ {c}
               PROVE  at'[d] = at[d] /\ (pc'[d] = pc[d] \/ (pc[d] = "queued" /\ pc'[d] = "granted"))
    BY DEF OthersInside
  <2>1. at'[d] = at[d]
    BY DEF TransStop, Core, TypeOK
  <2> QED BY <2>1, <1>2, <1>4
<1> QED BY <1>3, <1>6, <1>7 DEF TransStop

LEMMA InsideWait ==
  ASSUME Core, NEW c \in Caller, NEW n, WaitForOps(c, n)
  PROVE  /\ Core' /\ OthersInside(c) /\ attached' = attached /\ at' = at
         /\ pc[c] \in {"holding", "drained"} /\ pc'[c] = "draining"
<1>1. n \in Node
  BY DEF WaitForOps, Core, TypeOK
<1>2. WaitForOps(c, n) => Drain(c)
  BY <1>1 DEF Drain
<1>4. attached' = attached /\ active' = active /\ queue' = queue /\ pc' = [pc EXCEPT ![c] = "draining"]
      /\ at' = at /\ pc[c] \in {"holding", "drained"}
  BY DEF WaitForOps
<1>5. active' = active /\ pc'[c] # "idle"
  BY <1>4 DEF Core, TypeOK
<1>6. ~TransStop(c)
  BY <1>5 DEF TransStop, WaitForOps, Core, TypeOK
<1>7. Core'
  BY <1>2, <1>6, CoreProceed DEF Proceed
<1> QED BY <1>7, <1>4 DEF OthersInside, Core, TypeOK

LEMMA InsideDrain ==
  ASSUME Core, NEW c \in Caller,
         WaitGranted(c) \/ Wake(c) \/ Drained(c) \/ \E n \in Node : VisitQuiet(c, n) \/ VisitBusy(c, n)
  PROVE  /\ Core' /\ OthersInside(c) /\ attached' = attached /\ at' = at
         /\ pc[c] \in {"granted", "draining", "sleeping"}
         /\ pc'[c] \in {"holding", "draining", "sleeping", "drained"}
<1>1. pc[c] \in {"granted", "draining", "sleeping"}
  BY DEF WaitGranted, Wake, Drained, VisitQuiet, VisitBusy
<1>2. ~TransStop(c)
  BY <1>1 DEF TransStop
<1>3. Proceed(c)
  BY DEF Proceed, Drain
<1>4. Core'
  BY <1>2, <1>3, CoreProceed
<1>5. /\ attached' = attached /\ at' = at
      /\ \/ pc' = pc /\ pc[c] = "draining"
         \/ \E x \in {"holding", "draining", "sleeping", "drained"} : pc' = [pc EXCEPT ![c] = x]
  BY DEF WaitGranted, Wake, Drained, VisitQuiet, VisitBusy
<1> QED BY <1>1, <1>4, <1>5 DEF OthersInside, Core, TypeOK

----------------------------------------------------------------------------
(* The calls that leave the registry alone, one by one. *)

\* A call that succeeds or fails leaves its thread with the row of its next
\* place in the program.
LEMMA Quiet ==
  ASSUME HddInv, Core', NEW c \in Caller, NEW j, NEW i, NEW k, NEW s, NEW p, NEW v,
         Moved(c, j, i, k, s, p, v), OthersInside(c), RtnlStep(c), attached' = attached,
         UNCHANGED syncVars, JobRow(c)', PlatformCall(c)' => PlatformCall(c) \/ PlatformIdle,
         Keeps(c)
  PROVE  HddInv'
BY QuietStep DEF Moved, syncVars

LEMMA PlatformPrimed ==
  ASSUME NEW c \in Caller, JobRow(c)'
  PROVE  PlatformCall(c)' <=> \/ job'[c] \in {"probe", "probe_fail", "shutdown", "reinit"}
                              \/ job'[c] = "unload" /\ step'[c] > 5
<1>1. CASE job'[c] = "unload"
  <2>1. step'[c] \in 1 .. 19
    BY <1>1, NoJob, Lengths DEF JobRow, Job
  <2>2. \A i \in 1 .. 19 : Prog["unload"][i] = "platform" <=> i = 5
    BY UnloadCalls
  <2>3. (\E i \in 1 .. (step'[c] - 1) : Prog["unload"][i] = "platform") <=> step'[c] > 5
    BY <2>1, <2>2
  <2> QED BY <1>1, <2>3 DEF PlatformCall
<1>2. CASE job'[c] # "unload"
  BY <1>2 DEF PlatformCall
<1> QED BY <1>1, <1>2

\* The end of a program.
LEMMA ReturnStep ==
  ASSUME HddInv, Core', NEW c \in Caller, Returned(c), OthersInside(c),
         rtnl' = rtnl \/ (rtnl = c /\ rtnl' = None), rtnl' # c, attached' = attached,
         UNCHANGED syncVars, ~Owner(c), ~Opens(c), ~Barred(c), ~Closes(c),
         pc'[c] \notin {"queued", "granted", "op", "aborted"}
  PROVE  HddInv'
<1>1. CASE job[c] = "shutdown"
  <2>1. Moved(c, "reinit", 1, dev[c], None, None, None)
    BY <1>1 DEF Returned
  <2>2. job'[c] = "reinit" /\ step'[c] = 1 /\ dev'[c] = dev[c] /\ dev[c] \in Dev /\ vsync'[c] = None
    BY <1>1, <2>1, NoJob DEF Moved, HddInv, JobInv, JobRow, Job
  <2>3. vsync[c] = None
    BY DEF HddInv, JobInv, JobRow
  <2>4. JobRow(c)'
    BY <2>2, NoJob, Lengths DEF JobRow, PcRow, InTrans, MayWait, InOp, HasRtnl, Barred, Closes, Opens, Job
  <2>5. Keeps(c)
    BY <2>2, <2>3 DEF Keeps, Owner, Knows, Seeks, Barred, PlaceRow
  <2>6. PlatformCall(c)
    BY <1>1 DEF PlatformCall
  <2> QED BY <2>1, <2>4, <2>5, <2>6, Quiet DEF RtnlStep
<1>2. CASE job[c] # "shutdown"
  <2>1. Moved(c, None, 0, None, None, None, None)
    BY <1>2 DEF Returned
  <2>2. job'[c] = None /\ step'[c] = 0 /\ vsync'[c] = None
    BY <2>1 DEF Moved
  <2>3. vsync[c] = None
    BY DEF HddInv, JobInv, JobRow
  <2>4. JobRow(c)'
    BY <2>2, NoJob DEF JobRow, PcRow, InTrans, MayWait, InOp, HasRtnl, Barred, Closes, Opens, Job
  <2>5. Keeps(c)
    BY <2>2, <2>3, NoJob DEF Keeps, Owner, Knows, Seeks, Barred, PlaceRow, Job
  <2>6. ~PlatformCall(c)'
    BY <2>2, NoJob DEF PlatformCall, Job
  <2> QED BY <2>1, <2>4, <2>5, <2>6, Quiet DEF RtnlStep
<1> QED BY <1>1, <1>2

LEMMA AdvancesOn ==
  ASSUME JobTypes, NEW c \in Caller, job[c] \in Job, Advance(c), step[c] # Len(Prog[job[c]]),
         NEW i, i = step[c] + 1
  PROVE  Moved(c, job[c], i, dev[c], sync[c], ptr[c], vsync[c])
BY Advances

LEMMA AdvancesOut ==
  ASSUME JobTypes, NEW c \in Caller, job[c] \in Job, Advance(c), step[c] = Len(Prog[job[c]])
  PROVE  Returned(c)
BY Advances

\* *_trans_start, a lookup or a check that fails.
LEMMA AbandonStep ==
  ASSUME HddInv, NEW c \in Caller, NEW call, Calls(c, call), Abandon(c),
         UNCHANGED <<vars, syncVars>>, ~InOp(c), ~Owner(c), ~Opens(c), ~Barred(c), ~Closes(c)
  PROVE  HddInv'
<1>1. Core'
  BY CoreQuiet DEF HddInv, vars, platform, Core, TypeOK
<1>2. pc[c] \in {"idle", "holding", "drained"}
  BY DEF Calls, HddInv, JobInv, JobRow, PcRow
<1>3. Returned(c)
  BY Returns DEF Abandon, HddInv, JobInv
<1>4. rtnl' = IF rtnl = c THEN None ELSE rtnl
  BY DEF Abandon
<1> QED BY <1>1, <1>2, <1>3, <1>4, Unmoved, ReturnStep, NoneIsFresh

\* The step of a thread that goes on to the next call of its program.
LEMMA OnwardStep ==
  ASSUME HddInv, Core', NEW c \in Caller, OthersInside(c), RtnlStep(c), attached' = attached,
         UNCHANGED syncVars, job[c] \in Job, step[c] # Len(Prog[job[c]]),
         Moved(c, job[c], step[c] + 1, dev[c], sync[c], ptr[c], vsync[c]),
         PcRow(c)', rtnl' = c <=> HasRtnl(c)', PlaceRow(c)',
         (Barred(c) \/ Closes(c) \/ Opens(c))' <=> Barred(c) \/ Closes(c) \/ Opens(c),
         Owner(c)' <=> Owner(c), Knows(c)' => Knows(c), Seeks(c)' => Seeks(c),
         Barred(c) => rtnl = None \/ Barred(c)',
         job[c] = "unload" /\ step[c] = 5 => PlatformIdle
  PROVE  HddInv'
<1>1. job'[c] = job[c] /\ step'[c] = step[c] + 1 /\ dev'[c] = dev[c] /\ sync'[c] = sync[c]
      /\ vsync'[c] = vsync[c]
  BY DEF Moved
<1>2. JobRow(c) /\ JobTypes
  BY DEF HddInv, JobInv
<1>3. step'[c] \in 1 .. Len(Prog[job'[c]])
  BY <1>1, <1>2, NoJob, LengthOf DEF JobRow
<1>4. JobRow(c)'
  BY <1>1, <1>2, <1>3 DEF JobRow
<1>5. Keeps(c)
  BY <1>1 DEF Keeps, HddInv, SyncInv, SeekRow
<1>6. PlatformCall(c)' => PlatformCall(c) \/ PlatformIdle
  <2>1. step[c] \in Nat
    BY <1>2 DEF JobTypes
  <2>2. PlatformCall(c)' <=> \/ job[c] \in {"probe", "probe_fail", "shutdown", "reinit"}
                             \/ job[c] = "unload" /\ step[c] + 1 > 5
    BY <1>1, <1>4, PlatformPrimed
  <2> QED BY <2>1, <2>2, PlatformCalls DEF HddInv
<1> QED BY <1>4, <1>5, <1>6, Quiet

\* The core is not called.
LEMMA CoreKept ==
  ASSUME HddInv, UNCHANGED vars
  PROVE  Core'
BY CoreQuiet DEF HddInv, vars, platform, Core, TypeOK

LEMMA RowOf ==
  ASSUME HddInv, NEW c \in Caller
  PROVE  JobTypes /\ JobRow(c) /\ PcRow(c) /\ (rtnl = c <=> HasRtnl(c)) /\ SeekRow(c) /\ PlaceRow(c)
BY DEF HddInv, JobInv, JobRow, SyncInv


LEMMA PlatformStep ==
  ASSUME HddInv, NEW c \in Caller, Platform(c)
  PROVE  HddInv'
<1>1. job[c] = "unload" /\ step[c] = 5
  BY Position, Where DEF Platform, Calls, HddInv
<1>2. job[c] \in Job /\ step[c] # Len(Prog[job[c]])
  <2>1. job[c] \in Job
    BY <1>1 DEF Job
  <2>2. ~Last(c)
    BY <1>1 DEF Last
  <2> QED BY <2>1, <2>2, LastCall
<1>3. Moved(c, job[c], step[c] + 1, dev[c], sync[c], ptr[c], vsync[c])
  BY <1>2, AdvancesOn, RowOf DEF Platform
<1>4. /\ Core' /\ OthersInside(c) /\ attached' = attached /\ UNCHANGED syncVars
      /\ rtnl' = rtnl /\ pc' = pc /\ at' = at
  BY CoreKept, Unmoved DEF Platform, kernel, vars
<1>5. job'[c] = job[c] /\ step'[c] = step[c] + 1 /\ sync'[c] = sync[c] /\ ptr'[c] = ptr[c]
  BY <1>3 DEF Moved
<1>0. PcRow(c) /\ (rtnl = c <=> HasRtnl(c)) /\ PlaceRow(c)
      /\ pc[c] \in {"idle", "holding", "drained", "op"}
  BY RowOf DEF Platform, Calls
<1>6. /\ PcRow(c)' /\ (rtnl' = c <=> HasRtnl(c)')
      /\ ((Barred(c) \/ Closes(c) \/ Opens(c))' <=> Barred(c) \/ Closes(c) \/ Opens(c))
      /\ (Owner(c)' <=> Owner(c)) /\ (Knows(c)' => Knows(c)) /\ (Seeks(c)' => Seeks(c))
      /\ (Barred(c) => rtnl = None \/ Barred(c)')
  BY <1>0, <1>1, <1>4, <1>5, NoJob, NoneIsFresh
     DEF Job, PcRow, InTrans, MayWait, InOp, HasRtnl, Barred, Closes, Opens, Owner, Knows, Seeks
<1>7. PlaceRow(c)'
  BY <1>0, <1>1, <1>4, <1>5 DEF PlaceRow, syncVars
<1>8. job[c] = "unload" /\ step[c] = 5 => PlatformIdle
  BY <1>1 DEF Platform
<1> QED BY <1>2, <1>3, <1>4, <1>6, <1>7, <1>8, OnwardStep DEF RtnlStep

LEMMA RtnlLockStep ==
  ASSUME HddInv, NEW c \in Caller, RtnlLock(c)
  PROVE  HddInv'
<1>1. (job[c] = "probe" /\ step[c] = 5) \/ (job[c] = "mode" /\ step[c] = 9)
  BY Position, Where DEF RtnlLock, Calls, HddInv
<1>2. job[c] \in Job /\ step[c] # Len(Prog[job[c]])
  <2>1. job[c] \in Job
    BY <1>1 DEF Job
  <2>2. ~Last(c)
    BY <1>1 DEF Last
  <2> QED BY <2>1, <2>2, LastCall
<1>3. Moved(c, job[c], step[c] + 1, dev[c], sync[c], ptr[c], vsync[c])
  BY <1>2, AdvancesOn, RowOf DEF RtnlLock
<1>4. /\ Core' /\ OthersInside(c) /\ attached' = attached /\ UNCHANGED syncVars
      /\ rtnl = None /\ rtnl' = c /\ pc' = pc /\ at' = at
  BY CoreKept, Unmoved DEF RtnlLock, kernel, vars
<1>5. job'[c] = job[c] /\ step'[c] = step[c] + 1 /\ sync'[c] = sync[c] /\ ptr'[c] = ptr[c]
  BY <1>3 DEF Moved
<1>0. PcRow(c) /\ (rtnl = c <=> HasRtnl(c)) /\ PlaceRow(c)
      /\ pc[c] \in {"idle", "holding", "drained", "op"}
  BY RowOf DEF RtnlLock, Calls
<1>6. /\ PcRow(c)' /\ (rtnl' = c <=> HasRtnl(c)')
      /\ ((Barred(c) \/ Closes(c) \/ Opens(c))' <=> Barred(c) \/ Closes(c) \/ Opens(c))
      /\ (Owner(c)' <=> Owner(c)) /\ (Knows(c)' => Knows(c)) /\ (Seeks(c)' => Seeks(c))
      /\ (Barred(c) => rtnl = None \/ Barred(c)')
  BY <1>0, <1>1, <1>4, <1>5, NoJob, NoneIsFresh
     DEF Job, PcRow, InTrans, MayWait, InOp, HasRtnl, Barred, Closes, Opens, Owner, Knows, Seeks
<1>7. PlaceRow(c)'
  BY <1>0, <1>1, <1>4, <1>5 DEF PlaceRow, syncVars
<1>8. job[c] = "unload" /\ step[c] = 5 => PlatformIdle
  BY <1>1
<1> QED BY <1>2, <1>3, <1>4, <1>6, <1>7, <1>8, OnwardStep DEF RtnlStep

LEMMA UnderRtnlStep ==
  ASSUME HddInv, NEW c \in Caller, UnderRtnl(c)
  PROVE  HddInv'
<1>1. (job[c] = "unload" /\ step[c] \in {14, 16}) \/ (job[c] = "mode" /\ step[c] = 7)
  BY Position, Where DEF UnderRtnl, Calls, HddInv
<1>2. job[c] \in Job /\ step[c] # Len(Prog[job[c]])
  <2>1. job[c] \in Job
    BY <1>1 DEF Job
  <2>2. ~Last(c)
    BY <1>1 DEF Last
  <2> QED BY <2>1, <2>2, LastCall
<1>3. Moved(c, job[c], step[c] + 1, dev[c], sync[c], ptr[c], vsync[c])
  BY <1>2, AdvancesOn, RowOf DEF UnderRtnl
<1>4. /\ Core' /\ OthersInside(c) /\ attached' = attached /\ UNCHANGED syncVars
      /\ rtnl = None /\ rtnl' = rtnl /\ pc' = pc /\ at' = at
  BY CoreKept, Unmoved DEF UnderRtnl, kernel, vars
<1>5. job'[c] = job[c] /\ step'[c] = step[c] + 1 /\ sync'[c] = sync[c] /\ ptr'[c] = ptr[c]
  BY <1>3 DEF Moved
<1>0. PcRow(c) /\ (rtnl = c <=> HasRtnl(c)) /\ PlaceRow(c)
      /\ pc[c] \in {"idle", "holding", "drained", "op"}
  BY RowOf DEF UnderRtnl, Calls
<1>6. /\ PcRow(c)' /\ (rtnl' = c <=> HasRtnl(c)')
      /\ ((Barred(c) \/ Closes(c) \/ Opens(c))' <=> Barred(c) \/ Closes(c) \/ Opens(c))
      /\ (Owner(c)' <=> Owner(c)) /\ (Knows(c)' => Knows(c)) /\ (Seeks(c)' => Seeks(c))
      /\ (Barred(c) => rtnl = None \/ Barred(c)')
  BY <1>0, <1>1, <1>4, <1>5, NoJob, NoneIsFresh
     DEF Job, PcRow, InTrans, MayWait, InOp, HasRtnl, Barred, Closes, Opens, Owner, Knows, Seeks
<1>7. PlaceRow(c)'
  BY <1>0, <1>1, <1>4, <1>5 DEF PlaceRow, syncVars
<1>8. job[c] = "unload" /\ step[c] = 5 => PlatformIdle
  BY <1>1
<1> QED BY <1>2, <1>3, <1>4, <1>6, <1>7, <1>8, OnwardStep DEF RtnlStep

LEMMA RtnlUnlockOpenStep ==
  ASSUME HddInv, NEW c \in Caller, RtnlUnlock(c), job[c] \in {"probe", "mode"}
  PROVE  HddInv'
<1>1. (job[c] = "probe" /\ step[c] = 8) \/ (job[c] = "mode" /\ step[c] = 12)
  BY Position, Where DEF RtnlUnlock, Calls, HddInv
<1>2. job[c] \in Job /\ step[c] # Len(Prog[job[c]])
  <2>1. job[c] \in Job
    BY <1>1 DEF Job
  <2>2. ~Last(c)
    BY <1>1 DEF Last
  <2> QED BY <2>1, <2>2, LastCall
<1>3. Moved(c, job[c], step[c] + 1, dev[c], sync[c], ptr[c], vsync[c])
  BY <1>2, AdvancesOn, RowOf DEF RtnlUnlock
<1>4. /\ Core' /\ OthersInside(c) /\ attached' = attached /\ UNCHANGED syncVars
      /\ rtnl = c /\ rtnl' = None /\ pc' = pc /\ at' = at
  BY <1>1, CoreKept, Unmoved, RowOf DEF RtnlUnlock, vars, HasRtnl
<1>5. job'[c] = job[c] /\ step'[c] = step[c] + 1 /\ sync'[c] = sync[c] /\ ptr'[c] = ptr[c]
  BY <1>3 DEF Moved
<1>0. PcRow(c) /\ (rtnl = c <=> HasRtnl(c)) /\ PlaceRow(c)
      /\ pc[c] \in {"idle", "holding", "drained", "op"}
  BY RowOf DEF RtnlUnlock, Calls
<1>6. /\ PcRow(c)' /\ (rtnl' = c <=> HasRtnl(c)')
      /\ ((Barred(c) \/ Closes(c) \/ Opens(c))' <=> Barred(c) \/ Closes(c) \/ Opens(c))
      /\ (Owner(c)' <=> Owner(c)) /\ (Knows(c)' => Knows(c)) /\ (Seeks(c)' => Seeks(c))
      /\ (Barred(c) => rtnl = None \/ Barred(c)')
  BY <1>0, <1>1, <1>4, <1>5, NoJob, NoneIsFresh
     DEF Job, PcRow, InTrans, MayWait, InOp, HasRtnl, Barred, Closes, Opens, Owner, Knows, Seeks
<1>7. PlaceRow(c)'
  BY <1>0, <1>1, <1>4, <1>5 DEF PlaceRow, syncVars
<1>8. job[c] = "unload" /\ step[c] = 5 => PlatformIdle
  BY <1>1
<1> QED BY <1>2, <1>3, <1>4, <1>6, <1>7, <1>8, OnwardStep DEF RtnlStep

\* cds_set_recovery_in_progress
LEMMA Cleared ==
  ASSUME HddInv, NEW c \in Caller, SetRecovering \/ ClearRecovering \/ UNCHANGED vars
  PROVE  Core' /\ OthersInside(c) /\ attached' = attached /\ pc' = pc /\ at' = at
<1>1. Core'
  BY CoreRest DEF HddInv, ClearRecovering
<1> QED BY <1>1 DEF ClearRecovering, SetRecovering, vars, OthersInside

LEMMA MarkedUnloading ==
  ASSUME HddInv, NEW c \in Caller, MarkUnloading(c)
  PROVE  Core' /\ OthersInside(c) /\ attached' = attached /\ pc' = pc /\ at' = at
<1>1. Core'
  BY CoreQuiet DEF HddInv, MarkUnloading, At, Core, TypeOK
<1> QED BY <1>1 DEF MarkUnloading, OthersInside

\* The context of a radio that has been looked up.
LEMMA KnownPsoc ==
  ASSUME HddInv, NEW c \in Caller, Knows(c)
  PROVE  ctx[sync[c]] \in Psoc
<1>1. sync[c] \in inUse \cap PsocSync
  BY RowOf DEF SeekRow
<1>2. RegType /\ RegistrySound
  BY DEF HddInv, SyncInv
<1>3. ctx[sync[c]] \in attached
  BY <1>1, <1>2 DEF RegistrySound
<1>4. ctx[sync[c]] # None
  BY <1>3, NoneIsFresh DEF HddInv, Core, TypeOK
<1> QED BY <1>1, <1>2, <1>4 DEF RegType, Sync

LEMMA CreateStartStep ==
  ASSUME HddInv, NEW c \in Caller, CreateStart(c)
  PROVE  HddInv'
<1>1. job[c] \in {"probe", "add"} /\ step[c] = 2
  BY Position, Where DEF CreateStart, Calls, HddInv
<1>2. job[c] \in Job /\ step[c] # Len(Prog[job[c]])
  <2>1. job[c] \in Job
    BY <1>1 DEF Job
  <2>2. ~Last(c)
    BY <1>1 DEF Last
  <2> QED BY <2>1, <2>2, LastCall
<1>3. Moved(c, job[c], step[c] + 1, dev[c], sync[c], ptr[c], vsync[c])
  BY <1>2, AdvancesOn, RowOf DEF CreateStart
<1>4. /\ Core' /\ OthersInside(c) /\ attached' = attached /\ UNCHANGED syncVars
      /\ rtnl' = rtnl /\ pc'[c] = "holding"
  BY InsideStart DEF CreateStart, kernel, HddInv
<1>5. job'[c] = job[c] /\ step'[c] = step[c] + 1 /\ sync'[c] = sync[c] /\ ptr'[c] = ptr[c]
  BY <1>3 DEF Moved
<1>0. PcRow(c) /\ (rtnl = c <=> HasRtnl(c)) /\ PlaceRow(c)
      /\ pc[c] \in {"idle", "holding", "drained", "op"}
  BY RowOf DEF CreateStart, Calls
<1>6. /\ PcRow(c)' /\ (rtnl' = c <=> HasRtnl(c)')
      /\ ((Barred(c) \/ Closes(c) \/ Opens(c))' <=> Barred(c) \/ Closes(c) \/ Opens(c))
      /\ (Owner(c)' <=> Owner(c)) /\ (Knows(c)' => Knows(c)) /\ (Seeks(c)' => Seeks(c))
      /\ (Barred(c) => rtnl = None \/ Barred(c)')
  BY <1>0, <1>1, <1>4, <1>5, NoJob, NoneIsFresh
     DEF Job, PcRow, InTrans, MayWait, InOp, HasRtnl, Barred, Closes, Opens, Owner, Knows, Seeks
<1>7. PlaceRow(c)'
  BY <1>0, <1>1, <1>4, <1>5 DEF PlaceRow, syncVars
<1>8. job[c] = "unload" /\ step[c] = 5 => PlatformIdle
  BY <1>1
<1> QED BY <1>2, <1>3, <1>4, <1>6, <1>7, <1>8, OnwardStep DEF RtnlStep

LEMMA WorkOnStep ==
  ASSUME HddInv, NEW c \in Caller, Work(c), Advance(c)
  PROVE  HddInv'
<1>1. (job[c] = "probe" /\ step[c] = 4) \/ (job[c] = "add" /\ step[c] = 3)
  BY Position, Where DEF Work, Calls, HddInv
<1>2. job[c] \in Job /\ step[c] # Len(Prog[job[c]])
  <2>1. job[c] \in Job
    BY <1>1 DEF Job
  <2>2. ~Last(c)
    BY <1>1 DEF Last
  <2> QED BY <2>1, <2>2, LastCall
<1>3. Moved(c, job[c], step[c] + 1, dev[c], sync[c], ptr[c], vsync[c])
  BY <1>2, AdvancesOn, RowOf DEF Work
<1>4. /\ Core' /\ OthersInside(c) /\ attached' = attached /\ UNCHANGED syncVars
      /\ rtnl' = rtnl /\ pc' = pc
  BY Cleared DEF Work, kernel
<1>5. job'[c] = job[c] /\ step'[c] = step[c] + 1 /\ sync'[c] = sync[c] /\ ptr'[c] = ptr[c]
  BY <1>3 DEF Moved
<1>0. PcRow(c) /\ (rtnl = c <=> HasRtnl(c)) /\ PlaceRow(c)
      /\ pc[c] \in {"idle", "holding", "drained", "op"}
  BY RowOf DEF Work, Calls
<1>6. /\ PcRow(c)' /\ (rtnl' = c <=> HasRtnl(c)')
      /\ ((Barred(c) \/ Closes(c) \/ Opens(c))' <=> Barred(c) \/ Closes(c) \/ Opens(c))
      /\ (Owner(c)' <=> Owner(c)) /\ (Knows(c)' => Knows(c)) /\ (Seeks(c)' => Seeks(c))
      /\ (Barred(c) => rtnl = None \/ Barred(c)')
  BY <1>0, <1>1, <1>4, <1>5, NoJob, NoneIsFresh
     DEF Job, PcRow, InTrans, MayWait, InOp, HasRtnl, Barred, Closes, Opens, Owner, Knows, Seeks
<1>7. PlaceRow(c)'
  BY <1>0, <1>1, <1>4, <1>5 DEF PlaceRow, syncVars
<1>8. job[c] = "unload" /\ step[c] = 5 => PlatformIdle
  BY <1>1
<1> QED BY <1>2, <1>3, <1>4, <1>6, <1>7, <1>8, OnwardStep DEF RtnlStep

LEMMA StartStep ==
  ASSUME HddInv, NEW c \in Caller, Start(c)
  PROVE  HddInv'
<1>1. \/ job[c] = "unload" /\ step[c] \in {2, 8}
      \/ job[c] = "shutdown" /\ step[c] = 4
      \/ job[c] = "mode" /\ step[c] = 2
      \/ job[c] = "del" /\ step[c] = 3
  BY Position, Where DEF Start, Calls, HddInv
<1>2. job[c] \in Job /\ step[c] # Len(Prog[job[c]])
  <2>1. job[c] \in Job
    BY <1>1 DEF Job
  <2>2. ~Last(c)
    BY <1>1 DEF Last
  <2> QED BY <2>1, <2>2, LastCall
<1>3. Moved(c, job[c], step[c] + 1, dev[c], sync[c], ptr[c], vsync[c])
  BY <1>2, AdvancesOn, RowOf DEF Start
<1>4. /\ Core' /\ OthersInside(c) /\ attached' = attached /\ UNCHANGED syncVars
      /\ rtnl' = rtnl /\ pc'[c] \in {"holding", "queued"} /\ at'[c] = ptr[c]
  BY InsideStart, InsideStartWait DEF Start, SyncTransStartWait, kernel, HddInv
<1>5. job'[c] = job[c] /\ step'[c] = step[c] + 1 /\ sync'[c] = sync[c] /\ ptr'[c] = ptr[c]
  BY <1>3 DEF Moved
<1>0. PcRow(c) /\ (rtnl = c <=> HasRtnl(c)) /\ PlaceRow(c)
      /\ pc[c] \in {"idle", "holding", "drained", "op"}
  BY RowOf DEF Start, Calls
<1>6. /\ PcRow(c)' /\ (rtnl' = c <=> HasRtnl(c)')
      /\ ((Barred(c) \/ Closes(c) \/ Opens(c))' <=> Barred(c) \/ Closes(c) \/ Opens(c))
      /\ (Owner(c)' <=> Owner(c)) /\ (Knows(c)' => Knows(c)) /\ (Seeks(c)' => Seeks(c))
      /\ (Barred(c) => rtnl = None \/ Barred(c)')
  BY <1>0, <1>1, <1>4, <1>5, NoJob, NoneIsFresh
     DEF Job, PcRow, InTrans, MayWait, InOp, HasRtnl, Barred, Closes, Opens, Owner, Knows, Seeks
<1>7. PlaceRow(c)'
  BY <1>0, <1>1, <1>4, <1>5, KnownPsoc DEF PlaceRow, syncVars, Knows
<1>8. job[c] = "unload" /\ step[c] = 5 => PlatformIdle
  BY <1>1
<1> QED BY <1>2, <1>3, <1>4, <1>6, <1>7, <1>8, OnwardStep DEF RtnlStep

LEMMA StartNowStep ==
  ASSUME HddInv, NEW c \in Caller, StartNow(c)
  PROVE  HddInv'
<1>1. job[c] \in {"idle", "up", "down"} /\ step[c] = 1
  BY Position, Where DEF StartNow, Calls, HddInv
<1>2. job[c] \in Job /\ step[c] # Len(Prog[job[c]])
  <2>1. job[c] \in Job
    BY <1>1 DEF Job
  <2>2. ~Last(c)
    BY <1>1 DEF Last
  <2> QED BY <2>1, <2>2, LastCall
<1>3. Moved(c, job[c], step[c] + 1, dev[c], sync[c], ptr[c], vsync[c])
  BY <1>2, AdvancesOn, RowOf DEF StartNow
<1>4. /\ Core' /\ OthersInside(c) /\ attached' = attached /\ UNCHANGED syncVars
      /\ rtnl' = rtnl /\ pc'[c] = "holding"
  BY InsideStart DEF StartNow, SyncTransStart, kernel, HddInv
<1>5. job'[c] = job[c] /\ step'[c] = step[c] + 1 /\ sync'[c] = sync[c] /\ ptr'[c] = ptr[c]
  BY <1>3 DEF Moved
<1>0. PcRow(c) /\ (rtnl = c <=> HasRtnl(c)) /\ PlaceRow(c)
      /\ pc[c] \in {"idle", "holding", "drained", "op"}
  BY RowOf DEF StartNow, Calls
<1>6. /\ PcRow(c)' /\ (rtnl' = c <=> HasRtnl(c)')
      /\ ((Barred(c) \/ Closes(c) \/ Opens(c))' <=> Barred(c) \/ Closes(c) \/ Opens(c))
      /\ (Owner(c)' <=> Owner(c)) /\ (Knows(c)' => Knows(c)) /\ (Seeks(c)' => Seeks(c))
      /\ (Barred(c) => rtnl = None \/ Barred(c)')
  BY <1>0, <1>1, <1>4, <1>5, NoJob, NoneIsFresh
     DEF Job, PcRow, InTrans, MayWait, InOp, HasRtnl, Barred, Closes, Opens, Owner, Knows, Seeks
<1>7. PlaceRow(c)'
  BY <1>0, <1>1, <1>4, <1>5 DEF PlaceRow, syncVars
<1>8. job[c] = "unload" /\ step[c] = 5 => PlatformIdle
  BY <1>1
<1> QED BY <1>2, <1>3, <1>4, <1>6, <1>7, <1>8, OnwardStep DEF RtnlStep

LEMMA WaitOnStep ==
  ASSUME HddInv, NEW c \in Caller, Wait(c), job[c] # "shutdown"
  PROVE  HddInv'
<1>1. \/ job[c] \in {"probe_fail", "idle", "up", "down"} /\ step[c] = 2
      \/ job[c] = "unload" /\ step[c] \in {10, 13}
      \/ job[c] = "mode" /\ step[c] \in {3, 6}
      \/ job[c] = "del" /\ step[c] \in {4, 6}
  BY Position, Where DEF Wait, Calls, HddInv
<1>2. job[c] \in Job /\ step[c] # Len(Prog[job[c]])
  <2>1. job[c] \in Job
    BY <1>1 DEF Job
  <2>2. ~Last(c)
    BY <1>1 DEF Last
  <2> QED BY <2>1, <2>2, LastCall
<1>3. Moved(c, job[c], step[c] + 1, dev[c], sync[c], ptr[c], vsync[c])
  BY <1>2, AdvancesOn, RowOf DEF Wait
<1>4. /\ Core' /\ OthersInside(c) /\ attached' = attached /\ UNCHANGED syncVars
      /\ rtnl' = rtnl /\ pc[c] \in {"holding", "drained"} /\ pc'[c] = "draining" /\ at' = at
  BY InsideWait DEF Wait, kernel, HddInv
<1>5. job'[c] = job[c] /\ step'[c] = step[c] + 1 /\ sync'[c] = sync[c] /\ ptr'[c] = ptr[c]
  BY <1>3 DEF Moved
<1>0. PcRow(c) /\ (rtnl = c <=> HasRtnl(c)) /\ PlaceRow(c)
      /\ pc[c] \in {"idle", "holding", "drained", "op"}
  BY RowOf DEF Wait, Calls
<1>6. /\ PcRow(c)' /\ (rtnl' = c <=> HasRtnl(c)')
      /\ ((Barred(c) \/ Closes(c) \/ Opens(c))' <=> Barred(c) \/ Closes(c) \/ Opens(c))
      /\ (Owner(c)' <=> Owner(c)) /\ (Knows(c)' => Knows(c)) /\ (Seeks(c)' => Seeks(c))
      /\ (Barred(c) => rtnl = None \/ Barred(c)')
  BY <1>0, <1>1, <1>4, <1>5, NoJob, NoneIsFresh
     DEF Job, PcRow, InTrans, MayWait, InOp, HasRtnl, Barred, Closes, Opens, Owner, Knows, Seeks
<1>7. PlaceRow(c)'
  BY <1>0, <1>1, <1>4, <1>5 DEF PlaceRow, syncVars
<1>8. job[c] = "unload" /\ step[c] = 5 => PlatformIdle
  BY <1>1
<1> QED BY <1>2, <1>3, <1>4, <1>6, <1>7, <1>8, OnwardStep DEF RtnlStep

LEMMA StopOnStep ==
  ASSUME HddInv, NEW c \in Caller, TransStop(c), Stop(c), job[c] \notin {"probe", "reinit", "mode", "mode_fail"}
  PROVE  HddInv'
<1>1. \/ job[c] \in {"probe_fail", "idle"} /\ step[c] = 3
      \/ job[c] = "unload" /\ step[c] \in {4, 18}
      \/ job[c] \in {"up", "down"} /\ step[c] = 4
      \/ job[c] = "add_fail" /\ step[c] = 1
      \/ job[c] = "add" /\ step[c] = 5
      \/ job[c] = "del" /\ step[c] = 7
  BY Position, Where DEF Stop, Calls, HddInv
<1>2. job[c] \in Job /\ step[c] # Len(Prog[job[c]])
  <2>1. job[c] \in Job
    BY <1>1 DEF Job
  <2>2. ~Last(c)
    BY <1>1 DEF Last
  <2> QED BY <2>1, <2>2, LastCall
<1>3. Moved(c, job[c], step[c] + 1, dev[c], sync[c], ptr[c], vsync[c])
  BY <1>2, AdvancesOn, RowOf DEF Stop
<1>4. /\ Core' /\ OthersInside(c) /\ attached' = attached /\ UNCHANGED syncVars
      /\ rtnl' = rtnl /\ pc'[c] = "idle"
  BY InsideStop DEF Stop, kernel, HddInv
<1>5. job'[c] = job[c] /\ step'[c] = step[c] + 1 /\ sync'[c] = sync[c] /\ ptr'[c] = ptr[c]
  BY <1>3 DEF Moved
<1>0. PcRow(c) /\ (rtnl = c <=> HasRtnl(c)) /\ PlaceRow(c)
      /\ pc[c] \in {"idle", "holding", "drained", "op"}
  BY RowOf DEF Stop, Calls
<1>6. /\ PcRow(c)' /\ (rtnl' = c <=> HasRtnl(c)')
      /\ ((Barred(c) \/ Closes(c) \/ Opens(c))' <=> Barred(c) \/ Closes(c) \/ Opens(c))
      /\ (Owner(c)' <=> Owner(c)) /\ (Knows(c)' => Knows(c)) /\ (Seeks(c)' => Seeks(c))
      /\ (Barred(c) => rtnl = None \/ Barred(c)')
  BY <1>0, <1>1, <1>4, <1>5, NoJob, NoneIsFresh
     DEF Job, PcRow, InTrans, MayWait, InOp, HasRtnl, Barred, Closes, Opens, Owner, Knows, Seeks
<1>7. PlaceRow(c)'
  BY <1>0, <1>1, <1>4, <1>5 DEF PlaceRow, syncVars
<1>8. job[c] = "unload" /\ step[c] = 5 => PlatformIdle
  BY <1>1
<1> QED BY <1>2, <1>3, <1>4, <1>6, <1>7, <1>8, OnwardStep DEF RtnlStep

LEMMA StartOpStep ==
  ASSUME HddInv, NEW c \in Caller, StartOp(c)
  PROVE  HddInv'
<1>1. job[c] = "op" /\ step[c] = 1
  BY Position, Where DEF StartOp, Calls, HddInv
<1>2. job[c] \in Job /\ step[c] # Len(Prog[job[c]])
  <2>1. job[c] \in Job
    BY <1>1 DEF Job
  <2>2. ~Last(c)
    BY <1>1 DEF Last
  <2> QED BY <2>1, <2>2, LastCall
<1>3. Moved(c, job[c], step[c] + 1, dev[c], sync[c], ptr[c], vsync[c])
  BY <1>2, AdvancesOn, RowOf DEF StartOp
<1>4. /\ Core' /\ OthersInside(c) /\ attached' = attached /\ UNCHANGED syncVars
      /\ rtnl' = rtnl /\ pc'[c] = "op"
  BY InsideOpStart DEF StartOp, SyncOpStart, kernel, HddInv
<1>5. job'[c] = job[c] /\ step'[c] = step[c] + 1 /\ sync'[c] = sync[c] /\ ptr'[c] = ptr[c]
  BY <1>3 DEF Moved
<1>0. PcRow(c) /\ (rtnl = c <=> HasRtnl(c)) /\ PlaceRow(c)
      /\ pc[c] \in {"idle", "holding", "drained", "op"}
  BY RowOf DEF StartOp, Calls
<1>6. /\ PcRow(c)' /\ (rtnl' = c <=> HasRtnl(c)')
      /\ ((Barred(c) \/ Closes(c) \/ Opens(c))' <=> Barred(c) \/ Closes(c) \/ Opens(c))
      /\ (Owner(c)' <=> Owner(c)) /\ (Knows(c)' => Knows(c)) /\ (Seeks(c)' => Seeks(c))
      /\ (Barred(c) => rtnl = None \/ Barred(c)')
  BY <1>0, <1>1, <1>4, <1>5, NoJob, NoneIsFresh
     DEF Job, PcRow, InTrans, MayWait, InOp, HasRtnl, Barred, Closes, Opens, Owner, Knows, Seeks
<1>7. PlaceRow(c)'
  BY <1>0, <1>1, <1>4, <1>5 DEF PlaceRow, syncVars
<1>8. job[c] = "unload" /\ step[c] = 5 => PlatformIdle
  BY <1>1
<1> QED BY <1>2, <1>3, <1>4, <1>6, <1>7, <1>8, OnwardStep DEF RtnlStep

LEMMA MarkUnloadingStep ==
  ASSUME HddInv, NEW c \in Caller, MarkUnloading(c)
  PROVE  HddInv'
<1>1. job[c] = "unload" /\ step[c] \in {3, 11, 17}
  BY Position, Where DEF MarkUnloading, Calls, HddInv
<1>2. job[c] \in Job /\ step[c] # Len(Prog[job[c]])
  <2>1. job[c] \in Job
    BY <1>1 DEF Job
  <2>2. ~Last(c)
    BY <1>1 DEF Last
  <2> QED BY <2>1, <2>2, LastCall
<1>3. Moved(c, job[c], step[c] + 1, dev[c], sync[c], ptr[c], vsync[c])
  BY <1>2, AdvancesOn, RowOf DEF MarkUnloading
<1>4. /\ Core' /\ OthersInside(c) /\ attached' = attached /\ UNCHANGED syncVars
      /\ rtnl' = rtnl /\ pc' = pc /\ at' = at
  BY MarkedUnloading DEF MarkUnloading, kernel
<1>5. job'[c] = job[c] /\ step'[c] = step[c] + 1 /\ sync'[c] = sync[c] /\ ptr'[c] = ptr[c]
  BY <1>3 DEF Moved
<1>0. PcRow(c) /\ (rtnl = c <=> HasRtnl(c)) /\ PlaceRow(c)
      /\ pc[c] \in {"idle", "holding", "drained", "op"}
  BY RowOf DEF MarkUnloading, Calls
<1>6. /\ PcRow(c)' /\ (rtnl' = c <=> HasRtnl(c)')
      /\ ((Barred(c) \/ Closes(c) \/ Opens(c))' <=> Barred(c) \/ Closes(c) \/ Opens(c))
      /\ (Owner(c)' <=> Owner(c)) /\ (Knows(c)' => Knows(c)) /\ (Seeks(c)' => Seeks(c))
      /\ (Barred(c) => rtnl = None \/ Barred(c)')
  BY <1>0, <1>1, <1>4, <1>5, NoJob, NoneIsFresh
     DEF Job, PcRow, InTrans, MayWait, InOp, HasRtnl, Barred, Closes, Opens, Owner, Knows, Seeks
<1>7. PlaceRow(c)'
  BY <1>0, <1>1, <1>4, <1>5 DEF PlaceRow, syncVars
<1>8. job[c] = "unload" /\ step[c] = 5 => PlatformIdle
  BY <1>1
<1> QED BY <1>2, <1>3, <1>4, <1>6, <1>7, <1>8, OnwardStep DEF RtnlStep

LEMMA OpenDevStep ==
  ASSUME HddInv, NEW c \in Caller, OpenDev(c)
  PROVE  HddInv'
<1>1. job[c] = "up" /\ step[c] = 3
  BY Position, Where DEF OpenDev, Calls, HddInv
<1>2. job[c] \in Job /\ step[c] # Len(Prog[job[c]])
  <2>1. job[c] \in Job
    BY <1>1 DEF Job
  <2>2. ~Last(c)
    BY <1>1 DEF Last
  <2> QED BY <2>1, <2>2, LastCall
<1>3. Moved(c, job[c], step[c] + 1, dev[c], sync[c], ptr[c], vsync[c])
  BY <1>2, AdvancesOn, RowOf DEF OpenDev
<1>4. /\ Core' /\ OthersInside(c) /\ attached' = attached /\ UNCHANGED syncVars
      /\ rtnl' = rtnl /\ pc' = pc
  BY CoreKept, Unmoved DEF OpenDev, vars
<1>5. job'[c] = job[c] /\ step'[c] = step[c] + 1 /\ sync'[c] = sync[c] /\ ptr'[c] = ptr[c]
  BY <1>3 DEF Moved
<1>0. PcRow(c) /\ (rtnl = c <=> HasRtnl(c)) /\ PlaceRow(c)
      /\ pc[c] \in {"idle", "holding", "drained", "op"}
  BY RowOf DEF OpenDev, Calls
<1>6. /\ PcRow(c)' /\ (rtnl' = c <=> HasRtnl(c)')
      /\ ((Barred(c) \/ Closes(c) \/ Opens(c))' <=> Barred(c) \/ Closes(c) \/ Opens(c))
      /\ (Owner(c)' <=> Owner(c)) /\ (Knows(c)' => Knows(c)) /\ (Seeks(c)' => Seeks(c))
      /\ (Barred(c) => rtnl = None \/ Barred(c)')
  BY <1>0, <1>1, <1>4, <1>5, NoJob, NoneIsFresh
     DEF Job, PcRow, InTrans, MayWait, InOp, HasRtnl, Barred, Closes, Opens, Owner, Knows, Seeks
<1>7. PlaceRow(c)'
  BY <1>0, <1>1, <1>4, <1>5 DEF PlaceRow, syncVars
<1>8. job[c] = "unload" /\ step[c] = 5 => PlatformIdle
  BY <1>1
<1> QED BY <1>2, <1>3, <1>4, <1>6, <1>7, <1>8, OnwardStep DEF RtnlStep

LEMMA StopDevStep ==
  ASSUME HddInv, NEW c \in Caller, StopDev(c)
  PROVE  HddInv'
<1>1. job[c] = "down" /\ step[c] = 3
  BY Position, Where DEF StopDev, Calls, HddInv
<1>2. job[c] \in Job /\ step[c] # Len(Prog[job[c]])
  <2>1. job[c] \in Job
    BY <1>1 DEF Job
  <2>2. ~Last(c)
    BY <1>1 DEF Last
  <2> QED BY <2>1, <2>2, LastCall
<1>3. Moved(c, job[c], step[c] + 1, dev[c], sync[c], ptr[c], vsync[c])
  BY <1>2, AdvancesOn, RowOf DEF StopDev
<1>4. /\ Core' /\ OthersInside(c) /\ attached' = attached /\ UNCHANGED syncVars
      /\ rtnl' = rtnl /\ pc' = pc
  BY CoreKept, Unmoved DEF StopDev, vars
<1>5. job'[c] = job[c] /\ step'[c] = step[c] + 1 /\ sync'[c] = sync[c] /\ ptr'[c] = ptr[c]
  BY <1>3 DEF Moved
<1>0. PcRow(c) /\ (rtnl = c <=> HasRtnl(c)) /\ PlaceRow(c)
      /\ pc[c] \in {"idle", "holding", "drained", "op"}
  BY RowOf DEF StopDev, Calls
<1>6. /\ PcRow(c)' /\ (rtnl' = c <=> HasRtnl(c)')
      /\ ((Barred(c) \/ Closes(c) \/ Opens(c))' <=> Barred(c) \/ Closes(c) \/ Opens(c))
      /\ (Owner(c)' <=> Owner(c)) /\ (Knows(c)' => Knows(c)) /\ (Seeks(c)' => Seeks(c))
      /\ (Barred(c) => rtnl = None \/ Barred(c)')
  BY <1>0, <1>1, <1>4, <1>5, NoJob, NoneIsFresh
     DEF Job, PcRow, InTrans, MayWait, InOp, HasRtnl, Barred, Closes, Opens, Owner, Knows, Seeks
<1>7. PlaceRow(c)'
  BY <1>0, <1>1, <1>4, <1>5 DEF PlaceRow, syncVars
<1>8. job[c] = "unload" /\ step[c] = 5 => PlatformIdle
  BY <1>1
<1> QED BY <1>2, <1>3, <1>4, <1>6, <1>7, <1>8, OnwardStep DEF RtnlStep

LEMMA RecoveredStep ==
  ASSUME HddInv, NEW c \in Caller, Recovered(c)
  PROVE  HddInv'
<1>1. job[c] = "reinit" /\ step[c] = 3
  BY Position, Where DEF Recovered, Calls, HddInv
<1>2. job[c] \in Job /\ step[c] # Len(Prog[job[c]])
  <2>1. job[c] \in Job
    BY <1>1 DEF Job
  <2>2. ~Last(c)
    BY <1>1 DEF Last
  <2> QED BY <2>1, <2>2, LastCall
<1>3. Moved(c, job[c], step[c] + 1, dev[c], sync[c], ptr[c], vsync[c])
  BY <1>2, AdvancesOn, RowOf DEF Recovered
<1>4. /\ Core' /\ OthersInside(c) /\ attached' = attached /\ UNCHANGED syncVars
      /\ rtnl' = rtnl /\ pc' = pc
  BY Cleared DEF Recovered
<1>5. job'[c] = job[c] /\ step'[c] = step[c] + 1 /\ sync'[c] = sync[c] /\ ptr'[c] = ptr[c]
  BY <1>3 DEF Moved
<1>0. PcRow(c) /\ (rtnl = c <=> HasRtnl(c)) /\ PlaceRow(c)
      /\ pc[c] \in {"idle", "holding", "drained", "op"}
  BY RowOf DEF Recovered, Calls
<1>6. /\ PcRow(c)' /\ (rtnl' = c <=> HasRtnl(c)')
      /\ ((Barred(c) \/ Closes(c) \/ Opens(c))' <=> Barred(c) \/ Closes(c) \/ Opens(c))
      /\ (Owner(c)' <=> Owner(c)) /\ (Knows(c)' => Knows(c)) /\ (Seeks(c)' => Seeks(c))
      /\ (Barred(c) => rtnl = None \/ Barred(c)')
  BY <1>0, <1>1, <1>4, <1>5, NoJob, NoneIsFresh
     DEF Job, PcRow, InTrans, MayWait, InOp, HasRtnl, Barred, Closes, Opens, Owner, Knows, Seeks
<1>7. PlaceRow(c)'
  BY <1>0, <1>1, <1>4, <1>5 DEF PlaceRow, syncVars
<1>8. job[c] = "unload" /\ step[c] = 5 => PlatformIdle
  BY <1>1
<1> QED BY <1>2, <1>3, <1>4, <1>6, <1>7, <1>8, OnwardStep DEF RtnlStep

LEMMA CheckOnStep ==
  ASSUME HddInv, NEW c \in Caller, Check(c), ~unloading
  PROVE  HddInv'
<1>1. job[c] \in {"shutdown", "reinit"} /\ step[c] = 1
  BY Position, Where DEF Check, Calls, HddInv
<1>2. job[c] \in Job /\ step[c] # Len(Prog[job[c]])
  <2>1. job[c] \in Job
    BY <1>1 DEF Job
  <2>2. ~Last(c)
    BY <1>1 DEF Last
  <2> QED BY <2>1, <2>2, LastCall
<1>3. Moved(c, job[c], step[c] + 1, dev[c], sync[c], ptr[c], vsync[c])
  BY <1>2, AdvancesOn, RowOf DEF Check
<1>4. /\ Core' /\ OthersInside(c) /\ attached' = attached /\ UNCHANGED syncVars
      /\ rtnl' = rtnl /\ pc' = pc
  BY CoreKept, Unmoved DEF Check, kernel, vars
<1>5. job'[c] = job[c] /\ step'[c] = step[c] + 1 /\ sync'[c] = sync[c] /\ ptr'[c] = ptr[c]
  BY <1>3 DEF Moved
<1>0. PcRow(c) /\ (rtnl = c <=> HasRtnl(c)) /\ PlaceRow(c)
      /\ pc[c] \in {"idle", "holding", "drained", "op"}
  BY RowOf DEF Check, Calls
<1>6. /\ PcRow(c)' /\ (rtnl' = c <=> HasRtnl(c)')
      /\ ((Barred(c) \/ Closes(c) \/ Opens(c))' <=> Barred(c) \/ Closes(c) \/ Opens(c))
      /\ (Owner(c)' <=> Owner(c)) /\ (Knows(c)' => Knows(c)) /\ (Seeks(c)' => Seeks(c))
      /\ (Barred(c) => rtnl = None \/ Barred(c)')
  BY <1>0, <1>1, <1>4, <1>5, NoJob, NoneIsFresh
     DEF Job, PcRow, InTrans, MayWait, InOp, HasRtnl, Barred, Closes, Opens, Owner, Knows, Seeks
<1>7. PlaceRow(c)'
  BY <1>0, <1>1, <1>4, <1>5 DEF PlaceRow, syncVars
<1>8. job[c] = "unload" /\ step[c] = 5 => PlatformIdle
  BY <1>1
<1> QED BY <1>2, <1>3, <1>4, <1>6, <1>7, <1>8, OnwardStep DEF RtnlStep

LEMMA ValidateOnStep ==
  ASSUME HddInv, NEW c \in Caller, Validate(c), Advance(c)
  PROVE  HddInv'
<1>1. job[c] = "mode" /\ step[c] = 4
  BY Position, Where DEF Validate, Calls, HddInv
<1>2. job[c] \in Job /\ step[c] # Len(Prog[job[c]])
  <2>1. job[c] \in Job
    BY <1>1 DEF Job
  <2>2. ~Last(c)
    BY <1>1 DEF Last
  <2> QED BY <2>1, <2>2, LastCall
<1>3. Moved(c, job[c], step[c] + 1, dev[c], sync[c], ptr[c], vsync[c])
  BY <1>2, AdvancesOn, RowOf DEF Validate
<1>4. /\ Core' /\ OthersInside(c) /\ attached' = attached /\ UNCHANGED syncVars
      /\ rtnl' = rtnl /\ pc' = pc /\ at' = at
  BY CoreKept, Unmoved DEF Validate, kernel, vars
<1>5. job'[c] = job[c] /\ step'[c] = step[c] + 1 /\ sync'[c] = sync[c] /\ ptr'[c] = ptr[c]
  BY <1>3 DEF Moved
<1>0. PcRow(c) /\ (rtnl = c <=> HasRtnl(c)) /\ PlaceRow(c)
      /\ pc[c] \in {"idle", "holding", "drained", "op"}
  BY RowOf DEF Validate, Calls
<1>6. /\ PcRow(c)' /\ (rtnl' = c <=> HasRtnl(c)')
      /\ ((Barred(c) \/ Closes(c) \/ Opens(c))' <=> Barred(c) \/ Closes(c) \/ Opens(c))
      /\ (Owner(c)' <=> Owner(c)) /\ (Knows(c)' => Knows(c)) /\ (Seeks(c)' => Seeks(c))
      /\ (Barred(c) => rtnl = None \/ Barred(c)')
  BY <1>0, <1>1, <1>4, <1>5, NoJob, NoneIsFresh
     DEF Job, PcRow, InTrans, MayWait, InOp, HasRtnl, Barred, Closes, Opens, Owner, Knows, Seeks
<1>7. PlaceRow(c)'
  BY <1>0, <1>1, <1>4, <1>5 DEF PlaceRow, syncVars
<1>8. job[c] = "unload" /\ step[c] = 5 => PlatformIdle
  BY <1>1
<1> QED BY <1>2, <1>3, <1>4, <1>6, <1>7, <1>8, OnwardStep DEF RtnlStep

LEMMA RtnlUnlockOutStep ==
  ASSUME HddInv, NEW c \in Caller, RtnlUnlock(c), job[c] \notin {"probe", "mode"}
  PROVE  HddInv'
<1>1. \/ job[c] = "add" /\ step[c] = 6
      \/ job[c] = "add_fail" /\ step[c] = 3
      \/ job[c] = "del" /\ step[c] = 9
      \/ job[c] \in {"up", "down"} /\ step[c] = 5
  BY Position, Where DEF RtnlUnlock, Calls, HddInv
<1>2. job[c] \in Job /\ Last(c) /\ ~InTrans(c) /\ ~InOp(c) /\ ~Owner(c) /\ ~Opens(c)
      /\ ~Barred(c) /\ ~Closes(c) /\ HasRtnl(c)
  BY <1>1 DEF Job, Last, InTrans, InOp, Owner, Opens, Barred, Closes, HasRtnl
<1>3. Returned(c)
  BY <1>2, LastCall, AdvancesOut, RowOf DEF RtnlUnlock
<1>4. rtnl = c /\ rtnl' = None /\ UNCHANGED <<vars, syncVars>>
  BY <1>2, RowOf DEF RtnlUnlock
<1>5. pc[c] \in {"idle", "holding", "drained"}
  BY <1>2, RowOf DEF RtnlUnlock, Calls, PcRow
<1> QED BY <1>2, <1>3, <1>4, <1>5, CoreKept, Unmoved, ReturnStep, NoneIsFresh

LEMMA FailedCalls ==
  ASSUME HddInv, NEW c \in Caller,
         CreateSyncFails(c) \/ LookupFails(c) \/ StartRefused(c) \/ (Check(c) /\ unloading)
           \/ (Read(c) /\ ctx[sync[c]] = None)
  PROVE  HddInv'
<1>1. PICK call \in {"create", "lookup", "resume", "start", "check", "read"} : Calls(c, call)
  BY DEF CreateSyncFails, LookupFails, StartRefused, Check, Read
<1>2. \/ job[c] \in {"probe", "add"} /\ step[c] = 1
      \/ job[c] = "unload" /\ step[c] \in {2, 6, 7, 8}
      \/ job[c] = "shutdown" /\ step[c] \in {1, 2, 3, 4}
      \/ job[c] = "reinit" /\ step[c] \in {1, 2}
      \/ job[c] = "mode" /\ step[c] = 2
      \/ job[c] = "del" /\ step[c] \in {1, 2, 3}
  BY <1>1, Position, Where DEF HddInv, Calls
<1>3. job[c] # None
  BY <1>2, NoJob DEF Job
<1>4. ~InOp(c) /\ ~Owner(c) /\ ~Opens(c) /\ ~Barred(c) /\ ~Closes(c)
  BY <1>2 DEF InOp, Owner, Opens, Barred, Closes
<1>5. Abandon(c) /\ UNCHANGED <<vars, syncVars>>
  BY DEF CreateSyncFails, LookupFails, StartRefused, Check, Read
<1> QED BY <1>1, <1>3, <1>4, <1>5, AbandonStep

LEMMA StartNowRefusedStep ==
  ASSUME HddInv, NEW c \in Caller, StartNowRefused(c)
  PROVE  HddInv'
<1>1. (job[c] \in {"idle", "up", "down"} /\ step[c] = 1) \/ (job[c] = "op" /\ step[c] = 1)
  BY Position, Where DEF StartNowRefused, Calls, HddInv
<1>2. PICK call \in {"trans_start", "op_start"} : Calls(c, call)
  BY DEF StartNowRefused
<1>3. UNCHANGED <<vars, syncVars>>
  BY DEF StartNowRefused
<1>4. CASE job[c] # "idle"
  <2>1. job[c] # None /\ ~InOp(c) /\ ~Owner(c) /\ ~Opens(c) /\ ~Barred(c) /\ ~Closes(c)
    BY <1>1, NoJob DEF Job, InOp, Owner, Opens, Barred, Closes
  <2>2. Abandon(c)
    BY <1>4 DEF StartNowRefused
  <2> QED BY <1>2, <1>3, <2>1, <2>2, AbandonStep
<1>5. CASE job[c] = "idle"
  <2>1. Moved(c, "idle_busy", 1, dev[c], sync[c], ptr[c], vsync[c]) /\ rtnl' = rtnl
    BY <1>5, Fails, RowOf DEF StartNowRefused
  <2>2. job'[c] = "idle_busy" /\ step'[c] = 1 /\ dev'[c] = dev[c] /\ vsync'[c] = vsync[c]
    BY <2>1 DEF Moved
  <2>3. dev[c] \in Dev /\ vsync[c] = None /\ pc[c] = "idle" /\ rtnl # c
    <3>1. JobRow(c) /\ ~Barred(c) /\ ~Opens(c) /\ ~Closes(c) /\ ~InTrans(c) /\ ~InOp(c) /\ ~HasRtnl(c)
      BY <1>1, <1>5, RowOf DEF Barred, Opens, Closes, InTrans, InOp, HasRtnl
    <3> QED BY <1>5, <3>1, NoJob DEF JobRow, PcRow, Job
  <2>4. JobRow(c)'
    BY <1>3, <2>1, <2>2, <2>3, NoJob, Lengths, Unmoved
       DEF JobRow, PcRow, InTrans, MayWait, InOp, HasRtnl, Barred, Closes, Opens, Job
  <2>5. Keeps(c)
    BY <1>1, <1>5, <2>2 DEF Keeps, Owner, Knows, Seeks, Barred, PlaceRow
  <2>6. ~PlatformCall(c)'
    BY <2>2 DEF PlatformCall
  <2> QED BY <1>3, <2>1, <2>4, <2>5, <2>6, CoreKept, Unmoved, Quiet DEF RtnlStep
<1> QED BY <1>4, <1>5

LEMMA WorkFailsStep ==
  ASSUME HddInv, NEW c \in Caller, Work(c), Fail(c)
  PROVE  HddInv'
<1>1. (job[c] = "probe" /\ step[c] = 4) \/ (job[c] = "add" /\ step[c] = 3)
  BY Position, Where DEF Work, Calls, HddInv
<1> DEFINE j == IF job[c] = "probe" THEN "probe_fail" ELSE "add_fail"
<1>2. Moved(c, j, 1, dev[c], sync[c], ptr[c], vsync[c])
  BY <1>1, Fails, RowOf
<1>3. job'[c] = j /\ step'[c] = 1 /\ dev'[c] = dev[c] /\ vsync'[c] = vsync[c] /\ sync'[c] = sync[c]
  BY <1>2 DEF Moved
<1>4. /\ Core' /\ OthersInside(c) /\ attached' = attached /\ UNCHANGED syncVars
      /\ rtnl' = rtnl /\ pc' = pc
  BY Cleared DEF Work, kernel
<1>5. JobRow(c) /\ SeekRow(c)
  BY RowOf
<1>6. pc[c] \in {"holding", "drained"}
  BY <1>1, <1>5 DEF Work, Calls, JobRow, PcRow, InTrans, InOp
<1>7. vsync[c] = None /\ dev[c] \in Dev /\ (rtnl = c <=> job[c] = "add")
  BY <1>1, <1>5, NoJob DEF JobRow, Barred, Closes, Opens, HasRtnl, Job
<1>8. JobRow(c)'
  <2>1. job'[c] \in {"probe_fail", "add_fail"} /\ (job'[c] = "add_fail" <=> job[c] = "add")
    BY <1>1, <1>3
  <2>2. 1 \in 1 .. Len(Prog["probe_fail"]) /\ 1 \in 1 .. Len(Prog["add_fail"])
    BY Lengths
  <2> HIDE DEF j
  <2> QED BY <1>3, <1>4, <1>6, <1>7, <2>1, <2>2, NoJob
     DEF JobRow, PcRow, InTrans, MayWait, InOp, HasRtnl, Barred, Closes, Opens, Job
<1>9. Keeps(c)
  BY <1>1, <1>3, <1>5 DEF Keeps, Owner, Knows, Seeks, Barred, PlaceRow, OwnKind, SeekRow
<1>10. PlatformCall(c)' => PlatformCall(c)
  BY <1>1, <1>3 DEF PlatformCall
<1> HIDE DEF j
<1> QED BY <1>2, <1>4, <1>8, <1>9, <1>10, Quiet DEF RtnlStep

LEMMA ValidateFailsStep ==
  ASSUME HddInv, NEW c \in Caller, Validate(c), Fail(c)
  PROVE  HddInv'
<1>1. job[c] = "mode" /\ step[c] = 4
  BY Position, Where DEF Validate, Calls, HddInv
<1>2. Moved(c, "mode_fail", 1, dev[c], sync[c], ptr[c], vsync[c])
  BY <1>1, Fails, RowOf
<1>3. job'[c] = "mode_fail" /\ step'[c] = 1 /\ dev'[c] = dev[c] /\ vsync'[c] = vsync[c]
  BY <1>2 DEF Moved
<1>4. UNCHANGED <<vars, syncVars, rtnl>>
  BY DEF Validate, kernel
<1>5. JobRow(c)
  BY RowOf
<1>6. pc[c] \in {"holding", "drained"}
  BY <1>1, <1>5 DEF Validate, Calls, JobRow, PcRow, InTrans, InOp
<1>7. vsync[c] = None /\ dev[c] \in Dev /\ rtnl # c
  BY <1>1, <1>5, NoJob DEF JobRow, Barred, Closes, Opens, HasRtnl, Job
<1>8. JobRow(c)'
  BY <1>3, <1>4, <1>6, <1>7, NoJob, Lengths, Unmoved
     DEF JobRow, PcRow, InTrans, MayWait, InOp, HasRtnl, Barred, Closes, Opens, Job
<1>9. Keeps(c)
  BY <1>1, <1>3 DEF Keeps, Owner, Knows, Seeks, Barred, PlaceRow
<1>10. ~PlatformCall(c)'
  BY <1>3 DEF PlatformCall
<1> QED BY <1>2, <1>4, <1>8, <1>9, <1>10, CoreKept, Unmoved, Quiet DEF RtnlStep

\* The entry that a lookup for a device, or for a net_device, finds.
LEMMA LookupKind ==
  ASSUME HddInv, NEW k, NEW s \in Lookup(k)
  PROVE  /\ s \in inUse /\ s \in Sync /\ key[s] = k
         /\ (k \in Dev => s \in PsocSync) /\ (k \in NetDev => s \in VdevSync)
<1>1. s \in inUse /\ key[s] = k
  BY DEF Lookup
<1>2. RegType
  BY DEF HddInv, SyncInv
<1> QED BY <1>1, <1>2 DEF RegType, Sync

LEMMA LookupSyncStep ==
  ASSUME HddInv, NEW c \in Caller, LookupSync(c)
  PROVE  HddInv'
<1>1. \/ job[c] = "unload" /\ step[c] = 6
      \/ job[c] = "shutdown" /\ step[c] = 2
      \/ job[c] = "reinit" /\ step[c] = 2
      \/ job[c] = "del" /\ step[c] = 1
  BY Position, Where DEF LookupSync, Calls, HddInv
<1>2. PICK s \in Lookup(dev[c]) : Use(c, s)
  BY DEF LookupSync
<1>3. /\ s \in inUse /\ s \in Sync /\ key[s] = dev[c]
      /\ (dev[c] \in Dev => s \in PsocSync) /\ (dev[c] \in NetDev => s \in VdevSync)
  BY LookupKind
<1>4. Moved(c, job[c], step[c] + 1, dev[c], s, ptr[c], vsync[c])
  BY <1>1, <1>2, <1>3, Uses, RowOf DEF Job
<1>5. job'[c] = job[c] /\ step'[c] = step[c] + 1 /\ dev'[c] = dev[c] /\ vsync'[c] = vsync[c] /\ sync'[c] = s
  BY <1>4 DEF Moved
<1>6. UNCHANGED <<vars, syncVars, rtnl, pc>>
  BY DEF LookupSync, kernel, vars
<1>7. JobRow(c) /\ pc[c] \in {"idle", "holding", "drained", "op"}
  BY RowOf DEF LookupSync, Calls
<1>8. job[c] \in Job /\ ~Last(c)
  BY <1>1 DEF Job, Last
<1>9. step'[c] \in 1 .. Len(Prog[job'[c]])
  BY <1>5, <1>7, <1>8, LastCall, NoJob DEF JobRow
<1>10. JobRow(c)'
  <2>1. /\ ~InTrans(c) /\ ~InTrans(c)' /\ ~MayWait(c) /\ ~MayWait(c)' /\ ~InOp(c) /\ ~InOp(c)'
        /\ (HasRtnl(c)' <=> HasRtnl(c)) /\ (Barred(c)' <=> Barred(c))
        /\ (Closes(c)' <=> Closes(c)) /\ (Opens(c)' <=> Opens(c))
    BY <1>1, <1>5 DEF InTrans, MayWait, InOp, HasRtnl, Barred, Closes, Opens
  <2> QED BY <1>5, <1>6, <1>7, <1>8, <1>9, <2>1 DEF JobRow, PcRow
<1>11. dev[c] \in (IF job[c] = "del" THEN NetDev ELSE Dev)
  BY <1>1, <1>7, NoJob DEF JobRow, Job
<1>12. Keeps(c)
  BY <1>1, <1>3, <1>5, <1>11 DEF Keeps, Owner, Knows, Seeks, Barred, PlaceRow
<1>13. PlatformCall(c)' => PlatformCall(c)
  BY <1>1, <1>5, <1>10, PlatformPrimed, PlatformCalls DEF HddInv
<1> QED BY <1>4, <1>6, <1>10, <1>12, <1>13, CoreKept, Unmoved, Quiet DEF RtnlStep

\* A call that notes a context.
LEMMA ReadStep ==
  ASSUME HddInv, NEW c \in Caller, NEW n \in Node, ptr' = [ptr EXCEPT ![c] = n],
         Goto(c, job[c], step[c] + 1), UNCHANGED <<vars, syncVars, dev, sync, vsync, kernel>>,
         \/ Calls(c, "read") /\ n = ctx[sync[c]]
         \/ Calls(c, "driver") /\ n = Driver
  PROVE  HddInv'
<1>1. \/ job[c] = "unload" /\ step[c] = 7 /\ n = ctx[sync[c]]
      \/ job[c] = "shutdown" /\ step[c] = 3 /\ n = ctx[sync[c]]
      \/ job[c] = "del" /\ step[c] = 2 /\ n = ctx[sync[c]]
      \/ job[c] \in {"unload", "mode"} /\ step[c] = 1 /\ n = Driver
  BY Position, Where DEF Calls, HddInv
<1>2. JobTypes /\ JobRow(c) /\ pc[c] \in {"idle", "holding", "drained", "op"}
  BY RowOf DEF Calls
<1>3. job[c] \in Job /\ ~Last(c)
  BY <1>1 DEF Job, Last
<1>4. Moved(c, job[c], step[c] + 1, dev[c], sync[c], n, vsync[c])
  BY <1>2, <1>3 DEF Moved, Goto, Others, JobTypes
<1>5. /\ job'[c] = job[c] /\ step'[c] = step[c] + 1 /\ dev'[c] = dev[c] /\ vsync'[c] = vsync[c]
      /\ sync'[c] = sync[c] /\ ptr'[c] = n
  BY <1>4 DEF Moved
<1>6. UNCHANGED <<vars, syncVars, rtnl, pc>>
  BY DEF kernel, vars
<1>7. step'[c] \in 1 .. Len(Prog[job'[c]])
  BY <1>2, <1>3, <1>5, LastCall, NoJob DEF JobRow
<1>8. JobRow(c)'
  <2>1. /\ ~InTrans(c) /\ ~InTrans(c)' /\ ~MayWait(c) /\ ~MayWait(c)' /\ ~InOp(c) /\ ~InOp(c)'
        /\ (HasRtnl(c)' <=> HasRtnl(c)) /\ (Barred(c)' <=> Barred(c))
        /\ (Closes(c)' <=> Closes(c)) /\ (Opens(c)' <=> Opens(c))
    BY <1>1, <1>5 DEF InTrans, MayWait, InOp, HasRtnl, Barred, Closes, Opens
  <2> QED BY <1>2, <1>3, <1>5, <1>6, <1>7, <2>1 DEF JobRow, PcRow
<1>9. SeekRow(c)
  BY RowOf
<1>10. Keeps(c)
  BY <1>1, <1>5, <1>6, <1>9 DEF Keeps, Owner, Knows, Seeks, Barred, PlaceRow, SeekRow, syncVars
<1>11. PlatformCall(c)' => PlatformCall(c)
  BY <1>1, <1>5, <1>8, PlatformPrimed, PlatformCalls DEF HddInv
<1> QED BY <1>4, <1>6, <1>8, <1>10, <1>11, CoreKept, Unmoved, Quiet DEF RtnlStep

\* Over the adapters that are not there to be opened or closed.
LEMMA SkipStep ==
  ASSUME HddInv, NEW c \in Caller, NEW i \in Nat, Skip(c, i),
         UNCHANGED <<vars, syncVars, vsync, kernel>>,
         (Calls(c, "open") /\ i = 2) \/ (Calls(c, "close") /\ i = 4)
  PROVE  HddInv'
<1>1. \/ job[c] = "probe" /\ step[c] = 6 /\ i = 2
      \/ job[c] = "mode" /\ step[c] = 10 /\ i = 2
      \/ job[c] = "unload" /\ step[c] = 12 /\ i = 4
      \/ job[c] = "mode" /\ step[c] = 5 /\ i = 4
  BY Position, Where DEF Calls, HddInv
<1>2. JobTypes /\ JobRow(c) /\ PlaceRow(c) /\ SeekRow(c) /\ pc[c] \in {"idle", "holding", "drained", "op"}
  BY RowOf DEF Calls
<1>3. job[c] \in Job
  BY <1>1 DEF Job
<1>4. Moved(c, job[c], step[c] + i, dev[c], sync[c], ptr[c], vsync[c])
  BY <1>2, <1>3 DEF Moved, Skip, Goto, Others, JobTypes
<1>5. /\ job'[c] = job[c] /\ step'[c] = step[c] + i /\ dev'[c] = dev[c] /\ vsync'[c] = vsync[c]
      /\ sync'[c] = sync[c] /\ ptr'[c] = ptr[c]
  BY <1>4 DEF Moved
<1>6. UNCHANGED <<vars, syncVars, rtnl, pc>>
  BY DEF kernel, vars
<1>7. step'[c] \in 1 .. Len(Prog[job'[c]])
  BY <1>1, <1>3, <1>5, LengthOf
<1>8. JobRow(c)'
  BY <1>1, <1>2, <1>3, <1>5, <1>6, <1>7, NoJob
     DEF JobRow, PcRow, InTrans, MayWait, InOp, HasRtnl, Barred, Closes, Opens
<1>9. Keeps(c)
  BY <1>1, <1>2, <1>5, <1>6, Unmoved DEF Keeps, Owner, Knows, Seeks, Barred, PlaceRow, SeekRow, syncVars
<1>10. PlatformCall(c)' => PlatformCall(c)
  BY <1>1, <1>5, <1>8, PlatformPrimed, PlatformCalls DEF HddInv
<1> QED BY <1>4, <1>6, <1>8, <1>9, <1>10, CoreKept, Unmoved, Quiet DEF RtnlStep

LEMMA WaitOutStep ==
  ASSUME HddInv, NEW c \in Caller, Wait(c), job[c] = "shutdown"
  PROVE  HddInv'
<1>1. step[c] = 5
  BY Position, Where DEF Wait, Calls, HddInv
<1>2. job[c] \in Job /\ Last(c) /\ ~Owner(c) /\ ~Opens(c) /\ ~Barred(c) /\ ~Closes(c) /\ ~HasRtnl(c)
  BY <1>1 DEF Job, Last, Owner, Opens, Barred, Closes, HasRtnl
<1>3. Returned(c)
  BY <1>2, LastCall, AdvancesOut, RowOf DEF Wait
<1>4. /\ Core' /\ OthersInside(c) /\ attached' = attached /\ UNCHANGED syncVars
      /\ rtnl' = rtnl /\ pc'[c] = "draining"
  BY InsideWait DEF Wait, kernel, HddInv
<1>5. rtnl # c
  BY <1>2, RowOf
<1> QED BY <1>2, <1>3, <1>4, <1>5, ReturnStep

LEMMA StopOutStep ==
  ASSUME HddInv, NEW c \in Caller, Stop(c), job[c] \in {"probe", "reinit", "mode", "mode_fail"}
  PROVE  HddInv'
<1>1. \/ job[c] = "probe" /\ step[c] = 9
      \/ job[c] = "reinit" /\ step[c] = 4
      \/ job[c] = "mode" /\ step[c] = 13
      \/ job[c] = "mode_fail" /\ step[c] = 1
  BY Position, Where DEF Stop, Calls, HddInv
<1>2. job[c] \in Job /\ Last(c) /\ ~Owner(c) /\ ~Opens(c) /\ ~Barred(c) /\ ~Closes(c) /\ ~HasRtnl(c)
  BY <1>1 DEF Job, Last, Owner, Opens, Barred, Closes, HasRtnl
<1>3. Returned(c)
  BY <1>2, LastCall, AdvancesOut, RowOf DEF Stop
<1>4. /\ Core' /\ OthersInside(c) /\ attached' = attached /\ UNCHANGED syncVars
      /\ rtnl' = rtnl /\ pc'[c] = "idle"
  BY InsideStop, CoreKept, Unmoved DEF Stop, kernel, HddInv
<1>5. rtnl # c
  BY <1>2, RowOf
<1> QED BY <1>2, <1>3, <1>4, <1>5, ReturnStep

\* Only a reinit may find that it has no transition.
LEMMA StopHasTransition ==
  ASSUME HddInv, NEW c \in Caller, Stop(c), job[c] # "reinit"
  PROVE  TransStop(c)
<1>1. \/ job[c] = "probe" /\ step[c] = 9
      \/ job[c] \in {"probe_fail", "idle"} /\ step[c] = 3
      \/ job[c] = "unload" /\ step[c] \in {4, 18}
      \/ job[c] \in {"up", "down"} /\ step[c] = 4
      \/ job[c] = "mode" /\ step[c] = 13
      \/ job[c] \in {"mode_fail", "add_fail"} /\ step[c] = 1
      \/ job[c] = "add" /\ step[c] = 5
      \/ job[c] = "del" /\ step[c] = 7
  BY Position, Where DEF Stop, Calls, HddInv
<1>2. InTrans(c)
  BY <1>1 DEF InTrans
<1>3. pc[c] # "idle"
  BY <1>2, RowOf DEF PcRow
<1> QED BY <1>3 DEF Stop

LEMMA StopOpStep ==
  ASSUME HddInv, NEW c \in Caller, StopOp(c)
  PROVE  HddInv'
<1>1. job[c] = "op" /\ step[c] = 2
  BY Position, Where DEF StopOp, Calls, HddInv
<1>2. job[c] \in Job /\ Last(c) /\ ~Owner(c) /\ ~Opens(c) /\ ~Barred(c) /\ ~Closes(c) /\ ~HasRtnl(c)
  BY <1>1 DEF Job, Last, Owner, Opens, Barred, Closes, HasRtnl
<1>3. Returned(c)
  BY <1>2, LastCall, AdvancesOut, RowOf DEF StopOp
<1>4. /\ Core' /\ OthersInside(c) /\ attached' = attached /\ UNCHANGED syncVars
      /\ rtnl' = rtnl /\ pc'[c] = "idle"
  BY InsideOpStop DEF StopOp, kernel, HddInv
<1>5. rtnl # c
  BY <1>2, RowOf
<1> QED BY <1>2, <1>3, <1>4, <1>5, ReturnStep

LEMMA IdleDoneStep ==
  ASSUME HddInv, NEW c \in Caller, IdleDone(c)
  PROVE  HddInv'
<1>1. (job[c] = "idle" /\ step[c] = 4) \/ (job[c] = "idle_busy" /\ step[c] = 1)
  BY Position, Where DEF IdleDone, Calls, HddInv
<1>2. job[c] \in Job /\ Last(c) /\ ~Owner(c) /\ ~Opens(c) /\ ~Barred(c) /\ ~Closes(c) /\ ~HasRtnl(c)
      /\ ~InOp(c)
  BY <1>1 DEF Job, Last, Owner, Opens, Barred, Closes, HasRtnl, InOp
<1>3. Returned(c)
  BY <1>2, LastCall, AdvancesOut, RowOf DEF IdleDone
<1>4. /\ Core' /\ OthersInside(c) /\ attached' = attached /\ UNCHANGED syncVars
      /\ rtnl' = rtnl /\ pc' = pc
  BY Cleared DEF IdleDone, kernel
<1>5. rtnl # c /\ pc[c] \in {"idle", "holding", "drained"}
  BY <1>2, RowOf DEF IdleDone, Calls, PcRow
<1> QED BY <1>2, <1>3, <1>4, <1>5, ReturnStep

\* A thread goes on inside the core.
LEMMA InsideStep ==
  ASSUME HddInv, NEW c \in Caller, Granted(c) \/ Draining(c)
  PROVE  HddInv'
<1>1. WaitGranted(c) \/ Wake(c) \/ Drained(c) \/ \E n \in Node : VisitQuiet(c, n) \/ VisitBusy(c, n)
  BY DEF Granted, Draining
<1>2. /\ Core' /\ OthersInside(c) /\ attached' = attached /\ at' = at
      /\ pc[c] \in {"granted", "draining", "sleeping"}
      /\ pc'[c] \in {"holding", "draining", "sleeping", "drained"}
  BY <1>1, InsideDrain DEF HddInv
<1>3. UNCHANGED <<syncVars, jobVars, kernel>>
  BY DEF Granted, Draining
<1>4. /\ UNCHANGED <<job, step, dev, sync, ptr, vsync, rtnl, inUse, key, ctx>>
      /\ Others(c) /\ JobTypes'
  <2>1. UNCHANGED <<job, step, dev, sync, ptr, vsync, rtnl, inUse, key, ctx>>
    BY <1>3 DEF syncVars, jobVars, kernel
  <2> QED BY <2>1, RowOf DEF Others, JobTypes
<1>5. InTrans(c) \/ job[c] \in {None, "reinit"}
  <2>1. pc[c] # "op" /\ pc[c] # "idle" /\ PcRow(c)
    BY <1>2, RowOf
  <2> QED BY <2>1 DEF PcRow
<1>6. JobRow(c)'
  <2>1. JobRow(c) /\ PcRow(c)
    BY RowOf
  <2>2. (InTrans(c)' <=> InTrans(c)) /\ (InOp(c)' <=> InOp(c)) /\ (HasRtnl(c)' <=> HasRtnl(c))
        /\ (Barred(c)' <=> Barred(c)) /\ (Closes(c)' <=> Closes(c)) /\ (Opens(c)' <=> Opens(c))
    BY <1>4 DEF InTrans, InOp, HasRtnl, Barred, Closes, Opens
  <2>3. ~InOp(c)
    BY <1>2, <2>1 DEF PcRow
  <2>4. PcRow(c)'
    BY <1>2, <1>4, <1>5, <2>1, <2>2, <2>3 DEF PcRow
  <2> QED BY <1>4, <2>1, <2>2, <2>4 DEF JobRow
<1>7. Keeps(c)
  <2>1. SeekRow(c) /\ PlaceRow(c)
    BY RowOf
  <2>2. PlaceRow(c)'
    BY <1>2, <1>4, <2>1 DEF PlaceRow
  <2> QED BY <1>4, <2>1, <2>2 DEF Keeps, Owner, Knows, Seeks, Barred, SeekRow, OwnKind
<1>8. PlatformCall(c)' => PlatformCall(c)
  BY <1>4 DEF PlatformCall
<1> QED BY <1>2, <1>4, <1>6, <1>7, <1>8, QuietStep DEF RtnlStep

LEMMA BeginStep ==
  ASSUME HddInv, NEW c \in Caller, NEW j \in Called, NEW k \in Dev \cup NetDev, Begin(c, j, k)
  PROVE  HddInv'
<1>1. j \in {"probe", "unload", "shutdown", "idle", "mode", "add", "del", "up", "down", "op"}
  <2>1. DOMAIN FailOf = {"probe", "add", "mode", "idle"}
        /\ FailOf["probe"] = "probe_fail" /\ FailOf["add"] = "add_fail"
        /\ FailOf["mode"] = "mode_fail" /\ FailOf["idle"] = "idle_busy"
    BY DEF FailOf
  <2>2. j \in Job /\ j \notin {FailOf[i] : i \in DOMAIN FailOf} /\ j # "reinit"
    BY JobsAssumption, ProgJobs DEF Called
  <2>3. j \notin {"probe_fail", "add_fail", "mode_fail", "idle_busy"}
    BY <2>1, <2>2
  <2> QED BY <2>2, <2>3 DEF Job
<1>2. job[c] = None /\ pc[c] = "idle" /\ UNCHANGED <<vars, syncVars, sync, ptr, vsync>>
      /\ k \in Subject(j) /\ HoldRtnl(c, j) /\ Goto(c, j, 1) /\ dev' = [dev EXCEPT ![c] = k]
  BY DEF Begin
<1>3. JobTypes /\ JobRow(c)
  BY RowOf
<1>4. Moved(c, j, 1, k, sync[c], ptr[c], vsync[c])
  BY <1>1, <1>2, <1>3 DEF Moved, Goto, Others, JobTypes, Job
<1>5. job'[c] = j /\ step'[c] = 1 /\ dev'[c] = k /\ vsync'[c] = vsync[c] /\ pc' = pc
  BY <1>2, <1>4 DEF Moved, vars
<1>6. vsync[c] = None /\ rtnl # c
  <2>1. ~Barred(c) /\ ~Closes(c) /\ ~Opens(c) /\ ~HasRtnl(c)
    BY <1>2, NoJob DEF Job, Barred, Closes, Opens, HasRtnl
  <2> QED BY <1>3, <2>1 DEF JobRow
<1>7. rtnl' = c <=> j \in {"add", "del", "up", "down"}
  BY <1>2, <1>6 DEF HoldRtnl
<1>8. RtnlStep(c)
  BY <1>2 DEF HoldRtnl, RtnlStep
<1>9. (j \in {"del", "up", "down"} => k \in NetDev) /\ (j \notin {"op", "del", "up", "down"} => k \in Dev)
  BY <1>2 DEF Subject
<1>10. JobRow(c)'
  <2>1. 1 \in 1 .. Len(Prog[j]) /\ j \in Job
    <3>1. j \in Job
      BY <1>1 DEF Job
    <3> QED BY <3>1, LengthOf
  <2>2. ~InTrans(c)' /\ ~MayWait(c)' /\ ~InOp(c)' /\ ~Barred(c)' /\ ~Closes(c)' /\ ~Opens(c)'
        /\ (HasRtnl(c)' <=> j \in {"add", "del", "up", "down"})
    BY <1>1, <1>5 DEF InTrans, MayWait, InOp, Barred, Closes, Opens, HasRtnl
  <2>3. PcRow(c)'
    BY <1>2, <1>5, <2>2 DEF PcRow
  <2> QED BY <1>5, <1>6, <1>7, <1>9, <2>1, <2>2, <2>3 DEF JobRow
<1>11. Keeps(c)
  BY <1>1, <1>2, <1>5, <1>6, NoJob DEF Keeps, Owner, Knows, Seeks, Barred, PlaceRow, Job
<1>12. PlatformCall(c)' => PlatformIdle
  <2>1. PlatformCall(c)' => j \in {"probe", "shutdown"}
    BY <1>1, <1>5, <1>10, PlatformPrimed
  <2> QED BY <2>1 DEF Begin
<1> QED BY <1>2, <1>4, <1>8, <1>10, <1>11, <1>12, CoreKept, Unmoved, Quiet

LEMMA FirmwareDownStep ==
  ASSUME HddInv, FirmwareDown
  PROVE  HddInv'
<1>1. UNCHANGED <<job, step, dev, sync, ptr, vsync, rtnl, inUse, key, ctx, attached, pc, at>>
  BY DEF FirmwareDown, SetRecovering, syncVars, jobVars, kernel
<1>2. Core'
  BY CoreRest DEF FirmwareDown, HddInv
<1>3. JobInv'
  BY <1>1 DEF HddInv, JobInv, JobTypes, JobRow, PcRow, InTrans, MayWait, InOp, HasRtnl, Barred,
              Closes, Opens, PlatformCall
<1>4. SyncInv'
  BY <1>1 DEF HddInv, SyncInv, RegType, RegistrySound, OwnInv, Mine, Owner, OwnKind, SeekRow,
              PlaceRow, Knows, Seeks, Barred
<1> QED BY <1>2, <1>3, <1>4 DEF HddInv

LEMMA StutterStep ==
  ASSUME HddInv, UNCHANGED hddVars
  PROVE  HddInv'
<1>1. UNCHANGED <<job, step, dev, sync, ptr, vsync, rtnl, inUse, key, ctx, attached, pc, at>>
      /\ UNCHANGED vars
  BY DEF hddVars, vars, syncVars, jobVars, kernel
<1>2. Core'
  BY <1>1, CoreKept
<1>3. JobInv'
  BY <1>1 DEF HddInv, JobInv, JobTypes, JobRow, PcRow, InTrans, MayWait, InOp, HasRtnl, Barred,
              Closes, Opens, PlatformCall
<1>4. SyncInv'
  BY <1>1 DEF HddInv, SyncInv, RegType, RegistrySound, OwnInv, Mine, Owner, OwnKind, SeekRow,
              PlaceRow, Knows, Seeks, Barred
<1> QED BY <1>2, <1>3, <1>4 DEF HddInv

----------------------------------------------------------------------------
(* The calls that change the registry. *)

Loose == {s \in inUse : key[s] = None}

\* An entry belongs to nobody else once it is one thread's to register or to
\* destroy, except that who has looked an interface up may hold an entry barred.
LEMMA OthersEntry ==
  ASSUME HddInv, NEW c \in Caller, NEW d \in Caller, Knows(d) \/ Seeks(d),
         NEW s \in Mine(c), ~Barred(c)
  PROVE  sync[d] \in inUse /\ sync[d] \in Sync /\ sync[d] # s
<1>1. s \in inUse /\ key[s] = None
  BY DEF HddInv, SyncInv, OwnInv
<1>2. SeekRow(d) /\ JobRow(d)
  BY RowOf
<1>3. sync[d] \in inUse /\ sync[d] \in Sync
  BY <1>2 DEF SeekRow, Sync
<1>4. dev[d] # None
  <2>1. dev[d] \in Dev \cup NetDev
    BY <1>2, NoJob DEF JobRow, Knows, Seeks, Job
  <2> QED BY <2>1, SyncAssumption
<1>5. CASE key[sync[d]] = dev[d]
  BY <1>1, <1>3, <1>4, <1>5
<1>6. CASE key[sync[d]] # dev[d]
  <2>1. PICK e \in Caller : Barred(e) /\ vsync[e] = sync[d]
    BY <1>2, <1>6 DEF SeekRow
  <2>2. sync[d] \in Mine(e)
    BY <1>3, <2>1 DEF Mine
  <2>3. e # c
    BY <2>1
  <2> QED BY <1>3, <2>2, <2>3 DEF HddInv, SyncInv, OwnInv
<1> QED BY <1>5, <1>6

LEMMA MineIsLoose ==
  ASSUME HddInv
  PROVE  /\ \A c \in Caller : Mine(c) \subseteq Loose
         /\ Loose = UNION {Mine(c) : c \in Caller} /\ Loose \subseteq inUse /\ inUse \subseteq Sync
BY DEF HddInv, SyncInv, OwnInv, Loose, RegType

\* The step of a thread that takes an entry over or parts with one.
LEMMA RegistryStep ==
  ASSUME HddInv, Core', NEW c \in Caller, JobTypes', Others(c), OthersInside(c), RtnlStep(c),
         JobRow(c)', PlatformCall(c)' => PlatformCall(c) \/ PlatformIdle,
         RegType', RegistrySound', NEW s,
         \/ s \notin Loose /\ Mine(c)' = Mine(c) \cup {s} /\ Loose' = Loose \cup {s}
         \/ s \in Mine(c) /\ Mine(c)' = Mine(c) \ {s} /\ Loose' = Loose \ {s},
         Owner(c)' => sync'[c] \in OwnKind(job'[c]), SeekRow(c)', PlaceRow(c)',
         \A d \in Caller \ {c} : Knows(d) \/ Seeks(d) => ctx'[sync[d]] = ctx[sync[d]],
         \A d \in Caller \ {c} : Knows(d) => sync[d] \in inUse' /\ key'[sync[d]] = key[sync[d]],
         \A d \in Caller \ {c} : Seeks(d) =>
            /\ sync[d] \in inUse'
            /\ \/ key'[sync[d]] = key[sync[d]] /\ (Barred(c) => Barred(c)' /\ vsync'[c] = vsync[c])
               \/ Barred(c)' /\ vsync'[c] = sync[d]
  PROVE  HddInv'
<1>1. JobInv'
  BY JobStep DEF HddInv
<1>2. \A d \in Caller \ {c} : Mine(d)' = Mine(d)
  BY OtherRows DEF HddInv
<1>3. \A d, e \in Caller : d # e => Mine(d) \cap Mine(e) = {}
  BY DEF HddInv, SyncInv, OwnInv
<1>4. OwnInv'
  <2>1. ASSUME NEW d \in Caller, Owner(d)'
        PROVE  sync'[d] \in OwnKind(job'[d])
    <3>1. CASE d = c
      BY <2>1, <3>1
    <3>2. CASE d # c
      <4>1. Owner(d) /\ sync'[d] = sync[d] /\ job'[d] = job[d]
        BY <2>1, <3>2, OtherRows DEF HddInv, Others
      <4> QED BY <4>1 DEF HddInv, SyncInv, OwnInv
    <3> QED BY <3>1, <3>2
  <2>2. \A d \in Caller \ {c} : Mine(c)' \cap Mine(d) = {}
    BY <1>3, MineIsLoose
  <2>3. \A d, e \in Caller : d # e => Mine(d)' \cap Mine(e)' = {}
    BY <1>2, <1>3, <2>2
  <2>4. UNION {Mine(d)' : d \in Caller} = Loose'
    <3>1. ASSUME NEW t, t \in Loose' PROVE \E d \in Caller : t \in Mine(d)'
      BY <1>2, <3>1, MineIsLoose
    <3>2. ASSUME NEW d \in Caller, NEW t \in Mine(d)' PROVE t \in Loose'
      BY <1>2, <1>3, <3>2, MineIsLoose
    <3> QED BY <3>1, <3>2
  <2> QED BY <2>1, <2>3, <2>4 DEF OwnInv, OwnKind, Loose
<1>5. ASSUME NEW d \in Caller \ {c}
      PROVE  SeekRow(d)' /\ PlaceRow(d)'
  <2>1. /\ job'[d] = job[d] /\ step'[d] = step[d] /\ dev'[d] = dev[d]
        /\ sync'[d] = sync[d] /\ ptr'[d] = ptr[d] /\ at'[d] = at[d]
    BY DEF Others, OthersInside
  <2>2. (Knows(d)' <=> Knows(d)) /\ (Seeks(d)' <=> Seeks(d))
    BY OtherRows DEF HddInv
  <2>3. SeekRow(d) /\ PlaceRow(d)
    BY RowOf
  <2>4. PlaceRow(d)'
    BY <2>1, <2>3 DEF PlaceRow, Knows, Seeks
  <2>5. \A e \in Caller \ {c} : (Barred(e)' <=> Barred(e)) /\ vsync'[e] = vsync[e]
    BY OtherRows DEF HddInv, Others
  <2>6. Seeks(d) => key'[sync[d]] = dev[d] \/ \E e \in Caller : Barred(e)' /\ vsync'[e] = sync[d]
    BY <2>3, <2>5 DEF SeekRow
  <2>7. SeekRow(d)'
    BY <2>1, <2>2, <2>3, <2>6 DEF SeekRow
  <2> QED BY <2>4, <2>7
<1> QED BY <1>1, <1>4, <1>5 DEF HddInv, SyncInv

\* What osif_*_sync_create leaves.
LEMMA Created ==
  ASSUME HddInv, NEW c \in Caller, NEW s \in Sync \ inUse, NEW n \in Psoc \cup Vdev,
         s \in PsocSync <=> n \in Psoc, Create(n), inUse' = inUse \cup {s},
         ctx' = [ctx EXCEPT ![s] = n], UNCHANGED key
  PROVE  /\ Core' /\ OthersInside(c) /\ pc' = pc /\ at' = at
         /\ RegType' /\ RegistrySound' /\ s \notin Loose /\ Loose' = Loose \cup {s}
         /\ \A t \in inUse : t # s /\ t \in inUse' /\ key'[t] = key[t] /\ ctx'[t] = ctx[t]
<1>1. Core' /\ n \in Node /\ n # Driver
  BY CoreRest, Tree DEF HddInv
<1>2. attached' = attached \cup {n} /\ n \notin attached /\ pc' = pc /\ at' = at
  BY DEF Create
<1>3. RegType /\ RegistrySound
  BY DEF HddInv, SyncInv
<1>4. ctx' \in [Sync -> Psoc \cup Vdev \cup {None}] /\ ctx'[s] = n
      /\ \A t \in Sync : t # s => ctx'[t] = ctx[t]
  BY <1>3 DEF RegType
<1>5. RegType'
  BY <1>3, <1>4, SyncAssumption, Tree DEF RegType, Sync
<1>6. key[s] = None
  BY <1>3 DEF RegistrySound
<1>7. RegistrySound'
  <2>1. {ctx'[t] : t \in inUse'} = {ctx[t] : t \in inUse} \cup {n}
    BY <1>3, <1>4 DEF RegType
  <2>2. {ctx'[t] : t \in inUse'} = attached' \ {Driver}
    BY <1>1, <1>2, <1>3, <2>1 DEF RegistrySound
  <2>3. \A t \in inUse : ctx[t] # n
    BY <1>2, <1>3 DEF RegistrySound
  <2>4. \A t, u \in inUse' : t # u => ctx'[t] # ctx'[u] /\ (key'[t] = key'[u] => key'[t] = None)
    BY <1>3, <1>4, <1>6, <2>3 DEF RegistrySound, RegType
  <2>5. \A t \in Sync \ inUse' : ctx'[t] = None /\ key'[t] = None
    BY <1>3, <1>4 DEF RegistrySound
  <2> QED BY <2>2, <2>4, <2>5 DEF RegistrySound
<1> QED BY <1>1, <1>2, <1>3, <1>4, <1>5, <1>6, <1>7 DEF Loose, OthersInside, RegType

\* What osif_*_sync_register leaves.
LEMMA Registered ==
  ASSUME HddInv, NEW s \in Loose, NEW k \in Dev \cup NetDev, s \in PsocSync <=> k \in Dev,
         Lookup(k) = {}, SyncRegister(s, k), attached' = attached
  PROVE  /\ RegType' /\ RegistrySound' /\ Loose' = Loose \ {s} /\ UNCHANGED <<inUse, ctx>>
         /\ key'[s] = k /\ \A t \in Sync : t # s => key'[t] = key[t]
<1>1. RegType /\ RegistrySound /\ s \in inUse /\ s \in Sync
  BY MineIsLoose DEF HddInv, SyncInv
<1>2. k # None /\ (k \in Dev <=> k \notin NetDev)
  BY SyncAssumption
<1>3. UNCHANGED <<inUse, ctx>> /\ key' \in [Sync -> Dev \cup NetDev \cup {None}] /\ key'[s] = k
      /\ \A t \in Sync : t # s => key'[t] = key[t]
  BY <1>1 DEF SyncRegister, RegType
<1>4. RegType'
  BY <1>1, <1>2, <1>3, SyncAssumption DEF RegType, Sync
<1>5. \A t \in inUse : key[t] # k
  BY DEF Lookup
<1>6. RegistrySound'
  BY <1>1, <1>3, <1>5 DEF RegistrySound, RegType
<1> QED BY <1>1, <1>2, <1>3, <1>4, <1>6 DEF Loose, RegType

\* What osif_*_sync_unregister leaves.
LEMMA Unregistered ==
  ASSUME HddInv, NEW s \in inUse, key[s] # None, SyncUnregister(key[s]), attached' = attached
  PROVE  /\ RegType' /\ RegistrySound' /\ s \notin Loose /\ Loose' = Loose \cup {s}
         /\ UNCHANGED <<inUse, ctx>> /\ key'[s] = None
         /\ \A t \in Sync : t # s => key'[t] = key[t]
<1>1. RegType /\ RegistrySound /\ s \in Sync
  BY MineIsLoose DEF HddInv, SyncInv
<1>2. Lookup(key[s]) = {s}
  BY <1>1 DEF Lookup, RegistrySound
<1>3. UNCHANGED <<inUse, ctx>> /\ key' = [t \in Sync |-> IF t = s THEN None ELSE key[t]]
  BY <1>2 DEF SyncUnregister
<1>4. RegType'
  BY <1>1, <1>3, SyncAssumption DEF RegType, Sync
<1>5. RegistrySound'
  BY <1>1, <1>3 DEF RegistrySound, RegType
<1> QED BY <1>1, <1>3, <1>4, <1>5 DEF Loose, RegType

\* Nobody waits for a transition on a context that a thread is about to destroy:
\* on the radio's only the calls of the platform wait, on the interface's only a
\* delete, and that one no longer finds it.
LEMMA NobodyWaits ==
  ASSUME HddInv, NEW c \in Caller, NEW s \in Mine(c), ~Barred(c), ~MayWait(c),
         s \in PsocSync => PlatformCall(c), NEW d \in Caller, pc[d] = "queued"
  PROVE  at[d] # ctx[s]
<1> SUFFICES ASSUME at[d] = ctx[s] PROVE FALSE
  OBVIOUS
<1>1. RegType /\ RegistrySound /\ s \in inUse /\ s \in Sync
  BY MineIsLoose DEF HddInv, SyncInv, Loose
<1>2. MayWait(d) /\ PlaceRow(d) /\ SeekRow(d)
  BY RowOf DEF PcRow
<1>3. ctx[s] \in attached \ {Driver}
  BY <1>1 DEF RegistrySound
<1>4. ctx[s] # Driver /\ ctx[s] # None
  BY <1>3, NoneIsFresh DEF HddInv, Core, TypeOK
<1>5. CASE (job[d] = "unload" /\ step[d] = 3) \/ (job[d] = "mode" /\ step[d] = 3)
  <2>1. at[d] = Driver
    BY <1>2, <1>5 DEF PlaceRow
  <2> QED BY <1>4, <2>1
<1>6. CASE (job[d] = "unload" /\ step[d] = 9) \/ (job[d] = "shutdown" /\ step[d] = 5)
  <2>1. at[d] \in Psoc
    BY <1>2, <1>6 DEF PlaceRow
  <2>2. s \in PsocSync
    BY <1>1, <2>1, Tree DEF RegType, Sync
  <2>3. PlatformCall(d)
    BY <1>6, PlatformCalls DEF HddInv
  <2>4. d = c
    BY <2>2, <2>3 DEF HddInv, JobInv
  <2> QED BY <1>2, <2>4
<1>7. CASE job[d] = "del" /\ step[d] = 4
  <2>1. Seeks(d) /\ at[d] = ctx[sync[d]]
    BY <1>2, <1>7 DEF Seeks, PlaceRow
  <2>2. sync[d] \in inUse /\ sync[d] # s
    BY <2>1, OthersEntry
  <2> QED BY <1>1, <2>1, <2>2 DEF RegistrySound
<1> QED BY <1>2, <1>5, <1>6, <1>7 DEF MayWait

\* What osif_*_sync_destroy leaves.
LEMMA Destroyed ==
  ASSUME HddInv, NEW c \in Caller, NEW s \in Mine(c), ~Barred(c), ~MayWait(c),
         s \in PsocSync => PlatformCall(c), SyncDestroy(s)
  PROVE  /\ Core' /\ OthersInside(c) /\ pc' = pc /\ at' = at
         /\ RegType' /\ RegistrySound' /\ Loose' = Loose \ {s}
         /\ \A t \in inUse : t # s => t \in inUse' /\ key'[t] = key[t] /\ ctx'[t] = ctx[t]
<1> DEFINE n == ctx[s]
<1>1. RegType /\ RegistrySound /\ s \in inUse /\ s \in Sync
  BY MineIsLoose DEF HddInv, SyncInv, Loose
<1>2. n \in attached /\ n # Driver /\ n \in Node
  BY <1>1 DEF RegistrySound, HddInv, Core, TypeOK
<1>3. Free(n)
  BY DEF SyncDestroy
<1>4. Core'
  BY <1>2, <1>3, CoreFree DEF HddInv
<1>5. pc' = pc
  <2>1. ASSUME NEW d \in Caller, NEW i \in DOMAIN queue[n], queue[n][i] = d PROVE FALSE
    <3>1. pc[d] = "queued" /\ at[d] = n
      BY <1>2, <2>1 DEF HddInv, Core, TypeOK, QueueAccounting
    <3> QED BY <3>1, NobodyWaits
  <2>2. pc' = [d \in Caller |->
                 IF \E i \in DOMAIN queue[n] : queue[n][i] = d THEN "aborted" ELSE pc[d]]
    BY <1>3 DEF Free
  <2>3. pc' = [d \in Caller |-> pc[d]]
    BY <2>1, <2>2
  <2> QED BY <2>3 DEF HddInv, Core, TypeOK
<1>6. attached' = attached \ {n} /\ at' = at
  BY <1>3 DEF Free
<1>7. /\ inUse' = inUse \ {s} /\ key' = [key EXCEPT ![s] = None] /\ ctx' = [ctx EXCEPT ![s] = None]
  BY DEF SyncDestroy
<1> HIDE DEF n
<1>8. RegType'
  BY <1>1, <1>7, SyncAssumption, NoneIsFresh, Tree DEF RegType, Sync
<1>9. /\ \A t \in Sync : t # s => key'[t] = key[t] /\ ctx'[t] = ctx[t]
      /\ key'[s] = None /\ ctx'[s] = None
  BY <1>1, <1>7 DEF RegType
<1>10. RegistrySound'
  <2>1. \A t \in inUse : t # s => ctx[t] # n
    BY <1>1 DEF RegistrySound, n
  <2>2. {ctx'[t] : t \in inUse'} = {ctx[t] : t \in inUse} \ {n}
    BY <1>1, <1>7, <1>9, <2>1 DEF RegType, n
  <2>3. {ctx'[t] : t \in inUse'} = attached' \ {Driver}
    BY <1>1, <1>6, <2>2 DEF RegistrySound
  <2>4. \A t, u \in inUse' : t # u => ctx'[t] # ctx'[u] /\ (key'[t] = key'[u] => key'[t] = None)
    BY <1>1, <1>7, <1>9 DEF RegistrySound, RegType
  <2>5. \A t \in Sync \ inUse' : ctx'[t] = None /\ key'[t] = None
    BY <1>1, <1>7, <1>9 DEF RegistrySound
  <2> QED BY <2>3, <2>4, <2>5 DEF RegistrySound
<1>11. Loose' = Loose \ {s}
  BY <1>1, <1>7, <1>9 DEF Loose, RegType
<1>12. OthersInside(c)
  BY <1>5, <1>6 DEF OthersInside
<1> QED BY <1>1, <1>4, <1>5, <1>6, <1>7, <1>8, <1>9, <1>10, <1>11, <1>12 DEF RegType

LEMMA CreateSyncStep ==
  ASSUME HddInv, NEW c \in Caller, CreateSync(c)
  PROVE  HddInv'
<1>1. job[c] \in {"probe", "add"} /\ step[c] = 1
  BY Position, Where DEF CreateSync, Calls, HddInv
<1>2. PICK s \in Sync \ inUse, n \in Psoc \cup Vdev :
        /\ Create(n) /\ inUse' = inUse \cup {s} /\ ctx' = [ctx EXCEPT ![s] = n] /\ UNCHANGED key
        /\ (s \in PsocSync <=> n \in Psoc) /\ (s \in PsocSync <=> job[c] = "probe") /\ Use(c, s)
  <2>1. PICK s \in Sync, n \in Psoc \cup Vdev :
          /\ IF job[c] = "probe" THEN n \in Psoc /\ PsocSyncCreate(s, n)
             ELSE n \in Vdev /\ VdevSyncCreate(s, dev[c], n)
          /\ Use(c, s)
    BY DEF CreateSync
  <2> QED BY <1>1, <2>1, SyncAssumption, Tree DEF PsocSyncCreate, VdevSyncCreate, Sync
<1>3. /\ Core' /\ OthersInside(c) /\ pc' = pc /\ at' = at
      /\ RegType' /\ RegistrySound' /\ s \notin Loose /\ Loose' = Loose \cup {s}
      /\ \A t \in inUse : t # s /\ t \in inUse' /\ key'[t] = key[t] /\ ctx'[t] = ctx[t]
  BY <1>2, Created
<1>4. Moved(c, job[c], step[c] + 1, dev[c], s, ptr[c], vsync[c])
  BY <1>1, <1>2, Uses, RowOf DEF Job
<1>5. job'[c] = job[c] /\ step'[c] = 2 /\ dev'[c] = dev[c] /\ vsync'[c] = vsync[c] /\ sync'[c] = s
  BY <1>1, <1>4 DEF Moved
<1>6. JobRow(c) /\ ~InTrans(c) /\ ~InOp(c) /\ ~Barred(c) /\ ~Closes(c) /\ ~Opens(c)
      /\ (HasRtnl(c) <=> job[c] = "add")
  BY <1>1, RowOf DEF InTrans, InOp, Barred, Closes, Opens, HasRtnl
<1>7. vsync[c] = None /\ pc[c] = "idle" /\ dev[c] \in Dev /\ rtnl' = rtnl /\ (rtnl = c <=> job[c] = "add")
  BY <1>1, <1>6, NoJob DEF JobRow, PcRow, CreateSync, kernel, Job
<1>8. JobRow(c)'
  <2>1. 2 \in 1 .. Len(Prog["probe"]) /\ 2 \in 1 .. Len(Prog["add"])
    BY Lengths
  <2>2. ~InTrans(c)' /\ ~InOp(c)' /\ ~MayWait(c)' /\ ~Barred(c)' /\ ~Closes(c)' /\ ~Opens(c)'
        /\ (HasRtnl(c)' <=> job[c] = "add")
    BY <1>1, <1>5 DEF InTrans, InOp, MayWait, Barred, Closes, Opens, HasRtnl
  <2>3. job[c] \in Job /\ 2 \in 1 .. Len(Prog[job[c]])
    BY <1>1, <2>1 DEF Job
  <2> QED BY <1>1, <1>3, <1>5, <1>7, <2>2, <2>3 DEF JobRow, PcRow
<1>9. Mine(c)' = Mine(c) \cup {s}
  <2>1. ~Owner(c) /\ Owner(c)'
    BY <1>1, <1>5 DEF Owner
  <2> QED BY <1>2, <1>5, <1>7, <2>1, SyncAssumption DEF Mine, Sync
<1>10. /\ sync'[c] \in OwnKind(job'[c]) /\ SeekRow(c)' /\ PlaceRow(c)'
  BY <1>1, <1>2, <1>5 DEF OwnKind, Sync, SeekRow, PlaceRow, Knows, Seeks
<1>11. \A d \in Caller : Knows(d) \/ Seeks(d) => sync[d] \in inUse
  BY RowOf DEF SeekRow
<1>12. PlatformCall(c)' => PlatformCall(c)
  BY <1>1, <1>5 DEF PlatformCall
<1>13. Others(c) /\ JobTypes' /\ RtnlStep(c)
  BY <1>4, <1>7 DEF Moved, RtnlStep
<1> QED BY <1>3, <1>6, <1>8, <1>9, <1>10, <1>11, <1>12, <1>13, RegistryStep

\* hdd_open_adapter_no_trans
LEMMA OpenCreateStep ==
  ASSUME HddInv, NEW c \in Caller, Calls(c, "open"), NEW s \in VdevSync, NEW v \in Vdev,
         VdevSyncCreate(s, dev[c], v), vsync' = [vsync EXCEPT ![c] = s], Skip(c, 1), UNCHANGED kernel
  PROVE  HddInv'
<1>1. (job[c] = "probe" /\ step[c] = 6) \/ (job[c] = "mode" /\ step[c] = 10)
  BY Position, Where DEF Calls, HddInv
<1>2. /\ s \in Sync \ inUse /\ v \in Psoc \cup Vdev /\ s \notin PsocSync /\ v \notin Psoc
      /\ Create(v) /\ inUse' = inUse \cup {s} /\ ctx' = [ctx EXCEPT ![s] = v] /\ UNCHANGED key
  BY SyncAssumption, Tree DEF VdevSyncCreate, Sync
<1>3. /\ Core' /\ OthersInside(c) /\ pc' = pc /\ at' = at
      /\ RegType' /\ RegistrySound' /\ s \notin Loose /\ Loose' = Loose \cup {s}
      /\ \A t \in inUse : t # s /\ t \in inUse' /\ key'[t] = key[t] /\ ctx'[t] = ctx[t]
  BY <1>2, Created
<1>4. JobTypes /\ JobRow(c) /\ SeekRow(c) /\ PlaceRow(c)
  BY RowOf
<1>5. job[c] \in Job
  BY <1>1 DEF Job
<1>6. Moved(c, job[c], step[c] + 1, dev[c], sync[c], ptr[c], s)
  BY <1>4, <1>5 DEF Moved, Skip, Goto, Others, JobTypes
<1>7. job'[c] = job[c] /\ step'[c] = step[c] + 1 /\ dev'[c] = dev[c] /\ vsync'[c] = s /\ sync'[c] = sync[c]
  BY <1>6 DEF Moved
<1>8. InTrans(c) /\ ~InOp(c) /\ ~Barred(c) /\ ~Closes(c) /\ ~Opens(c) /\ HasRtnl(c) /\ ~MayWait(c)
  BY <1>1 DEF InTrans, InOp, Barred, Closes, Opens, HasRtnl, MayWait
<1>9. vsync[c] = None /\ pc[c] \in {"holding", "drained"} /\ dev[c] \in Dev /\ rtnl' = rtnl /\ rtnl = c
  BY <1>1, <1>4, <1>8, NoJob DEF JobRow, PcRow, Calls, kernel, Job
<1>10. JobRow(c)'
  <2>1. ~InOp(c)' /\ InTrans(c)' /\ ~Barred(c)' /\ ~Closes(c)' /\ Opens(c)' /\ HasRtnl(c)'
    BY <1>1, <1>7 DEF InTrans, InOp, Barred, Closes, Opens, HasRtnl
  <2>2. step'[c] \in 1 .. Len(Prog[job'[c]])
    BY <1>1, <1>5, <1>7, LengthOf
  <2>3. s # None
    BY SyncAssumption
  <2> QED BY <1>1, <1>3, <1>5, <1>7, <1>9, <2>1, <2>2, <2>3, NoJob DEF JobRow, PcRow
<1>11. Mine(c)' = Mine(c) \cup {s}
  <2>1. ~Owner(c) /\ ~Owner(c)'
    BY <1>1, <1>7 DEF Owner
  <2> QED BY <1>2, <1>7, <1>9, <2>1, SyncAssumption DEF Mine, Sync
<1>12. \A d \in Caller : Knows(d) \/ Seeks(d) => sync[d] \in inUse
  BY RowOf DEF SeekRow
<1>13. SeekRow(c)'
  <2>1. (Knows(c)' <=> Knows(c)) /\ ~Seeks(c)'
    BY <1>1, <1>7 DEF Knows, Seeks
  <2> QED BY <1>3, <1>4, <1>7, <2>1 DEF SeekRow
<1>14. PlaceRow(c)' /\ ~Owner(c)'
  BY <1>1, <1>3, <1>4, <1>7 DEF PlaceRow, Owner
<1>15. PlatformCall(c)' => PlatformCall(c)
  BY <1>1, <1>7 DEF PlatformCall
<1>16. Others(c) /\ JobTypes' /\ RtnlStep(c)
  BY <1>6, <1>9 DEF Moved, RtnlStep
<1> QED BY <1>3, <1>8, <1>10, <1>11, <1>12, <1>13, <1>14, <1>15, <1>16, RegistryStep

LEMMA RegisterStep ==
  ASSUME HddInv, NEW c \in Caller, Register(c)
  PROVE  HddInv'
<1>1. (job[c] = "probe" /\ step[c] = 3) \/ (job[c] = "add" /\ step[c] = 4)
  BY Position, Where DEF Register, Calls, HddInv
<1> DEFINE s == sync[c]
<1>2. JobTypes /\ JobRow(c)
  BY RowOf
<1>3. Owner(c) /\ ~Barred(c) /\ ~Closes(c) /\ ~Opens(c) /\ InTrans(c) /\ ~InOp(c) /\ ~MayWait(c)
      /\ (HasRtnl(c) <=> job[c] = "add") /\ job[c] \in Job /\ ~Last(c)
  BY <1>1 DEF Owner, Barred, Closes, Opens, InTrans, InOp, MayWait, HasRtnl, Job, Last
<1>4. s \in Mine(c) /\ s \in OwnKind(job[c]) /\ s \in Loose /\ vsync[c] = None
  <2>1. s \in OwnKind(job[c])
    BY <1>3 DEF HddInv, SyncInv, OwnInv
  <2>2. s \in Mine(c)
    BY <1>3, <2>1 DEF Mine, OwnKind, Sync
  <2> QED BY <1>2, <1>3, <2>1, <2>2, MineIsLoose DEF JobRow
<1>5. dev[c] \in Dev /\ pc[c] \in {"holding", "drained"} /\ (rtnl = c <=> job[c] = "add")
  BY <1>1, <1>2, <1>3, NoJob DEF JobRow, PcRow, Register, Calls, Job
<1>6. PICK k \in (IF job[c] = "probe" THEN {dev[c]} ELSE NetDev) : Lookup(k) = {} /\ SyncRegister(s, k)
  BY DEF Register
<1>7. UNCHANGED <<vars, rtnl>> /\ attached' = attached /\ pc' = pc /\ at' = at
  BY DEF Register, kernel, vars
<1>8. k \in Dev \cup NetDev /\ (s \in PsocSync <=> k \in Dev)
  BY <1>1, <1>4, <1>5, <1>6, SyncAssumption DEF OwnKind
<1>9. /\ RegType' /\ RegistrySound' /\ Loose' = Loose \ {s} /\ UNCHANGED <<inUse, ctx>>
      /\ key'[s] = k /\ \A t \in Sync : t # s => key'[t] = key[t]
  BY <1>4, <1>6, <1>7, <1>8, Registered
<1>10. Moved(c, job[c], step[c] + 1, dev[c], sync[c], ptr[c], vsync[c])
  BY <1>2, <1>3, LastCall, AdvancesOn DEF Register
<1>11. job'[c] = job[c] /\ step'[c] = step[c] + 1 /\ dev'[c] = dev[c] /\ vsync'[c] = vsync[c] /\ sync'[c] = s
  BY <1>10 DEF Moved
<1>12. JobRow(c)'
  <2>1. ~InOp(c)' /\ InTrans(c)' /\ ~Barred(c)' /\ ~Closes(c)' /\ ~Opens(c)' /\ (HasRtnl(c)' <=> HasRtnl(c))
    BY <1>1, <1>11 DEF InTrans, InOp, Barred, Closes, Opens, HasRtnl
  <2>2. step'[c] \in 1 .. Len(Prog[job'[c]])
    BY <1>1, <1>3, <1>11, LengthOf
  <2> QED BY <1>1, <1>2, <1>3, <1>5, <1>7, <1>11, <2>1, <2>2, NoJob DEF JobRow, PcRow
<1>13. Mine(c)' = Mine(c) \ {s}
  <2>1. ~Owner(c)'
    BY <1>1, <1>11 DEF Owner
  <2> QED BY <1>3, <1>4, <1>11, <2>1, SyncAssumption DEF Mine, Sync
<1>14. \A d \in Caller : Knows(d) \/ Seeks(d) => sync[d] \in inUse /\ sync[d] \in Sync /\ sync[d] # s
  BY <1>3, <1>4, OthersEntry
<1>15. SeekRow(c)' /\ PlaceRow(c)' /\ ~Owner(c)'
  <2>1. ~Seeks(c)' /\ ~Owner(c)' /\ PlaceRow(c)' /\ (Knows(c)' => job[c] = "probe")
    BY <1>1, <1>11 DEF Seeks, Owner, PlaceRow, Knows
  <2>2. job[c] = "probe" => k = dev[c] /\ s \in inUse \cap PsocSync
    BY <1>4, <1>6, MineIsLoose DEF OwnKind, Loose
  <2> QED BY <1>9, <1>11, <2>1, <2>2 DEF SeekRow
<1>16. PlatformCall(c)' => PlatformCall(c)
  BY <1>1, <1>11 DEF PlatformCall
<1>17. Others(c) /\ JobTypes' /\ RtnlStep(c) /\ OthersInside(c) /\ Core'
  BY <1>7, <1>10, Unmoved, CoreKept DEF Moved, RtnlStep
<1> HIDE DEF s
<1> QED BY <1>3, <1>4, <1>9, <1>12, <1>13, <1>14, <1>15, <1>16, <1>17, RegistryStep

LEMMA OpenRegisterStep ==
  ASSUME HddInv, NEW c \in Caller, OpenRegister(c)
  PROVE  HddInv'
<1>1. (job[c] = "probe" /\ step[c] = 7) \/ (job[c] = "mode" /\ step[c] = 11)
  BY Position, Where DEF OpenRegister, Calls, HddInv
<1> DEFINE s == vsync[c]
<1>2. JobTypes /\ JobRow(c) /\ SeekRow(c) /\ PlaceRow(c)
  BY RowOf
<1>3. ~Owner(c) /\ ~Barred(c) /\ ~Closes(c) /\ Opens(c) /\ InTrans(c) /\ ~InOp(c) /\ ~MayWait(c)
      /\ HasRtnl(c) /\ job[c] \in Job
  BY <1>1 DEF Owner, Barred, Closes, Opens, InTrans, InOp, MayWait, HasRtnl, Job
<1>4. s \in VdevSync /\ s \in Mine(c) /\ s \in Loose
  <2>1. s \in VdevSync
    BY <1>2, <1>3 DEF JobRow, JobTypes
  <2> QED BY <2>1, MineIsLoose DEF Mine, Sync
<1>5. dev[c] \in Dev /\ pc[c] \in {"holding", "drained"} /\ rtnl = c
  BY <1>1, <1>2, <1>3, NoJob DEF JobRow, PcRow, OpenRegister, Calls, Job
<1>6. PICK k \in NetDev : Lookup(k) = {} /\ SyncRegister(s, k)
  BY DEF OpenRegister
<1>7. UNCHANGED <<vars, rtnl>> /\ attached' = attached /\ pc' = pc /\ at' = at
  BY DEF OpenRegister, kernel, vars
<1>8. k \in Dev \cup NetDev /\ (s \in PsocSync <=> k \in Dev)
  BY <1>4, SyncAssumption
<1>9. /\ RegType' /\ RegistrySound' /\ Loose' = Loose \ {s} /\ UNCHANGED <<inUse, ctx>>
      /\ key'[s] = k /\ \A t \in Sync : t # s => key'[t] = key[t]
  BY <1>4, <1>6, <1>7, <1>8, Registered
<1>10. Moved(c, job[c], step[c] + 1, dev[c], sync[c], ptr[c], None)
  BY <1>2, <1>3 DEF OpenRegister, Moved, Skip, Goto, Others, JobTypes
<1>11. job'[c] = job[c] /\ step'[c] = step[c] + 1 /\ dev'[c] = dev[c] /\ vsync'[c] = None /\ sync'[c] = sync[c]
  BY <1>10 DEF Moved
<1>12. JobRow(c)'
  <2>1. ~InOp(c)' /\ InTrans(c)' /\ ~Barred(c)' /\ ~Closes(c)' /\ ~Opens(c)' /\ HasRtnl(c)'
    BY <1>1, <1>11 DEF InTrans, InOp, Barred, Closes, Opens, HasRtnl
  <2>2. step'[c] \in 1 .. Len(Prog[job'[c]])
    BY <1>1, <1>3, <1>11, LengthOf
  <2> QED BY <1>1, <1>3, <1>5, <1>7, <1>11, <2>1, <2>2, NoJob DEF JobRow, PcRow
<1>13. Mine(c)' = Mine(c) \ {s}
  <2>1. ~Owner(c)'
    BY <1>1, <1>11 DEF Owner
  <2> QED BY <1>3, <1>11, <2>1, SyncAssumption DEF Mine, Sync
<1>14. \A d \in Caller : Knows(d) \/ Seeks(d) => sync[d] \in inUse /\ sync[d] \in Sync /\ sync[d] # s
  BY <1>3, <1>4, OthersEntry
<1>15. SeekRow(c)' /\ PlaceRow(c)' /\ ~Owner(c)'
  <2>1. ~Seeks(c)' /\ ~Owner(c)' /\ (Knows(c)' <=> Knows(c))
    BY <1>1, <1>11 DEF Seeks, Owner, Knows
  <2>2. PlaceRow(c)'
    BY <1>1, <1>2, <1>7, <1>11 DEF PlaceRow
  <2> QED BY <1>2, <1>9, <1>11, <1>14, <2>1, <2>2 DEF SeekRow
<1>16. PlatformCall(c)' => PlatformCall(c)
  BY <1>1, <1>11 DEF PlatformCall
<1>17. Others(c) /\ JobTypes' /\ RtnlStep(c) /\ OthersInside(c) /\ Core'
  BY <1>7, <1>10, Unmoved, CoreKept DEF Moved, RtnlStep
<1> HIDE DEF s
<1> QED BY <1>3, <1>4, <1>9, <1>12, <1>13, <1>14, <1>15, <1>16, <1>17, RegistryStep

LEMMA CreateStartFailsStep ==
  ASSUME HddInv, NEW c \in Caller, CreateStartFails(c)
  PROVE  HddInv'
<1>1. job[c] \in {"probe", "add"} /\ step[c] = 2
  BY Position, Where DEF CreateStartFails, Calls, HddInv
<1> DEFINE s == sync[c]
<1>2. JobTypes /\ JobRow(c)
  BY RowOf
<1>3. Owner(c) /\ ~Barred(c) /\ ~Closes(c) /\ ~Opens(c) /\ ~InTrans(c) /\ ~InOp(c) /\ ~MayWait(c)
  BY <1>1 DEF Owner, Barred, Closes, Opens, InTrans, InOp, MayWait
<1>4. s \in Mine(c) /\ s \in OwnKind(job[c]) /\ vsync[c] = None /\ pc[c] = "idle"
  <2>1. s \in OwnKind(job[c])
    BY <1>3 DEF HddInv, SyncInv, OwnInv
  <2>2. s \in Mine(c)
    BY <1>3, <2>1 DEF Mine, OwnKind, Sync
  <2> QED BY <1>1, <1>2, <1>3, <2>1, <2>2, NoJob DEF JobRow, PcRow, Job
<1>5. s \in PsocSync => PlatformCall(c)
  BY <1>1, <1>4, SyncAssumption DEF OwnKind, PlatformCall
<1>6. SyncDestroy(s) /\ Abandon(c)
  BY DEF CreateStartFails
<1>7. /\ Core' /\ OthersInside(c) /\ pc' = pc /\ at' = at
      /\ RegType' /\ RegistrySound' /\ Loose' = Loose \ {s}
      /\ \A t \in inUse : t # s => t \in inUse' /\ key'[t] = key[t] /\ ctx'[t] = ctx[t]
  BY <1>3, <1>4, <1>5, <1>6, Destroyed
<1>8. Moved(c, None, 0, None, None, None, None) /\ rtnl' = IF rtnl = c THEN None ELSE rtnl
  BY <1>1, <1>2, <1>6, Returns DEF Abandon, Returned
<1>9. job'[c] = None /\ step'[c] = 0 /\ vsync'[c] = None
  BY <1>8 DEF Moved
<1>10. /\ ~Owner(c)' /\ ~Barred(c)' /\ ~Closes(c)' /\ ~Opens(c)' /\ ~InTrans(c)' /\ ~InOp(c)'
       /\ ~MayWait(c)' /\ ~HasRtnl(c)' /\ ~Knows(c)' /\ ~Seeks(c)' /\ PlaceRow(c)' /\ ~PlatformCall(c)'
  BY <1>9, NoJob DEF Owner, Barred, Closes, Opens, InTrans, InOp, MayWait, HasRtnl, Knows, Seeks,
                     PlaceRow, PlatformCall, Job
<1>11. JobRow(c)'
  BY <1>4, <1>7, <1>8, <1>9, <1>10, NoJob, NoneIsFresh DEF JobRow, PcRow, Job
<1>12. Mine(c)' = Mine(c) \ {s}
  BY <1>4, <1>9, <1>10, SyncAssumption DEF Mine, Sync
<1>13. SeekRow(c)'
  BY <1>10 DEF SeekRow
<1>14. \A d \in Caller : Knows(d) \/ Seeks(d) => sync[d] \in inUse /\ sync[d] # s
  BY <1>3, <1>4, OthersEntry
<1>15. Others(c) /\ JobTypes' /\ RtnlStep(c)
  BY <1>8 DEF Moved, RtnlStep
<1> HIDE DEF s
<1> QED BY <1>3, <1>4, <1>7, <1>10, <1>11, <1>12, <1>13, <1>14, <1>15, RegistryStep

LEMMA DestroySyncStep ==
  ASSUME HddInv, NEW c \in Caller, DestroySync(c)
  PROVE  HddInv'
<1>1. \/ job[c] = "probe_fail" /\ step[c] = 4
      \/ job[c] = "unload" /\ step[c] = 19
      \/ job[c] = "add_fail" /\ step[c] = 2
      \/ job[c] = "del" /\ step[c] = 8
  BY Position, Where DEF DestroySync, Calls, HddInv
<1> DEFINE s == sync[c]
<1>2. JobTypes /\ JobRow(c)
  BY RowOf
<1>3. Owner(c) /\ ~Barred(c) /\ ~Closes(c) /\ ~Opens(c) /\ ~InTrans(c) /\ ~InOp(c) /\ ~MayWait(c)
      /\ job[c] \in Job /\ (Last(c) <=> job[c] \in {"probe_fail", "unload"})
      /\ (HasRtnl(c) <=> job[c] \in {"add_fail", "del"})
  BY <1>1 DEF Owner, Barred, Closes, Opens, InTrans, InOp, MayWait, Job, Last, HasRtnl
<1>4. s \in Mine(c) /\ s \in OwnKind(job[c]) /\ vsync[c] = None /\ pc[c] = "idle"
  <2>1. s \in OwnKind(job[c])
    BY <1>3 DEF HddInv, SyncInv, OwnInv
  <2>2. s \in Mine(c)
    BY <1>3, <2>1 DEF Mine, OwnKind, Sync
  <2> QED BY <1>1, <1>2, <1>3, <2>1, <2>2, NoJob DEF JobRow, PcRow, Job
<1>5. s \in PsocSync => PlatformCall(c)
  <2>1. s \in PsocSync => job[c] \in {"probe_fail", "unload"}
    BY <1>1, <1>4, SyncAssumption DEF OwnKind
  <2> QED BY <1>1, <2>1, PlatformCalls DEF HddInv
<1>6. SyncDestroy(s) /\ Advance(c) /\ rtnl' = rtnl
  BY DEF DestroySync, kernel
<1>7. /\ Core' /\ OthersInside(c) /\ pc' = pc /\ at' = at
      /\ RegType' /\ RegistrySound' /\ Loose' = Loose \ {s}
      /\ \A t \in inUse : t # s => t \in inUse' /\ key'[t] = key[t] /\ ctx'[t] = ctx[t]
  BY <1>3, <1>4, <1>5, <1>6, Destroyed
<1>8. \/ /\ job[c] \in {"probe_fail", "unload"}
         /\ Moved(c, None, 0, None, None, None, None)
         /\ job'[c] = None /\ step'[c] = 0 /\ vsync'[c] = None
      \/ /\ job[c] \in {"add_fail", "del"}
         /\ Moved(c, job[c], step[c] + 1, dev[c], sync[c], ptr[c], vsync[c])
         /\ job'[c] = job[c] /\ step'[c] = step[c] + 1 /\ vsync'[c] = None /\ dev'[c] = dev[c]
  <2>1. CASE Last(c)
    <3>1. Returned(c)
      BY <1>2, <1>3, <1>6, <2>1, LastCall, AdvancesOut
    <3>2. Moved(c, None, 0, None, None, None, None)
      BY <1>3, <2>1, <3>1 DEF Returned
    <3> QED BY <1>3, <2>1, <3>2 DEF Moved
  <2>2. CASE ~Last(c)
    <3>1. Moved(c, job[c], step[c] + 1, dev[c], sync[c], ptr[c], vsync[c])
      BY <1>2, <1>3, <1>6, <2>2, LastCall, AdvancesOn
    <3> QED BY <1>1, <1>3, <1>4, <2>2, <3>1 DEF Moved
  <2> QED BY <2>1, <2>2
<1>9. /\ ~Owner(c)' /\ ~Barred(c)' /\ ~Closes(c)' /\ ~Opens(c)' /\ ~InTrans(c)' /\ ~InOp(c)'
      /\ ~MayWait(c)' /\ ~Knows(c)' /\ ~Seeks(c)' /\ PlaceRow(c)'
      /\ (HasRtnl(c)' <=> HasRtnl(c)) /\ (PlatformCall(c)' => PlatformCall(c))
  BY <1>1, <1>3, <1>8, NoJob
     DEF Owner, Barred, Closes, Opens, InTrans, InOp, MayWait, HasRtnl, Knows, Seeks, PlaceRow,
         PlatformCall, Job
<1>10. JobRow(c)'
  <2>1. job'[c] # None => step'[c] \in 1 .. Len(Prog[job'[c]])
    <3>1. 3 \in 1 .. Len(Prog["add_fail"]) /\ 9 \in 1 .. Len(Prog["del"])
      BY Lengths
    <3>2. job'[c] # None => (job'[c] = "add_fail" /\ step'[c] = 3) \/ (job'[c] = "del" /\ step'[c] = 9)
      BY <1>1, <1>8
    <3> QED BY <3>1, <3>2
  <2> QED BY <1>2, <1>3, <1>4, <1>6, <1>7, <1>8, <1>9, <2>1, NoJob DEF JobRow, PcRow, Job
<1>11. Mine(c)' = Mine(c) \ {s}
  BY <1>4, <1>8, <1>9, SyncAssumption DEF Mine, Sync
<1>12. SeekRow(c)'
  BY <1>9 DEF SeekRow
<1>13. \A d \in Caller : Knows(d) \/ Seeks(d) => sync[d] \in inUse /\ sync[d] # s
  BY <1>3, <1>4, OthersEntry
<1>14. Others(c) /\ JobTypes' /\ RtnlStep(c)
  BY <1>6, <1>8 DEF Moved, RtnlStep
<1> HIDE DEF s
<1> QED BY <1>3, <1>4, <1>7, <1>9, <1>10, <1>11, <1>12, <1>13, <1>14, RegistryStep

LEMMA CloseDestroyStep ==
  ASSUME HddInv, NEW c \in Caller, CloseDestroy(c)
  PROVE  HddInv'
<1>1. (job[c] = "unload" /\ step[c] = 15) \/ (job[c] = "mode" /\ step[c] = 8)
  BY Position, Where DEF CloseDestroy, Calls, HddInv
<1> DEFINE s == vsync[c]
<1>2. JobTypes /\ JobRow(c) /\ PlaceRow(c)
  BY RowOf
<1>3. ~Barred(c) /\ Closes(c) /\ ~Opens(c) /\ InTrans(c) /\ ~InOp(c) /\ ~MayWait(c) /\ ~HasRtnl(c)
      /\ (Owner(c) <=> job[c] = "unload") /\ job[c] \in Job
  BY <1>1 DEF Owner, Barred, Closes, Opens, InTrans, InOp, MayWait, HasRtnl, Job
<1>4. s \in VdevSync /\ s \in Mine(c) /\ (job[c] = "unload" => sync[c] \in PsocSync)
  <2>1. s \in VdevSync
    BY <1>2, <1>3 DEF JobRow, JobTypes
  <2>2. job[c] = "unload" => sync[c] \in OwnKind(job[c])
    BY <1>3 DEF HddInv, SyncInv, OwnInv
  <2> QED BY <2>1, <2>2 DEF Mine, Sync, OwnKind
<1>5. pc[c] \in {"holding", "drained"} /\ rtnl # c /\ rtnl' = rtnl
  BY <1>2, <1>3 DEF JobRow, PcRow, CloseDestroy, Calls, kernel
<1>6. SyncDestroy(s) /\ vsync' = [vsync EXCEPT ![c] = None] /\ Skip(c, 1 - Len(CloseAll))
  BY DEF CloseDestroy
<1>7. /\ Core' /\ OthersInside(c) /\ pc' = pc /\ at' = at
      /\ RegType' /\ RegistrySound' /\ Loose' = Loose \ {s}
      /\ \A t \in inUse : t # s => t \in inUse' /\ key'[t] = key[t] /\ ctx'[t] = ctx[t]
  <2>1. s \in PsocSync => PlatformCall(c)
    BY <1>4, SyncAssumption
  <2> QED BY <1>3, <1>4, <1>6, <2>1, Destroyed
<1>8. Len(CloseAll) = 4
  BY DEF CloseAll
<1>9. Moved(c, job[c], step[c] - 3, dev[c], sync[c], ptr[c], None)
  BY <1>1, <1>2, <1>6, <1>8 DEF Moved, Skip, Goto, Others, JobTypes
<1>10. job'[c] = job[c] /\ step'[c] = step[c] - 3 /\ dev'[c] = dev[c] /\ vsync'[c] = None /\ sync'[c] = sync[c]
  BY <1>9 DEF Moved
<1>11. /\ ~Barred(c)' /\ ~Closes(c)' /\ ~Opens(c)' /\ InTrans(c)' /\ ~InOp(c)'
       /\ ~HasRtnl(c)' /\ (Owner(c)' <=> Owner(c)) /\ ~Knows(c)' /\ ~Seeks(c)'
  BY <1>1, <1>10 DEF Owner, Barred, Closes, Opens, InTrans, InOp, HasRtnl, Knows, Seeks
<1>12. JobRow(c)'
  <2>1. step'[c] \in 1 .. Len(Prog[job'[c]])
    BY <1>1, <1>3, <1>10, LengthOf
  <2> QED BY <1>1, <1>2, <1>3, <1>5, <1>7, <1>10, <1>11, <2>1, NoJob DEF JobRow, PcRow
<1>13. PlaceRow(c)'
  BY <1>1, <1>2, <1>7, <1>10 DEF PlaceRow
<1>14. Mine(c)' = Mine(c) \ {s}
  BY <1>3, <1>4, <1>10, <1>11, SyncAssumption DEF Mine, Sync
<1>15. SeekRow(c)'
  BY <1>11 DEF SeekRow
<1>16. Owner(c)' => sync'[c] \in OwnKind(job'[c])
  BY <1>3, <1>4, <1>10, <1>11 DEF OwnKind
<1>17. \A d \in Caller : Knows(d) \/ Seeks(d) => sync[d] \in inUse /\ sync[d] # s
  BY <1>3, <1>4, OthersEntry
<1>18. PlatformCall(c)' => PlatformCall(c)
  BY <1>1, <1>10, <1>12, PlatformPrimed, PlatformCalls DEF HddInv
<1>19. Others(c) /\ JobTypes' /\ RtnlStep(c)
  BY <1>5, <1>9 DEF Moved, RtnlStep
<1> HIDE DEF s
<1> QED BY <1>3, <1>4, <1>7, <1>12, <1>13, <1>14, <1>15, <1>16, <1>17, <1>18, <1>19, RegistryStep

\* Past its start a transition is held.
LEMMA TransHeld ==
  ASSUME HddInv, NEW c \in Caller, InTrans(c), ~MayWait(c)
  PROVE  Owns(c) /\ active[at[c]] = c /\ at[c] \in Node
<1>1. PcRow(c)
  BY RowOf
<1>2. ~InOp(c)
  BY DEF InTrans, InOp
<1>3. pc[c] \in PC
  BY DEF HddInv, Core, TypeOK
<1>4. Owns(c)
  BY <1>1, <1>2, <1>3 DEF PcRow, PC, Owns
<1>5. active[at[c]] = c
  BY <1>4 DEF HddInv, Core, GrantConsistency
<1>6. at[c] # None
  BY <1>4 DEF Owns, HddInv, Core, TypeOK
<1> QED BY <1>4, <1>5, <1>6 DEF HddInv, Core, TypeOK

\* While a delete has the transition of its interface nobody closes that one:
\* who closes interfaces has the driver's transition or the radio's.
LEMMA DeleteFound ==
  ASSUME HddInv, NEW c \in Caller, job[c] = "del", step[c] = 5
  PROVE  key[sync[c]] = dev[c]
<1> SUFFICES ASSUME key[sync[c]] # dev[c] PROVE FALSE
  OBVIOUS
<1>1. Seeks(c) /\ InTrans(c) /\ ~MayWait(c)
  BY DEF Seeks, InTrans, MayWait
<1>2. PICK e \in Caller : Barred(e) /\ vsync[e] = sync[c]
  BY <1>1, RowOf DEF SeekRow
<1>3. e # c
  BY <1>2 DEF Barred
<1>4. InTrans(e) /\ ~MayWait(e)
  BY <1>2 DEF Barred, InTrans, MayWait
<1>5. active[at[e]] = e /\ at[e] \in Node
  BY <1>4, TransHeld
<1>6. active[at[c]] = c /\ at[c] \in Node
  BY <1>1, TransHeld
<1>7. at[e] = Driver \/ at[e] \in Psoc
  BY <1>2, RowOf DEF Barred, PlaceRow
<1>8. at[c] \in Vdev
  <2>1. sync[c] \in inUse \cap VdevSync /\ at[c] = ctx[sync[c]]
    BY <1>1, RowOf DEF SeekRow, PlaceRow
  <2>2. ctx[sync[c]] \in attached \ {Driver}
    BY <2>1 DEF HddInv, SyncInv, RegistrySound
  <2>3. ctx[sync[c]] \notin Psoc
    BY <2>1 DEF HddInv, SyncInv, RegType
  <2> QED BY <1>6, <2>1, <2>2, <2>3 DEF Node
<1>9. at[e] \in Ancestors(at[c])
  BY <1>7, <1>8, OneRadio, Tree
<1>10. Active(at[e]) /\ Active(at[c])
  BY <1>5, <1>6, NoneIsFresh DEF Active
<1>11. at[e] = at[c]
  BY <1>5, <1>6, <1>9, <1>10 DEF HddInv, Core, TreeExclusion, Related
<1> QED BY <1>3, <1>5, <1>6, <1>11

\* osif_*_sync_unregister
LEMMA UnregisterStep ==
  ASSUME HddInv, NEW c \in Caller, Unregister(c)
  PROVE  HddInv'
<1>1. \/ job[c] = "probe_fail" /\ step[c] = 1
      \/ job[c] = "unload" /\ step[c] = 9
      \/ job[c] = "del" /\ step[c] = 5
  BY Position, Where DEF Unregister, Calls, HddInv
<1> DEFINE s == sync[c]
<1>2. JobTypes /\ JobRow(c) /\ PcRow(c) /\ SeekRow(c) /\ PlaceRow(c)
  BY RowOf
<1>3. /\ ~Owner(c) /\ ~Barred(c) /\ ~Closes(c) /\ ~Opens(c) /\ InTrans(c) /\ ~InOp(c)
      /\ job[c] \in Job /\ ~Last(c)
      /\ (Knows(c) <=> job[c] # "del") /\ (Seeks(c) <=> job[c] = "del")
      /\ (HasRtnl(c) <=> job[c] = "del")
  BY <1>1 DEF Owner, Barred, Closes, Opens, InTrans, InOp, Job, Last, Knows, Seeks, HasRtnl
<1>4. s \in inUse /\ s \in Sync /\ s \in OwnKind(job[c]) /\ key[s] = dev[c]
  <2>1. CASE job[c] = "del"
    BY <1>1, <1>2, <1>3, <2>1, DeleteFound DEF SeekRow, OwnKind, Sync
  <2>2. CASE job[c] # "del"
    BY <1>1, <1>2, <1>3, <2>2 DEF SeekRow, OwnKind, Sync
  <2> QED BY <2>1, <2>2
<1>5. key[s] # None /\ vsync[c] = None /\ pc[c] \in {"holding", "drained"}
      /\ (rtnl = c <=> job[c] = "del")
  <2>1. dev[c] \in Dev \cup NetDev
    BY <1>1, <1>2, NoJob DEF JobRow, Job
  <2>2. pc[c] \in {"holding", "drained"}
    BY <1>2, <1>3 DEF PcRow, Unregister, Calls
  <2> QED BY <1>2, <1>3, <1>4, <2>1, <2>2, SyncAssumption DEF JobRow
<1>6. SyncUnregister(key[s]) /\ Advance(c) /\ UNCHANGED <<vars, rtnl>>
  BY <1>4 DEF Unregister
<1>7. attached' = attached /\ pc' = pc /\ at' = at
  BY <1>6 DEF vars
<1>8. /\ RegType' /\ RegistrySound' /\ s \notin Loose /\ Loose' = Loose \cup {s}
      /\ UNCHANGED <<inUse, ctx>> /\ key'[s] = None /\ \A t \in Sync : t # s => key'[t] = key[t]
  BY <1>4, <1>5, <1>6, <1>7, Unregistered
<1>9. Moved(c, job[c], step[c] + 1, dev[c], sync[c], ptr[c], vsync[c])
  BY <1>2, <1>3, <1>6, LastCall, AdvancesOn
<1>10. job'[c] = job[c] /\ step'[c] = step[c] + 1 /\ dev'[c] = dev[c] /\ vsync'[c] = None /\ sync'[c] = s
  BY <1>5, <1>9 DEF Moved
<1>11. /\ Owner(c)' /\ ~Barred(c)' /\ ~Closes(c)' /\ ~Opens(c)' /\ InTrans(c)' /\ ~InOp(c)'
       /\ ~Knows(c)' /\ ~Seeks(c)' /\ (HasRtnl(c)' <=> HasRtnl(c))
  BY <1>1, <1>10 DEF Owner, Barred, Closes, Opens, InTrans, InOp, Knows, Seeks, HasRtnl
<1>12. JobRow(c)'
  <2>1. step'[c] \in 1 .. Len(Prog[job'[c]])
    BY <1>1, <1>3, <1>10, LengthOf
  <2>2. PcRow(c)'
    BY <1>5, <1>7, <1>11 DEF PcRow
  <2> QED BY <1>1, <1>2, <1>3, <1>5, <1>6, <1>10, <1>11, <2>1, <2>2, NoJob DEF JobRow
<1>13. PlaceRow(c)'
  BY <1>1, <1>2, <1>7, <1>10 DEF PlaceRow
<1>14. Mine(c)' = Mine(c) \cup {s}
  BY <1>3, <1>4, <1>5, <1>10, <1>11, SyncAssumption DEF Mine, Sync
<1>15. SeekRow(c)' /\ sync'[c] \in OwnKind(job'[c])
  BY <1>4, <1>10, <1>11 DEF SeekRow, OwnKind
<1>16. \A d \in Caller \ {c} : Knows(d) \/ Seeks(d) => sync[d] \in inUse /\ sync[d] \in Sync /\ sync[d] # s
  <2> SUFFICES ASSUME NEW d \in Caller \ {c}, Knows(d) \/ Seeks(d)
               PROVE  sync[d] \in inUse /\ sync[d] \in Sync /\ sync[d] # s
    OBVIOUS
  <2>1. SeekRow(d)
    BY RowOf
  <2>2. sync[d] \in inUse /\ sync[d] \in Sync
    BY <2>1 DEF SeekRow, Sync
  <2>3. CASE Knows(d) /\ job[c] # "del"
    <3>1. PlatformCall(d)
      BY <2>3, PlatformCalls DEF HddInv, Knows
    <3>2. PlatformCall(c)
      BY <1>1, <2>3, PlatformCalls DEF HddInv
    <3> QED BY <3>1, <3>2 DEF HddInv, JobInv
  <2>4. CASE Knows(d) /\ job[c] = "del"
    BY <1>4, <2>1, <2>2, <2>4, SyncAssumption DEF SeekRow, OwnKind
  <2>5. CASE Seeks(d) /\ job[c] # "del"
    <3>1. s \in PsocSync
      BY <1>1, <1>4, <2>5 DEF OwnKind
    <3> QED BY <2>1, <2>2, <2>5, <3>1, SyncAssumption DEF SeekRow
  <2>6. CASE Seeks(d) /\ job[c] = "del"
    <3>1. rtnl = d
      BY <2>6, RowOf DEF HasRtnl, Seeks
    <3> QED BY <1>5, <2>6, <3>1
  <2> QED BY <2>3, <2>4, <2>5, <2>6
<1>17. PlatformCall(c)' => PlatformCall(c)
  BY <1>1, <1>10, <1>12, PlatformPrimed, PlatformCalls DEF HddInv
<1>18. Others(c) /\ JobTypes' /\ RtnlStep(c) /\ OthersInside(c) /\ Core'
  BY <1>6, <1>9, Unmoved, CoreKept DEF Moved, RtnlStep
<1> HIDE DEF s
<1> QED BY <1>3, <1>8, <1>12, <1>13, <1>14, <1>15, <1>16, <1>17, <1>18, RegistryStep

\* hdd_close_all_adapters
LEMMA CloseStep ==
  ASSUME HddInv, NEW c \in Caller, Close(c)
  PROVE  HddInv'
<1>1. (job[c] = "unload" /\ step[c] = 12) \/ (job[c] = "mode" /\ step[c] = 5)
  BY Position, Where DEF Close, Calls, HddInv
<1>2. PICK s \in VdevSync \cap inUse :
        key[s] # None /\ SyncUnregister(key[s]) /\ vsync' = [vsync EXCEPT ![c] = s]
  BY DEF Close
<1>3. JobTypes /\ JobRow(c) /\ PcRow(c) /\ PlaceRow(c)
  BY RowOf
<1>4. /\ ~Barred(c) /\ ~Closes(c) /\ ~Opens(c) /\ InTrans(c) /\ ~InOp(c) /\ ~HasRtnl(c)
      /\ job[c] \in Job /\ (Owner(c) <=> job[c] = "unload")
  BY <1>1 DEF Owner, Barred, Closes, Opens, InTrans, InOp, Job, HasRtnl
<1>5. vsync[c] = None /\ pc[c] \in {"holding", "drained"} /\ rtnl # c
  BY <1>3, <1>4 DEF JobRow, PcRow, Close, Calls
<1>6. Skip(c, 1) /\ UNCHANGED <<vars, rtnl>> /\ attached' = attached /\ pc' = pc /\ at' = at
  BY DEF Close, vars
<1>7. /\ RegType' /\ RegistrySound' /\ s \notin Loose /\ Loose' = Loose \cup {s}
      /\ UNCHANGED <<inUse, ctx>> /\ key'[s] = None /\ \A t \in Sync : t # s => key'[t] = key[t]
  BY <1>2, <1>6, Unregistered
<1>8. Moved(c, job[c], step[c] + 1, dev[c], sync[c], ptr[c], s)
  BY <1>2, <1>3, <1>4, <1>6 DEF Moved, Skip, Goto, Others, JobTypes
<1>9. job'[c] = job[c] /\ step'[c] = step[c] + 1 /\ dev'[c] = dev[c] /\ vsync'[c] = s /\ sync'[c] = sync[c]
  BY <1>8 DEF Moved
<1>10. /\ (Owner(c)' <=> Owner(c)) /\ Barred(c)' /\ ~Closes(c)' /\ ~Opens(c)' /\ InTrans(c)' /\ ~InOp(c)'
       /\ ~Knows(c)' /\ ~Seeks(c)' /\ ~HasRtnl(c)'
  BY <1>1, <1>9 DEF Owner, Barred, Closes, Opens, InTrans, InOp, Knows, Seeks, HasRtnl
<1>11. JobRow(c)'
  <2>1. step'[c] \in 1 .. Len(Prog[job'[c]])
    BY <1>1, <1>4, <1>9, LengthOf
  <2>2. PcRow(c)'
    BY <1>5, <1>6, <1>10 DEF PcRow
  <2>3. s # None
    BY <1>2, SyncAssumption
  <2> QED BY <1>1, <1>3, <1>4, <1>5, <1>6, <1>9, <1>10, <2>1, <2>2, <2>3, NoJob DEF JobRow
<1>12. PlaceRow(c)'
  BY <1>1, <1>3, <1>6, <1>9 DEF PlaceRow
<1>13. Mine(c)' = Mine(c) \cup {s}
  BY <1>2, <1>5, <1>9, <1>10, SyncAssumption DEF Mine, Sync
<1>14. SeekRow(c)' /\ (Owner(c)' => sync'[c] \in OwnKind(job'[c]))
  BY <1>9, <1>10 DEF SeekRow, HddInv, SyncInv, OwnInv, OwnKind
<1>15. \A d \in Caller \ {c} : Knows(d) => sync[d] \in inUse /\ key'[sync[d]] = key[sync[d]]
  <2> SUFFICES ASSUME NEW d \in Caller \ {c}, Knows(d)
               PROVE  sync[d] \in inUse /\ key'[sync[d]] = key[sync[d]]
    OBVIOUS
  <2>1. sync[d] \in inUse \cap PsocSync
    BY RowOf DEF SeekRow
  <2>2. sync[d] # s /\ sync[d] \in Sync
    BY <1>2, <2>1, SyncAssumption DEF Sync
  <2> QED BY <1>7, <2>1, <2>2
<1>16. \A d \in Caller \ {c} : Seeks(d) =>
          sync[d] \in inUse /\ (key'[sync[d]] = key[sync[d]] \/ vsync'[c] = sync[d])
  <2> SUFFICES ASSUME NEW d \in Caller \ {c}, Seeks(d)
               PROVE  sync[d] \in inUse /\ (key'[sync[d]] = key[sync[d]] \/ vsync'[c] = sync[d])
    OBVIOUS
  <2>1. sync[d] \in inUse /\ sync[d] \in Sync
    BY RowOf DEF SeekRow, Sync
  <2> QED BY <1>7, <1>9, <2>1
<1>17. PlatformCall(c)' => PlatformCall(c)
  BY <1>1, <1>9, <1>11, PlatformPrimed, PlatformCalls DEF HddInv
<1>18. Others(c) /\ JobTypes' /\ RtnlStep(c) /\ OthersInside(c) /\ Core'
  BY <1>6, <1>8, Unmoved, CoreKept DEF Moved, RtnlStep
<1> QED BY <1>4, <1>7, <1>10, <1>11, <1>12, <1>13, <1>14, <1>15, <1>16, <1>17, <1>18, RegistryStep

----------------------------------------------------------------------------
(* The invariant holds throughout. *)

LEMMA HddInitInv == HddInit => HddInv
<1> SUFFICES ASSUME HddInit PROVE HddInv
  OBVIOUS
<1> USE DEF HddInit
<1>1. Core
  BY CoreInit
<1>2. SyncInit /\ attached = {Driver} /\ pc = [c \in Caller |-> "idle"]
  BY DEF Init
<1>3. \A c \in Caller : job[c] = None /\ step[c] = 0 /\ vsync[c] = None /\ pc[c] = "idle"
  BY <1>2
<1>4. \A c \in Caller :
        /\ ~Owner(c) /\ ~Barred(c) /\ ~Closes(c) /\ ~Opens(c) /\ ~InTrans(c) /\ ~InOp(c)
        /\ ~MayWait(c) /\ ~HasRtnl(c) /\ ~Knows(c) /\ ~Seeks(c) /\ ~PlatformCall(c)
  BY <1>3, NoJob DEF Owner, Barred, Closes, Opens, InTrans, InOp, MayWait, HasRtnl, Knows, Seeks,
                     PlatformCall, Job
<1>5. JobInv
  <2>1. JobTypes /\ rtnl \in Caller \cup {None}
    BY DEF JobTypes
  <2>2. \A c \in Caller : JobRow(c)
    BY <1>3, <1>4, NoJob, NoneIsFresh DEF JobRow, PcRow, Job
  <2> QED BY <1>4, <2>1, <2>2 DEF JobInv
<1>6. SyncInv
  <2>1. RegType /\ RegistrySound
    BY <1>2, SyncAssumption, NoneIsFresh, Tree DEF SyncInit, RegType, RegistrySound, Sync
  <2>2. OwnInv
    <3>1. \A c \in Caller : Mine(c) = {}
      BY <1>3, <1>4, SyncAssumption DEF Mine, Sync
    <3> QED BY <1>2, <1>4, <3>1 DEF OwnInv, SyncInit
  <2>3. \A c \in Caller : SeekRow(c) /\ PlaceRow(c)
    BY <1>3, <1>4, NoJob DEF SeekRow, PlaceRow, Job
  <2> QED BY <2>1, <2>2, <2>3 DEF SyncInv
<1> QED BY <1>1, <1>5, <1>6 DEF HddInv

LEMMA CallStep ==
  ASSUME HddInv, NEW c \in Caller, Step(c)
  PROVE  HddInv'
<1>1. CASE Platform(c) \/ TakeRtnl(c) \/ RtnlUnlock(c)
  BY <1>1, PlatformStep, RtnlLockStep, UnderRtnlStep, RtnlUnlockOpenStep, RtnlUnlockOutStep
     DEF TakeRtnl
<1>2. CASE CreateSync(c) \/ CreateStart(c) \/ CreateStartFails(c) \/ Register(c) \/ OpenRegister(c)
  BY <1>2, CreateSyncStep, CreateStartStep, CreateStartFailsStep, RegisterStep, OpenRegisterStep
<1>3. CASE Work(c)
  <2>1. Advance(c) \/ Fail(c)
    BY <1>3 DEF Work
  <2> QED BY <1>3, <2>1, WorkOnStep, WorkFailsStep
<1>4. CASE Open(c)
  <2>1. CASE Skip(c, 2) /\ UNCHANGED <<vars, syncVars, vsync>>
    <3>1. Calls(c, "open") /\ UNCHANGED kernel /\ 2 \in Nat
      BY <1>4 DEF Open
    <3>2. UNCHANGED <<vars, syncVars, vsync, kernel>>
      BY <2>1, <3>1
    <3> QED BY <2>1, <3>1, <3>2, SkipStep
  <2>2. ASSUME NEW s \in VdevSync, NEW v \in Vdev, VdevSyncCreate(s, dev[c], v),
               vsync' = [vsync EXCEPT ![c] = s], Skip(c, 1)
        PROVE  HddInv'
    BY <1>4, <2>2, OpenCreateStep DEF Open
  <2> QED BY <1>4, <2>1, <2>2 DEF Open
<1>5. CASE LookupSync(c) \/ Start(c) \/ Granted(c) \/ Draining(c) \/ StartNow(c) \/ StartNowRefused(c)
  BY <1>5, LookupSyncStep, StartStep, InsideStep, StartNowStep, StartNowRefusedStep
<1>6. CASE CreateSyncFails(c) \/ LookupFails(c) \/ StartRefused(c)
  BY <1>6, FailedCalls
<1>7. CASE Read(c)
  <2>1. CASE ctx[sync[c]] = None
    BY <1>7, <2>1, FailedCalls
  <2>2. CASE ctx[sync[c]] # None
    <3>1. /\ Calls(c, "read") /\ ptr' = [ptr EXCEPT ![c] = ctx[sync[c]]]
          /\ Goto(c, job[c], step[c] + 1) /\ UNCHANGED <<vars, syncVars, dev, sync, vsync, kernel>>
      BY <1>7, <2>2 DEF Read
    <3>2. ctx[sync[c]] \in Node
      <4>1. Knows(c) \/ Seeks(c)
        <5>1. \/ job[c] = "unload" /\ step[c] = 7
              \/ job[c] = "shutdown" /\ step[c] = 3
              \/ job[c] = "del" /\ step[c] = 2
          BY <3>1, Position, Where DEF Calls, HddInv
        <5> QED BY <5>1 DEF Knows, Seeks
      <4>2. sync[c] \in inUse
        BY <4>1, RowOf DEF SeekRow
      <4> QED BY <4>2 DEF HddInv, SyncInv, RegistrySound, Core, TypeOK
    <3> QED BY <3>1, <3>2, ReadStep
  <2> QED BY <2>1, <2>2
<1>8. CASE ReadDriver(c)
  <2>1. Driver \in Node
    BY Tree
  <2> QED BY <1>8, <2>1, ReadStep DEF ReadDriver
<1>9. CASE Wait(c)
  BY <1>9, WaitOnStep, WaitOutStep
<1>10. CASE Unregister(c) \/ MarkUnloading(c) \/ Close(c) \/ CloseDestroy(c) \/ DestroySync(c)
  BY <1>10, UnregisterStep, MarkUnloadingStep, CloseStep, CloseDestroyStep, DestroySyncStep
<1>11. CASE Check(c)
  BY <1>11, CheckOnStep, FailedCalls
<1>12. CASE Validate(c)
  <2>1. Advance(c) \/ Fail(c)
    BY <1>12 DEF Validate
  <2> QED BY <1>12, <2>1, ValidateOnStep, ValidateFailsStep
<1>13. CASE CloseNoMore(c)
  <2>1. Calls(c, "close") /\ Skip(c, 4) /\ UNCHANGED <<vars, syncVars, vsync, kernel>> /\ 4 \in Nat
    BY <1>13 DEF CloseNoMore, CloseAll
  <2> QED BY <2>1, SkipStep
<1>14. CASE Stop(c)
  <2>1. job[c] \notin {"probe", "reinit", "mode", "mode_fail"} => TransStop(c)
    BY <1>14, StopHasTransition
  <2> QED BY <1>14, <2>1, StopOnStep, StopOutStep
<1>15. CASE StartOp(c) \/ StopOp(c) \/ OpenDev(c) \/ StopDev(c) \/ Recovered(c) \/ IdleDone(c)
  BY <1>15, StartOpStep, StopOpStep, OpenDevStep, StopDevStep, RecoveredStep, IdleDoneStep
<1> QED BY <1>1, <1>2, <1>3, <1>4, <1>5, <1>6, <1>7, <1>8, <1>9, <1>10, <1>11, <1>12, <1>13,
           <1>14, <1>15 DEF Step

LEMMA HddStep == HddInv /\ [HddNext]_hddVars => HddInv'
<1> SUFFICES ASSUME HddInv, [HddNext]_hddVars PROVE HddInv'
  OBVIOUS
<1>1. ASSUME NEW c \in Caller, Step(c) PROVE HddInv'
  BY <1>1, CallStep
<1>2. ASSUME NEW c \in Caller, NEW j \in Called, NEW k \in Dev \cup NetDev, Begin(c, j, k)
      PROVE  HddInv'
  BY <1>2, BeginStep
<1>3. CASE FirmwareDown
  BY <1>3, FirmwareDownStep
<1>4. CASE UNCHANGED hddVars
  BY <1>4, StutterStep
<1> QED BY <1>1, <1>2, <1>3, <1>4 DEF HddNext

\* The inductive invariant, of any number of threads that run any of the programs.
THEOREM HddSafe == HddSpec => []HddInv
<1>1. HddInit => HddInv BY HddInitInv
<1>2. HddInv /\ [HddNext]_hddVars => HddInv' BY HddStep
<1> QED BY <1>1, <1>2, PTL DEF HddSpec

\* The entries in use and the contexts of the core are in one-to-one correspondence,
\* no device or net_device is registered twice, and an entry that is put back is
\* zeroed (osif_*_sync_create, osif_*_sync_register, osif_*_sync_destroy).
THEOREM RegistryStaysSound == HddSpec => []RegistrySound
<1>1. HddInv => RegistrySound
  BY DEF HddInv, SyncInv
<1> QED BY <1>1, HddSafe, PTL

\* An entry that is not registered is in some thread's hands.
LEMMA InvEntryOwned == HddInv => EntryOwned
<1> SUFFICES ASSUME HddInv, NEW s \in inUse, key[s] = None
             PROVE  \E c \in Caller : s \in {sync[c], vsync[c]}
  BY DEF EntryOwned
<1>1. PICK c \in Caller : s \in Mine(c)
  BY MineIsLoose DEF Loose
<1> QED BY <1>1 DEF Mine

\* An entry that no lookup finds is destroyed by the thread that has it in hand:
\* none of the ways out of a program leaks one (hdd_soc_probe, hdd_close_adapter,
\* wlan_hdd_add_virtual_intf, wlan_hdd_del_virtual_intf).
THEOREM EntriesOwned == HddSpec => []EntryOwned
BY InvEntryOwned, HddSafe, PTL

\* Where a thread waits for a transition its context is there, and stays.
LEMMA InvDeleteSafe == HddInv => DeleteSafe
<1> SUFFICES ASSUME HddInv PROVE DeleteSafe
  OBVIOUS
<1>1. NoneAborted
  BY RowOf DEF NoneAborted, PcRow
<1>2. ASSUME NEW c \in Caller, At(c, "start") PROVE ptr[c] \in attached
  <2>1. \/ job[c] \in {"unload", "mode"} /\ step[c] = 2
        \/ job[c] = "unload" /\ step[c] = 8
        \/ job[c] = "shutdown" /\ step[c] = 4
        \/ job[c] = "del" /\ step[c] = 3
    BY <1>2, Position, Where DEF HddInv
  <2>2. CASE job[c] \in {"unload", "mode"} /\ step[c] = 2
    BY <2>2, RowOf DEF PlaceRow, HddInv, Core, TypeOK
  <2>3. CASE ~(job[c] \in {"unload", "mode"} /\ step[c] = 2)
    <3>1. Knows(c) \/ Seeks(c)
      BY <2>1, <2>3 DEF Knows, Seeks
    <3>2. sync[c] \in inUse
      BY <3>1, RowOf DEF SeekRow
    <3>3. ptr[c] = ctx[sync[c]]
      BY <2>1, <2>3, RowOf DEF PlaceRow
    <3> QED BY <3>2, <3>3 DEF HddInv, SyncInv, RegistrySound
  <2> QED BY <2>2, <2>3
<1> QED BY <1>1, <1>2 DEF DeleteSafe, LookupLive

\* A thread that waits for a transition on an interface finds the interface there
\* when it asks and when it is served (wlan_hdd_del_virtual_intf, under rtnl).
THEOREM DeletesSafe == HddSpec => []DeleteSafe
BY InvDeleteSafe, HddSafe, PTL

\* The context that osif_*_sync_trans_start_wait passes to the core without a lock
\* has not been destroyed since it was looked up.
THEOREM LookupsLive == HddSpec => []LookupLive
<1>1. HddInv => LookupLive
  BY InvDeleteSafe DEF DeleteSafe
<1> QED BY <1>1, HddSafe, PTL

----------------------------------------------------------------------------
(* What a step does to the thread that takes it. *)

\* Where the call is not the last of its program, the program goes on.
LEMMA GoesOn ==
  ASSUME HddInv, NEW c \in Caller, job[c] \in Job, Advance(c), ~Last(c)
  PROVE  job'[c] = job[c] /\ step'[c] = step[c] + 1 /\ dev'[c] = dev[c] /\ Others(c)
<1>1. Moved(c, job[c], step[c] + 1, dev[c], sync[c], ptr[c], vsync[c])
  BY LastCall, AdvancesOn, RowOf
<1> QED BY <1>1 DEF Moved

LEMMA GoesOut ==
  ASSUME HddInv, NEW c \in Caller, Return(c)
  PROVE  /\ Others(c)
         /\ job'[c] = IF job[c] = "shutdown" THEN "reinit" ELSE None
         /\ job[c] = "shutdown" => dev'[c] = dev[c]
<1>1. Returned(c)
  BY Returns, RowOf
<1> QED BY <1>1 DEF Returned, Moved

LEMMA GoesWrong ==
  ASSUME HddInv, NEW c \in Caller, job[c] \in {"probe", "add", "mode", "idle"}, Fail(c)
  PROVE  Others(c) /\ job'[c] = FailOf[job[c]] /\ step'[c] = 1 /\ dev'[c] = dev[c]
BY RowOf DEF Fail, FailOf, Goto, Others, JobTypes, Job

LEMMA GoesTo ==
  ASSUME HddInv, NEW c \in Caller, NEW i, Goto(c, job[c], i), dev' = dev
  PROVE  job'[c] = job[c] /\ step'[c] = i /\ dev'[c] = dev[c]
         /\ \A d \in Caller \ {c} : job'[d] = job[d] /\ step'[d] = step[d] /\ dev'[d] = dev[d]
BY RowOf DEF Goto, JobTypes

\* The next job of a thread, and that of the others.
Hop(c) ==
  /\ \A d \in Caller \ {c} : job'[d] = job[d] /\ step'[d] = step[d] /\ dev'[d] = dev[d]
  /\ \/ job'[c] = job[c] /\ dev'[c] = dev[c]
     \/ job'[c] = None /\ job[c] # "shutdown"
     \/ job[c] = "shutdown" /\ job'[c] = "reinit" /\ dev'[c] = dev[c]
     \/ job[c] \in {"probe", "add", "mode", "idle"} /\ job'[c] = FailOf[job[c]] /\ dev'[c] = dev[c]

LEMMA Returning ==
  ASSUME HddInv, NEW c \in Caller, Return(c) \/ Abandon(c)
  PROVE  Hop(c)
BY GoesOut DEF Abandon, Hop, Others

LEMMA Advancing ==
  ASSUME HddInv, NEW c \in Caller, NEW call, At(c, call), Advance(c)
  PROVE  Hop(c)
<1>1. job[c] \in Job
  BY Position DEF HddInv
<1>2. CASE Last(c)
  <2>1. Return(c)
    BY <1>1, <1>2, LastCall DEF Advance
  <2> QED BY <2>1, Returning
<1>3. CASE ~Last(c)
  BY <1>1, <1>3, GoesOn DEF Hop, Others
<1> QED BY <1>2, <1>3

LEMMA Failing ==
  ASSUME HddInv, NEW c \in Caller, job[c] \in {"probe", "add", "mode", "idle"}, Fail(c)
  PROVE  Hop(c)
BY GoesWrong DEF Hop, Others

LEMMA Going ==
  ASSUME HddInv, NEW c \in Caller, NEW i, Goto(c, job[c], i), dev' = dev
  PROVE  Hop(c)
BY GoesTo DEF Hop

LEMMA Hops ==
  ASSUME HddInv, NEW c \in Caller, Step(c)
  PROVE  Hop(c)
<1>1. CASE Platform(c) \/ TakeRtnl(c) \/ RtnlUnlock(c) \/ CreateStart(c) \/ Register(c) \/ Start(c)
           \/ StartNow(c) \/ Wait(c) \/ Unregister(c) \/ MarkUnloading(c) \/ Stop(c) \/ DestroySync(c)
           \/ StartOp(c) \/ StopOp(c) \/ OpenDev(c) \/ StopDev(c) \/ Recovered(c) \/ IdleDone(c)
  <2>1. Advance(c) /\ \E call : At(c, call)
    BY <1>1 DEF Platform, TakeRtnl, RtnlLock, UnderRtnl, RtnlUnlock, CreateStart, Register, Start,
                StartNow, Wait, Unregister, MarkUnloading, Stop, DestroySync, StartOp, StopOp,
                OpenDev, StopDev, Recovered, IdleDone, Calls
  <2> QED BY <2>1, Advancing
<1>2. CASE CreateSync(c) \/ LookupSync(c)
  <2>1. PICK s : Use(c, s)
    BY <1>2 DEF CreateSync, LookupSync
  <2> QED BY <2>1, Going DEF Use
<1>3. CASE Open(c) \/ OpenRegister(c) \/ Close(c) \/ CloseNoMore(c) \/ CloseDestroy(c)
  <2>1. PICK i : Skip(c, i)
    BY <1>3 DEF Open, OpenRegister, Close, CloseNoMore, CloseDestroy
  <2> QED BY <2>1, Going DEF Skip
<1>4. CASE CreateSyncFails(c) \/ CreateStartFails(c) \/ LookupFails(c) \/ StartRefused(c)
  BY <1>4, Returning DEF CreateSyncFails, CreateStartFails, LookupFails, StartRefused
<1>5. CASE Granted(c) \/ Draining(c)
  BY <1>5 DEF Granted, Draining, jobVars, Hop
<1>6. CASE Work(c)
  <2>1. job[c] \in {"probe", "add"} /\ \E call : At(c, call)
    BY <1>6, Position, Where DEF Work, Calls, HddInv
  <2> QED BY <1>6, <2>1, Advancing, Failing DEF Work
<1>7. CASE Validate(c)
  <2>1. job[c] = "mode" /\ \E call : At(c, call)
    BY <1>7, Position, Where DEF Validate, Calls, HddInv
  <2> QED BY <1>7, <2>1, Advancing, Failing DEF Validate
<1>8. CASE Read(c)
  <2>1. CASE ctx[sync[c]] = None
    BY <1>8, <2>1, Returning DEF Read
  <2>2. CASE ctx[sync[c]] # None
    BY <1>8, <2>2, Going DEF Read
  <2> QED BY <2>1, <2>2
<1>9. CASE ReadDriver(c)
  BY <1>9, Going DEF ReadDriver
<1>10. CASE StartNowRefused(c)
  <2>1. CASE job[c] = "idle"
    BY <1>10, <2>1, Failing DEF StartNowRefused
  <2>2. CASE job[c] # "idle"
    BY <1>10, <2>2, Returning DEF StartNowRefused
  <2> QED BY <2>1, <2>2
<1>11. CASE Check(c)
  BY <1>11, Advancing, Returning DEF Check, Calls
<1> QED BY <1>1, <1>2, <1>3, <1>4, <1>5, <1>6, <1>7, <1>8, <1>9, <1>10, <1>11 DEF Step

\* What a call does to the core: nothing to where its thread is in it; or it goes
\* on there, leaves, or comes in, at the driver's context only by a start that
\* waits; and only an unload changes the driver's state.
Effect(c) ==
  \/ pc'[c] = pc[c] /\ at'[c] = at[c]
  \/ pc[c] # "idle" /\ pc'[c] # "idle" /\ at'[c] = at[c]
  \/ pc'[c] = "idle" /\ at'[c] = None /\ (Stop(c) \/ StopOp(c))
  \/ pc[c] = "idle" /\ pc'[c] # "idle" /\ at'[c] # Driver
  \/ pc[c] = "idle" /\ pc'[c] # "idle" /\ at'[c] = ptr[c] /\ Start(c)

\* osif_*_sync_destroy flushes nobody.
LEMMA Freed ==
  ASSUME HddInv, HddInv', NEW s, SyncDestroy(s), NEW c \in Caller
  PROVE  OthersInside(c) /\ Effect(c) /\ unloading' = unloading
<1>1. Free(ctx[s])
  BY DEF SyncDestroy
<1>2. \A d \in Caller : pc'[d] = "aborted" \/ pc'[d] = pc[d]
  BY <1>1 DEF Free
<1>3. \A d \in Caller : pc'[d] # "aborted"
  BY DEF HddInv, JobInv, JobRow, PcRow
<1> QED BY <1>1, <1>2, <1>3 DEF Free, OthersInside, Effect, platform

\* The contexts of the registry are not the driver's.
LEMMA EntryContext ==
  ASSUME HddInv, NEW s \in inUse
  PROVE  ctx[s] \in Node /\ ctx[s] \in attached /\ ctx[s] # Driver
BY DEF HddInv, SyncInv, RegistrySound, Core, TypeOK

LEMMA Effects ==
  ASSUME HddInv, NEW c \in Caller, Step(c)
  PROVE  OthersInside(c) /\ Effect(c) /\ (unloading' = unloading \/ job[c] = "unload")
<1>1. CASE UNCHANGED vars
  BY <1>1 DEF vars, platform, OthersInside, Effect
<1>2. CASE ClearRecovering
  BY <1>1, <1>2 DEF ClearRecovering, SetRecovering, OthersInside, Effect
<1>3. CASE Platform(c) \/ TakeRtnl(c) \/ RtnlUnlock(c) \/ CreateSyncFails(c) \/ Register(c)
           \/ OpenRegister(c) \/ LookupSync(c) \/ LookupFails(c) \/ Read(c) \/ ReadDriver(c)
           \/ StartRefused(c) \/ StartNowRefused(c) \/ Unregister(c) \/ Check(c) \/ Validate(c)
           \/ Close(c) \/ CloseNoMore(c) \/ OpenDev(c) \/ StopDev(c)
  <2>1. UNCHANGED vars
    BY <1>3 DEF Platform, TakeRtnl, RtnlLock, UnderRtnl, RtnlUnlock, CreateSyncFails, Register,
                OpenRegister, LookupSync, LookupFails, Read, ReadDriver, StartRefused,
                StartNowRefused, Unregister, Check, Validate, Close, CloseNoMore, OpenDev, StopDev
  <2> QED BY <1>1, <2>1
<1>4. CASE Work(c) \/ Recovered(c) \/ IdleDone(c)
  BY <1>1, <1>2, <1>4 DEF Work, Recovered, IdleDone
<1>5. CASE CreateSync(c) \/ Open(c)
  <2>1. UNCHANGED vars \/ \E n : Create(n)
    BY <1>5 DEF CreateSync, Open, PsocSyncCreate, VdevSyncCreate
  <2> QED BY <1>1, <2>1 DEF Create, platform, OthersInside, Effect
<1>6. CASE CreateStartFails(c) \/ DestroySync(c) \/ CloseDestroy(c)
  <2>1. \E s : SyncDestroy(s)
    BY <1>6 DEF CreateStartFails, DestroySync, CloseDestroy
  <2> QED BY <2>1, CallStep, Freed
<1>7. CASE CreateStart(c) \/ StartNow(c) \/ StartOp(c)
  <2>1. PICK n \in Node \ {Driver} : TransStart(c, n) \/ OpStart(c, n)
    <3>1. CASE CreateStart(c)
      <4>1. (job[c] = "probe" \/ job[c] = "add") /\ step[c] = 2
        BY <3>1, Position, Where DEF CreateStart, Calls, HddInv
      <4>2. sync[c] \in OwnKind(job[c]) /\ Owner(c)
        BY <4>1 DEF Owner, HddInv, SyncInv, OwnInv
      <4>3. sync[c] \in Mine(c)
        BY <4>2 DEF Mine, OwnKind, Sync
      <4>4. sync[c] \in inUse
        BY <4>3, MineIsLoose DEF Loose
      <4> QED BY <3>1, <4>4, EntryContext DEF CreateStart
    <3>2. CASE StartNow(c)
      BY <3>2, EntryContext DEF StartNow, SyncTransStart, Lookup
    <3>3. CASE StartOp(c)
      BY <3>3, EntryContext DEF StartOp, SyncOpStart, Lookup
    <3> QED BY <1>7, <3>1, <3>2, <3>3
  <2>2. CASE TransStart(c, n)
    BY <2>2, InsideStart DEF HddInv, Effect, TransStart, platform
  <2>3. CASE OpStart(c, n)
    BY <2>3 DEF HddInv, Core, TypeOK, Effect, OpStart, OthersInside, platform
  <2> QED BY <2>1, <2>2, <2>3
<1>8. CASE Start(c)
  <2>1. TransStart(c, ptr[c]) \/ TransStartWait(c, ptr[c])
    BY <1>8 DEF Start, SyncTransStartWait
  <2>2. unloading' = unloading
    BY <2>1 DEF TransStart, TransStartWait, platform
  <2>3. OthersInside(c) /\ pc'[c] # "idle" /\ at'[c] = ptr[c]
    BY <2>1, InsideStart, InsideStartWait DEF HddInv
  <2>4. pc[c] = "idle"
    BY <2>1 DEF TransStart, TransStartWait
  <2> QED BY <1>8, <2>2, <2>3, <2>4 DEF Effect
<1>9. CASE Granted(c) \/ Draining(c)
  <2>1. WaitGranted(c) \/ Wake(c) \/ Drained(c) \/ \E n \in Node : VisitQuiet(c, n) \/ VisitBusy(c, n)
    BY <1>9 DEF Granted, Draining
  <2>2. unloading' = unloading
    BY <2>1 DEF WaitGranted, Wake, Drained, VisitQuiet, VisitBusy, platform
  <2> QED BY <2>1, <2>2, InsideDrain DEF HddInv, Effect
<1>10. CASE Wait(c)
  <2>1. PICK n : WaitForOps(c, n)
    BY <1>10 DEF Wait
  <2> QED BY <2>1, InsideWait DEF HddInv, Effect, WaitForOps, platform
<1>11. CASE MarkUnloading(c)
  <2>1. job[c] = "unload"
    BY <1>11, Position, Where DEF MarkUnloading, Calls, HddInv
  <2> QED BY <1>11, <2>1 DEF MarkUnloading, OthersInside, Effect
<1>12. CASE Stop(c)
  <2>1. CASE TransStop(c)
    <3>1. OthersInside(c) /\ pc'[c] = "idle"
      BY <2>1, InsideStop DEF HddInv
    <3>2. at'[c] = None /\ unloading' = unloading
      BY <2>1 DEF TransStop, platform, HddInv, Core, TypeOK
    <3> QED BY <1>12, <3>1, <3>2 DEF Effect
  <2>2. CASE ~TransStop(c)
    BY <1>1, <1>12, <2>2 DEF Stop
  <2> QED BY <2>1, <2>2
<1>13. CASE StopOp(c)
  <2>1. OpStop(c)
    BY <1>13 DEF StopOp
  <2>2. at'[c] = None /\ unloading' = unloading
    BY <2>1 DEF OpStop, platform, HddInv, Core, TypeOK
  <2> QED BY <1>13, <2>1, <2>2, InsideOpStop DEF HddInv, Effect
<1> QED BY <1>3, <1>4, <1>5, <1>6, <1>7, <1>8, <1>9, <1>10, <1>11, <1>12, <1>13 DEF Step

\* What leaves the registry alone.
LEMMA RegistryKept ==
  ASSUME NEW c \in Caller, Step(c),
         ~(CreateSync(c) \/ Open(c) \/ Unregister(c) \/ Close(c) \/ Register(c) \/ OpenRegister(c)
           \/ CreateStartFails(c) \/ DestroySync(c) \/ CloseDestroy(c))
  PROVE  UNCHANGED syncVars
BY DEF Step, Platform, TakeRtnl, RtnlLock, UnderRtnl, RtnlUnlock, CreateSyncFails, CreateStart,
       Work, LookupSync, LookupFails, Read, ReadDriver, Start, SyncTransStartWait, StartRefused,
       Granted, StartNow, SyncTransStart, StartNowRefused, Wait, Draining, MarkUnloading, Check,
       Validate, CloseNoMore, Stop, StartOp, SyncOpStart, StopOp, OpenDev, StopDev, Recovered,
       IdleDone

\* An entry of the radio stays registered until the call of the platform that
\* unregisters it.
LEMMA StaysRegistered ==
  ASSUME HddInv, NEW c \in Caller, Step(c), NEW s \in inUse \cap PsocSync, key[s] # None,
         Unregister(c) => job[c] = "del"
  PROVE  s \in inUse' /\ key'[s] = key[s]
<1>0. /\ key[s] \in Dev /\ key[s] \notin NetDev /\ s \in Sync /\ s \notin VdevSync
      /\ s \notin Loose /\ RegType
  BY SyncAssumption DEF HddInv, SyncInv, RegType, Loose, Sync
<1>1. CASE UNCHANGED syncVars
  BY <1>1 DEF syncVars
<1>2. CASE UNCHANGED key /\ inUse \subseteq inUse'
  BY <1>2
<1>3. CASE \E k \in NetDev : SyncUnregister(k)
  BY <1>0, <1>3 DEF SyncUnregister, Lookup
<1>4. CASE \E t \in Loose \cup VdevSync : \E k : SyncRegister(t, k)
  BY <1>0, <1>4 DEF SyncRegister, RegType
<1>5. CASE \E t \in Loose : SyncDestroy(t)
  BY <1>0, <1>5 DEF SyncDestroy, RegType
<1>6. CASE CreateSync(c) \/ Open(c)
  BY <1>1, <1>2, <1>6 DEF CreateSync, Open, PsocSyncCreate, VdevSyncCreate
<1>7. CASE Unregister(c) \/ Close(c)
  <2>1. job[c] = "del" => dev[c] \in NetDev
    BY NoJob, RowOf DEF JobRow, Job
  <2>2. \A t \in VdevSync \cap inUse : key[t] # None => key[t] \in NetDev
    BY <1>0 DEF RegType, Sync
  <2> QED BY <1>3, <1>7, <2>1, <2>2 DEF Unregister, Close
<1>8. CASE Register(c) \/ OpenRegister(c)
  <2>1. CASE OpenRegister(c)
    <3>1. (job[c] = "probe" /\ step[c] = 7) \/ (job[c] = "mode" /\ step[c] = 11)
      BY <2>1, Position, Where DEF OpenRegister, Calls, HddInv
    <3>2. Opens(c)
      BY <3>1 DEF Opens
    <3>3. vsync[c] \in VdevSync
      BY <3>2, RowOf DEF JobRow, JobTypes
    <3> QED BY <1>4, <2>1, <3>3 DEF OpenRegister
  <2>2. CASE Register(c)
    <3>1. (job[c] = "probe" /\ step[c] = 3) \/ (job[c] = "add" /\ step[c] = 4)
      BY <2>2, Position, Where DEF Register, Calls, HddInv
    <3>2. Owner(c)
      BY <3>1 DEF Owner
    <3>3. sync[c] \in Mine(c)
      BY <3>2 DEF Mine, HddInv, SyncInv, OwnInv, OwnKind, Sync
    <3>4. sync[c] \in Loose
      BY <3>3, MineIsLoose
    <3> QED BY <1>4, <2>2, <3>4 DEF Register
  <2> QED BY <1>8, <2>1, <2>2
<1>9. CASE CreateStartFails(c) \/ DestroySync(c) \/ CloseDestroy(c)
  <2>1. CASE CloseDestroy(c)
    <3>1. (job[c] = "unload" /\ step[c] = 15) \/ (job[c] = "mode" /\ step[c] = 8)
      BY <2>1, Position, Where DEF CloseDestroy, Calls, HddInv
    <3>2. Closes(c)
      BY <3>1 DEF Closes
    <3>3. vsync[c] \in VdevSync
      BY <3>2, RowOf DEF JobRow, JobTypes
    <3>4. vsync[c] \in Loose
      BY <3>3, MineIsLoose DEF Mine, Sync
    <3> QED BY <1>5, <2>1, <3>4 DEF CloseDestroy
  <2>2. CASE CreateStartFails(c) \/ DestroySync(c)
    <3>1. \/ job[c] \in {"probe", "add"} /\ step[c] = 2
          \/ job[c] = "probe_fail" /\ step[c] = 4
          \/ job[c] = "unload" /\ step[c] = 19
          \/ job[c] = "add_fail" /\ step[c] = 2
          \/ job[c] = "del" /\ step[c] = 8
      BY <2>2, Position, Where DEF CreateStartFails, DestroySync, Calls, HddInv
    <3>2. Owner(c)
      BY <3>1 DEF Owner
    <3>3. sync[c] \in Mine(c)
      BY <3>2 DEF Mine, HddInv, SyncInv, OwnInv, OwnKind, Sync
    <3>4. sync[c] \in Loose
      BY <3>3, MineIsLoose
    <3> QED BY <1>5, <2>2, <3>4 DEF CreateStartFails, DestroySync
  <2> QED BY <1>9, <2>1, <2>2
<1>10. CASE ~(CreateSync(c) \/ Open(c) \/ Unregister(c) \/ Close(c) \/ Register(c) \/ OpenRegister(c)
              \/ CreateStartFails(c) \/ DestroySync(c) \/ CloseDestroy(c))
  <2>1. UNCHANGED syncVars
    BY <1>10, RegistryKept
  <2> QED BY <1>1, <2>1
<1> QED BY <1>6, <1>7, <1>8, <1>9, <1>10

----------------------------------------------------------------------------
(* What a thread that returns leaves behind. *)

\* A thread that returns has no transition, unless it is a reinit that does not
\* get as far as its trans_stop.
LEMMA Leaves ==
  ASSUME HddInv, NEW c \in Caller, Step(c), job[c] # None, job'[c] = None
  PROVE  \/ pc'[c] = "idle"
         \/ job[c] = "reinit" /\ (unloading \/ Lookup(dev[c]) = {})
<1>1. job[c] \in Job
  BY RowOf DEF JobRow
<1>2. pc[c] = "idle" /\ ~(Start(c) \/ StartNow(c) \/ CreateStart(c) \/ StartOp(c)) => pc'[c] = "idle"
  <2> SUFFICES ASSUME pc[c] = "idle", ~(Start(c) \/ StartNow(c) \/ CreateStart(c) \/ StartOp(c))
               PROVE  pc'[c] = "idle"
    OBVIOUS
  <2>1. CASE UNCHANGED vars
    BY <2>1 DEF vars
  <2>2. CASE ClearRecovering \/ MarkUnloading(c)
    BY <2>1, <2>2 DEF ClearRecovering, SetRecovering, MarkUnloading
  <2>3. CASE \E s : SyncDestroy(s)
    <3>1. HddInv' /\ \A d \in Caller : pc'[d] = "aborted" \/ pc'[d] = pc[d]
      BY <2>3, CallStep DEF SyncDestroy, Free
    <3>2. pc'[c] # "aborted"
      BY <3>1 DEF HddInv, JobInv, JobRow, PcRow
    <3> QED BY <3>1, <3>2
  <2>4. CASE \E n : Create(n)
    BY <2>4 DEF Create
  <2>5. ~Granted(c) /\ ~Draining(c) /\ ~Wait(c) /\ ~StopOp(c)
    BY DEF Granted, Draining, WaitGranted, Wake, Drained, VisitQuiet, VisitBusy, Wait, WaitForOps,
           StopOp, OpStop
  <2>6. UNCHANGED vars \/ ClearRecovering \/ MarkUnloading(c) \/ (\E s : SyncDestroy(s)) \/ (\E n : Create(n))
    BY <2>5
       DEF Step, Platform, TakeRtnl, RtnlLock, UnderRtnl, RtnlUnlock, CreateSync, CreateSyncFails,
           CreateStartFails, Register, Work, Open, OpenRegister, LookupSync, LookupFails, Read,
           ReadDriver, StartRefused, StartNowRefused, Unregister, Check, Validate, Close,
           CloseNoMore, CloseDestroy, Stop, TransStop, DestroySync, OpenDev, StopDev, Recovered,
           IdleDone, PsocSyncCreate, VdevSyncCreate
  <2> QED BY <2>1, <2>2, <2>3, <2>4, <2>6
<1>3. CASE Platform(c) \/ TakeRtnl(c) \/ CreateStart(c) \/ Register(c) \/ Start(c) \/ StartNow(c)
           \/ Unregister(c) \/ MarkUnloading(c) \/ StartOp(c) \/ OpenDev(c) \/ StopDev(c)
           \/ Recovered(c)
  <2>1. Advance(c) /\ \E call \in {"platform", "rtnl_lock", "close_netdev", "wiphy", "create_start",
                                   "register", "start", "trans_start", "unregister",
                                   "set_unloading", "clear_unloading", "op_start", "open_dev",
                                   "stop_dev", "recovered"} : At(c, call)
    BY <1>3 DEF Platform, TakeRtnl, RtnlLock, UnderRtnl, CreateStart, Register, Start, StartNow,
                Unregister, MarkUnloading, StartOp, OpenDev, StopDev, Recovered, Calls
  <2>2. ~Last(c)
    <3>1. CASE \E call \in {"platform", "rtnl_lock", "close_netdev", "wiphy", "create_start"} :
                 At(c, call)
      <4>1. \/ job[c] = "unload" /\ step[c] \in {5, 14, 16}
            \/ job[c] = "probe" /\ step[c] \in {2, 5}
            \/ job[c] = "mode" /\ step[c] \in {7, 9}
            \/ job[c] = "add" /\ step[c] = 2
        BY <3>1, Position, Where DEF HddInv
      <4> QED BY <4>1 DEF Last
    <3>2. CASE \E call \in {"register", "start", "trans_start", "unregister"} : At(c, call)
      <4>1. \/ job[c] = "unload" /\ step[c] \in {2, 8, 9}
            \/ job[c] = "probe" /\ step[c] = 3
            \/ job[c] = "mode" /\ step[c] = 2
            \/ job[c] = "add" /\ step[c] = 4
            \/ job[c] = "shutdown" /\ step[c] = 4
            \/ job[c] = "del" /\ step[c] \in {3, 5}
            \/ job[c] = "probe_fail" /\ step[c] = 1
            \/ job[c] \in {"idle", "up", "down"} /\ step[c] = 1
        BY <3>2, Position, Where DEF HddInv
      <4> QED BY <4>1 DEF Last
    <3>3. CASE \E call \in {"set_unloading", "clear_unloading", "op_start", "open_dev", "stop_dev",
                           "recovered"} : At(c, call)
      <4>1. \/ job[c] = "unload" /\ step[c] \in {3, 11, 17}
            \/ job[c] = "op" /\ step[c] = 1
            \/ job[c] \in {"up", "down"} /\ step[c] = 3
            \/ job[c] = "reinit" /\ step[c] = 3
        BY <3>3, Position, Where DEF HddInv
      <4> QED BY <4>1 DEF Last
    <3> QED BY <2>1, <3>1, <3>2, <3>3
  <2>3. job'[c] = job[c]
    BY <1>1, <2>1, <2>2, GoesOn
  <2> QED BY <2>3
<1>4. CASE CreateSync(c) \/ LookupSync(c) \/ Open(c) \/ OpenRegister(c) \/ Close(c) \/ CloseNoMore(c)
           \/ CloseDestroy(c) \/ ReadDriver(c) \/ (Read(c) /\ ctx[sync[c]] # None)
  <2>1. \E i : Goto(c, job[c], i) /\ dev' = dev
    BY <1>4 DEF CreateSync, LookupSync, Use, Open, OpenRegister, Close, CloseNoMore, CloseDestroy,
                Skip, ReadDriver, Read
  <2> QED BY <2>1, GoesTo
<1>5. CASE Granted(c) \/ Draining(c)
  BY <1>5 DEF Granted, Draining, jobVars
<1>6. CASE Work(c) \/ Validate(c)
  <2>1. \/ job[c] = "probe" /\ step[c] = 4
        \/ job[c] = "add" /\ step[c] = 3
        \/ job[c] = "mode" /\ step[c] = 4
    BY <1>6, Position, Where DEF Work, Validate, Calls, HddInv
  <2>2. ~Last(c) /\ job[c] \in {"probe", "add", "mode", "idle"}
    BY <2>1 DEF Last
  <2>3. FailOf[job[c]] \in Job
    BY <2>2 DEF FailOf, Job
  <2> QED BY <1>1, <1>6, <2>2, <2>3, GoesOn, GoesWrong, NoJob DEF Work, Validate
<1>7. CASE Wait(c)
  <2>1. \/ job[c] \in {"probe_fail", "idle", "up", "down"} /\ step[c] = 2
        \/ job[c] = "unload" /\ step[c] \in {10, 13}
        \/ job[c] = "mode" /\ step[c] \in {3, 6}
        \/ job[c] = "del" /\ step[c] \in {4, 6}
        \/ job[c] = "shutdown" /\ step[c] = 5
    BY <1>7, Position, Where DEF Wait, Calls, HddInv
  <2>2. CASE job[c] = "shutdown"
    <3>1. job'[c] # None
      BY <1>7, <2>2, Hops, NoJob, NoneIsFresh DEF Hop, FailOf, Job
    <3> QED BY <3>1
  <2>3. CASE job[c] # "shutdown"
    <3>1. ~Last(c)
      BY <2>1, <2>3 DEF Last
    <3> QED BY <1>1, <1>7, <3>1, GoesOn DEF Wait
  <2> QED BY <2>2, <2>3
<1>8. CASE RtnlUnlock(c)
  <2>1. \/ job[c] = "probe" /\ step[c] = 8
        \/ job[c] = "mode" /\ step[c] = 12
        \/ job[c] = "add" /\ step[c] = 6
        \/ job[c] = "add_fail" /\ step[c] = 3
        \/ job[c] = "del" /\ step[c] = 9
        \/ job[c] \in {"up", "down"} /\ step[c] = 5
    BY <1>8, Position, Where DEF RtnlUnlock, Calls, HddInv
  <2>2. CASE job[c] \in {"probe", "mode"}
    <3>1. ~Last(c)
      BY <2>1, <2>2 DEF Last
    <3> QED BY <1>1, <1>8, <3>1, GoesOn DEF RtnlUnlock
  <2>3. CASE job[c] \notin {"probe", "mode"}
    <3>1. ~InTrans(c) /\ ~InOp(c) /\ job[c] # "reinit"
      BY <2>1, <2>3 DEF InTrans, InOp
    <3>2. pc[c] = "idle"
      BY <3>1, RowOf DEF PcRow
    <3> QED BY <1>8, <3>2 DEF RtnlUnlock, vars
  <2> QED BY <2>2, <2>3
<1>9. CASE CreateSyncFails(c) \/ LookupFails(c) \/ StartRefused(c) \/ Check(c)
           \/ (Read(c) /\ ctx[sync[c]] = None) \/ StartNowRefused(c) \/ CreateStartFails(c)
           \/ DestroySync(c) \/ IdleDone(c)
  <2>1. \E call \in {"create", "create_start", "lookup", "resume", "start", "check", "read",
                     "trans_start", "op_start", "destroy", "idle_done"} : At(c, call)
    BY <1>9 DEF CreateSyncFails, LookupFails, StartRefused, Check, Read, StartNowRefused,
                CreateStartFails, DestroySync, IdleDone, Calls
  <2>2. \/ job[c] \in {"probe", "add"} /\ step[c] \in {1, 2}
        \/ job[c] = "unload" /\ step[c] \in {2, 6, 7, 8, 19}
        \/ job[c] = "shutdown" /\ step[c] \in {1, 2, 3, 4}
        \/ job[c] = "reinit" /\ step[c] \in {1, 2}
        \/ job[c] = "mode" /\ step[c] = 2
        \/ job[c] = "del" /\ step[c] \in {1, 2, 3, 8}
        \/ job[c] \in {"idle", "up", "down", "op"} /\ step[c] = 1
        \/ job[c] = "probe_fail" /\ step[c] = 4
        \/ job[c] = "add_fail" /\ step[c] = 2
        \/ job[c] = "idle" /\ step[c] = 4
        \/ job[c] = "idle_busy" /\ step[c] = 1
    BY <2>1, Position, Where DEF HddInv
  <2>3. CASE job[c] # "reinit"
    <3>1. ~InTrans(c) /\ ~InOp(c)
      BY <2>2, <2>3 DEF InTrans, InOp
    <3>2. pc[c] = "idle"
      BY <2>3, <3>1, RowOf DEF PcRow
    <3> QED BY <1>2, <1>3, <3>2
  <2>4. CASE job[c] = "reinit"
    <3>1. CASE Check(c) /\ ~unloading
      <4>1. step[c] = 1
        BY <2>4, <3>1, Position, Where DEF Check, Calls, HddInv
      <4>2. ~Last(c)
        BY <2>4, <4>1 DEF Last
      <4> QED BY <1>1, <3>1, <4>2, GoesOn DEF Check
    <3>2. CASE LookupFails(c)
      BY <2>4, <3>2 DEF LookupFails
    <3>3. CASE Check(c) /\ unloading
      BY <2>4, <3>3
    <3>4. ~At(c, "create") /\ ~At(c, "start") /\ ~At(c, "read") /\ ~At(c, "trans_start")
          /\ ~At(c, "op_start") /\ ~At(c, "create_start") /\ ~At(c, "destroy") /\ ~At(c, "idle_done")
      BY <2>4, Position, Where DEF HddInv
    <3> QED BY <1>9, <3>1, <3>2, <3>3, <3>4
            DEF CreateSyncFails, StartRefused, Read, StartNowRefused, CreateStartFails,
                DestroySync, IdleDone, Calls
  <2> QED BY <2>3, <2>4
<1>10. CASE Stop(c)
  BY <1>10, InsideStop DEF Stop, HddInv, vars
<1>11. CASE StopOp(c)
  BY <1>11, InsideOpStop DEF StopOp, HddInv
<1> QED BY <1>3, <1>4, <1>5, <1>6, <1>7, <1>8, <1>9, <1>10, <1>11 DEF Step

\* The radio's entry, once unregistered, is registered again by a probe alone.
LEMMA StaysUnregistered ==
  ASSUME HddInv, NEW c \in Caller, Step(c), NEW k \in Dev, \A s \in inUse : key[s] # k,
         job[c] # "probe"
  PROVE  \A s \in inUse' : key'[s] # k
<1>0. /\ k # None /\ k \notin NetDev /\ RegType /\ RegistrySound
  BY SyncAssumption DEF HddInv, SyncInv
<1>1. CASE UNCHANGED syncVars
  BY <1>1 DEF syncVars
<1>2. CASE \E t \in Sync \ inUse : UNCHANGED key /\ inUse' = inUse \cup {t}
  BY <1>0, <1>2 DEF RegistrySound
<1>3. CASE \E x : SyncUnregister(x)
  BY <1>0, <1>3 DEF SyncUnregister, RegType
<1>4. CASE \E t : \E x \in NetDev : SyncRegister(t, x)
  BY <1>0, <1>4 DEF SyncRegister, RegType
<1>5. CASE \E t : SyncDestroy(t)
  BY <1>0, <1>5 DEF SyncDestroy, RegType
<1>6. CASE CreateSync(c) \/ Open(c)
  <2>1. UNCHANGED syncVars \/ \E t \in Sync \ inUse : UNCHANGED key /\ inUse' = inUse \cup {t}
    BY <1>6 DEF CreateSync, Open, PsocSyncCreate, VdevSyncCreate, Sync
  <2> QED BY <1>1, <1>2, <2>1
<1>7. CASE Unregister(c) \/ Close(c)
  BY <1>3, <1>7 DEF Unregister, Close
<1>8. CASE Register(c) \/ OpenRegister(c)
  BY <1>4, <1>8 DEF Register, OpenRegister
<1>9. CASE CreateStartFails(c) \/ DestroySync(c) \/ CloseDestroy(c)
  BY <1>5, <1>9 DEF CreateStartFails, DestroySync, CloseDestroy
<1>10. CASE ~(CreateSync(c) \/ Open(c) \/ Unregister(c) \/ Close(c) \/ Register(c) \/ OpenRegister(c)
              \/ CreateStartFails(c) \/ DestroySync(c) \/ CloseDestroy(c))
  <2>1. UNCHANGED syncVars
    BY <1>10, RegistryKept
  <2> QED BY <1>1, <2>1
<1> QED BY <1>6, <1>7, <1>8, <1>9, <1>10

----------------------------------------------------------------------------
(* Who has the driver's transition, what a recovery has and what an unload has  *)
(* removed, where no other call comes in between.                               *)

\* The programs that may run.
MayRun ==
  Called \cup {FailOf[j] : j \in DOMAIN FailOf \cap Called}
    \cup {j \in {"reinit"} : "shutdown" \in Called}

JobsRun == \A c \in Caller : job[c] \in MayRun \cup {None}

\* The driver's transition is an unload's or a mode change's.
DriverRow ==
  \A c \in Caller : at[c] = Driver =>
    \/ job[c] = "unload" /\ step[c] \in 3..4
    \/ job[c] = "mode" /\ step[c] \in 3..13
    \/ job[c] = "mode_fail"

\* Without an unload a recovery finds its radio registered ...
Calm ==
  /\ ~unloading
  /\ \A c \in Caller : job[c] \in {"shutdown", "reinit"} => Lookup(dev[c]) # {}

\* ... and without a mode change either, a reinit has the radio's transition.
Resumed == \A c \in Caller : job[c] = "reinit" => pc[c] # "idle" /\ at[c] \in Psoc

\* An unload that has unregistered its radio finds it unregistered.
Removed ==
  /\ \A c, d \in Caller : job[c] = "unload" /\ job[d] = "unload" => c = d
  /\ \A c \in Caller : job[c] = "unload" /\ step[c] \in 10..19 => \A s \in inUse : key[s] # dev[c]

CallInv ==
  /\ HddInv /\ JobsRun /\ DriverRow /\ Removed
  /\ "unload" \notin Jobs => Calm
  /\ {"unload", "mode"} \cap Jobs = {} => Resumed
  /\ ~({"unload", "shutdown"} \subseteq Jobs) => TransConcluded

LEMMA Runs ==
  /\ \A j \in {"unload", "shutdown", "mode"} : j \notin Jobs => j \notin MayRun
  /\ "shutdown" \notin Jobs => "reinit" \notin MayRun
  /\ "mode" \notin Jobs => "mode_fail" \notin MayRun
<1>1. DOMAIN FailOf = {"probe", "add", "mode", "idle"}
      /\ FailOf["probe"] = "probe_fail" /\ FailOf["add"] = "add_fail"
      /\ FailOf["mode"] = "mode_fail" /\ FailOf["idle"] = "idle_busy"
  BY DEF FailOf
<1>2. Called \subseteq Jobs /\ "mode_fail" \notin Called /\ "reinit" \notin Called
  BY <1>1 DEF Called
<1> QED BY <1>1, <1>2 DEF MayRun

\* A context is busy with a thread that is there.
LEMMA BusyDriver ==
  ASSUME HddInv, ActiveOrQueued(Driver)
  PROVE  \E e \in Caller : at[e] = Driver
<1>1. CASE Active(Driver)
  <2>1. active[Driver] \in Caller /\ at[active[Driver]] = Driver
    BY <1>1, Tree DEF HddInv, Core, GrantConsistency, TypeOK, Active
  <2> QED BY <2>1
<1>2. CASE Queued(Driver)
  <2>1. queue[Driver] \in Seq(Caller) /\ queue[Driver] # <<>>
    BY <1>2, Tree DEF HddInv, Core, TypeOK, Queued
  <2>2. 1 \in DOMAIN queue[Driver] /\ queue[Driver][1] \in Caller
    BY <2>1
  <2>3. at[queue[Driver][1]] = Driver
    BY <2>2, Tree DEF HddInv, Core, TypeOK, QueueAccounting
  <2> QED BY <2>2, <2>3
<1> QED BY <1>1, <1>2 DEF ActiveOrQueued

\* A start on the radio that waits is refused for the driver's transition only, a
\* start on the driver never.
LEMMA Refused ==
  ASSUME HddInv, NEW c \in Caller, StartRefused(c),
         job[c] = "shutdown" \/ job[c] = "unload"
  PROVE  /\ step[c] # 2 /\ \E e \in Caller : at[e] = Driver
<1>1. \/ job[c] = "unload" /\ step[c] \in {2, 8}
      \/ job[c] = "shutdown" /\ step[c] = 4
  BY Position, Where DEF StartRefused, Calls, HddInv
<1>2. CanTrans(ptr[c]) = "E_INVAL"
  BY DEF StartRefused
<1>3. step[c] # 2
  <2> SUFFICES ASSUME step[c] = 2 PROVE FALSE
    OBVIOUS
  <2>1. ptr[c] = Driver
    BY <1>1, RowOf DEF PlaceRow
  <2>2. CanTrans(Driver) = DriverCanTrans
    BY Tree DEF CanTrans
  <2>3. DriverCanTrans # "E_INVAL"
    BY DEF DriverCanTrans
  <2> QED BY <1>2, <2>1, <2>2, <2>3
<1>4. Knows(c) /\ ptr[c] = ctx[sync[c]]
  BY <1>1, <1>3, RowOf DEF Knows, PlaceRow
<1>5. ptr[c] \in Psoc
  BY <1>4, KnownPsoc
<1>6. ActiveOrQueued(Driver)
  BY <1>2, <1>5, Tree DEF CanTrans, PsocCanTrans
<1> QED BY <1>3, <1>6, BusyDriver

\* The jobs of the next state are the jobs of this one, gone on, failed or ended.
LEMMA JobsRunStep ==
  ASSUME HddInv, JobsRun, NEW c \in Caller, Step(c)
  PROVE  JobsRun'
<1>1. Hop(c)
  BY Hops
<1>2. job'[c] \in MayRun \cup {None}
  <2>1. CASE job'[c] = job[c] \/ job'[c] = None
    BY <2>1 DEF JobsRun
  <2>2. CASE job[c] = "shutdown" /\ job'[c] = "reinit"
    <3>1. "shutdown" \in MayRun
      BY <2>2, NoJob DEF JobsRun, Job
    <3>2. "shutdown" \in Jobs
      BY <3>1, Runs
    <3>3. "shutdown" \in Called
      BY <3>2 DEF Called, FailOf
    <3> QED BY <2>2, <3>3 DEF MayRun
  <2>3. CASE job[c] \in {"probe", "add", "mode", "idle"} /\ job'[c] = FailOf[job[c]]
    <3>1. job[c] \in MayRun
      BY <2>3, NoJob DEF JobsRun, Job
    <3>2. DOMAIN FailOf = {"probe", "add", "mode", "idle"}
          /\ FailOf["probe"] = "probe_fail" /\ FailOf["add"] = "add_fail"
          /\ FailOf["mode"] = "mode_fail" /\ FailOf["idle"] = "idle_busy"
      BY DEF FailOf
    <3>3. job[c] \in Called
      BY <2>3, <3>1, <3>2 DEF MayRun
    <3> QED BY <2>3, <3>2, <3>3 DEF MayRun
  <2> QED BY <1>1, <2>1, <2>2, <2>3 DEF Hop
<1> QED BY <1>1, <1>2 DEF JobsRun, Hop

LEMMA CalmStep ==
  ASSUME HddInv, JobsRun, Calm, "unload" \notin Jobs, NEW c \in Caller, Step(c)
  PROVE  Calm'
<1>1. job[c] # "unload"
  BY Runs, NoJob DEF JobsRun, Job
<1>2. ~unloading'
  BY <1>1, Effects DEF Calm
<1>3. ASSUME NEW d \in Caller, job'[d] \in {"shutdown", "reinit"}
      PROVE  Lookup(dev[d])' # {} /\ dev'[d] = dev[d]
  <2>1. job[d] \in {"shutdown", "reinit"} /\ dev'[d] = dev[d]
    BY <1>3, Hops, NoJob DEF Hop, FailOf, Job
  <2>2. dev[d] \in Dev /\ PlatformCall(d) /\ dev[d] # None
    <3>1. dev[d] \in Dev
      BY <2>1, NoJob, RowOf DEF JobRow, Job
    <3> QED BY <2>1, <3>1, SyncAssumption DEF PlatformCall
  <2>3. PICK s \in Lookup(dev[d]) : TRUE
    BY <2>1 DEF Calm
  <2>4. s \in inUse \cap PsocSync /\ key[s] = dev[d]
    BY <2>2, <2>3, LookupKind
  <2>5. Unregister(c) => job[c] = "del"
    <3> SUFFICES ASSUME Unregister(c), job[c] # "del" PROVE FALSE
      OBVIOUS
    <3>1. job[c] = "probe_fail"
      BY <1>1, Position, Where DEF Unregister, Calls, HddInv
    <3>2. PlatformCall(c)
      BY <3>1 DEF PlatformCall
    <3> QED BY <2>1, <2>2, <3>1, <3>2 DEF HddInv, JobInv
  <2>6. s \in inUse' /\ key'[s] = key[s]
    BY <2>2, <2>4, <2>5, StaysRegistered
  <2> QED BY <2>1, <2>4, <2>6 DEF Lookup
<1>4. ASSUME NEW d \in Caller, job'[d] \in {"shutdown", "reinit"}
      PROVE  Lookup(dev[d])' # {}
  <2>1. PICK s \in inUse' : key'[s] = dev'[d]
    BY <1>3, <1>4 DEF Lookup
  <2> QED BY <2>1 DEF Lookup
<1> QED BY <1>2, <1>4 DEF Calm

LEMMA DriverRowStep ==
  ASSUME HddInv, DriverRow, NEW c \in Caller, Step(c)
  PROVE  DriverRow'
<1>1. HddInv'
  BY CallStep
<1>2. Hop(c) /\ Effect(c) /\ OthersInside(c)
  BY Hops, Effects
<1>3. \A d \in Caller \ {c} : at'[d] = at[d] /\ job'[d] = job[d] /\ step'[d] = step[d]
  BY <1>2 DEF Hop, OthersInside
<1> SUFFICES ASSUME at'[c] = Driver
             PROVE  \/ job'[c] = "unload" /\ step'[c] \in 3..4
                    \/ job'[c] = "mode" /\ step'[c] \in 3..13
                    \/ job'[c] = "mode_fail"
  BY <1>3 DEF DriverRow
<1>4. PcRow(c)' /\ PlaceRow(c)' /\ JobRow(c)'
  BY <1>1 DEF HddInv, JobInv, JobRow, SyncInv
<1>5. CASE at[c] = Driver
  <2>1. InTrans(c) /\ job[c] \in {"unload", "mode", "mode_fail"} /\ (job[c] = "unload" => step[c] \in 3..4)
    BY <1>5 DEF DriverRow, InTrans
  <2>2. pc[c] # "idle"
    BY <2>1, RowOf DEF PcRow
  <2>3. at'[c] # None
    BY NoneIsFresh, Tree
  <2>4. pc'[c] # "idle"
    BY <1>2, <2>2, <2>3 DEF Effect
  <2>5. job[c] # None
    BY <2>1, NoJob DEF Job
  <2>6. job'[c] # None
    BY <2>1, <2>4, <2>5, Leaves
  <2>7. job'[c] \in {"unload", "mode", "mode_fail"} /\ (job'[c] = "unload" => job[c] = "unload")
    BY <1>2, <2>1, <2>6 DEF Hop, FailOf
  <2>8. InTrans(c)'
    BY <1>4, <2>4, <2>7, NoJob DEF PcRow, InOp, Job
  <2>9. ~(job'[c] = "unload" /\ step'[c] \in 9..18)
    BY <1>4, Tree DEF PlaceRow
  <2> QED BY <2>7, <2>8, <2>9 DEF InTrans
<1>6. CASE at[c] # Driver
  <2>1. Start(c) /\ ptr[c] = Driver
    BY <1>2, <1>6, NoneIsFresh, Tree DEF Effect
  <2>2. \/ job[c] = "unload" /\ step[c] \in {2, 8}
        \/ job[c] = "shutdown" /\ step[c] = 4
        \/ job[c] = "mode" /\ step[c] = 2
        \/ job[c] = "del" /\ step[c] = 3
    BY <2>1, Position, Where DEF Start, Calls, HddInv
  <2>3. step[c] = 2
    <3> SUFFICES ASSUME step[c] # 2 PROVE FALSE
      OBVIOUS
    <3>1. ptr[c] = ctx[sync[c]] /\ (Knows(c) \/ Seeks(c))
      BY <2>2, RowOf DEF PlaceRow, Knows, Seeks
    <3>2. sync[c] \in inUse
      BY <3>1, RowOf DEF SeekRow
    <3> QED BY <2>1, <3>1, <3>2, EntryContext
  <2>4. ~Last(c) /\ job[c] \in Job
    BY <2>2 DEF Last, Job
  <2>5. job'[c] = job[c] /\ step'[c] = step[c] + 1
    BY <2>1, <2>4, GoesOn DEF Start
  <2> QED BY <2>2, <2>3, <2>5
<1> QED BY <1>5, <1>6

\* A shutdown gets its transition before it returns.
LEMMA ShutdownHas ==
  ASSUME HddInv, NEW c \in Caller, Step(c), job[c] = "shutdown", job'[c] = "reinit",
         ~unloading, Lookup(dev[c]) # {}, \A e \in Caller : at[e] # Driver
  PROVE  step[c] = 5
<1> SUFFICES ASSUME step[c] # 5 PROVE FALSE
  OBVIOUS
<1>1. job[c] \in Job /\ step[c] \in 1..4 /\ ~Last(c)
  <2>1. job[c] \in Job
    BY DEF Job
  <2>2. step[c] \in 1 .. Len(Prog["shutdown"])
    BY <2>1, NoJob, RowOf DEF JobRow
  <2>3. Len(Prog["shutdown"]) = 5
    BY Lengths
  <2> QED BY <2>1, <2>2, <2>3 DEF Last
<1>2. ~Advance(c)
  BY <1>1, GoesOn
<1>3. CASE Granted(c) \/ Draining(c)
  BY <1>3 DEF Granted, Draining, jobVars
<1>4. CASE LookupSync(c) \/ (Read(c) /\ ctx[sync[c]] # None)
  <2>1. \E i : Goto(c, job[c], i) /\ dev' = dev
    BY <1>4 DEF LookupSync, Use, Read
  <2> QED BY <2>1, GoesTo
<1>5. CASE Read(c) /\ ctx[sync[c]] = None
  <2>1. Knows(c)
    <3>1. step[c] = 3
      BY <1>1, <1>5, Position, Where DEF Read, Calls, HddInv
    <3> QED BY <3>1 DEF Knows
  <2> QED BY <1>5, <2>1, KnownPsoc, NoneIsFresh, Tree
<1>6. CASE StartRefused(c)
  BY <1>6, Refused
<1>7. At(c, "check") \/ At(c, "lookup") \/ At(c, "read") \/ At(c, "start")
  BY <1>1, ShutdownCalls, NoJob DEF At
<1> QED BY <1>2, <1>3, <1>4, <1>5, <1>6, <1>7
        DEF At, Calls, Step, Platform, TakeRtnl, RtnlLock, UnderRtnl, RtnlUnlock, CreateSync,
            CreateSyncFails, CreateStart, CreateStartFails, Register, Work, Open, OpenRegister,
            LookupFails, ReadDriver, Start, StartNow, StartNowRefused, Wait, Unregister,
            MarkUnloading, Check, Validate, Close, CloseNoMore, CloseDestroy, Stop, DestroySync,
            StartOp, StopOp, OpenDev, StopDev, Recovered, IdleDone

LEMMA ResumedStep ==
  ASSUME HddInv, JobsRun, DriverRow, Calm, Resumed, {"unload", "mode"} \cap Jobs = {},
         NEW c \in Caller, Step(c)
  PROVE  Resumed'
<1>1. Hop(c) /\ Effect(c) /\ OthersInside(c)
  BY Hops, Effects
<1>2. \A e \in Caller : at[e] # Driver
  BY Runs, NoJob DEF DriverRow, JobsRun, Job
<1>3. ASSUME NEW d \in Caller \ {c}, job'[d] = "reinit"
      PROVE  pc'[d] # "idle" /\ at'[d] \in Psoc
  BY <1>1, <1>3 DEF Hop, OthersInside, Resumed
<1>4. ASSUME job'[c] = "reinit"
      PROVE  pc'[c] # "idle" /\ at'[c] \in Psoc
  <2>1. job[c] \in {"shutdown", "reinit"}
    BY <1>1, <1>4, NoJob DEF Hop, FailOf, Job
  <2>2. pc[c] # "idle" /\ at[c] \in Psoc
    <3>1. CASE job[c] = "reinit"
      BY <3>1 DEF Resumed
    <3>2. CASE job[c] = "shutdown"
      <4>1. step[c] = 5
        BY <1>2, <1>4, <3>2, ShutdownHas DEF Calm
      <4>2. InTrans(c)
        BY <3>2, <4>1 DEF InTrans
      <4> QED BY <3>2, <4>1, <4>2, RowOf DEF PcRow, PlaceRow
    <3> QED BY <2>1, <3>1, <3>2
  <2>3. ~Stop(c) /\ ~StopOp(c)
    <3>1. ~StopOp(c)
      BY <2>1, Position, Where DEF StopOp, Calls, HddInv
    <3>2. ASSUME Stop(c) PROVE FALSE
      <4>1. job[c] = "reinit" /\ step[c] = 4
        BY <2>1, <3>2, Position, Where DEF Stop, Calls, HddInv
      <4>2. job[c] \in Job /\ Last(c)
        BY <4>1 DEF Last, Job
      <4>3. Return(c)
        BY <3>2, <4>2, LastCall DEF Stop, Advance
      <4> QED BY <1>4, <4>1, <4>3, GoesOut, NoJob DEF Job
    <3> QED BY <3>1, <3>2
  <2> QED BY <1>1, <2>2, <2>3 DEF Effect
<1> QED BY <1>3, <1>4 DEF Resumed

\* An unload goes by its trans_stop of the driver and by its unregister.
LEMMA UnloadSteps ==
  ASSUME HddInv, NEW c \in Caller, Step(c), job[c] = "unload", job'[c] = "unload",
         step'[c] \in 10..19
  PROVE  step[c] \in 10..19 \/ (step[c] = 9 /\ Unregister(c) /\ dev'[c] = dev[c])
<1> SUFFICES ASSUME step[c] \notin 10..19
             PROVE  step[c] = 9 /\ Unregister(c) /\ dev'[c] = dev[c]
  OBVIOUS
<1>1. job[c] \in Job /\ step[c] \in 1..9 /\ ~Last(c)
  <2>1. job[c] \in Job
    BY DEF Job
  <2>2. step[c] \in 1 .. Len(Prog["unload"])
    BY <2>1, NoJob, RowOf DEF JobRow
  <2>3. Len(Prog["unload"]) = 19
    BY Lengths
  <2> QED BY <2>1, <2>2, <2>3 DEF Last
<1>2. step'[c] # step[c] /\ job'[c] # None
  BY <1>1, NoJob DEF Job
<1>3. Advance(c) => step'[c] = step[c] + 1
  BY <1>1, GoesOn
<1>4. \A i : Goto(c, job[c], i) /\ dev' = dev => step'[c] = i
  BY GoesTo
<1>5. ~Return(c)
  BY <1>2, GoesOut, NoJob DEF Job
<1>6. \E i \in {1, 2, 3, 4, 5, 6, 7, 8, 9} : step[c] = i /\ At(c, Prog["unload"][i])
  BY <1>1, NoJob DEF At, Job
<1>7. ~At(c, "open") /\ ~At(c, "open_register") /\ ~At(c, "close") /\ ~At(c, "close_destroy")
      /\ ~At(c, "work") /\ ~At(c, "validate") /\ ~At(c, "create") /\ ~At(c, "create_start")
      /\ ~At(c, "trans_start") /\ ~At(c, "op_start") /\ (At(c, "unregister") <=> step[c] = 9)
  BY <1>1, <1>6, UnloadCalls DEF At
<1>8. Advance(c) \/ (Goto(c, job[c], step[c] + 1) /\ dev' = dev)
  <2>1. ~Granted(c) /\ ~Draining(c)
    BY <1>2 DEF Granted, Draining, jobVars
  <2>2. ~Abandon(c)
    BY <1>5 DEF Abandon
  <2>3. ~LookupFails(c) /\ ~StartRefused(c) /\ ~CreateSyncFails(c) /\ ~CreateStartFails(c)
    BY <2>2 DEF LookupFails, StartRefused, CreateSyncFails, CreateStartFails
  <2>4. ~StartNowRefused(c) /\ ~Validate(c) /\ ~Work(c) /\ ~Open(c) /\ ~OpenRegister(c)
        /\ ~Close(c) /\ ~CloseNoMore(c) /\ ~CloseDestroy(c) /\ ~CreateSync(c)
    BY <1>7 DEF StartNowRefused, Validate, Work, Open, OpenRegister, Close, CloseNoMore,
                CloseDestroy, CreateSync, Calls
  <2>5. CASE LookupSync(c) \/ Read(c) \/ ReadDriver(c) \/ Check(c)
    BY <2>2, <2>5 DEF LookupSync, Use, Read, ReadDriver, Check
  <2>6. CASE Platform(c) \/ TakeRtnl(c) \/ RtnlUnlock(c) \/ CreateStart(c) \/ Register(c)
             \/ Start(c) \/ StartNow(c) \/ Wait(c) \/ Unregister(c) \/ MarkUnloading(c)
    BY <2>6 DEF Platform, TakeRtnl, RtnlLock, UnderRtnl, RtnlUnlock, CreateStart, Register, Start,
                StartNow, Wait, Unregister, MarkUnloading
  <2>7. CASE Stop(c) \/ DestroySync(c) \/ StartOp(c) \/ StopOp(c) \/ OpenDev(c) \/ StopDev(c)
             \/ Recovered(c) \/ IdleDone(c)
    BY <2>7 DEF Stop, DestroySync, StartOp, StopOp, OpenDev, StopDev, Recovered, IdleDone
  <2> QED BY <2>1, <2>3, <2>4, <2>5, <2>6, <2>7 DEF Step
<1>9. step'[c] = step[c] + 1
  BY <1>3, <1>4, <1>8
<1>10. step[c] = 9
  BY <1>1, <1>9
<1>11. Unregister(c)
  <2>1. At(c, "unregister")
    BY <1>7, <1>10
  <2>2. \A call : At(c, call) => call = "unregister"
    BY <2>1 DEF At
  <2>3. \A call : Calls(c, call) => call = "unregister"
    BY <2>2 DEF Calls
  <2>4. ~Granted(c) /\ ~Draining(c)
    BY <1>2 DEF Granted, Draining, jobVars
  <2> QED BY <2>3, <2>4
          DEF Step, Platform, TakeRtnl, RtnlLock, UnderRtnl, RtnlUnlock, CreateSync,
              CreateSyncFails, CreateStart, CreateStartFails, Register, Work, Open, OpenRegister,
              LookupSync, LookupFails, Read, ReadDriver, Start, StartRefused, StartNow,
              StartNowRefused, Wait, MarkUnloading, Check, Validate, Close, CloseNoMore,
              CloseDestroy, Stop, DestroySync, StartOp, StopOp, OpenDev, StopDev, Recovered, IdleDone
<1>12. dev'[c] = dev[c]
  BY <1>1, <1>11, GoesOn DEF Unregister
<1> QED BY <1>10, <1>11, <1>12

LEMMA RemovedStep ==
  ASSUME HddInv, Removed, NEW c \in Caller, Step(c)
  PROVE  Removed'
<1>1. Hop(c)
  BY Hops
<1>2. \A d \in Caller : job'[d] = "unload" => job[d] = "unload" /\ dev'[d] = dev[d]
  BY <1>1, NoJob DEF Hop, FailOf, Job
<1>3. ASSUME NEW d \in Caller, job'[d] = "unload", step'[d] \in 10..19
      PROVE  \A s \in inUse' : key'[s] # dev'[d]
  <2>1. dev[d] \in Dev /\ job[d] = "unload" /\ dev'[d] = dev[d]
    BY <1>2, <1>3, NoJob, RowOf DEF JobRow, Job
  <2>2. CASE step[d] \in 10..19
    <3>1. \A s \in inUse : key[s] # dev[d]
      BY <2>1, <2>2 DEF Removed
    <3>2. PlatformCall(d)
      BY <2>1, <2>2, PlatformCalls DEF HddInv
    <3>3. job[c] # "probe"
      BY <2>1, <3>2, PlatformCalls DEF HddInv, JobInv
    <3> QED BY <2>1, <3>1, <3>3, StaysUnregistered
  <2>3. CASE step[d] \notin 10..19
    <3>1. d = c
      BY <1>1, <1>3, <2>3 DEF Hop
    <3>2. Unregister(c)
      BY <1>3, <2>1, <2>3, <3>1, UnloadSteps
    <3>3. dev[d] # None
      BY <2>1, SyncAssumption
    <3> QED BY <2>1, <3>1, <3>2, <3>3 DEF Unregister, SyncUnregister, Lookup, HddInv, SyncInv, RegType
  <2> QED BY <2>2, <2>3
<1> QED BY <1>2, <1>3 DEF Removed

LEMMA ConcludedStep ==
  ASSUME HddInv, JobsRun, TransConcluded, "shutdown" \in Jobs => Calm, NEW c \in Caller, Step(c)
  PROVE  TransConcluded'
<1>1. ASSUME NEW d \in Caller \ {c}, job'[d] = None
      PROVE  pc'[d] = "idle"
  <2>1. job[d] = None /\ (pc'[d] = pc[d] \/ pc[d] = "queued")
    BY <1>1, Hops, Effects DEF Hop, OthersInside
  <2> QED BY <2>1 DEF TransConcluded
<1>2. ASSUME job'[c] = None
      PROVE  pc'[c] = "idle"
  <2>1. CASE job[c] = None
    <3>1. Granted(c) \/ Draining(c)
      BY <2>1 DEF At, Calls, Step, Platform, TakeRtnl, RtnlLock, UnderRtnl, RtnlUnlock, CreateSync,
                  CreateSyncFails, CreateStart, CreateStartFails, Register, Work, Open,
                  OpenRegister, LookupSync, LookupFails, Read, ReadDriver, Start, StartRefused,
                  StartNow, StartNowRefused, Wait, Unregister, MarkUnloading, Check, Validate,
                  Close, CloseNoMore, CloseDestroy, Stop, DestroySync, StartOp, StopOp, OpenDev,
                  StopDev, Recovered, IdleDone
    <3>2. pc[c] # "idle"
      BY <3>1 DEF Granted, Draining, WaitGranted, Wake, Drained, VisitQuiet, VisitBusy
    <3> QED BY <2>1, <3>2 DEF TransConcluded
  <2>2. CASE job[c] # None
    <3>1. job[c] = "reinit" => "shutdown" \in Jobs
      BY Runs, NoJob DEF JobsRun, Job
    <3>2. job[c] = "reinit" => ~unloading /\ Lookup(dev[c]) # {}
      BY <3>1 DEF Calm
    <3> QED BY <1>2, <2>2, <3>2, Leaves
  <2> QED BY <2>1, <2>2
<1> QED BY <1>1, <1>2 DEF TransConcluded

LEMMA CallInvInit == HddInit => CallInv
<1> SUFFICES ASSUME HddInit PROVE CallInv
  OBVIOUS
<1> USE DEF HddInit
<1>1. HddInv
  BY HddInitInv
<1>2. \A c \in Caller : job[c] = None /\ pc[c] = "idle" /\ at[c] = None
  BY DEF Init
<1>3. ~unloading
  BY DEF Init
<1> QED BY <1>1, <1>2, <1>3, NoJob, NoneIsFresh, Tree
        DEF CallInv, JobsRun, DriverRow, Removed, Calm, Resumed, TransConcluded, Job

LEMMA CallInvBegin ==
  ASSUME CallInv, NEW c \in Caller, NEW j \in Called, NEW k \in Dev \cup NetDev, Begin(c, j, k)
  PROVE  CallInv'
<1>1. HddInv' /\ HddInv
  BY BeginStep DEF CallInv
<1>2. /\ job[c] = None /\ pc[c] = "idle" /\ UNCHANGED <<vars, syncVars>>
      /\ job' = [job EXCEPT ![c] = j] /\ step' = [step EXCEPT ![c] = 1] /\ dev' = [dev EXCEPT ![c] = k]
      /\ (j = "unload" => ~\E d \in Caller : job[d] = "unload")
      /\ (j = "shutdown" => Lookup(k) # {})
  BY DEF Begin, Goto
<1>3. /\ job'[c] = j /\ step'[c] = 1 /\ dev'[c] = k
      /\ \A d \in Caller \ {c} : job'[d] = job[d] /\ step'[d] = step[d] /\ dev'[d] = dev[d]
  BY <1>1, <1>2, RowOf DEF JobTypes
<1>4. UNCHANGED <<inUse, key, pc, at, unloading>>
  BY <1>2 DEF vars, syncVars, platform
<1>5. j # "reinit" /\ j # None /\ j \in MayRun
  BY JobsAssumption DEF Called, MayRun
<1>6. JobsRun'
  BY <1>3, <1>5 DEF CallInv, JobsRun
<1>7. DriverRow'
  <2>1. at[c] # Driver
    <3> SUFFICES ASSUME at[c] = Driver PROVE FALSE
      OBVIOUS
    <3> QED BY <1>2, NoJob DEF CallInv, DriverRow, Job
  <2> QED BY <1>3, <1>4, <2>1 DEF CallInv, DriverRow
<1>8. Removed'
  BY <1>2, <1>3, <1>4 DEF CallInv, Removed
<1>9. Calm => Calm'
  BY <1>2, <1>3, <1>4, <1>5 DEF Calm, Lookup
<1>10. Resumed => Resumed'
  BY <1>3, <1>4, <1>5 DEF Resumed
<1>11. TransConcluded => TransConcluded'
  BY <1>3, <1>4, <1>5 DEF TransConcluded
<1> QED BY <1>1, <1>6, <1>7, <1>8, <1>9, <1>10, <1>11 DEF CallInv

LEMMA CallInvStep == CallInv /\ [HddNext]_hddVars => CallInv'
<1> SUFFICES ASSUME CallInv, [HddNext]_hddVars PROVE CallInv'
  OBVIOUS
<1>1. ASSUME NEW c \in Caller, Step(c) PROVE CallInv'
  <2>1. HddInv' /\ JobsRun' /\ DriverRow' /\ Removed'
    BY <1>1, CallStep, JobsRunStep, DriverRowStep, RemovedStep DEF CallInv
  <2>2. "unload" \notin Jobs => Calm'
    BY <1>1, CalmStep DEF CallInv
  <2>3. {"unload", "mode"} \cap Jobs = {} => Resumed'
    BY <1>1, ResumedStep DEF CallInv
  <2>4. ~({"unload", "shutdown"} \subseteq Jobs) => TransConcluded'
    BY <1>1, ConcludedStep DEF CallInv
  <2> QED BY <2>1, <2>2, <2>3, <2>4 DEF CallInv
<1>2. ASSUME NEW c \in Caller, NEW j \in Called, NEW k \in Dev \cup NetDev, Begin(c, j, k)
      PROVE  CallInv'
  BY <1>2, CallInvBegin
<1>3. CASE FirmwareDown \/ UNCHANGED hddVars
  <2>1. HddInv'
    BY <1>3, HddStep DEF CallInv
  <2>2. UNCHANGED <<job, step, dev, inUse, key, pc, at, unloading>>
    BY <1>3 DEF FirmwareDown, SetRecovering, hddVars, vars, syncVars, jobVars, platform
  <2> QED BY <2>1, <2>2
          DEF CallInv, JobsRun, DriverRow, Removed, Calm, Resumed, TransConcluded, Lookup
<1> QED BY <1>1, <1>2, <1>3 DEF HddNext

\* An unload returns, short of its end, where the radio is not registered or its
\* transition is refused.
LEMMA UnloadStops ==
  ASSUME HddInv, NEW c \in Caller, Step(c), job[c] = "unload", job'[c] = None
  PROVE  step[c] \in 10..19 \/ LookupFails(c) \/ StartRefused(c)
<1> SUFFICES ASSUME step[c] \notin 10..19
             PROVE  LookupFails(c) \/ StartRefused(c)
  OBVIOUS
<1>1. job[c] \in Job /\ step[c] \in 1..9 /\ ~Last(c)
  <2>1. job[c] \in Job
    BY DEF Job
  <2>2. step[c] \in 1 .. Len(Prog["unload"])
    BY <2>1, NoJob, RowOf DEF JobRow
  <2>3. Len(Prog["unload"]) = 19
    BY Lengths
  <2> QED BY <2>1, <2>2, <2>3 DEF Last
<1>2. job'[c] # job[c]
  BY <1>1, NoJob
<1>3. ~Advance(c)
  BY <1>1, <1>2, GoesOn
<1>4. \A i : ~(Goto(c, job[c], i) /\ dev' = dev)
  BY <1>2, GoesTo
<1>5. \E i \in {1, 2, 3, 4, 5, 6, 7, 8, 9} : step[c] = i /\ At(c, Prog["unload"][i])
  BY <1>1, NoJob DEF At, Job
<1>6. ~At(c, "validate") /\ ~At(c, "work") /\ ~At(c, "check") /\ ~At(c, "create")
      /\ ~At(c, "create_start") /\ ~At(c, "trans_start") /\ ~At(c, "op_start")
      /\ (At(c, "read") => step[c] = 7)
  BY <1>1, <1>5, UnloadCalls DEF At
<1>7. ~Granted(c) /\ ~Draining(c)
  BY <1>2 DEF Granted, Draining, jobVars
<1>8. ~Read(c)
  <2> SUFFICES ASSUME Read(c) PROVE FALSE
    OBVIOUS
  <2>1. ctx[sync[c]] = None
    BY <1>4 DEF Read
  <2>2. Knows(c)
    BY <1>6 DEF Read, Calls, Knows
  <2> QED BY <2>1, <2>2, KnownPsoc, NoneIsFresh, Tree
<1>9. ~(CreateSync(c) \/ CreateSyncFails(c) \/ CreateStart(c) \/ CreateStartFails(c) \/ Work(c)
        \/ Validate(c) \/ Check(c) \/ StartNow(c) \/ StartNowRefused(c) \/ StartOp(c))
  BY <1>6 DEF CreateSync, CreateSyncFails, CreateStart, CreateStartFails, Work, Validate, Check,
              StartNow, StartNowRefused, StartOp, Calls
<1>10. ~(Open(c) \/ OpenRegister(c) \/ Close(c) \/ CloseNoMore(c) \/ CloseDestroy(c)
         \/ LookupSync(c) \/ ReadDriver(c))
  <2>1. \A i : ~Skip(c, i)
    BY <1>4 DEF Skip
  <2>2. ~\E s : Use(c, s)
    BY <1>4 DEF Use
  <2> QED BY <1>4, <2>1, <2>2 DEF Open, OpenRegister, Close, CloseNoMore, CloseDestroy, LookupSync,
                                  ReadDriver
<1>11. ~(Platform(c) \/ TakeRtnl(c) \/ RtnlUnlock(c) \/ Register(c) \/ Start(c) \/ Wait(c)
         \/ Unregister(c) \/ MarkUnloading(c) \/ Stop(c) \/ DestroySync(c) \/ StopOp(c)
         \/ OpenDev(c) \/ StopDev(c) \/ Recovered(c) \/ IdleDone(c))
  BY <1>3 DEF Platform, TakeRtnl, RtnlLock, UnderRtnl, RtnlUnlock, Register, Start, Wait,
              Unregister, MarkUnloading, Stop, DestroySync, StopOp, OpenDev, StopDev, Recovered,
              IdleDone
<1> QED BY <1>7, <1>8, <1>9, <1>10, <1>11 DEF Step

\* Nobody but a mode change refuses an unload its radio.
LEMMA UnloadNotRefused ==
  ASSUME CallInv, "mode" \notin Jobs, NEW c \in Caller, job[c] = "unload", StartRefused(c)
  PROVE  FALSE
<1>1. PICK e \in Caller : at[e] = Driver
  BY Refused DEF CallInv
<1>2. step[c] # 2
  BY Refused DEF CallInv
<1>3. job[e] # "mode" /\ job[e] # "mode_fail"
  BY Runs, NoJob DEF CallInv, JobsRun, Job
<1>4. job[e] = "unload" /\ step[e] \in 3..4
  BY <1>1, <1>3 DEF CallInv, DriverRow
<1>5. e = c
  BY <1>4 DEF CallInv, Removed
<1>6. step[c] = 8
  BY <1>2, Position, Where DEF StartRefused, Calls, CallInv, HddInv
<1> QED BY <1>4, <1>5, <1>6

LEMMA UnloadRemovesStep ==
  ASSUME CallInv, "mode" \notin Jobs, NEW d \in Caller, Step(d),
         NEW c \in Caller, job[c] = "unload", job'[c] = None
  PROVE  ~\E s \in inUse' : key'[s] = dev[c]
<1>1. HddInv /\ Removed
  BY DEF CallInv
<1>2. d = c
  BY <1>1, Hops, NoJob DEF Hop, Job
<1>3. dev[c] \in Dev
  BY <1>1, NoJob, RowOf DEF JobRow, Job
<1>4. CASE step[c] \in 10..19
  <2>1. \A s \in inUse : key[s] # dev[c]
    BY <1>1, <1>4 DEF Removed
  <2> QED BY <1>1, <1>2, <1>3, <2>1, StaysUnregistered
<1>5. CASE LookupFails(c)
  <2>1. Lookup(dev[c]) = {} /\ UNCHANGED syncVars
    BY <1>5 DEF LookupFails
  <2> QED BY <2>1 DEF Lookup, syncVars
<1>6. CASE StartRefused(c)
  BY <1>6, UnloadNotRefused
<1> QED BY <1>1, <1>2, <1>4, <1>5, <1>6, UnloadStops

LEMMA InvRecoveryConcluded ==
  ASSUME CallInv, "shutdown" \in Jobs => {"unload", "mode"} \cap Jobs = {}
  PROVE  RecoveryConcluded
<1>1. HddInv /\ JobsRun /\ TransConcluded
  BY DEF CallInv
<1>2. ASSUME NEW c \in Caller, Calls(c, "resume")
      PROVE  \E s \in Lookup(dev[c]) : active[ctx[s]] = c
  <2>1. job[c] = "reinit" /\ step[c] = 2
    BY <1>1, <1>2, Position, Where DEF Calls, HddInv
  <2>0. Calm /\ Resumed
    <3>1. "reinit" \in MayRun
      BY <1>1, <2>1, NoJob DEF JobsRun, Job
    <3> QED BY <3>1, Runs DEF CallInv
  <2>2. pc[c] \in {"holding", "drained"} /\ at[c] \in Psoc
    <3>1. pc[c] # "idle" /\ at[c] \in Psoc
      BY <2>0, <2>1 DEF Resumed
    <3>2. ~InOp(c)
      BY <2>1 DEF InOp
    <3>3. pc[c] # "op"
      BY <1>1, <3>2, RowOf DEF PcRow
    <3> QED BY <1>2, <3>1, <3>3 DEF Calls
  <2>3. active[at[c]] = c
    BY <1>1, <2>2 DEF Owns, HddInv, Core, GrantConsistency
  <2>4. PICK s \in Lookup(dev[c]) : TRUE
    BY <2>0, <2>1 DEF Calm
  <2>5. dev[c] \in Dev
    BY <1>1, <2>1, NoJob, RowOf DEF JobRow, Job
  <2>6. s \in inUse /\ s \in PsocSync
    BY <1>1, <2>4, <2>5, LookupKind
  <2>7. ctx[s] \in Psoc
    BY <1>1, <2>6, EntryContext, NoneIsFresh DEF HddInv, SyncInv, RegType, Sync
  <2> QED BY <2>2, <2>3, <2>4, <2>7, OneRadio
<1> QED BY <1>1, <1>2 DEF RecoveryConcluded, ReinitResumes

----------------------------------------------------------------------------
(* What the threads have, and leave, as theorems. *)

\* Who has the driver's transition, what a recovery has and what an unload has
\* removed, throughout every run of any set of programs.
THEOREM CallSafe == HddSpec => []CallInv
<1>1. HddInit => CallInv BY CallInvInit
<1>2. CallInv /\ [HddNext]_hddVars => CallInv' BY CallInvStep
<1> QED BY <1>1, <1>2, PTL DEF HddSpec

\* Calls that come and go, and fail half-way, leave neither an entry without its
\* context nor a transition behind (hdd_soc_probe, hdd_close_all_adapters), unless
\* a recovery meets an unload: reinit gives up, before its trans_stop, where the
\* driver is unloading (wlan_hdd_driver_ops.c, hdd_soc_recovery_reinit).
THEOREM LeavesOrder ==
  ASSUME ~({"unload", "shutdown"} \subseteq Jobs)
  PROVE  HddSpec => []Orderly
<1>1. CallInv => Orderly
  BY DEF CallInv, HddInv, SyncInv, Orderly
<1> QED BY <1>1, CallSafe, PTL

\* A recovery ends the transition it has begun: reinit finds the one of its
\* shutdown, and nobody returns with one (hdd_soc_recovery_reinit), where the
\* driver is not unloaded and its mode is not changed meanwhile: those refuse the
\* shutdown its transition, or take its radio away.
THEOREM RecoveriesConclude ==
  ASSUME "shutdown" \in Jobs => {"unload", "mode"} \cap Jobs = {}
  PROVE  HddSpec => []RecoveryConcluded
<1>1. CallInv => RecoveryConcluded
  BY InvRecoveryConcluded
<1> QED BY <1>1, CallSafe, PTL

\* When the driver is unloaded its device has been removed (hdd_driver_unload,
\* __hdd_soc_remove), unless a mode change has the driver's transition, which
\* refuses the one of the radio.
THEOREM UnloadsRemove ==
  ASSUME ~({"unload", "mode"} \subseteq Jobs)
  PROVE  HddSpec => UnloadRemoves
<1>1. CallInv /\ [HddNext]_hddVars =>
        [\A c \in Caller :
           job[c] = "unload" /\ job'[c] = None => ~\E s \in inUse' : key'[s] = dev[c]]_hddVars
  <2> SUFFICES ASSUME CallInv, HddNext, NEW c \in Caller, job[c] = "unload", job'[c] = None
               PROVE  ~\E s \in inUse' : key'[s] = dev[c]
    OBVIOUS
  <2>1. CASE \E d \in Caller : Step(d)
    <3>1. "unload" \in Jobs
      BY Runs, NoJob DEF CallInv, JobsRun, Job
    <3> QED BY <2>1, <3>1, UnloadRemovesStep
  <2>2. ASSUME NEW d \in Caller, NEW j \in Called, NEW k \in Dev \cup NetDev, Begin(d, j, k)
        PROVE  FALSE
    <3>1. job[d] = None /\ job' = [job EXCEPT ![d] = j]
      BY <2>2 DEF Begin, Goto
    <3>2. d # c
      BY <3>1, NoJob DEF Job
    <3>3. JobTypes
      BY RowOf DEF CallInv
    <3> QED BY <3>1, <3>2, <3>3, NoJob DEF JobTypes, Job
  <2>3. CASE FirmwareDown
    BY <2>3, NoJob DEF FirmwareDown, jobVars, Job
  <2> QED BY <2>1, <2>2, <2>3 DEF HddNext
<1> QED BY <1>1, CallSafe, PTL DEF UnloadRemoves, HddSpec

----------------------------------------------------------------------------
(* The contract of the core.  Each call is a step of the core or none of its    *)
(* business; what has to be shown is that *_destroy comes when it may.          *)

\* The calls that destroy a context.
Destroys(c) == CreateStartFails(c) \/ DestroySync(c) \/ CloseDestroy(c)

LEMMA NextOf ==
  ASSUME Core, NEW c \in Caller, NEW n,
         \/ TransStart(c, n) \/ TransStartWait(c, n) \/ OpStart(c, n) \/ Create(n)
         \/ Destroy(c, n) \/ WaitForOps(c, n) \/ VisitQuiet(c, n) \/ VisitBusy(c, n)
         \/ Wake(c) \/ Drained(c) \/ WaitGranted(c) \/ TransStop(c) \/ OpStop(c)
  PROVE  Next
<1>1. attached \subseteq Node
  BY DEF Core, TypeOK
<1>2. CASE TransStart(c, n) \/ TransStartWait(c, n) \/ OpStart(c, n) \/ Create(n) \/ Destroy(c, n)
  <2>1. n \in Node
    BY <1>1, <1>2 DEF TransStart, TransStartWait, OpStart, Create, Destroy, MayDestroy
  <2> QED BY <1>2, <2>1 DEF Next
<1>3. CASE WaitForOps(c, n)
  <2>1. n \in Node
    BY <1>3, <1>1 DEF WaitForOps, Core, TypeOK
  <2> QED BY <1>3, <2>1 DEF Next, Proceed, Drain
<1>4. CASE VisitQuiet(c, n) \/ VisitBusy(c, n)
  <2>1. n \in Node
    BY <1>4 DEF VisitQuiet, VisitBusy, NextVisit, Core, TypeOK
  <2> QED BY <1>4, <2>1 DEF Next, Proceed, Drain
<1>5. CASE Wake(c) \/ Drained(c) \/ WaitGranted(c) \/ TransStop(c) \/ OpStop(c)
  BY <1>5 DEF Next, Proceed, Drain
<1> QED BY <1>2, <1>3, <1>4, <1>5

LEMMA OtherCalls ==
  ASSUME HddInv, NEW c \in Caller, Step(c), ~Destroys(c),
         job[c] = "unload" => "unload" \in PlatformEvents
  PROVE  [Next]_vars
<1>0. Core
  BY DEF HddInv
<1>1. CASE UNCHANGED vars
  BY <1>1
<1>2. CASE ClearRecovering
  BY <1>2 DEF ClearRecovering, Next
<1>3. CASE Platform(c) \/ TakeRtnl(c) \/ RtnlUnlock(c) \/ CreateSyncFails(c) \/ Register(c)
           \/ OpenRegister(c) \/ LookupSync(c) \/ LookupFails(c) \/ Read(c) \/ ReadDriver(c)
           \/ StartRefused(c) \/ StartNowRefused(c) \/ Unregister(c) \/ Check(c) \/ Validate(c)
           \/ Close(c) \/ CloseNoMore(c) \/ OpenDev(c) \/ StopDev(c)
  <2>1. UNCHANGED vars
    BY <1>3 DEF Platform, TakeRtnl, RtnlLock, UnderRtnl, RtnlUnlock, CreateSyncFails, Register,
                OpenRegister, LookupSync, LookupFails, Read, ReadDriver, StartRefused,
                StartNowRefused, Unregister, Check, Validate, Close, CloseNoMore, OpenDev, StopDev
  <2> QED BY <1>1, <2>1
<1>4. CASE Work(c) \/ Recovered(c) \/ IdleDone(c)
  BY <1>1, <1>2, <1>4 DEF Work, Recovered, IdleDone
<1>5. CASE CreateSync(c) \/ Open(c)
  <2>1. UNCHANGED vars \/ \E n : Create(n)
    BY <1>5 DEF CreateSync, Open, PsocSyncCreate, VdevSyncCreate
  <2> QED BY <1>0, <1>1, <2>1, NextOf
<1>6. CASE CreateStart(c) \/ StartNow(c) \/ StartOp(c) \/ Start(c)
  <2>1. \E n : TransStart(c, n) \/ OpStart(c, n) \/ TransStartWait(c, n)
    BY <1>6 DEF CreateStart, StartNow, SyncTransStart, StartOp, SyncOpStart, Start,
                SyncTransStartWait
  <2> QED BY <1>0, <2>1, NextOf
<1>7. CASE Granted(c) \/ Draining(c) \/ Wait(c) \/ StopOp(c)
  <2>1. \E n : \/ WaitGranted(c) \/ Wake(c) \/ Drained(c) \/ OpStop(c)
               \/ VisitQuiet(c, n) \/ VisitBusy(c, n) \/ WaitForOps(c, n)
    BY <1>7 DEF Granted, Draining, Wait, StopOp
  <2> QED BY <1>0, <2>1, NextOf
<1>8. CASE MarkUnloading(c)
  <2>1. job[c] = "unload"
    BY <1>8, Position, Where DEF MarkUnloading, Calls, HddInv
  <2>2. "unload" \in PlatformEvents
    BY <2>1
  <2>3. /\ UNCHANGED <<attached, active, queue, ops, signalled, pc, at, todo, on, recovering>>
        /\ unloading' \in BOOLEAN /\ unloading \in BOOLEAN
    BY <1>0, <1>8 DEF MarkUnloading, At, Core, TypeOK
  <2>4. CASE unloading' = unloading
    BY <1>1, <2>3, <2>4 DEF vars, platform
  <2>5. CASE unloading' = ~unloading
    BY <2>2, <2>3, <2>5 DEF SetUnloading, Next
  <2> QED BY <2>3, <2>4, <2>5
<1>9. CASE Stop(c)
  <2>1. TransStop(c) \/ UNCHANGED vars
    BY <1>9 DEF Stop
  <2> QED BY <1>0, <1>1, <2>1, NextOf
<1> QED BY <1>3, <1>4, <1>5, <1>6, <1>7, <1>8, <1>9 DEF Step, Destroys

\* The programs that keep the contract.
KeepJobs ==
  /\ {"add", "del"} \cap Jobs = {}
  /\ "mode" \in Jobs => {"unload", "probe_fail"} \cap Jobs = {}
  /\ "unload" \in Jobs => "unload" \in PlatformEvents

\* Where a program has waited for the operations under its transition.
WaitedAt(c) ==
  \/ job[c] = "unload" /\ step[c] \in 11..18
  \/ job[c] = "mode" /\ step[c] \in 4..13
  \/ job[c] = "probe_fail" /\ step[c] = 3

Waited == \A c \in Caller : WaitedAt(c) => pc[c] \in {"draining", "sleeping", "drained"}

\* A probe has the transition of a radio.
RadioAt(c) ==
  (job[c] = "probe" /\ step[c] \in 3..9) \/ (job[c] = "probe_fail" /\ step[c] \in 1..3)

OnRadio == \A c \in Caller : RadioAt(c) => at[c] \in Psoc

ProbesFail == \A c \in Caller : job[c] = "probe_fail" => "probe_fail" \in Jobs

\* Where a program has its radio to itself: there is no interface and no mode
\* change, which would look at the radio from the driver.
BareAt(c) ==
  \/ job[c] = "unload" /\ step[c] \in 16..19
  \/ job[c] = "probe" /\ step[c] \in 2..3
  \/ job[c] = "probe" /\ step[c] = 4 /\ "mode" \notin Jobs
  \/ job[c] = "probe_fail"

Modal(c) == job[c] \in {"mode", "mode_fail"}

Bare ==
  \A c \in Caller : BareAt(c) => VdevSync \cap inUse = {} /\ \A d \in Caller : ~Modal(d)

\* A mode change finds a radio.
ModeFinds == \A c \in Caller : Modal(c) => Psoc \cap attached # {}

\* Where it has only to be destroyed, nobody is in it or on the way to it.
QuietAt(c) ==
  \/ job[c] = "unload" /\ step[c] = 19
  \/ job[c] = "probe" /\ step[c] = 2
  \/ job[c] = "probe_fail" /\ step[c] = 4

Still(n) == ops[n] = {} /\ ~ActiveOrQueued(n) /\ \A d \in Caller : n \notin todo[d]

Resting == \A c \in Caller : QuietAt(c) => Still(ctx[sync[c]])

\* What is attached is attached to something.
Rooted == \A n \in attached : Ancestors(n) \subseteq attached

\* A program was called for a device.
HasDevice == \A c \in Caller : job[c] # None => dev[c] # None

KeepInv ==
  /\ CallInv /\ DrainInv /\ HasDevice
  /\ Waited /\ OnRadio /\ ProbesFail /\ Bare /\ ModeFinds /\ Resting /\ Rooted

LEMMA KeptJobs ==
  ASSUME KeepJobs, JobsRun, ProbesFail, NEW c \in Caller
  PROVE  /\ job[c] \notin {"add", "add_fail", "del"}
         /\ job[c] \in {"unload", "probe_fail"} => "mode" \notin Jobs
         /\ Modal(c) => "mode" \in Jobs
<1>1. DOMAIN FailOf = {"probe", "add", "mode", "idle"}
      /\ FailOf["probe"] = "probe_fail" /\ FailOf["add"] = "add_fail"
      /\ FailOf["mode"] = "mode_fail" /\ FailOf["idle"] = "idle_busy"
  BY DEF FailOf
<1>2. Called \subseteq Jobs /\ "add_fail" \notin Called /\ "add" \notin Called /\ "del" \notin Called
  BY <1>1 DEF Called, KeepJobs
<1>3. {"add", "add_fail", "del"} \cap MayRun = {}
  BY <1>1, <1>2 DEF MayRun
<1>4. None \notin {"add", "add_fail", "del", "unload", "mode", "mode_fail"}
  BY NoJob DEF Job
<1>5. job[c] \in MayRun \/ job[c] = None
  BY DEF JobsRun
<1>6. job[c] \notin {"add", "add_fail", "del"}
  BY <1>3, <1>4, <1>5
<1>7. job[c] = "unload" => "unload" \in Jobs
  BY <1>4, <1>5, Runs
<1>8. Modal(c) => "mode" \in Jobs
  BY <1>4, <1>5, Runs DEF Modal
<1> QED BY <1>6, <1>7, <1>8 DEF KeepJobs, ProbesFail

----------------------------------------------------------------------------
(* *_destroy comes when it may. *)

\* hdd_close_all_adapters, under the transition of the driver or of the radio and
\* after the operations.
LEMMA CloseMayDestroy ==
  ASSUME HddInv, DrainInv, Waited, NEW c \in Caller, CloseDestroy(c)
  PROVE  MayDestroy(c, ctx[vsync[c]])
<1> DEFINE v == ctx[vsync[c]]
<1>1. (job[c] = "unload" /\ step[c] = 15) \/ (job[c] = "mode" /\ step[c] = 8)
  BY Position, Where DEF CloseDestroy, Calls, HddInv
<1>2. pc[c] = "drained"
  <2>1. WaitedAt(c)
    BY <1>1 DEF WaitedAt
  <2>2. pc[c] \in {"idle", "holding", "drained", "op"}
    BY DEF CloseDestroy, Calls
  <2> QED BY <2>1, <2>2 DEF Waited
<1>3. vsync[c] \in VdevSync /\ vsync[c] \in inUse
  <2>1. Closes(c)
    BY <1>1 DEF Closes
  <2>2. vsync[c] \in VdevSync
    BY <2>1, RowOf DEF JobRow, JobTypes
  <2>3. vsync[c] \in Loose
    BY <2>2, MineIsLoose DEF Mine, Sync
  <2> QED BY <2>2, <2>3 DEF Loose
<1>4. v \in Vdev /\ v \in attached /\ v \in Node
  <2>1. v \in attached /\ v # Driver /\ v \in Node
    BY <1>3, EntryContext
  <2>2. v \notin Psoc
    BY <1>3 DEF HddInv, SyncInv, RegType
  <2> QED BY <2>1, <2>2 DEF Node
<1> HIDE DEF v
<1>5. at[c] = Driver \/ at[c] \in Psoc
  BY <1>1, RowOf DEF PlaceRow
<1>6. at[c] \in Ancestors(v) /\ at[c] \in Node
  BY <1>4, <1>5, OneRadio, Tree
<1>7. v \in Subtree(at[c]) /\ v # at[c]
  BY <1>4, <1>5, <1>6, Tree DEF Subtree, Below
<1>8. Owns(c) /\ Core
  BY <1>2 DEF Owns, HddInv
<1>9. ops[v] = {} /\ todo[c] = {}
  BY <1>2, <1>7 DEF DrainInv, VisitedQuiet, TodoAccounting
<1>10. ~Active(v)
  BY <1>4, <1>7, <1>8, OwnersSubtree DEF Core, TreeExclusion
<1>11. ASSUME NEW d \in Caller, v \in todo[d] PROVE FALSE
  <2>1. pc[d] \in {"draining", "sleeping"} /\ v \in Subtree(at[d])
    BY <1>11 DEF DrainInv, TodoAccounting
  <2>2. Owns(d)
    BY <2>1 DEF Owns
  <2>3. c = d
    BY <1>7, <1>8, <2>1, <2>2, OneDrainer
  <2> QED BY <1>9, <1>11, <2>3
<1>12. Below(v) = {} /\ v # Driver
  BY <1>4, DownTree, Tree
<1> QED BY <1>2, <1>4, <1>6, <1>9, <1>10, <1>11, <1>12 DEF MayDestroy, v

\* Who else destroys a context: the radio's, when it is bare and still.
LEMMA RadioMayDestroy ==
  ASSUME KeepJobs, KeepInv, NEW c \in Caller, CreateStartFails(c) \/ DestroySync(c)
  PROVE  /\ QuietAt(c) /\ BareAt(c) /\ sync[c] \in Mine(c) \cap PsocSync
         /\ ctx[sync[c]] \in Psoc /\ MayDestroy(c, ctx[sync[c]])
<1> DEFINE p == ctx[sync[c]]
<1>1. HddInv /\ JobsRun
  BY DEF KeepInv, CallInv
<1>2. job[c] \notin {"add", "add_fail", "del"}
  BY <1>1, KeptJobs DEF KeepInv
<1>3. \/ job[c] = "probe" /\ step[c] = 2
      \/ job[c] = "probe_fail" /\ step[c] = 4
      \/ job[c] = "unload" /\ step[c] = 19
  BY <1>1, <1>2, Position, Where DEF CreateStartFails, DestroySync, Calls, HddInv
<1>4. QuietAt(c) /\ BareAt(c) /\ Owner(c) /\ ~InTrans(c) /\ ~InOp(c) /\ job[c] \notin {None, "reinit"}
  BY <1>3, NoJob DEF QuietAt, BareAt, Owner, InTrans, InOp, Job
<1>5. sync[c] \in PsocSync
  BY <1>1, <1>2, <1>4 DEF HddInv, SyncInv, OwnInv, OwnKind
<1>6. sync[c] \in Mine(c)
  BY <1>4, <1>5 DEF Mine, Sync
<1>7. sync[c] \in inUse
  BY <1>1, <1>6, MineIsLoose DEF Loose
<1>8. p \in attached /\ p \in Psoc
  <2>1. p \in attached /\ p # Driver /\ p \in Node
    BY <1>1, <1>7, EntryContext
  <2>2. p \notin Vdev
    BY <1>1, <1>5 DEF HddInv, SyncInv, RegType
  <2> QED BY <2>1, <2>2 DEF Node
<1>9. Still(p)
  BY <1>4 DEF KeepInv, Resting
<1>10. pc[c] = "idle"
  BY <1>1, <1>4, RowOf DEF PcRow
<1>11. Below(p) \cap attached = {}
  <2> SUFFICES ASSUME NEW v \in Below(p), v \in attached PROVE FALSE
    OBVIOUS
  <2>1. v \in Vdev /\ v # Driver
    BY <1>8, DownTree, Tree DEF VdevsOf
  <2>2. PICK s \in inUse : ctx[s] = v
    BY <1>1, <2>1 DEF HddInv, SyncInv, RegistrySound
  <2>3. s \in VdevSync
    BY <1>1, <2>1, <2>2 DEF HddInv, SyncInv, RegType, Sync
  <2> QED BY <1>4, <2>2, <2>3 DEF KeepInv, Bare
<1> QED BY <1>4, <1>5, <1>6, <1>8, <1>9, <1>10, <1>11, Tree
        DEF MayDestroy, Still, ActiveOrQueued

LEMMA KeepsStep ==
  ASSUME KeepJobs, KeepInv, NEW c \in Caller, Step(c)
  PROVE  [Next]_vars
<1>1. HddInv /\ JobsRun /\ Core
  BY DEF KeepInv, CallInv, HddInv
<1>2. CASE Destroys(c)
  <2>1. PICK s : MayDestroy(c, ctx[s]) /\ SyncDestroy(s)
    BY <1>1, <1>2, CloseMayDestroy, RadioMayDestroy
       DEF Destroys, KeepInv, CreateStartFails, DestroySync, CloseDestroy
  <2>2. Destroy(c, ctx[s])
    BY <2>1 DEF Destroy, SyncDestroy
  <2> QED BY <1>1, <2>2, NextOf
<1>3. CASE ~Destroys(c)
  <2>1. job[c] = "unload" => "unload" \in PlatformEvents
    BY <1>1, Runs, NoJob DEF KeepJobs, JobsRun, Job
  <2> QED BY <1>1, <1>3, <2>1, OtherCalls
<1> QED BY <1>2, <1>3

----------------------------------------------------------------------------
(* How a thread comes to where it has waited, has the radio to itself, has only *)
(* to destroy it.                                                               *)

\* The next call of a thread.
Course(c) ==
  \/ job'[c] \in {None, "reinit"}
  \/ job'[c] = job[c] /\ step'[c] = step[c] /\ (Granted(c) \/ Draining(c))
  \/ job'[c] = job[c] /\ step'[c] = step[c] + 1
  \/ job'[c] = job[c] /\ step'[c] = step[c] + 2 /\ Open(c)
  \/ job'[c] = job[c] /\ step'[c] = step[c] + 4 /\ CloseNoMore(c)
  \/ job'[c] = job[c] /\ step'[c] = step[c] - 3 /\ CloseDestroy(c)
  \/ /\ job[c] \in {"probe", "add", "mode", "idle"} /\ job'[c] = FailOf[job[c]] /\ step'[c] = 1
     /\ Fail(c) /\ (Work(c) \/ Validate(c) \/ StartNowRefused(c))

LEMMA CourseReturn ==
  ASSUME HddInv, NEW c \in Caller, Return(c) \/ Abandon(c)
  PROVE  Course(c)
BY GoesOut DEF Abandon, Course

LEMMA CourseAdvance ==
  ASSUME HddInv, NEW c \in Caller, NEW call, At(c, call), Advance(c)
  PROVE  Course(c)
<1>1. job[c] \in Job
  BY Position DEF HddInv
<1>2. CASE Last(c)
  <2>1. Return(c)
    BY <1>1, <1>2, LastCall DEF Advance
  <2> QED BY <2>1, CourseReturn
<1>3. CASE ~Last(c)
  BY <1>1, <1>3, GoesOn DEF Course
<1> QED BY <1>2, <1>3

LEMMA Courses ==
  ASSUME HddInv, NEW c \in Caller, Step(c)
  PROVE  Course(c)
<1>0. step[c] \in Nat
  BY RowOf DEF JobTypes
<1>1. CASE Platform(c) \/ TakeRtnl(c) \/ RtnlUnlock(c) \/ CreateStart(c) \/ Register(c) \/ Start(c)
           \/ StartNow(c) \/ Wait(c) \/ Unregister(c) \/ MarkUnloading(c) \/ Stop(c) \/ DestroySync(c)
           \/ StartOp(c) \/ StopOp(c) \/ OpenDev(c) \/ StopDev(c) \/ Recovered(c) \/ IdleDone(c)
  <2>1. Advance(c) /\ \E call : At(c, call)
    BY <1>1 DEF Platform, TakeRtnl, RtnlLock, UnderRtnl, RtnlUnlock, CreateStart, Register, Start,
                StartNow, Wait, Unregister, MarkUnloading, Stop, DestroySync, StartOp, StopOp,
                OpenDev, StopDev, Recovered, IdleDone, Calls
  <2> QED BY <2>1, CourseAdvance
<1>2. CASE CreateSync(c) \/ LookupSync(c)
  <2>1. PICK s : Use(c, s)
    BY <1>2 DEF CreateSync, LookupSync
  <2> QED BY <2>1, GoesTo DEF Use, Course
<1>3. CASE OpenRegister(c) \/ Close(c)
  <2>1. Skip(c, 1)
    BY <1>3 DEF OpenRegister, Close
  <2> QED BY <2>1, GoesTo DEF Skip, Course
<1>4. CASE Open(c)
  <2>1. Skip(c, 1) \/ Skip(c, 2)
    BY <1>4 DEF Open
  <2> QED BY <1>4, <2>1, GoesTo DEF Skip, Course
<1>5. CASE CloseNoMore(c)
  <2>1. Skip(c, 4)
    BY <1>5 DEF CloseNoMore, CloseAll
  <2> QED BY <1>5, <2>1, GoesTo DEF Skip, Course
<1>6. CASE CloseDestroy(c)
  <2>1. Skip(c, 1 - 4)
    BY <1>6 DEF CloseDestroy, CloseAll
  <2>2. step'[c] = step[c] + (1 - 4) /\ job'[c] = job[c]
    BY <2>1, GoesTo DEF Skip
  <2>3. step'[c] = step[c] - 3
    BY <1>0, <2>2
  <2> QED BY <1>6, <2>2, <2>3 DEF Course
<1>7. CASE CreateSyncFails(c) \/ CreateStartFails(c) \/ LookupFails(c) \/ StartRefused(c)
  BY <1>7, CourseReturn DEF CreateSyncFails, CreateStartFails, LookupFails, StartRefused
<1>8. CASE Granted(c) \/ Draining(c)
  BY <1>8 DEF Granted, Draining, jobVars, Course
<1>9. CASE Work(c)
  <2>1. job[c] \in {"probe", "add"} /\ At(c, "work")
    BY <1>9, Position, Where DEF Work, Calls, HddInv
  <2>2. CASE Advance(c)
    BY <2>1, <2>2, CourseAdvance
  <2>3. CASE Fail(c)
    BY <1>9, <2>1, <2>3, GoesWrong DEF Course
  <2> QED BY <1>9, <2>2, <2>3 DEF Work
<1>10. CASE Validate(c)
  <2>1. job[c] = "mode" /\ At(c, "validate")
    BY <1>10, Position, Where DEF Validate, Calls, HddInv
  <2>2. CASE Advance(c)
    BY <2>1, <2>2, CourseAdvance
  <2>3. CASE Fail(c)
    BY <1>10, <2>1, <2>3, GoesWrong DEF Course
  <2> QED BY <1>10, <2>2, <2>3 DEF Validate
<1>11. CASE Read(c)
  <2>1. CASE ctx[sync[c]] = None
    BY <1>11, <2>1, CourseReturn DEF Read
  <2>2. CASE ctx[sync[c]] # None
    BY <1>11, <2>2, GoesTo DEF Read, Course
  <2> QED BY <2>1, <2>2
<1>12. CASE ReadDriver(c)
  BY <1>12, GoesTo DEF ReadDriver, Course
<1>13. CASE StartNowRefused(c)
  <2>1. CASE job[c] = "idle"
    BY <1>13, <2>1, GoesWrong DEF StartNowRefused, Course
  <2>2. CASE job[c] # "idle"
    BY <1>13, <2>2, CourseReturn DEF StartNowRefused
  <2> QED BY <2>1, <2>2
<1>14. CASE Check(c)
  BY <1>14, CourseAdvance, CourseReturn DEF Check, Calls
<1> QED BY <1>1, <1>2, <1>3, <1>4, <1>5, <1>6, <1>7, <1>8, <1>9, <1>10, <1>11, <1>12, <1>13, <1>14
        DEF Step

\* Which step a call is.
LEMMA Acts ==
  ASSUME NEW c \in Caller, Step(c), ~Granted(c), ~Draining(c)
  PROVE  /\ At(c, "create") => CreateSync(c) \/ CreateSyncFails(c)
         /\ At(c, "create_start") => CreateStart(c) \/ CreateStartFails(c)
         /\ At(c, "work") => Work(c)
         /\ At(c, "wait") => Wait(c)
         /\ At(c, "stop") => Stop(c)
         /\ At(c, "destroy") => DestroySync(c)
         /\ At(c, "close_destroy") => CloseDestroy(c)
<1> SUFFICES ASSUME NEW x \in {"create", "create_start", "work", "wait", "stop", "destroy",
                               "close_destroy"},
                    At(c, x)
             PROVE  /\ x = "create" => CreateSync(c) \/ CreateSyncFails(c)
                    /\ x = "create_start" => CreateStart(c) \/ CreateStartFails(c)
                    /\ x = "work" => Work(c)
                    /\ x = "wait" => Wait(c)
                    /\ x = "stop" => Stop(c)
                    /\ x = "destroy" => DestroySync(c)
                    /\ x = "close_destroy" => CloseDestroy(c)
  OBVIOUS
<1>1. \A call : Calls(c, call) => call = x
  BY DEF At, Calls
<1> QED BY <1>1
        DEF Step, Platform, TakeRtnl, RtnlLock, UnderRtnl, RtnlUnlock, CreateSync,
            CreateSyncFails, CreateStart, CreateStartFails, Register, Work, Open, OpenRegister,
            LookupSync, LookupFails, Read, ReadDriver, Start, StartRefused, StartNow,
            StartNowRefused, Wait, Unregister, MarkUnloading, Check, Validate, Close, CloseNoMore,
            CloseDestroy, Stop, DestroySync, StartOp, StopOp, OpenDev, StopDev, Recovered, IdleDone

LEMMA AtCall ==
  ASSUME HddInv, NEW c \in Caller, job[c] \in Job
  PROVE  step[c] \in 1 .. Len(Prog[job[c]]) /\ At(c, Prog[job[c]][step[c]])
BY NoJob, RowOf DEF JobRow, At

\* A thread that has gone one call on has made it.
LEMMA Called1 ==
  ASSUME HddInv, NEW c \in Caller, Step(c), job[c] \in Job, step'[c] = step[c] + 1
  PROVE  /\ step[c] \in 1 .. Len(Prog[job[c]]) /\ At(c, Prog[job[c]][step[c]]) /\ step[c] # 0
         /\ ~Granted(c) /\ ~Draining(c) /\ ~CloseDestroy(c)
<1>0. step[c] \in 1 .. Len(Prog[job[c]]) /\ At(c, Prog[job[c]][step[c]]) /\ step[c] \in Nat
  BY AtCall, RowOf DEF JobTypes
<1>1. /\ step[c] \in 1 .. Len(Prog[job[c]]) /\ At(c, Prog[job[c]][step[c]]) /\ step[c] \in Nat
      /\ step[c] # 0
  BY <1>0, LengthOf
<1>2. ~Granted(c) /\ ~Draining(c)
  BY <1>1 DEF Granted, Draining, jobVars
<1>3. ASSUME CloseDestroy(c) PROVE FALSE
  <2>1. Skip(c, 1 - 4)
    BY <1>3 DEF CloseDestroy, CloseAll
  <2>2. step'[c] = step[c] + (1 - 4)
    BY <2>1, GoesTo DEF Skip
  <2> QED BY <1>1, <2>2
<1> QED BY <1>1, <1>2, <1>3

LEMMA WaitedComes ==
  ASSUME HddInv, NEW c \in Caller, Step(c), WaitedAt(c)'
  PROVE  (WaitedAt(c) /\ ~Stop(c) /\ ~StopOp(c)) \/ Wait(c)
<1>0. step[c] \in Nat /\ None \notin Job
  BY NoJob, RowOf DEF JobTypes
<1>1. Course(c)
  BY Courses
<1>2. job'[c] \in {"unload", "mode", "probe_fail"} /\ job'[c] \in Job /\ job'[c] # None
      /\ job'[c] # "reinit"
  BY <1>0 DEF WaitedAt, Job
<1>3. job'[c] = job[c]
  <2>1. CASE job[c] \in {"probe", "add", "mode", "idle"} /\ job'[c] = FailOf[job[c]] /\ step'[c] = 1
    BY <2>1 DEF WaitedAt, FailOf
  <2> QED BY <1>1, <1>2, <2>1 DEF Course
<1>4. Stop(c) \/ StopOp(c) => ~WaitedAt(c)'
  <2>1. CASE Stop(c)
    <3>1. job[c] \in Job /\ At(c, "stop")
      BY <1>2, <1>3, <2>1 DEF Stop, Calls
    <3>2. \/ job[c] = "probe_fail" /\ step[c] = 3
          \/ job[c] = "unload" /\ step[c] \in {4, 18}
          \/ job[c] = "mode" /\ step[c] = 13
      BY <1>2, <1>3, <3>1, Position, Where DEF HddInv
    <3>3. CASE Last(c)
      <4>1. Return(c)
        BY <2>1, <3>1, <3>3, LastCall DEF Stop, Advance
      <4> QED BY <1>2, <1>3, <4>1, GoesOut
    <3>4. CASE ~Last(c)
      <4>1. step'[c] = step[c] + 1
        BY <2>1, <3>1, <3>4, GoesOn DEF Stop
      <4>2. job[c] # "mode"
        BY <3>2, <3>4 DEF Last
      <4> QED BY <1>3, <3>2, <4>1, <4>2 DEF WaitedAt
    <3> QED BY <3>3, <3>4
  <2>2. CASE StopOp(c)
    <3>1. At(c, "op_stop")
      BY <2>2 DEF StopOp, Calls
    <3>2. job[c] = "op"
      BY <3>1, Position, Where DEF HddInv
    <3> QED BY <1>2, <1>3, <3>2
  <2> QED BY <2>1, <2>2
<1>5. SUFFICES ASSUME ~WaitedAt(c)
               PROVE  Wait(c)
  BY <1>4
<1>6. CASE step'[c] = step[c] + 1
  <2>1. \/ job[c] = "unload" /\ step[c] = 10
        \/ job[c] = "mode" /\ step[c] = 3
        \/ job[c] = "probe_fail" /\ step[c] = 2
    BY <1>0, <1>2, <1>3, <1>5, <1>6 DEF WaitedAt
  <2>2. job[c] \in Job
    BY <1>2, <1>3
  <2>3. Prog[job[c]][step[c]] = "wait"
    BY <1>6, <2>1, <2>2, Called1, Where
  <2> QED BY <1>6, <2>2, <2>3, Called1, Acts
<1>7. CASE step'[c] = step[c]
  BY <1>3, <1>5, <1>7 DEF WaitedAt
<1>8. CASE Open(c)
  <2>1. (job[c] = "probe" /\ step[c] = 6) \/ (job[c] = "mode" /\ step[c] = 10)
    BY <1>8, Position, Where DEF Open, Calls, HddInv
  <2> QED BY <1>2, <1>3, <1>5, <2>1 DEF WaitedAt
<1>9. CASE CloseNoMore(c) \/ CloseDestroy(c)
  <2>1. (job[c] = "unload" /\ step[c] \in {12, 15}) \/ (job[c] = "mode" /\ step[c] \in {5, 8})
    BY <1>9, Position, Where DEF CloseNoMore, CloseDestroy, Calls, HddInv
  <2> QED BY <1>5, <2>1 DEF WaitedAt
<1>10. ~(job[c] \in {"probe", "add", "mode", "idle"} /\ job'[c] = FailOf[job[c]])
  BY <1>3 DEF FailOf
<1> QED BY <1>1, <1>2, <1>6, <1>7, <1>8, <1>9, <1>10 DEF Course

LEMMA RadioComes ==
  ASSUME HddInv, NEW c \in Caller, Step(c), RadioAt(c)'
  PROVE  \/ RadioAt(c) /\ ~Stop(c) /\ ~StopOp(c)
         \/ job[c] = "probe" /\ step[c] = 2 /\ CreateStart(c)
<1>0. step[c] \in Nat /\ None \notin Job
  BY NoJob, RowOf DEF JobTypes
<1>1. Course(c)
  BY Courses
<1>2. job'[c] \in {"probe", "probe_fail"} /\ job'[c] # None /\ job'[c] # "reinit"
  BY <1>0 DEF RadioAt, Job
<1>3. CASE job'[c] # job[c]
  <2>1. job[c] \in {"probe", "add", "mode", "idle"} /\ job'[c] = FailOf[job[c]]
        /\ (Work(c) \/ Validate(c) \/ StartNowRefused(c))
    BY <1>1, <1>2, <1>3 DEF Course
  <2>2. job[c] = "probe"
    BY <1>2, <2>1 DEF FailOf
  <2>3. Work(c) \/ Validate(c) => step[c] = 4
    BY <2>2, Position, Where DEF Work, Validate, Calls, HddInv
  <2>4. ~StartNowRefused(c)
    BY <2>2, Position, Where DEF StartNowRefused, Calls, HddInv
  <2>5. ~Stop(c) /\ ~StopOp(c)
    <3>1. step[c] = 4
      BY <2>1, <2>3, <2>4
    <3> QED BY <2>2, <3>1, Position, Where DEF Stop, StopOp, Calls, HddInv
  <2> QED BY <2>1, <2>2, <2>3, <2>4, <2>5 DEF RadioAt
<1>4. CASE job'[c] = job[c]
  <2>0. job[c] \in Job /\ ~(job[c] \in {"probe", "add", "mode", "idle"} /\ job'[c] = FailOf[job[c]])
    BY <1>2, <1>4 DEF Job, FailOf
  <2>1. ASSUME Stop(c) \/ StopOp(c) PROVE FALSE
    <3>1. \/ job[c] = "probe_fail" /\ step[c] = 3 /\ Stop(c)
          \/ job[c] = "probe" /\ step[c] = 9 /\ Stop(c)
      BY <1>2, <1>4, <2>1, Position, Where DEF Stop, StopOp, Calls, HddInv
    <3>2. CASE Last(c)
      <4>1. Return(c)
        BY <2>0, <3>1, <3>2, LastCall DEF Stop, Advance
      <4> QED BY <1>2, <1>4, <4>1, GoesOut
    <3>3. CASE ~Last(c)
      <4>1. step'[c] = step[c] + 1
        BY <2>0, <3>1, <3>3, GoesOn DEF Stop
      <4>2. job[c] # "probe"
        BY <3>1, <3>3 DEF Last
      <4> QED BY <1>4, <3>1, <4>1, <4>2 DEF RadioAt
    <3> QED BY <3>2, <3>3
  <2>2. SUFFICES ASSUME ~RadioAt(c)
                 PROVE  job[c] = "probe" /\ step[c] = 2 /\ CreateStart(c)
    BY <2>1
  <2>3. CASE step'[c] = step[c] + 1
    <3>1. /\ step[c] \in 1 .. Len(Prog[job[c]]) /\ At(c, Prog[job[c]][step[c]])
          /\ ~Granted(c) /\ ~Draining(c) /\ step[c] # 0
      BY <2>0, <2>3, Called1
    <3>2. job[c] = "probe" /\ step[c] = 2
      <4>1. CASE job[c] = "probe_fail"
        BY <1>0, <1>4, <2>2, <2>3, <3>1, <4>1 DEF RadioAt
      <4>2. CASE job[c] = "probe"
        BY <1>0, <1>4, <2>2, <2>3, <4>2 DEF RadioAt
      <4> QED BY <1>2, <1>4, <4>1, <4>2
    <3>3. At(c, "create_start")
      BY <2>0, <3>1, <3>2, Where
    <3>4. CreateStart(c) \/ CreateStartFails(c)
      BY <3>1, <3>3, Acts
    <3>5. ~CreateStartFails(c)
      BY <1>2, <1>4, <2>0, GoesOut DEF CreateStartFails, Abandon
    <3> QED BY <3>2, <3>4, <3>5
  <2>4. CASE step'[c] = step[c]
    BY <1>4, <2>2, <2>4 DEF RadioAt
  <2>5. CASE Open(c)
    <3>1. job[c] = "probe" /\ step[c] = 6
      BY <1>2, <1>4, <2>5, Position, Where DEF Open, Calls, HddInv
    <3> QED BY <2>2, <3>1 DEF RadioAt
  <2>6. ~CloseNoMore(c) /\ ~CloseDestroy(c)
    BY <1>2, <1>4, Position, Where DEF CloseNoMore, CloseDestroy, Calls, HddInv
  <2> QED BY <1>1, <1>2, <2>0, <2>3, <2>4, <2>5, <2>6 DEF Course
<1> QED BY <1>3, <1>4

LEMMA BareComes ==
  ASSUME HddInv, "mode" \in Jobs => {"unload", "probe_fail"} \cap Jobs = {},
         NEW c \in Caller, Step(c), BareAt(c)', ~BareAt(c)
  PROVE  \/ job[c] = "unload" /\ step[c] = 12 /\ job'[c] = "unload" /\ CloseNoMore(c)
         \/ job[c] = "probe" /\ step[c] = 1 /\ CreateSync(c)
<1>0. step[c] \in Nat /\ None \notin Job
  BY NoJob, RowOf DEF JobTypes
<1>1. Course(c)
  BY Courses
<1>2. job'[c] \in {"unload", "probe", "probe_fail"} /\ job'[c] # None /\ job'[c] # "reinit"
  BY <1>0 DEF BareAt, Job
<1>3. CASE job'[c] # job[c]
  <2>1. job[c] \in {"probe", "add", "mode", "idle"} /\ job'[c] = FailOf[job[c]] /\ Fail(c)
        /\ (Work(c) \/ Validate(c) \/ StartNowRefused(c))
    BY <1>1, <1>2, <1>3 DEF Course
  <2>2. job[c] = "probe" /\ job'[c] = "probe_fail"
    BY <1>2, <2>1 DEF FailOf
  <2>3. Work(c) /\ step[c] = 4
    BY <2>1, <2>2, Position, Where DEF Work, Validate, StartNowRefused, Calls, HddInv
  <2>4. ~Advance(c)
    <3>1. job[c] \in Job /\ ~Last(c)
      BY <2>2, <2>3 DEF Job, Last
    <3> QED BY <1>3, <3>1, GoesOn
  <2>5. "probe_fail" \in Jobs
    BY <2>1, <2>2, <2>3, <2>4 DEF Work, FailOf
  <2> QED BY <2>2, <2>3, <2>5 DEF BareAt
<1>4. CASE job'[c] = job[c]
  <2>0. job[c] \in Job /\ job[c] # "probe_fail"
        /\ ~(job[c] \in {"probe", "add", "mode", "idle"} /\ job'[c] = FailOf[job[c]])
    BY <1>2, <1>4 DEF Job, FailOf, BareAt
  <2>3. CASE step'[c] = step[c] + 1
    <3>1. /\ step[c] \in 1 .. Len(Prog[job[c]]) /\ At(c, Prog[job[c]][step[c]])
          /\ ~Granted(c) /\ ~Draining(c) /\ ~CloseDestroy(c)
      BY <2>0, <2>3, Called1
    <3>2. (job[c] = "probe" /\ step[c] = 1) \/ (job[c] = "unload" /\ step[c] = 15)
      <4>1. CASE job[c] = "unload"
        BY <1>0, <1>4, <2>3, <4>1 DEF BareAt
      <4>2. CASE job[c] = "probe"
        BY <1>0, <1>4, <2>3, <4>2 DEF BareAt
      <4> QED BY <1>2, <1>4, <2>0, <4>1, <4>2
    <3>3. job[c] = "probe" /\ step[c] = 1
      <4>1. CASE job[c] = "unload" /\ step[c] = 15
        <5>1. At(c, "close_destroy")
          BY <2>0, <3>1, <4>1, Where
        <5> QED BY <3>1, <5>1, Acts
      <4> QED BY <3>2, <4>1
    <3>4. At(c, "create")
      BY <2>0, <3>1, <3>3, Where
    <3>5. CreateSync(c) \/ CreateSyncFails(c)
      BY <3>1, <3>4, Acts
    <3>6. ~CreateSyncFails(c)
      BY <1>2, <1>4, <2>0, GoesOut DEF CreateSyncFails, Abandon
    <3> QED BY <3>3, <3>5, <3>6
  <2>4. CASE step'[c] = step[c]
    BY <1>4, <2>4 DEF BareAt
  <2>5. CASE Open(c) /\ step'[c] = step[c] + 2
    <3>1. job[c] = "probe" /\ step[c] = 6
      BY <1>2, <1>4, <2>5, Position, Where DEF Open, Calls, HddInv
    <3> QED BY <1>4, <2>5, <3>1 DEF BareAt
  <2>6. CASE CloseNoMore(c)
    <3>1. job[c] = "unload" /\ step[c] = 12
      BY <1>2, <1>4, <2>6, Position, Where DEF CloseNoMore, Calls, HddInv
    <3> QED BY <1>4, <2>6, <3>1
  <2>7. CASE CloseDestroy(c) /\ step'[c] = step[c] - 3
    <3>1. job[c] = "unload" /\ step[c] = 15
      BY <1>2, <1>4, <2>7, Position, Where DEF CloseDestroy, Calls, HddInv
    <3> QED BY <1>4, <2>7, <3>1 DEF BareAt
  <2> QED BY <1>1, <1>2, <2>0, <2>3, <2>4, <2>5, <2>6, <2>7 DEF Course
<1> QED BY <1>3, <1>4

\* Who has only to destroy the radio's context does not stay there.
LEMMA QuietComes ==
  ASSUME HddInv, NEW c \in Caller, Step(c), QuietAt(c)'
  PROVE  \/ /\ (job[c] = "unload" /\ step[c] = 18) \/ (job[c] = "probe_fail" /\ step[c] = 3)
            /\ Stop(c) /\ sync'[c] = sync[c]
         \/ job[c] = "probe" /\ step[c] = 1 /\ CreateSync(c)
<1>0. step[c] \in Nat /\ None \notin Job
  BY NoJob, RowOf DEF JobTypes
<1>1. Course(c)
  BY Courses
<1>2. job'[c] \in {"unload", "probe", "probe_fail"} /\ job'[c] # None /\ job'[c] # "reinit"
  BY <1>0 DEF QuietAt, Job
<1>3. job'[c] = job[c]
  <2>1. CASE job[c] \in {"probe", "add", "mode", "idle"} /\ job'[c] = FailOf[job[c]] /\ step'[c] = 1
    BY <2>1 DEF QuietAt, FailOf
  <2> QED BY <1>1, <1>2, <2>1 DEF Course
<1>4. job[c] \in Job /\ ~(job[c] \in {"probe", "add", "mode", "idle"} /\ job'[c] = FailOf[job[c]])
  BY <1>2, <1>3 DEF Job, FailOf
<1>5. CASE step'[c] = step[c] + 1
  <2>1. /\ step[c] \in 1 .. Len(Prog[job[c]]) /\ At(c, Prog[job[c]][step[c]])
        /\ ~Granted(c) /\ ~Draining(c)
    BY <1>4, <1>5, Called1
  <2>2. \/ job[c] = "unload" /\ step[c] = 18
        \/ job[c] = "probe" /\ step[c] = 1
        \/ job[c] = "probe_fail" /\ step[c] = 3
    BY <1>0, <1>3, <1>5 DEF QuietAt
  <2>3. CASE job[c] = "probe"
    <3>1. At(c, "create")
      BY <1>4, <2>1, <2>2, <2>3, Where
    <3>2. CreateSync(c) \/ CreateSyncFails(c)
      BY <2>1, <3>1, Acts
    <3>3. ~CreateSyncFails(c)
      BY <1>2, <1>3, <1>4, GoesOut DEF CreateSyncFails, Abandon
    <3> QED BY <2>2, <2>3, <3>2, <3>3
  <2>4. CASE job[c] # "probe"
    <3>1. At(c, "stop")
      BY <1>4, <2>1, <2>2, <2>4, Where
    <3>2. Stop(c)
      BY <2>1, <3>1, Acts
    <3>3. ~Last(c)
      BY <2>2, <2>4 DEF Last
    <3>4. step[c] # Len(Prog[job[c]])
      BY <1>4, <3>3, LastCall
    <3>5. sync' = sync
      BY <3>2, <3>4 DEF Stop, Advance
    <3> QED BY <2>2, <2>4, <3>2, <3>5
  <2> QED BY <2>3, <2>4
<1>6. CASE step'[c] = step[c] /\ (Granted(c) \/ Draining(c))
  <2>1. QuietAt(c)
    BY <1>3, <1>6 DEF QuietAt
  <2>2. ~InTrans(c) /\ ~InOp(c) /\ job[c] \notin {None, "reinit"}
    BY <1>0, <1>2, <1>3, <2>1 DEF QuietAt, InTrans, InOp
  <2>3. pc[c] = "idle"
    BY <2>2, RowOf DEF PcRow
  <2> QED BY <1>6, <2>3
          DEF Granted, Draining, WaitGranted, Wake, Drained, VisitQuiet, VisitBusy
<1>7. ~Open(c)
  <2>1. CASE Open(c)
    <3>1. job[c] = "probe" /\ step[c] = 6
      BY <1>2, <1>3, <2>1, Position, Where DEF Open, Calls, HddInv
    <3>2. step'[c] \in {7, 8}
      BY <2>1, <3>1, GoesTo DEF Open, Skip
    <3> QED BY <1>3, <3>1, <3>2 DEF QuietAt
  <2> QED BY <2>1
<1>8. ~(CloseNoMore(c) /\ step'[c] = step[c] + 4)
  BY <1>2, <1>3, Position, Where DEF CloseNoMore, Calls, HddInv, QuietAt
<1>9. ~(CloseDestroy(c) /\ step'[c] = step[c] - 3)
  BY <1>2, <1>3, Position, Where DEF CloseDestroy, Calls, HddInv, QuietAt
<1> QED BY <1>1, <1>2, <1>4, <1>5, <1>6, <1>7, <1>8, <1>9 DEF Course

----------------------------------------------------------------------------
(* What a step leaves to the others: their entries, and a context that is still. *)

LEMMA EntriesStay ==
  ASSUME HddInv, NEW c \in Caller, Step(c), ~Destroys(c), NEW s \in inUse
  PROVE  s \in inUse' /\ ctx'[s] = ctx[s]
<1>1. CASE CreateSync(c) \/ Open(c)
  <2>1. \/ UNCHANGED syncVars
        \/ \E t \in Sync \ inUse : \E n : inUse' = inUse \cup {t} /\ ctx' = [ctx EXCEPT ![t] = n]
    BY <1>1 DEF CreateSync, Open, PsocSyncCreate, VdevSyncCreate, Sync
  <2>2. CASE UNCHANGED syncVars
    BY <2>2 DEF syncVars
  <2>3. ASSUME NEW t \in Sync \ inUse, NEW n, inUse' = inUse \cup {t}, ctx' = [ctx EXCEPT ![t] = n]
        PROVE  s \in inUse' /\ ctx'[s] = ctx[s]
    BY <2>3 DEF HddInv, SyncInv, RegType
  <2> QED BY <2>1, <2>2, <2>3
<1>2. CASE Unregister(c) \/ Close(c) \/ Register(c) \/ OpenRegister(c)
  BY <1>2 DEF Unregister, Close, Register, OpenRegister, SyncUnregister, SyncRegister
<1>3. CASE UNCHANGED syncVars
  BY <1>3 DEF syncVars
<1> QED BY <1>1, <1>2, <1>3, RegistryKept DEF Destroys

LEMMA EntriesCome ==
  ASSUME HddInv, NEW c \in Caller, Step(c), NEW s \in inUse', s \notin inUse
  PROVE  CreateSync(c) \/ Open(c)
<1>1. CASE Unregister(c) \/ Close(c) \/ Register(c) \/ OpenRegister(c)
  BY <1>1 DEF Unregister, Close, Register, OpenRegister, SyncUnregister, SyncRegister
<1>2. CASE CreateStartFails(c) \/ DestroySync(c) \/ CloseDestroy(c)
  BY <1>2 DEF CreateStartFails, DestroySync, CloseDestroy, SyncDestroy
<1>3. CASE UNCHANGED syncVars
  BY <1>3 DEF syncVars
<1> QED BY <1>1, <1>2, <1>3, RegistryKept

LEMMA OthersSync ==
  ASSUME HddInv, NEW c \in Caller, Step(c), NEW d \in Caller, d # c
  PROVE  sync'[d] = sync[d]
<1>0. sync \in [Caller -> Sync \cup {None}]
  BY RowOf DEF JobTypes
<1>1. CASE \E x : sync' = [sync EXCEPT ![c] = x]
  BY <1>0, <1>1
<1>2. CASE sync' = sync
  BY <1>2
<1>3. Return(c) \/ Abandon(c) \/ Advance(c) \/ (\E s : Use(c, s)) \/ (\E i : Skip(c, i)) \/ Fail(c) =>
        (\E x : sync' = [sync EXCEPT ![c] = x]) \/ sync' = sync
  BY DEF Abandon, Advance, Return, Use, Skip, Fail
<1>4. CASE Platform(c) \/ TakeRtnl(c) \/ RtnlUnlock(c) \/ CreateStart(c) \/ Register(c) \/ Start(c)
           \/ StartNow(c) \/ Wait(c) \/ Unregister(c) \/ MarkUnloading(c) \/ Stop(c) \/ DestroySync(c)
           \/ StartOp(c) \/ StopOp(c) \/ OpenDev(c) \/ StopDev(c) \/ Recovered(c) \/ IdleDone(c)
  <2>1. Advance(c)
    BY <1>4 DEF Platform, TakeRtnl, RtnlLock, UnderRtnl, RtnlUnlock, CreateStart, Register, Start,
                StartNow, Wait, Unregister, MarkUnloading, Stop, DestroySync, StartOp, StopOp,
                OpenDev, StopDev, Recovered, IdleDone
  <2> QED BY <1>1, <1>2, <1>3, <2>1
<1>5. CASE CreateSync(c) \/ LookupSync(c) \/ Open(c) \/ OpenRegister(c) \/ Close(c) \/ CloseNoMore(c)
           \/ CloseDestroy(c)
  <2>1. (\E s : Use(c, s)) \/ \E i : Skip(c, i)
    BY <1>5 DEF CreateSync, LookupSync, Open, OpenRegister, Close, CloseNoMore, CloseDestroy
  <2> QED BY <1>1, <1>2, <1>3, <2>1
<1>6. CASE CreateSyncFails(c) \/ CreateStartFails(c) \/ LookupFails(c) \/ StartRefused(c)
           \/ StartNowRefused(c) \/ Check(c) \/ Work(c) \/ Validate(c)
  <2>1. Abandon(c) \/ Advance(c) \/ Fail(c)
    BY <1>6 DEF CreateSyncFails, CreateStartFails, LookupFails, StartRefused, StartNowRefused, Check,
                Work, Validate
  <2> QED BY <1>1, <1>2, <1>3, <2>1
<1>7. CASE Read(c) \/ ReadDriver(c) \/ Granted(c) \/ Draining(c)
  <2>1. Abandon(c) \/ sync' = sync
    BY <1>7 DEF Read, ReadDriver, Granted, Draining, jobVars
  <2> QED BY <1>1, <1>2, <1>3, <2>1
<1> QED BY <1>4, <1>5, <1>6, <1>7 DEF Step

\* How a thread comes into the core, and to wait for operations there; and that
\* it has waited until it stops.
LEMMA Enters ==
  ASSUME HddInv, NEW c \in Caller, Step(c)
  PROVE  /\ pc[c] = "idle" /\ pc'[c] # "idle" =>
              CreateStart(c) \/ StartNow(c) \/ StartOp(c) \/ Start(c)
         /\ pc[c] \in {"holding", "drained"} /\ pc'[c] = "draining" => Wait(c)
         /\ pc[c] \in {"draining", "sleeping", "drained"} /\ ~Stop(c) /\ ~StopOp(c) =>
              pc'[c] \in {"draining", "sleeping", "drained"}
<1>1. CASE pc' = pc
  BY <1>1
<1>2. CASE ClearRecovering
  BY <1>1, <1>2 DEF ClearRecovering, SetRecovering, vars
<1>3. CASE Platform(c) \/ TakeRtnl(c) \/ RtnlUnlock(c) \/ CreateSyncFails(c) \/ Register(c)
           \/ OpenRegister(c) \/ LookupSync(c) \/ LookupFails(c) \/ Read(c) \/ ReadDriver(c)
           \/ StartRefused(c) \/ StartNowRefused(c) \/ Unregister(c) \/ Check(c) \/ Validate(c)
           \/ Close(c) \/ CloseNoMore(c) \/ OpenDev(c) \/ StopDev(c)
  <2>1. UNCHANGED vars
    BY <1>3 DEF Platform, TakeRtnl, RtnlLock, UnderRtnl, RtnlUnlock, CreateSyncFails, Register,
                OpenRegister, LookupSync, LookupFails, Read, ReadDriver, StartRefused,
                StartNowRefused, Unregister, Check, Validate, Close, CloseNoMore, OpenDev, StopDev
  <2> QED BY <1>1, <2>1 DEF vars
<1>4. CASE Work(c) \/ Recovered(c) \/ IdleDone(c)
  BY <1>1, <1>2, <1>4 DEF Work, Recovered, IdleDone, vars
<1>5. CASE CreateSync(c) \/ Open(c)
  <2>1. UNCHANGED vars \/ \E n : Create(n)
    BY <1>5 DEF CreateSync, Open, PsocSyncCreate, VdevSyncCreate
  <2> QED BY <1>1, <2>1 DEF Create, vars
<1>6. CASE CreateStartFails(c) \/ DestroySync(c) \/ CloseDestroy(c)
  <2>1. PICK s : SyncDestroy(s)
    BY <1>6 DEF CreateStartFails, DestroySync, CloseDestroy
  <2>2. pc'[c] = "aborted" \/ pc'[c] = pc[c]
    BY <2>1 DEF SyncDestroy, Free
  <2>3. pc'[c] # "aborted"
    BY CallStep DEF HddInv, JobInv, JobRow, PcRow
  <2> QED BY <2>2, <2>3
<1>7. CASE CreateStart(c) \/ StartNow(c) \/ StartOp(c) \/ Start(c)
  <2>1. pc[c] = "idle"
    BY <1>7 DEF CreateStart, StartNow, SyncTransStart, StartOp, SyncOpStart, Start,
                SyncTransStartWait, TransStart, OpStart, TransStartWait
  <2> QED BY <1>7, <2>1
<1>8. CASE Granted(c) \/ Draining(c)
  <2>1. WaitGranted(c) \/ Wake(c) \/ Drained(c) \/ \E n \in Node : VisitQuiet(c, n) \/ VisitBusy(c, n)
    BY <1>8 DEF Granted, Draining
  <2> QED BY <2>1 DEF HddInv, Core, TypeOK, WaitGranted, Wake, Drained, VisitQuiet, VisitBusy
<1>9. CASE Wait(c)
  <2>1. PICK n : WaitForOps(c, n)
    BY <1>9 DEF Wait
  <2> QED BY <1>9, <2>1 DEF HddInv, Core, TypeOK, WaitForOps
<1>10. CASE MarkUnloading(c)
  BY <1>1, <1>10 DEF MarkUnloading
<1>11. CASE Stop(c)
  <2>1. CASE TransStop(c)
    <3>1. pc[c] # "idle" /\ pc'[c] = "idle"
      BY <2>1, InsideStop DEF TransStop, HddInv
    <3> QED BY <1>11, <3>1
  <2>2. CASE ~TransStop(c)
    BY <1>1, <1>11, <2>2 DEF Stop, vars
  <2> QED BY <2>1, <2>2
<1>12. CASE StopOp(c)
  <2>1. pc[c] = "op"
    BY <1>12 DEF StopOp, OpStop
  <2> QED BY <1>12, <2>1
<1> QED BY <1>3, <1>4, <1>5, <1>6, <1>7, <1>8, <1>9, <1>10, <1>11, <1>12 DEF Step

\* A context of a radio is left still by all who do not start or wait on it.
LEMMA StillKept ==
  ASSUME Core, [Next]_vars, NEW p \in Psoc, Still(p),
         \A e \in Caller : pc[e] = "idle" /\ pc'[e] # "idle" => at'[e] # p,
         \A e \in Caller : \A n : WaitForOps(e, n) => p \notin Subtree(n)
  PROVE  Still(p)'
<1>0. /\ p \in Node /\ ops[p] = {} /\ active[p] = None /\ queue[p] = <<>>
      /\ \A d \in Caller : p \notin todo[d]
  BY Tree DEF Still, ActiveOrQueued, Active, Queued
<1>1. SUFFICES /\ ops'[p] = {} /\ active'[p] = None /\ queue'[p] = <<>>
               /\ \A d \in Caller : p \notin todo'[d]
  BY DEF Still, ActiveOrQueued, Active, Queued
<1>2. CASE UNCHANGED vars
  BY <1>0, <1>2 DEF vars
<1>3. ASSUME NEW c \in Caller, NEW n \in Node,
             TransStart(c, n) \/ TransStartWait(c, n) \/ OpStart(c, n)
      PROVE  /\ ops'[p] = {} /\ active'[p] = None /\ queue'[p] = <<>>
             /\ \A d \in Caller : p \notin todo'[d]
  <2>1. pc[c] = "idle" /\ pc'[c] # "idle" /\ at'[c] = n
    BY <1>3 DEF TransStart, TransStartWait, OpStart, Core, TypeOK
  <2>2. n # p
    BY <2>1
  <2> QED BY <1>0, <1>3, <2>2 DEF TransStart, TransStartWait, OpStart, Core, TypeOK
<1>4. ASSUME NEW c \in Caller, NEW n \in Node, Destroy(c, n)
      PROVE  /\ ops'[p] = {} /\ active'[p] = None /\ queue'[p] = <<>>
             /\ \A d \in Caller : p \notin todo'[d]
  BY <1>0, <1>4 DEF Destroy, Free, Core, TypeOK
<1>5. ASSUME NEW c \in Caller, TransStop(c)
      PROVE  /\ ops'[p] = {} /\ active'[p] = None /\ queue'[p] = <<>>
             /\ \A d \in Caller : p \notin todo'[d]
  <2>1. pc[c] \in {"holding", "drained"} /\ Owns(c)
    BY <1>5 DEF TransStop, Owns
  <2>2. at[c] \in Node /\ Active(at[c])
    <3>1. at[c] \in Subtree(at[c])
      BY DEF Subtree
    <3> QED BY <2>1, <3>1, OwnersSubtree
  <2>3. p \notin Triggers(at[c])
    BY <1>0, <2>2, TriggersSound DEF Core, Queued
  <2> QED BY <1>0, <1>5, <2>3 DEF TransStop
<1>6. ASSUME NEW c \in Caller, WaitGranted(c) \/ WaitAborted(c) \/ OpStop(c)
      PROVE  /\ ops'[p] = {} /\ active'[p] = None /\ queue'[p] = <<>>
             /\ \A d \in Caller : p \notin todo'[d]
  <2>1. CASE OpStop(c)
    BY <1>0, <2>1 DEF OpStop, Core, TypeOK
  <2> QED BY <1>0, <1>6, <2>1 DEF WaitGranted, WaitAborted
<1>7. ASSUME NEW c \in Caller, Drain(c)
      PROVE  /\ ops'[p] = {} /\ active'[p] = None /\ queue'[p] = <<>>
             /\ \A d \in Caller : p \notin todo'[d]
  <2>1. UNCHANGED <<ops, active, queue>>
    BY <1>7 DEF Drain, Wake, Drained, WaitForOps, VisitQuiet, VisitBusy
  <2>2. CASE Wake(c) \/ Drained(c) \/ \E n \in Node : VisitQuiet(c, n) \/ VisitBusy(c, n)
    <3>1. \A d \in Caller : todo'[d] \subseteq todo[d]
      BY <2>2 DEF Wake, Drained, VisitQuiet, VisitBusy, Core, TypeOK
    <3> QED BY <1>0, <2>1, <3>1
  <2>3. CASE \E n \in Node : WaitForOps(c, n)
    <3>1. PICK n \in Node : WaitForOps(c, n)
      BY <2>3
    <3>2. p \notin Subtree(n)
      BY <3>1
    <3> QED BY <1>0, <2>1, <3>1, <3>2 DEF WaitForOps, Core, TypeOK
  <2> QED BY <1>7, <2>2, <2>3 DEF Drain
<1>8. CASE (\E n \in Node : Create(n)) \/ SetRecovering \/ SetUnloading
  BY <1>0, <1>8 DEF Create, SetRecovering, SetUnloading
<1> QED BY <1>2, <1>3, <1>4, <1>5, <1>6, <1>7, <1>8 DEF Next, Proceed

----------------------------------------------------------------------------
(* The contract is kept for ever. *)

\* Where the entry of a radio is a thread's own.
LEMMA OwnRadio ==
  ASSUME HddInv, NEW c \in Caller, Owner(c), job[c] \in {"probe", "probe_fail", "unload"}
  PROVE  /\ sync[c] \in Mine(c) /\ sync[c] \in PsocSync /\ sync[c] \in Loose
         /\ sync[c] \in inUse /\ key[sync[c]] = None
         /\ ctx[sync[c]] \in Psoc /\ ctx[sync[c]] \in attached /\ PlatformCall(c)
<1>1. sync[c] \in PsocSync /\ sync[c] \in Mine(c)
  BY DEF HddInv, SyncInv, OwnInv, OwnKind, Mine, Sync
<1>2. sync[c] \in Loose /\ sync[c] \in inUse /\ key[sync[c]] = None
  BY <1>1, MineIsLoose DEF Loose
<1>3. ctx[sync[c]] \in attached /\ ctx[sync[c]] # Driver /\ ctx[sync[c]] \in Node
  BY <1>2, EntryContext
<1>4. ctx[sync[c]] \in Psoc
  BY <1>1, <1>3 DEF HddInv, SyncInv, RegType, Node
<1>5. PlatformCall(c)
  BY PlatformCalls DEF HddInv, Owner
<1> QED BY <1>1, <1>2, <1>3, <1>4, <1>5

LEMMA QuietOwns ==
  ASSUME NEW c \in Caller, QuietAt(c)
  PROVE  Owner(c) /\ job[c] \in {"probe", "probe_fail", "unload"} /\ BareAt(c)
BY DEF QuietAt, Owner, BareAt

LEMMA OnePlatform ==
  ASSUME HddInv, NEW c \in Caller, NEW d \in Caller, PlatformCall(c), PlatformCall(d)
  PROVE  c = d
BY DEF HddInv, JobInv

\* Nobody else comes to a context that has only to be destroyed.
LEMMA NobodyComes ==
  ASSUME KeepJobs, KeepInv, NEW c \in Caller, Step(c), NEW a \in Caller, a # c, QuietAt(a),
         NEW e \in Caller, pc[e] = "idle", pc'[e] # "idle"
  PROVE  at'[e] # ctx[sync[a]]
<1>1. HddInv /\ JobsRun /\ Core /\ Bare
  BY DEF KeepInv, CallInv, HddInv
<1>2. /\ sync[a] \in PsocSync /\ sync[a] \in inUse /\ key[sync[a]] = None
      /\ ctx[sync[a]] \in Psoc /\ PlatformCall(a)
  BY <1>1, QuietOwns, OwnRadio
<1>3. e = c
  BY <1>1, Effects DEF OthersInside
<1>4. CreateStart(c) \/ StartNow(c) \/ StartOp(c) \/ Start(c)
  BY <1>1, <1>3, Enters
<1>5. ~PlatformCall(c)
  BY <1>1, <1>2, OnePlatform
<1>6. job[c] \notin {"add", "del"}
  BY <1>1, KeptJobs DEF KeepInv
<1>7. ~CreateStart(c)
  <2>1. CASE CreateStart(c)
    <3>1. job[c] = "probe"
      BY <1>1, <1>6, <2>1, Position, Where DEF CreateStart, Calls, HddInv
    <3> QED BY <1>1, <1>5, <3>1, PlatformCalls DEF HddInv
  <2> QED BY <2>1
<1>8. CASE StartNow(c) \/ StartOp(c)
  <2>1. job[c] # None
    BY <1>8 DEF StartNow, StartOp, Calls, At
  <2>2. dev[c] # None
    BY <2>1 DEF KeepInv, HasDevice
  <2>3. PICK s \in Lookup(dev[c]) : TransStart(c, ctx[s]) \/ OpStart(c, ctx[s])
    BY <1>8 DEF StartNow, StartOp, SyncTransStart, SyncOpStart
  <2>4. s \in inUse /\ s # sync[a]
    BY <1>2, <2>2 DEF Lookup
  <2>5. ctx[s] # ctx[sync[a]]
    BY <1>1, <1>2, <2>4 DEF HddInv, SyncInv, RegistrySound
  <2>6. at'[c] = ctx[s]
    BY <1>1, <2>3 DEF TransStart, OpStart, Core, TypeOK
  <2> QED BY <1>3, <2>5, <2>6
<1>9. CASE Start(c)
  <2>1. at'[c] = ptr[c]
    BY <1>1, <1>9 DEF Start, SyncTransStartWait, TransStart, TransStartWait, Core, TypeOK
  <2>2. \/ job[c] = "unload" /\ step[c] \in {2, 8}
        \/ job[c] = "shutdown" /\ step[c] = 4
        \/ job[c] = "mode" /\ step[c] = 2
    BY <1>1, <1>6, <1>9, Position, Where DEF Start, Calls, HddInv
  <2>3. job[c] \in {"unload", "mode"} /\ step[c] = 2
    BY <1>1, <1>5, <2>2, PlatformCalls DEF HddInv
  <2>4. ptr[c] = Driver
    BY <1>1, <2>3, RowOf DEF PlaceRow
  <2> QED BY <1>2, <1>3, <2>1, <2>4, Tree
<1> QED BY <1>4, <1>7, <1>8, <1>9

LEMMA NobodyWalks ==
  ASSUME KeepJobs, KeepInv, NEW c \in Caller, Step(c), NEW a \in Caller, a # c, QuietAt(a),
         Still(ctx[sync[a]]), NEW e \in Caller, NEW n, WaitForOps(e, n)
  PROVE  ctx[sync[a]] \notin Subtree(n)
<1> DEFINE p == ctx[sync[a]]
<1> SUFFICES ASSUME p \in Subtree(n)
             PROVE  FALSE
  OBVIOUS
<1>1. HddInv /\ Core /\ Bare /\ DriverRow
  BY DEF KeepInv, CallInv, HddInv
<1>2. p \in Psoc /\ BareAt(a)
  BY <1>1, QuietOwns, OwnRadio
<1> HIDE DEF p
<1>3. pc[e] \in {"holding", "drained"} /\ pc'[e] = "draining" /\ n \in Subtree(at[e])
  BY <1>1, InsideWait DEF WaitForOps, Subtree
<1>4. e = c /\ Wait(c)
  <2>1. e = c
    BY <1>1, <1>3, Effects DEF OthersInside
  <2> QED BY <1>1, <1>3, <2>1, Enters
<1>5. Owns(c) /\ at[c] \in Node /\ Active(at[c]) /\ n \in Node
  <2>1. Owns(c)
    BY <1>3, <1>4 DEF Owns
  <2> QED BY <1>1, <1>3, <1>4, <2>1, OwnersSubtree
<1>6. p \in Subtree(at[c])
  BY <1>3, <1>4, <1>5, SubtreeNested
<1>7. at[c] = p \/ at[c] = Driver
  BY <1>2, <1>6, Tree DEF Subtree, Below
<1>8. at[c] # p
  BY <1>5 DEF Still, ActiveOrQueued, p
<1>9. (job[c] = "unload" /\ step[c] \in 3..4) \/ job[c] \in {"mode", "mode_fail"}
  BY <1>1, <1>7, <1>8 DEF DriverRow
<1>10. job[c] \notin {"mode", "mode_fail"}
  BY <1>1, <1>2 DEF Bare, Modal
<1>11. job[c] = "unload" => step[c] \in {10, 13}
  BY <1>1, <1>4, Position, Where DEF Wait, Calls, HddInv
<1> QED BY <1>9, <1>10, <1>11

LEMMA RestingStep ==
  ASSUME KeepJobs, KeepInv, [Next]_vars, NEW c \in Caller, Step(c)
  PROVE  Resting'
<1>1. HddInv /\ HddInv' /\ JobsRun /\ Core
  BY CallStep DEF KeepInv, CallInv, HddInv
<1> SUFFICES ASSUME NEW a \in Caller, QuietAt(a)'
             PROVE  Still(ctx[sync[a]])'
  BY DEF Resting
<1>2. CASE a # c
  <2> DEFINE p == ctx[sync[a]]
  <2>1. QuietAt(a)
    BY <1>1, <1>2, Hops DEF Hop, QuietAt
  <2>2. Still(p)
    BY <2>1 DEF KeepInv, Resting
  <2>3. sync'[a] = sync[a]
    BY <1>1, <1>2, OthersSync
  <2>4. /\ sync[a] \in PsocSync /\ sync[a] \in inUse /\ sync[a] \in Mine(a)
        /\ p \in Psoc /\ PlatformCall(a)
    BY <1>1, <2>1, QuietOwns, OwnRadio
  <2>5. ctx'[sync[a]] = ctx[sync[a]]
    <3>1. CASE CreateStartFails(c) \/ DestroySync(c)
      <4>1. QuietAt(c)
        BY <3>1, RadioMayDestroy
      <4>2. PlatformCall(c)
        BY <1>1, <4>1, QuietOwns, OwnRadio
      <4> QED BY <1>1, <1>2, <2>4, <4>2, OnePlatform
    <3>2. CASE CloseDestroy(c)
      <4>1. vsync[c] \notin PsocSync
        BY <1>1, RowOf, SyncAssumption DEF JobTypes
      <4> QED BY <1>1, <2>4, <3>2, <4>1 DEF CloseDestroy, SyncDestroy, HddInv, SyncInv, RegType, Sync
    <3> QED BY <1>1, <2>4, <3>1, <3>2, EntriesStay DEF Destroys
  <2>6. \A e \in Caller : pc[e] = "idle" /\ pc'[e] # "idle" => at'[e] # p
    BY <1>2, <2>1, NobodyComes
  <2>7. \A e \in Caller : \A n : WaitForOps(e, n) => p \notin Subtree(n)
    BY <1>2, <2>1, <2>2, NobodyWalks
  <2>8. PICK q \in Psoc : q = p
    BY <2>4
  <2>9. Still(q)'
    BY <1>1, <2>2, <2>6, <2>7, <2>8, StillKept
  <2>10. ctx'[sync'[a]] = q
    BY <2>3, <2>5, <2>8
  <2> QED BY <2>9, <2>10 DEF Still, ActiveOrQueued, Active, Queued
<1>3. CASE a = c /\ job[c] = "probe" /\ CreateSync(c)
  <2>1. PICK s \in Sync, n \in Psoc : PsocSyncCreate(s, n) /\ Use(c, s)
    BY <1>3 DEF CreateSync
  <2>2. sync'[c] = s /\ ctx'[s] = n
    BY <1>1, <2>1, RowOf DEF Use, PsocSyncCreate, JobTypes, HddInv, SyncInv, RegType
  <2>3. Create(n) /\ n \in Node \ attached
    BY <2>1 DEF PsocSyncCreate, Create
  <2>4. ~ActiveOrQueued(n) /\ ops[n] = {} /\ \A d \in Caller : n \notin todo[d]
    BY <2>3 DEF KeepInv, DrainInv, DetachedQuiet, TodoAccounting
  <2>5. UNCHANGED <<active, queue, ops, todo>>
    BY <2>3 DEF Create
  <2> QED BY <1>3, <2>2, <2>4, <2>5 DEF Still, ActiveOrQueued, Active, Queued
<1>4. CASE /\ a = c /\ Stop(c) /\ sync'[c] = sync[c]
           /\ (job[c] = "unload" /\ step[c] = 18) \/ (job[c] = "probe_fail" /\ step[c] = 3)
  <2> DEFINE p == ctx[sync[c]]
  <2>1. InTrans(c) /\ Owner(c) /\ WaitedAt(c) /\ ~Barred(c) /\ ~MayWait(c)
        /\ job[c] \in {"probe", "probe_fail", "unload"}
    BY <1>4 DEF InTrans, Owner, WaitedAt, Barred, MayWait
  <2>2. TransStop(c)
    BY <1>1, <1>4, <2>1, RowOf DEF Stop, PcRow
  <2>3. pc[c] = "drained"
    BY <2>1, <2>2 DEF TransStop, KeepInv, Waited
  <2>4. sync[c] \in Mine(c) /\ p \in Psoc /\ PlatformCall(c)
    BY <1>1, <2>1, OwnRadio
  <2>5. at[c] = p
    <3>1. at[c] \in Psoc
      BY <1>1, <1>4, RowOf DEF PlaceRow, KeepInv, OnRadio, RadioAt
    <3> QED BY <2>4, <3>1, OneRadio
  <2>6. p' = p
    BY <1>4 DEF Stop, syncVars
  <2> HIDE DEF p
  <2>7. p \in Node /\ p \in Subtree(p)
    BY <2>4, Tree DEF Subtree
  <2>8. Owns(c) /\ Active(p)
    <3>1. Owns(c)
      BY <2>3 DEF Owns
    <3> QED BY <1>1, <2>5, <2>7, <3>1, OwnersSubtree
  <2>9. ops[p] = {} /\ todo[c] = {}
    BY <2>3, <2>5, <2>7 DEF KeepInv, DrainInv, VisitedQuiet, TodoAccounting
  <2>10. queue[p] = <<>>
    <3> SUFFICES ASSUME queue[p] # <<>>
                 PROVE  FALSE
      OBVIOUS
    <3>1. queue[p] \in Seq(Caller)
      BY <1>1, <2>7 DEF Core, TypeOK
    <3>2. 1 \in DOMAIN queue[p] /\ queue[p][1] \in Caller
      BY <3>1, HeadTail
    <3>3. pc[queue[p][1]] = "queued" /\ at[queue[p][1]] = p
      BY <1>1, <2>7, <3>2 DEF Core, TypeOK, QueueAccounting
    <3> QED BY <1>1, <2>1, <2>4, <3>2, <3>3, NobodyWaits DEF p
  <2>11. \A d \in Caller : p \notin todo[d]
    <3> SUFFICES ASSUME NEW d \in Caller, p \in todo[d]
                 PROVE  FALSE
      OBVIOUS
    <3>1. pc[d] \in {"draining", "sleeping"} /\ p \in Subtree(at[d])
      BY DEF KeepInv, DrainInv, TodoAccounting
    <3>2. Owns(d)
      BY <3>1 DEF Owns
    <3>3. c = d
      BY <1>1, <2>5, <2>7, <2>8, <3>1, <3>2, OneDrainer
    <3> QED BY <2>9, <3>3
  <2>12. p \notin Triggers(p)
    BY <1>1, <2>7, <2>8, <2>10, TriggersSound DEF Core, Queued
  <2>13. active'[p] = None /\ queue'[p] = <<>> /\ ops'[p] = {} /\ todo' = todo
    BY <2>2, <2>5, <2>7, <2>9, <2>10, <2>12 DEF TransStop
  <2>14. ctx'[sync'[a]] = p
    BY <1>4, <2>6 DEF p
  <2> QED BY <2>11, <2>13, <2>14 DEF Still, ActiveOrQueued, Active, Queued
<1> QED BY <1>1, <1>2, <1>3, <1>4, QuietComes

LEMMA HasDeviceStep ==
  ASSUME HddInv, HasDevice, NEW c \in Caller, Step(c)
  PROVE  HasDevice'
<1>1. None \notin {"probe", "add", "mode", "idle", "shutdown"}
  BY NoJob DEF Job
<1> QED BY <1>1, Hops DEF Hop, HasDevice

LEMMA WaitedStep ==
  ASSUME HddInv, Waited, NEW c \in Caller, Step(c)
  PROVE  Waited'
<1> SUFFICES ASSUME NEW a \in Caller, WaitedAt(a)'
             PROVE  pc'[a] \in {"draining", "sleeping", "drained"}
  BY DEF Waited
<1>1. CASE a # c
  <2>1. WaitedAt(a)
    BY <1>1, Hops DEF Hop, WaitedAt
  <2> QED BY <1>1, <2>1, Effects DEF OthersInside, Waited
<1>2. CASE a = c
  <2>1. CASE Wait(c)
    <3>1. PICK n : WaitForOps(c, n)
      BY <2>1 DEF Wait
    <3> QED BY <1>2, <3>1, InsideWait DEF HddInv
  <2>2. CASE WaitedAt(c) /\ ~Stop(c) /\ ~StopOp(c)
    BY <1>2, <2>2, Enters DEF Waited
  <2> QED BY <1>2, <2>1, <2>2, WaitedComes
<1> QED BY <1>1, <1>2

LEMMA OnRadioStep ==
  ASSUME HddInv, OnRadio, NEW c \in Caller, Step(c)
  PROVE  OnRadio'
<1> SUFFICES ASSUME NEW a \in Caller, RadioAt(a)'
             PROVE  at'[a] \in Psoc
  BY DEF OnRadio
<1>1. CASE a # c
  <2>1. RadioAt(a)
    BY <1>1, Hops DEF Hop, RadioAt
  <2> QED BY <1>1, <2>1, Effects DEF OthersInside, OnRadio
<1>2. CASE a = c /\ job[c] = "probe" /\ step[c] = 2 /\ CreateStart(c)
  <2>1. ctx[sync[c]] \in Psoc
    BY <1>2, OwnRadio DEF Owner
  <2>2. at'[c] = ctx[sync[c]]
    BY <1>2 DEF CreateStart, TransStart, HddInv, Core, TypeOK
  <2> QED BY <1>2, <2>1, <2>2
<1>3. CASE a = c /\ RadioAt(c) /\ ~Stop(c) /\ ~StopOp(c)
  <2>1. pc[c] # "idle"
    BY <1>3, RowOf DEF RadioAt, InTrans, PcRow
  <2> QED BY <1>3, <2>1, Effects DEF Effect, OnRadio
<1> QED BY <1>1, <1>2, <1>3, RadioComes

LEMMA ProbesFailStep ==
  ASSUME HddInv, ProbesFail, NEW c \in Caller, Step(c)
  PROVE  ProbesFail'
<1> SUFFICES ASSUME NEW a \in Caller, job'[a] = "probe_fail", job[a] # "probe_fail"
             PROVE  "probe_fail" \in Jobs
  BY DEF ProbesFail
<1>0. None # "probe_fail"
  BY NoJob DEF Job
<1>1. a = c
  BY Hops DEF Hop
<1>2. job[c] \in {"probe", "add", "mode", "idle"} /\ job'[c] = FailOf[job[c]]
      /\ (Work(c) \/ Validate(c) \/ StartNowRefused(c))
  BY <1>0, <1>1, Courses DEF Course
<1>3. job[c] = "probe"
  BY <1>1, <1>2 DEF FailOf
<1>4. Work(c) /\ step[c] = 4
  BY <1>2, <1>3, Position, Where DEF Work, Validate, StartNowRefused, Calls, HddInv
<1>5. ~Advance(c)
  <2>1. job[c] \in Job /\ ~Last(c)
    BY <1>3, <1>4 DEF Job, Last
  <2> QED BY <1>1, <2>1, GoesOn
<1> QED BY <1>3, <1>4, <1>5 DEF Work, FailOf

LEMMA RootedStep ==
  ASSUME Rooted, Core, [Next]_vars
  PROVE  Rooted'
<1>1. CASE \E n \in Node : Create(n)
  BY <1>1 DEF Create, Rooted
<1>2. CASE \E c \in Caller, n \in Node : Destroy(c, n)
  <2>1. PICK c \in Caller, n \in Node : Destroy(c, n)
    BY <1>2
  <2>2. attached' = attached \ {n} /\ Below(n) \cap attached = {}
    BY <2>1 DEF Destroy, Free, MayDestroy
  <2>3. \A m \in attached : n \in Ancestors(m) => m \in Below(n)
    BY DEF Below, Core, TypeOK
  <2> QED BY <2>2, <2>3 DEF Rooted
<1>3. CASE attached' = attached
  BY <1>3 DEF Rooted
<1>4. attached' = attached \/ (\E n \in Node : Create(n)) \/ \E c \in Caller, n \in Node : Destroy(c, n)
  BY DEF Next, vars, TransStart, TransStartWait, OpStart, Proceed, WaitGranted, WaitAborted,
         TransStop, OpStop, Drain, Wake, Drained, WaitForOps, VisitQuiet, VisitBusy,
         SetRecovering, SetUnloading
<1> QED BY <1>1, <1>2, <1>3, <1>4

\* A mode change goes on in its job, or fails.
LEMMA ModalStays ==
  ASSUME HddInv, NEW c \in Caller, Step(c), NEW d \in Caller, Modal(d)'
  PROVE  Modal(d)
<1>0. None \notin {"mode", "mode_fail"}
  BY NoJob DEF Job
<1> QED BY <1>0, Hops DEF Hop, Modal, FailOf

LEMMA ModeFindsStep ==
  ASSUME KeepJobs, KeepInv, NEW c \in Caller, Step(c)
  PROVE  ModeFinds'
<1>1. HddInv /\ HddInv'
  BY CallStep DEF KeepInv, CallInv
<1> SUFFICES ASSUME NEW d \in Caller, Modal(d)'
             PROVE  Psoc \cap attached' # {}
  BY DEF ModeFinds
<1>2. Modal(d)
  BY <1>1, ModalStays
<1>3. PICK p \in Psoc : p \in attached
  BY <1>2 DEF KeepInv, ModeFinds
<1>4. PICK s \in inUse : ctx[s] = p
  BY <1>1, <1>3, Tree DEF HddInv, SyncInv, RegistrySound
<1>5. ~CreateStartFails(c) /\ ~DestroySync(c)
  BY <1>2, RadioMayDestroy DEF KeepInv, Bare
<1>6. s \in inUse' /\ ctx'[s] = p
  <2>1. CASE CloseDestroy(c)
    <3>1. vsync[c] # s
      <4>1. vsync[c] \in VdevSync \cup {None}
        BY <1>1, RowOf DEF JobTypes
      <4>2. s \in Sync /\ s \notin VdevSync
        BY <1>1, <1>3, <1>4 DEF HddInv, SyncInv, RegType
      <4> QED BY <4>1, <4>2, SyncAssumption DEF Sync
    <3>2. s \in Sync
      BY <1>1 DEF HddInv, SyncInv, RegType
    <3> QED BY <1>1, <1>4, <2>1, <3>1, <3>2 DEF CloseDestroy, SyncDestroy, HddInv, SyncInv, RegType
  <2>2. CASE ~CloseDestroy(c)
    BY <1>1, <1>4, <1>5, <2>2, EntriesStay DEF Destroys
  <2> QED BY <2>1, <2>2
<1>7. p \in attached'
  BY <1>1, <1>6 DEF HddInv, SyncInv, RegistrySound
<1> QED BY <1>3, <1>7

\* The interfaces are closed and only this thread could open one.
LEMMA BareStep ==
  ASSUME KeepJobs, KeepInv, NEW c \in Caller, Step(c)
  PROVE  Bare'
<1>1. HddInv /\ JobsRun /\ ProbesFail /\ Removed
  BY DEF KeepInv, CallInv
<1>2. job[c] \notin {"add", "add_fail", "del"}
  BY <1>1, KeptJobs
<1> SUFFICES ASSUME NEW a \in Caller, BareAt(a)'
             PROVE  VdevSync \cap inUse' = {} /\ \A d \in Caller : ~Modal(d)'
  BY DEF Bare
<1>3. CASE BareAt(a)
  <2>1. VdevSync \cap inUse = {} /\ \A d \in Caller : ~Modal(d)
    BY <1>3 DEF KeepInv, Bare
  <2>2. \A d \in Caller : ~Modal(d)'
    BY <1>1, <2>1, ModalStays
  <2>3. PlatformCall(a)
    BY <1>1, <1>3, PlatformCalls DEF HddInv, BareAt
  <2>4. CASE CreateSync(c)
    <3>1. job[c] = "probe"
      BY <1>1, <1>2, <2>4, Position, Where DEF CreateSync, Calls, HddInv
    <3>2. PICK s \in Sync, n \in Psoc : PsocSyncCreate(s, n)
      BY <2>4, <3>1 DEF CreateSync
    <3> QED BY <2>1, <2>2, <3>2, SyncAssumption DEF PsocSyncCreate
  <2>5. ~Open(c)
    <3>1. CASE Open(c)
      <4>1. job[c] = "probe" /\ step[c] = 6
        BY <1>1, <2>1, <3>1, Position, Where DEF Open, Calls, HddInv, Modal
      <4>2. PlatformCall(c)
        BY <1>1, <4>1, PlatformCalls DEF HddInv
      <4>3. a = c
        BY <1>1, <2>3, <4>2, OnePlatform
      <4> QED BY <1>3, <4>1, <4>3 DEF BareAt
    <3> QED BY <3>1
  <2>6. CASE ~CreateSync(c)
    BY <1>1, <2>1, <2>2, <2>5, <2>6, EntriesCome
  <2> QED BY <2>4, <2>6
<1>4. CASE ~BareAt(a)
  <2>1. a = c
    BY <1>1, <1>4, Hops DEF Hop, BareAt
  <2>2. \/ job[c] = "unload" /\ step[c] = 12 /\ job'[c] = "unload" /\ CloseNoMore(c)
        \/ job[c] = "probe" /\ step[c] = 1 /\ CreateSync(c)
    BY <1>1, <1>4, <2>1, BareComes DEF KeepJobs
  <2>3. CASE job[c] = "unload" /\ step[c] = 12 /\ CloseNoMore(c)
    <3>1. \A d \in Caller : ~Modal(d)
      BY <1>1, <2>3, KeptJobs
    <3>2. PlatformCall(c)
      BY <1>1, <2>3, PlatformCalls DEF HddInv
    <3>3. ASSUME NEW s \in VdevSync \cap inUse PROVE FALSE
      <4>1. s \in Loose
        BY <2>3 DEF CloseNoMore, Loose
      <4>2. PICK e \in Caller : s \in Mine(e)
        BY <1>1, <4>1, MineIsLoose
      <4>3. ~(Owner(e) /\ s = sync[e])
        <5>1. job[e] \notin {"add", "add_fail", "del"}
          BY <1>1, KeptJobs
        <5> QED BY <1>1, <5>1, SyncAssumption DEF HddInv, SyncInv, OwnInv, OwnKind
      <4>4. s = vsync[e] /\ vsync[e] # None
        BY <4>2, <4>3, SyncAssumption DEF Mine
      <4>5. Barred(e) \/ Closes(e) \/ Opens(e)
        BY <1>1, <4>4, RowOf DEF JobRow
      <4>6. job[e] \in {"unload", "probe", "mode"}
        BY <4>5 DEF Barred, Closes, Opens
      <4>7. job[e] # "unload"
        BY <1>1, <2>3, <4>5 DEF Removed, Barred, Closes, Opens
      <4>8. job[e] # "probe"
        BY <1>1, <2>3, <3>2, OnePlatform, PlatformCalls DEF HddInv
      <4> QED BY <3>1, <4>6, <4>7, <4>8 DEF Modal
    <3>4. inUse' = inUse
      BY <2>3 DEF CloseNoMore, syncVars
    <3> QED BY <1>1, <3>1, <3>3, <3>4, ModalStays
  <2>4. CASE job[c] = "probe" /\ CreateSync(c)
    <3>1. PICK s \in Sync, n \in Psoc : PsocSyncCreate(s, n)
      BY <2>4 DEF CreateSync
    <3>2. s \in PsocSync /\ inUse' = inUse \cup {s} /\ n \notin attached
      BY <3>1 DEF PsocSyncCreate, Create
    <3>3. Psoc \cap attached = {}
      BY <3>2, OneRadio
    <3>4. \A d \in Caller : ~Modal(d)
      BY <3>3 DEF KeepInv, ModeFinds
    <3>5. ASSUME NEW t \in VdevSync \cap inUse PROVE FALSE
      <4>1. ctx[t] \in attached /\ ctx[t] # Driver /\ ctx[t] \in Node
        BY <1>1, EntryContext
      <4>2. ctx[t] \in Vdev
        BY <1>1, <4>1 DEF HddInv, SyncInv, RegType, Node
      <4>3. PsocOf[ctx[t]] \in attached /\ PsocOf[ctx[t]] \in Psoc
        BY <4>1, <4>2, Tree DEF KeepInv, Rooted
      <4> QED BY <3>3, <4>3
    <3> QED BY <1>1, <3>2, <3>4, <3>5, ModalStays, SyncAssumption
  <2> QED BY <2>2, <2>3, <2>4
<1> QED BY <1>3, <1>4

LEMMA KeepInit == HddInit => KeepInv
<1> SUFFICES ASSUME HddInit
             PROVE  KeepInv
  OBVIOUS
<1>1. CallInv /\ DrainInv
  BY CallInvInit, DrainInit DEF HddInit
<1>2. \A c \in Caller : job[c] = None
  BY DEF HddInit
<1>3. None \notin Job
  BY NoJob
<1>4. HasDevice /\ Waited /\ OnRadio /\ ProbesFail /\ Bare /\ ModeFinds /\ Resting
  BY <1>2, <1>3 DEF HasDevice, Waited, WaitedAt, OnRadio, RadioAt, ProbesFail, Bare, BareAt,
                    ModeFinds, Modal, Resting, QuietAt, Job
<1>5. Rooted
  BY Tree DEF Rooted, HddInit, Init
<1> QED BY <1>1, <1>4, <1>5 DEF KeepInv

LEMMA KeepCall ==
  ASSUME KeepJobs, KeepInv, NEW c \in Caller, Step(c)
  PROVE  KeepInv'
<1>1. HddInv /\ Core
  BY DEF KeepInv, CallInv, HddInv
<1>2. [Next]_vars
  BY KeepsStep
<1>3. CallInv'
  <2>1. HddNext
    BY DEF HddNext
  <2> QED BY <2>1, CallInvStep DEF KeepInv
<1>4. DrainInv'
  BY <1>2, DrainStep DEF KeepInv
<1>5. HasDevice' /\ Waited' /\ OnRadio' /\ ProbesFail'
  BY <1>1, HasDeviceStep, WaitedStep, OnRadioStep, ProbesFailStep DEF KeepInv
<1>6. Bare' /\ ModeFinds'
  BY BareStep, ModeFindsStep
<1>7. Resting'
  BY <1>2, RestingStep
<1>8. Rooted'
  BY <1>1, <1>2, RootedStep DEF KeepInv
<1> QED BY <1>3, <1>4, <1>5, <1>6, <1>7, <1>8 DEF KeepInv

LEMMA KeepBegin ==
  ASSUME KeepJobs, KeepInv, NEW b \in Caller, NEW j \in Called, NEW k \in Dev \cup NetDev,
         Begin(b, j, k)
  PROVE  KeepInv'
<1>1. HddInv /\ JobsRun /\ ProbesFail
  BY DEF KeepInv, CallInv
<1>2. UNCHANGED <<vars, syncVars, sync>> /\ Goto(b, j, 1) /\ dev' = [dev EXCEPT ![b] = k]
  BY DEF Begin
<1>3. /\ job'[b] = j /\ step'[b] = 1 /\ dev'[b] = k
      /\ \A d \in Caller : d # b => job'[d] = job[d] /\ step'[d] = step[d] /\ dev'[d] = dev[d]
  BY <1>1, <1>2, RowOf DEF Goto, JobTypes
<1>4. /\ attached' = attached /\ active' = active /\ queue' = queue /\ ops' = ops /\ pc' = pc
      /\ at' = at /\ todo' = todo /\ inUse' = inUse /\ key' = key /\ ctx' = ctx /\ sync' = sync
  BY <1>2 DEF vars, syncVars
<1>5. j \notin {"probe_fail", "mode_fail"}
  <2>1. "probe" \in DOMAIN FailOf /\ "mode" \in DOMAIN FailOf
        /\ FailOf["probe"] = "probe_fail" /\ FailOf["mode"] = "mode_fail"
    BY DEF FailOf
  <2> QED BY <2>1 DEF Called
<1>6. CallInv'
  <2>1. HddNext
    BY DEF HddNext
  <2> QED BY <2>1, CallInvStep DEF KeepInv
<1>7. DrainInv'
  BY <1>2, DrainStep DEF KeepInv
<1>8. HasDevice'
  BY <1>3, SyncAssumption DEF KeepInv, HasDevice
<1>9. Waited'
  BY <1>3, <1>4, <1>5 DEF KeepInv, Waited, WaitedAt
<1>10. OnRadio'
  BY <1>3, <1>4, <1>5 DEF KeepInv, OnRadio, RadioAt
<1>11. ProbesFail'
  BY <1>3, <1>5 DEF KeepInv, ProbesFail
<1>12. ASSUME NEW d \in Caller, Modal(d)', ~Modal(d)
       PROVE  d = b /\ j = "mode" /\ "mode" \in Jobs /\ \E s \in inUse : key[s] = k /\ k \in Dev
  <2>1. d = b /\ j = "mode"
    BY <1>3, <1>5, <1>12 DEF Modal
  <2>2. Lookup(k) # {} /\ k \in Dev
    BY <2>1 DEF Begin, Subject
  <2> QED BY <2>1, <2>2 DEF Lookup, Called
<1>13. ASSUME NEW s \in inUse, key[s] \in Dev
       PROVE  s \in PsocSync /\ ctx[s] \in Psoc /\ ctx[s] \in attached
  <2>1. s \in PsocSync
    BY <1>1, <1>13 DEF HddInv, SyncInv, RegType, Sync
  <2>2. ctx[s] \in Node /\ ctx[s] \in attached /\ ctx[s] # Driver
    BY <1>1, EntryContext
  <2> QED BY <1>1, <2>1, <2>2 DEF HddInv, SyncInv, RegType, Node
<1>14. ModeFinds'
  <2> SUFFICES ASSUME NEW d \in Caller, Modal(d)'
               PROVE  Psoc \cap attached # {}
    BY <1>4 DEF ModeFinds
  <2>1. CASE Modal(d)
    BY <2>1 DEF KeepInv, ModeFinds
  <2>2. CASE ~Modal(d)
    BY <1>12, <1>13, <2>2
  <2> QED BY <2>1, <2>2
<1>15. Bare'
  <2> SUFFICES ASSUME NEW a \in Caller, BareAt(a)'
               PROVE  VdevSync \cap inUse = {} /\ \A d \in Caller : ~Modal(d)'
    BY <1>4 DEF Bare
  <2>1. BareAt(a) /\ a # b
    BY <1>3, <1>5 DEF BareAt
  <2>2. VdevSync \cap inUse = {} /\ \A d \in Caller : ~Modal(d)
    BY <2>1 DEF KeepInv, Bare
  <2>3. ASSUME NEW d \in Caller, Modal(d)' PROVE FALSE
    <3>1. "mode" \in Jobs /\ \E s \in inUse : key[s] = k /\ k \in Dev
      BY <1>12, <2>2, <2>3
    <3>2. PICK s \in inUse : key[s] = k /\ k \in Dev
      BY <3>1
    <3>3. job[a] \notin {"unload", "probe_fail"}
      BY <1>1, <3>1, KeptJobs
    <3>4. job[a] = "probe" /\ Owner(a)
      BY <2>1, <3>1, <3>3 DEF BareAt, Owner
    <3>5. sync[a] \in inUse /\ key[sync[a]] = None /\ ctx[sync[a]] \in Psoc
      BY <1>1, <3>4, OwnRadio
    <3>6. s # sync[a] /\ ctx[s] = ctx[sync[a]]
      BY <1>13, <3>2, <3>5, SyncAssumption, OneRadio
    <3> QED BY <1>1, <3>2, <3>5, <3>6 DEF HddInv, SyncInv, RegistrySound
  <2> QED BY <2>2, <2>3
<1>16. Resting'
  <2> SUFFICES ASSUME NEW a \in Caller, QuietAt(a)'
               PROVE  Still(ctx[sync[a]])'
    BY DEF Resting
  <2>1. QuietAt(a)
    BY <1>3, <1>5 DEF QuietAt
  <2> QED BY <1>4, <2>1 DEF KeepInv, Resting, Still, ActiveOrQueued, Active, Queued
<1>17. Rooted'
  BY <1>4 DEF KeepInv, Rooted
<1> QED BY <1>6, <1>7, <1>8, <1>9, <1>10, <1>11, <1>14, <1>15, <1>16, <1>17 DEF KeepInv

LEMMA KeepIdle ==
  ASSUME KeepInv, FirmwareDown \/ UNCHANGED hddVars
  PROVE  KeepInv' /\ [Next]_vars
<1>1. /\ UNCHANGED <<attached, active, queue, ops, pc, at, todo, inUse, key, ctx>>
      /\ UNCHANGED <<job, step, dev, sync>>
      /\ [Next]_vars
  BY DEF FirmwareDown, SetRecovering, hddVars, vars, syncVars, jobVars, Next
<1>2. CallInv'
  BY CallInvStep DEF KeepInv, HddNext
<1>3. DrainInv'
  BY <1>1, DrainStep DEF KeepInv
<1>4. HasDevice' /\ Waited' /\ OnRadio' /\ ProbesFail' /\ ModeFinds' /\ Rooted'
  BY <1>1 DEF KeepInv, HasDevice, Waited, WaitedAt, OnRadio, RadioAt, ProbesFail, ModeFinds, Modal,
              Rooted
<1>5. Bare'
  BY <1>1 DEF KeepInv, Bare, BareAt, Modal
<1>6. Resting'
  BY <1>1 DEF KeepInv, Resting, QuietAt, Still, ActiveOrQueued, Active, Queued
<1> QED BY <1>1, <1>2, <1>3, <1>4, <1>5, <1>6 DEF KeepInv

LEMMA KeepStep ==
  ASSUME KeepJobs
  PROVE  KeepInv /\ [HddNext]_hddVars => KeepInv' /\ [Next]_vars
<1> SUFFICES ASSUME KeepInv, [HddNext]_hddVars
             PROVE  KeepInv' /\ [Next]_vars
  OBVIOUS
<1>1. ASSUME NEW c \in Caller, Step(c) PROVE KeepInv' /\ [Next]_vars
  BY <1>1, KeepCall, KeepsStep
<1>2. ASSUME NEW c \in Caller, NEW j \in Called, NEW k \in Dev \cup NetDev, Begin(c, j, k)
      PROVE  KeepInv' /\ [Next]_vars
  BY <1>2, KeepBegin DEF Begin
<1> QED BY <1>1, <1>2, KeepIdle DEF HddNext

\* The contract of the core is kept: what hdd_close_all_adapters, hdd_soc_remove,
\* a failed probe and a failed create free is a context that nobody is in, waits
\* for or walks over.  An interface that is deleted by itself is left out, and an
\* unload or a failed probe where there are mode changes: they destroy after the
\* end of their transition what somebody it let in may walk over.
THEOREM ContractKept ==
  ASSUME KeepJobs
  PROVE  HddSpec => KeepsContract
<1>1. HddInit => KeepInv /\ Init
  BY KeepInit DEF HddInit
<1>2. KeepInv /\ [HddNext]_hddVars => KeepInv' /\ [Next]_vars
  BY KeepStep
<1> QED BY <1>1, <1>2, PTL DEF HddSpec, KeepsContract, Spec

\* ... and so what holds of the core holds of its clients: what they free nobody
\* uses.
THEOREM NothingFreedInUse ==
  ASSUME KeepJobs
  PROVE  HddSpec => []DetachedQuiet
<1>1. Spec => []DetachedQuiet
  BY DscDetachedQuiet
<1>2. HddSpec => Spec
  BY ContractKept DEF KeepsContract
<1> QED BY <1>1, <1>2, PTL

\* Nor does wait_for_ops come to a freed vdev of the list it walks.
THEOREM CursorsLive ==
  ASSUME KeepJobs
  PROVE  HddSpec => []CursorLive
<1>1. DetachedQuiet => CursorLive
  BY DEF DetachedQuiet, CursorLive, NextVisit
<1>2. HddSpec => []DetachedQuiet
  BY NothingFreedInUse
<1> QED BY <1>1, <1>2, PTL
============================================================================
