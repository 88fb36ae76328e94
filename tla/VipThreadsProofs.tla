-------------------------- MODULE VipThreadsProofs --------------------------
(***************************************************************************)
(* What holds of VipThreads for every number of callers, vip_threads,      *)
(* rollback_threads and starts: as long as no rollback_thread has started  *)
(* the virtual IP over a run of it (~defied), the stops and the handlers   *)
(* of one node neither leave the address behind, nor lose it, nor wait for *)
(* each other in a circle.                                                 *)
(***************************************************************************)
EXTENDS VipThreads, TLAPS

-----------------------------------------------------------------------------
(* The invariant *)

JoinLabels == {"join rollback_thread", "joining rollback_thread",
               "join vip_thread", "joining vip_thread", "remove"}
DownLabels == {"go_down"} \cup JoinLabels
UpLabels == {"go_up", "create vip_thread"}
HandlerLabels == {"act", "react", "add", "announce", "observe", "rollback",
                  "create rollback_thread", "rback_stop"}

(* Each kind of thread keeps to its own part of the code.                  *)
Kept(t, label) ==
  /\ t \in Callers => label \in {"ready"} \cup UpLabels \cup DownLabels
  /\ t \in VipThreadIds => label \in {"none", "loop", "ended"} \cup HandlerLabels \cup DownLabels
  /\ t \in RollbackThreadIds =>
       label \in {"none", "sleep", "stop", "pause", "ended"} \cup UpLabels \cup DownLabels

Types ==
  /\ TypeOK
  /\ \A t \in Threads :
       /\ Kept(t, pc[t])
       /\ pc[t] = "joining rollback_thread" => joined[t] \in RollbackThreadIds
       /\ pc[t] = "joining vip_thread" => joined[t] \in VipThreadIds

(* A run of the virtual IP: a thread is about to launch its vip_thread, or *)
(* that thread has not ended.                                              *)
Live(t) == t \in VipThreadIds /\ pc[t] \notin {"none", "ended"}
Upping(t) == t \in Threads /\ pc[t] \in UpLabels

OneRun == \A t, u \in Threads : (Live(t) \/ Upping(t)) /\ (Live(u) \/ Upping(u)) => t = u

(* The node is not RBACK yet, and no rollback_thread goes on to stop it.   *)
Early == \/ state \in {"START", "BACKUP"}
         \/ \E t \in Threads : Upping(t)
         \/ \E v \in VipThreadIds :
              pc[v] \in {"observe", "act", "react", "add", "announce"} \cup DownLabels

Calm == Early => /\ state # "RBACK"
                 /\ \A r \in RollbackThreadIds : pc[r] \notin {"stop"} \cup DownLabels

(* The thread in the handle joins no other rollback_thread.                *)
HandleJoinsItself ==
  rollback_thread # NULL /\ pc[rollback_thread] = "joining rollback_thread"
    => joined[rollback_thread] = rollback_thread

(* No circle of threads that join each other (see NoJoinCycle).            *)
NoCycle == \A circle \in (SUBSET (VipThreadIds \cup RollbackThreadIds)) \ {{}} :
    \E t \in circle : ~Joining(t) \/ joined[t] \notin circle \ {t}

(* A node that is not IDLE has a run.                                      *)
SomeRun == state # "IDLE" => \E t \in Threads : Live(t) \/ Upping(t)

(* A start begins on an IDLE node that nobody stops ...                    *)
GoingUp == \A u \in Threads : pc[u] = "go_up" =>
             state = "IDLE" /\ \A t \in Threads : pc[t] \notin DownLabels

(* ... and if the node is stopped before its vip_thread is launched, stays *)
(* stopped.                                                                *)
Creating == \A u \in Threads :
  pc[u] = "create vip_thread" =>
    /\ state \in {"START", "IDLE"}
    /\ (\E t \in Threads : pc[t] \in JoinLabels) => state = "IDLE"

(* In a go_down of its own, vip_thread cannot write the state again.       *)
OwnStop == \A v \in VipThreadIds : pc[v] \in JoinLabels => state = "IDLE"

(* A node that a handler is about to make active or BACKUP does not serve  *)
(* yet, and one that begins to roll back is past START and BACKUP.         *)
HandlersFit == \A v \in VipThreadIds :
  /\ pc[v] \in {"act", "react", "observe"} => state \notin Active
  /\ pc[v] = "create rollback_thread" => state \notin {"START", "BACKUP"}

(* A vip_thread that is no longer in its handle is being joined, or can    *)
(* only end: so a go_down that is past its join comes after the last       *)
(* handler.                                                                *)
Watched(v) == \E u \in Threads : pc[u] = "joining vip_thread" /\ joined[u] = v
Quiet(v) == state = "IDLE" /\ pc[v] \in {"loop", "joining vip_thread", "remove"}

LostHandle == \A v \in VipThreadIds :
  Live(v) /\ virtual_ip_thread # v => Watched(v) \/ Quiet(v)
PastJoin == \A v \in VipThreadIds : \A t \in Threads :
  Live(v) /\ (pc[t] = "remove" \/ (pc[t] = "joining vip_thread" /\ joined[t] # v))
    => Watched(v) \/ Quiet(v)

(* The address of a node that serves is there, or still to come, or about  *)
(* to be removed by a go_down that the handler has overtaken.              *)
Held == \A v \in VipThreadIds :
  Live(v) /\ (state \in Active \/ pc[v] \in {"announce", "rollback", "rback_stop"})
    => ip = TRUE \/ pc[v] \in {"add", "go_down"} \/ Watched(v)

(* A go_down is left to remove the address of an IDLE node.                *)
Released ==
  state = "IDLE" /\ (ip = TRUE \/ \E v \in VipThreadIds : pc[v] = "add")
    => \E t \in Threads : pc[t] \in JoinLabels

Core == /\ OneRun /\ Calm /\ HandleJoinsItself /\ NoCycle /\ SomeRun /\ GoingUp /\ Creating
        /\ OwnStop /\ HandlersFit /\ LostHandle /\ PastJoin /\ Held /\ Released

ThreadsInv == Types /\ (defied \/ Core)

-----------------------------------------------------------------------------
(* Facts about the constants, the table and where a thread goes on *)

(* No thread is of two kinds, nor is NULL a thread.                        *)
LEMMA Disjoint ==
  /\ Callers \cap VipThreadIds = {}
  /\ Callers \cap RollbackThreadIds = {}
  /\ VipThreadIds \cap RollbackThreadIds = {}
  /\ NULL \notin Threads
BY ThreadsAssumption

(* Where a thread goes on, by its kind.                                    *)
LEMMA ReturnValue ==
  ASSUME NEW t \in Threads
  PROVE  /\ t \in Callers => Return(t) = "ready"
         /\ t \in VipThreadIds => Return(t) = "loop"
         /\ t \in RollbackThreadIds =>
              Return(t) = IF pc[t] = "create vip_thread" THEN "ended" ELSE "pause"
BY Disjoint DEF Return

(* The group's events start a handler that fits the state.                 *)
LEMMA GroupEventTable ==
  ASSUME NEW s \in States, NEW event \in GroupEvents
  PROVE  LET action == table[event][s]
         IN  /\ action \in {"error", "noop", "dup_warn", "nodeup", "backupup", "go_down", "act",
                            "react", "observe", "rollback", "rback_stop"}
             /\ action \in {"go_down", "act", "observe"} => s = "START"
             /\ action = "react" => s = "BACKUP"
             /\ action = "rollback" => s = "MASTER"
             /\ action = "rback_stop" => s = "RBACK"
BY DEF table, States, GroupEvents

(* A start is for an IDLE node, a stop for any other.                      *)
LEMMA CallTable ==
  ASSUME NEW s \in States
  PROVE  /\ table["STARTUP"][s] = IF s = "IDLE" THEN "go_up" ELSE "error"
         /\ table["STOP"][s] = IF s = "IDLE" THEN "error" ELSE "go_down"
BY DEF table, States

(* So vip_thread, on an event, enters a handler that fits the state, or    *)
(* goes on with its loop.                                                  *)
LEMMA EventEntry ==
  ASSUME NEW t, NEW event \in GroupEvents, state \in States, Return(t) = "loop"
  PROVE  LET label == Entry(t, event)
         IN  /\ label \in {"loop", "go_down", "act", "react", "observe", "rollback", "rback_stop"}
             /\ label \in {"go_down", "act", "observe"} => state = "START"
             /\ label = "react" => state = "BACKUP"
             /\ label = "rollback" => state = "MASTER"
             /\ label = "rback_stop" => state = "RBACK"
BY GroupEventTable DEF Entry

(* And a call enters go_down or go_up, or returns.                         *)
LEMMA CallEntry ==
  ASSUME NEW t, state \in States
  PROVE  /\ Entry(t, "STOP") = IF state = "IDLE" THEN Return(t) ELSE "go_down"
         /\ Entry(t, "STARTUP") = IF state = "IDLE" THEN "go_up" ELSE Return(t)
BY CallTable DEF Entry

(* A thread that goes on leaves the others where they are.                 *)
LEMMA GotoEffect ==
  ASSUME Types, NEW t \in Threads, NEW label, Goto(t, label)
  PROVE  pc'[t] = label /\ \A u \in Threads \ {t} : pc'[u] = pc[u]
BY DEF Types, TypeOK, Goto

(* The parts of the type invariant that need no action.                    *)
LEMMA TypesKept ==
  ASSUME Types,
         state' \in States, ip' \in BOOLEAN,
         virtual_ip_thread' \in VipThreadIds \cup {NULL},
         rollback_thread' \in RollbackThreadIds \cup {NULL},
         started' \in 0 .. Starts, overtaken' \subseteq Threads, defied' \in BOOLEAN,
         NEW t \in Threads, NEW label, Goto(t, label), Kept(t, label),
         label = "joining rollback_thread" => joined'[t] \in RollbackThreadIds,
         label = "joining vip_thread" => joined'[t] \in VipThreadIds,
         \/ joined' = joined
         \/ \E u \in Threads \cup {NULL} : joined' = [joined EXCEPT ![t] = u]
  PROVE  Types'
<1>1. label \in Labels
  BY DEF Kept, Threads, Labels, UpLabels, DownLabels, JoinLabels, HandlerLabels
<1>2. pc' \in [Threads -> Labels] /\ joined' \in [Threads -> Threads \cup {NULL}]
  BY <1>1 DEF Types, TypeOK, Goto
<1>3. TypeOK'
  BY <1>2 DEF TypeOK
<1>4. \A u \in Threads \ {t} : joined'[u] = joined[u]
  BY DEF Types, TypeOK
<1>5. QED
  BY <1>3, <1>4, GotoEffect DEF Types

(* The same for a thread that launches another one.                        *)
LEMMA TypesKeptByLaunch ==
  ASSUME Types, UNCHANGED <<state, ip, joined, started, overtaken, defied>>,
         virtual_ip_thread' \in VipThreadIds \cup {NULL},
         rollback_thread' \in RollbackThreadIds \cup {NULL},
         NEW t \in Threads, NEW label \in {"ready", "loop", "ended"}, Kept(t, label),
         NEW new \in Threads, NEW first \in {"loop", "sleep", "stop"}, Kept(new, first),
         pc' = [pc EXCEPT ![t] = label, ![new] = first]
  PROVE  Types'
<1>1. pc' \in [Threads -> Labels]
  BY DEF Types, TypeOK, Labels
<1>2. TypeOK'
  BY <1>1 DEF Types, TypeOK
<1>3. \A u \in Threads : pc'[u] = pc[u] \/ (pc'[u] \in {label, first} /\ Kept(u, pc'[u]))
  BY DEF Types, TypeOK
<1>4. QED
  BY <1>2, <1>3 DEF Types

(* Whoever waits for a vip_thread goes on waiting.                         *)
LEMMA WatchedKept ==
  ASSUME NEW t \in Threads, pc[t] # "joining vip_thread",
         \A u \in Threads \ {t} : pc'[u] = pc[u] \/ pc[u] = "none",
         \A u \in Threads \ {t} : joined'[u] = joined[u]
  PROVE  \A v : Watched(v) => Watched(v)'
BY DEF Watched

(* Threads that neither begin a join nor change one close no circle.       *)
LEMMA NoCycleKept ==
  ASSUME NoCycle,
         \A u \in VipThreadIds \cup RollbackThreadIds :
           Joining(u)' => Joining(u) /\ joined'[u] = joined[u]
  PROVE  NoCycle'
<1> SUFFICES ASSUME NEW circle \in (SUBSET (VipThreadIds \cup RollbackThreadIds)) \ {{}}
             PROVE  \E u \in circle : ~Joining(u)' \/ joined'[u] \notin circle \ {u}
  BY DEF NoCycle
<1>1. PICK u \in circle : ~Joining(u) \/ joined[u] \notin circle \ {u}
  BY DEF NoCycle
<1>2. QED
  BY <1>1

(* A thread that begins a join closes a circle only through the thread     *)
(* that it joins.                                                          *)
LEMMA NoCycleUnlessThroughTarget ==
  ASSUME NoCycle, NEW t \in Threads, NEW target, joined'[t] = target,
         \A u \in Threads \ {t} : pc'[u] = pc[u] /\ joined'[u] = joined[u],
         t \in VipThreadIds \cup RollbackThreadIds
           => \A circle \in SUBSET (VipThreadIds \cup RollbackThreadIds) :
                t \in circle /\ target \in circle \ {t}
                  => \E u \in circle \ {t} : ~Joining(u) \/ joined[u] \notin circle \ {u}
  PROVE  NoCycle'
<1> SUFFICES ASSUME NEW circle \in (SUBSET (VipThreadIds \cup RollbackThreadIds)) \ {{}}
             PROVE  \E u \in circle : ~Joining(u)' \/ joined'[u] \notin circle \ {u}
  BY DEF NoCycle
<1>1. \A u \in circle \ {t} : (Joining(u)' <=> Joining(u)) /\ joined'[u] = joined[u]
  BY DEF Joining, Threads
<1>2. CASE t \notin circle
  BY <1>1, <1>2 DEF NoCycle
<1>3. CASE t \in circle /\ target \notin circle \ {t}
  BY <1>3
<1>4. CASE t \in circle /\ target \in circle \ {t}
  <2>1. PICK u \in circle \ {t} : ~Joining(u) \/ joined[u] \notin circle \ {u}
    BY <1>4
  <2>2. QED
    BY <1>1, <2>1
<1>5. QED
  BY <1>2, <1>3, <1>4

-----------------------------------------------------------------------------
(* The handlers of vip_thread keep the invariant *)

(* act and react write MASTER only on behalf of the one run, before a      *)
(* rollback can begin.                                                     *)
LEMMA TakeOverKeeps ==
  ASSUME Types, Core, NEW t \in VipThreadIds, TakeOver(t)
  PROVE  Types' /\ Core'
<1>1. t \in Threads
  BY DEF Threads
<1>2. PICK label \in {"add", "go_down", "loop"} :
        /\ Goto(t, label)
        /\ pc[t] \in {"act", "react"}
        /\ label = "add" => state' = "MASTER"
        /\ label # "add" => state' = state
        /\ label = "go_down" => pc[t] = "act"
        /\ UNCHANGED <<virtual_ip_thread, rollback_thread, ip, joined>>
  BY <1>1, ReturnValue DEF TakeOver, At, SetState
<1>3. pc'[t] = label /\ \A u \in Threads \ {t} : pc'[u] = pc[u]
  BY <1>1, <1>2, GotoEffect
<1>4. Types'
  <2>1. Kept(t, label)
    BY Disjoint DEF Kept, DownLabels, HandlerLabels
  <2>2. started' \in 0 .. Starts /\ overtaken' \subseteq Threads /\ defied' \in BOOLEAN
    BY DEF Types, TypeOK, TakeOver, SetState, GoingDown
  <2>3. state' \in States /\ ip' \in BOOLEAN
    BY <1>2 DEF Types, TypeOK, States
  <2>4. QED
    BY <1>1, <1>2, <2>1, <2>2, <2>3, TypesKept DEF Types, TypeOK
<1>5. \A v : Watched(v) => Watched(v)'
  BY <1>1, <1>2, <1>3, WatchedKept
<1>6. OneRun' /\ SomeRun'
  BY <1>1, <1>2, <1>3 DEF Core, OneRun, SomeRun, Live, Upping
<1>7. Calm' /\ HandleJoinsItself'
  BY <1>2, <1>3, Disjoint DEF Core, Calm, HandleJoinsItself, Types, TypeOK, Early, Threads
<1>8. NoCycle'
  <2>1. \A u \in VipThreadIds \cup RollbackThreadIds :
          Joining(u)' => Joining(u) /\ joined'[u] = joined[u]
    BY <1>1, <1>2, <1>3 DEF Joining, Threads
  <2>2. QED
    BY <2>1, NoCycleKept DEF Core
<1>9. GoingUp' /\ Creating'
  BY <1>1, <1>2, <1>3 DEF Core, GoingUp, Creating, OneRun, Live, Upping, UpLabels
<1>10. OwnStop' /\ HandlersFit'
  BY <1>2, <1>3 DEF Core, OwnStop, HandlersFit, OneRun, Live, Threads, JoinLabels
<1>11. LostHandle' /\ PastJoin'
  BY <1>2, <1>3, <1>5 DEF Core, LostHandle, PastJoin, OneRun, Live, Quiet, Threads
<1>12. Held'
  BY <1>2, <1>3, <1>5 DEF Core, Held, OneRun, Live, Threads
<1>13. Released'
  BY <1>2, <1>3 DEF Core, Released, Threads, JoinLabels
<1>14. QED
  BY <1>4, <1>6, <1>7, <1>8, <1>9, <1>10, <1>11, <1>12, <1>13 DEF Core

(* The address is on the device before it is announced.                    *)
LEMMA AddVipKeeps ==
  ASSUME Types, Core, NEW t \in VipThreadIds, AddVip(t)
  PROVE  Types' /\ Core'
<1>1. t \in Threads
  BY DEF Threads
<1>2. PICK label \in {"announce", "go_down"} :
        /\ Goto(t, label)
        /\ pc[t] = "add"
        /\ label = "announce" => ip' = TRUE
        /\ label = "go_down" => ip' = ip
        /\ UNCHANGED <<state, virtual_ip_thread, rollback_thread, joined>>
  BY <1>1, ReturnValue, Disjoint DEF AddVip, At
<1>3. pc'[t] = label /\ \A u \in Threads \ {t} : pc'[u] = pc[u]
  BY <1>1, <1>2, GotoEffect
<1>4. Types'
  <2>1. Kept(t, label)
    BY Disjoint DEF Kept, DownLabels, HandlerLabels
  <2>2. started' \in 0 .. Starts /\ overtaken' \subseteq Threads /\ defied' \in BOOLEAN
    BY DEF Types, TypeOK, AddVip, SetState, GoingDown
  <2>3. state' \in States /\ ip' \in BOOLEAN
    BY <1>2 DEF Types, TypeOK, States
  <2>4. QED
    BY <1>1, <1>2, <2>1, <2>2, <2>3, TypesKept DEF Types, TypeOK
<1>5. \A v : Watched(v) => Watched(v)'
  BY <1>1, <1>2, <1>3, WatchedKept
<1>6. OneRun' /\ SomeRun'
  BY <1>2, <1>3 DEF Core, OneRun, SomeRun, Live, Upping
<1>7. Calm' /\ HandleJoinsItself'
  BY <1>2, <1>3, Disjoint DEF Core, Calm, HandleJoinsItself, Types, TypeOK, Early, Threads
<1>8. NoCycle'
  <2>1. \A u \in VipThreadIds \cup RollbackThreadIds :
          Joining(u)' => Joining(u) /\ joined'[u] = joined[u]
    BY <1>1, <1>2, <1>3 DEF Joining, Threads
  <2>2. QED
    BY <2>1, NoCycleKept DEF Core
<1>9. GoingUp' /\ Creating'
  BY <1>2, <1>3 DEF Core, GoingUp, Creating, OneRun, Live, Upping, UpLabels
<1>10. OwnStop' /\ HandlersFit'
  BY <1>2, <1>3 DEF Core, OwnStop, HandlersFit, Threads, JoinLabels
<1>11. LostHandle' /\ PastJoin'
  BY <1>2, <1>3, <1>5 DEF Core, LostHandle, PastJoin, Live, Quiet, Threads
<1>12. Held'
  BY <1>2, <1>3, <1>5 DEF Core, Held, Live, Threads
<1>13. Released'
  BY <1>2, <1>3 DEF Core, Released, JoinLabels
<1>14. QED
  BY <1>4, <1>6, <1>7, <1>8, <1>9, <1>10, <1>11, <1>12, <1>13 DEF Core

(* A failed announcement takes the address off and stops the node.         *)
LEMMA AnnounceKeeps ==
  ASSUME Types, Core, NEW t \in VipThreadIds, Announce(t)
  PROVE  Types' /\ Core'
<1>1. t \in Threads
  BY DEF Threads
<1>2. PICK label \in {"loop", "go_down"} :
        /\ Goto(t, label)
        /\ pc[t] = "announce"
        /\ label = "loop" => ip' = ip
        /\ label = "go_down" => ip' = FALSE
        /\ UNCHANGED <<state, virtual_ip_thread, rollback_thread, joined>>
  BY <1>1, ReturnValue, Disjoint DEF Announce, At
<1>3. pc'[t] = label /\ \A u \in Threads \ {t} : pc'[u] = pc[u]
  BY <1>1, <1>2, GotoEffect
<1>4. Types'
  <2>1. Kept(t, label)
    BY Disjoint DEF Kept, DownLabels
  <2>2. started' \in 0 .. Starts /\ overtaken' \subseteq Threads /\ defied' \in BOOLEAN
    BY DEF Types, TypeOK, Announce, SetState, GoingDown
  <2>3. state' \in States /\ ip' \in BOOLEAN
    BY <1>2 DEF Types, TypeOK, States
  <2>4. QED
    BY <1>1, <1>2, <2>1, <2>2, <2>3, TypesKept DEF Types, TypeOK
<1>5. \A v : Watched(v) => Watched(v)'
  BY <1>1, <1>2, <1>3, WatchedKept
<1>6. OneRun' /\ SomeRun'
  BY <1>2, <1>3 DEF Core, OneRun, SomeRun, Live, Upping
<1>7. Calm' /\ HandleJoinsItself'
  BY <1>2, <1>3, Disjoint DEF Core, Calm, HandleJoinsItself, Types, TypeOK, Early, Threads
<1>8. NoCycle'
  <2>1. \A u \in VipThreadIds \cup RollbackThreadIds :
          Joining(u)' => Joining(u) /\ joined'[u] = joined[u]
    BY <1>1, <1>2, <1>3 DEF Joining, Threads
  <2>2. QED
    BY <2>1, NoCycleKept DEF Core
<1>9. GoingUp' /\ Creating'
  BY <1>2, <1>3 DEF Core, GoingUp, Creating, OneRun, Live, Upping, UpLabels
<1>10. OwnStop' /\ HandlersFit'
  BY <1>2, <1>3 DEF Core, OwnStop, HandlersFit, Threads, JoinLabels
<1>11. LostHandle' /\ PastJoin'
  BY <1>2, <1>3, <1>5 DEF Core, LostHandle, PastJoin, Live, Quiet, Threads
<1>12. Held'
  BY <1>2, <1>3, <1>5 DEF Core, Held, OneRun, Live, Threads
<1>13. Released'
  BY <1>2, <1>3 DEF Core, Released, Threads, JoinLabels
<1>14. QED
  BY <1>4, <1>6, <1>7, <1>8, <1>9, <1>10, <1>11, <1>12, <1>13 DEF Core

(* observe writes BACKUP: the address is not there, and no rollback is.    *)
LEMMA ObserveKeeps ==
  ASSUME Types, Core, NEW t \in VipThreadIds, Observe(t)
  PROVE  Types' /\ Core'
<1>1. t \in Threads
  BY DEF Threads
<1>2. /\ Goto(t, "loop")
      /\ pc[t] = "observe"
      /\ state' = "BACKUP"
      /\ UNCHANGED <<virtual_ip_thread, rollback_thread, ip, joined>>
  BY <1>1, ReturnValue DEF Observe, At, SetState
<1>3. pc'[t] = "loop" /\ \A u \in Threads \ {t} : pc'[u] = pc[u]
  BY <1>1, <1>2, GotoEffect
<1>4. Types'
  <2>1. Kept(t, "loop")
    BY Disjoint DEF Kept
  <2>2. started' \in 0 .. Starts /\ overtaken' \subseteq Threads /\ defied' \in BOOLEAN
    BY DEF Types, TypeOK, Observe, SetState, GoingDown
  <2>3. state' \in States /\ ip' \in BOOLEAN
    BY <1>2 DEF Types, TypeOK, States
  <2>4. QED
    BY <1>1, <1>2, <2>1, <2>2, <2>3, TypesKept DEF Types, TypeOK
<1>5. \A v : Watched(v) => Watched(v)'
  BY <1>1, <1>2, <1>3, WatchedKept
<1>6. OneRun' /\ SomeRun'
  BY <1>1, <1>2, <1>3 DEF Core, OneRun, SomeRun, Live, Upping
<1>7. Calm' /\ HandleJoinsItself'
  BY <1>2, <1>3, Disjoint DEF Core, Calm, HandleJoinsItself, Types, TypeOK, Early, Threads
<1>8. NoCycle'
  <2>1. \A u \in VipThreadIds \cup RollbackThreadIds :
          Joining(u)' => Joining(u) /\ joined'[u] = joined[u]
    BY <1>1, <1>2, <1>3 DEF Joining, Threads
  <2>2. QED
    BY <2>1, NoCycleKept DEF Core
<1>9. GoingUp' /\ Creating'
  BY <1>1, <1>2, <1>3 DEF Core, GoingUp, Creating, OneRun, Live, Upping, UpLabels
<1>10. OwnStop' /\ HandlersFit'
  BY <1>2, <1>3 DEF Core, OwnStop, HandlersFit, OneRun, Live, Threads, JoinLabels
<1>11. LostHandle' /\ PastJoin'
  BY <1>2, <1>3, <1>5 DEF Core, LostHandle, PastJoin, OneRun, Live, Quiet, Threads
<1>12. Held'
  BY <1>2, <1>3, <1>5 DEF Core, Held, Live, Active, Threads
<1>13. Released'
  BY <1>2 DEF Released
<1>14. QED
  BY <1>4, <1>6, <1>7, <1>8, <1>9, <1>10, <1>11, <1>12, <1>13 DEF Core

(* rollback begins on a MASTER, so while nothing is Early.                 *)
LEMMA RollbackKeeps ==
  ASSUME Types, Core, NEW t \in VipThreadIds, Rollback(t)
  PROVE  Types' /\ Core'
<1>1. t \in Threads
  BY DEF Threads
<1>2. PICK label \in {"create rollback_thread", "loop"} :
        /\ Goto(t, label)
        /\ pc[t] = "rollback"
        /\ label = "loop" => state' = state
        /\ label # "loop" => state' = "RBACK"
        /\ UNCHANGED <<virtual_ip_thread, rollback_thread, ip, joined>>
  BY <1>1, ReturnValue, Disjoint DEF Rollback, At, SetState
<1>3. pc'[t] = label /\ \A u \in Threads \ {t} : pc'[u] = pc[u]
  BY <1>1, <1>2, GotoEffect
<1>4. Types'
  <2>1. Kept(t, label)
    BY Disjoint DEF Kept, HandlerLabels
  <2>2. started' \in 0 .. Starts /\ overtaken' \subseteq Threads /\ defied' \in BOOLEAN
    BY DEF Types, TypeOK, Rollback, SetState, GoingDown
  <2>3. state' \in States /\ ip' \in BOOLEAN
    BY <1>2 DEF Types, TypeOK, States
  <2>4. QED
    BY <1>1, <1>2, <2>1, <2>2, <2>3, TypesKept DEF Types, TypeOK
<1>5. \A v : Watched(v) => Watched(v)'
  BY <1>1, <1>2, <1>3, WatchedKept
<1>6. OneRun' /\ SomeRun'
  BY <1>1, <1>2, <1>3 DEF Core, OneRun, SomeRun, Live, Upping
<1>7. Calm' /\ HandleJoinsItself'
  BY <1>2, <1>3 DEF Core, Calm, HandleJoinsItself, OneRun, Types, TypeOK, Live, Upping, Early,
     Threads, DownLabels, JoinLabels, UpLabels
<1>8. NoCycle'
  <2>1. \A u \in VipThreadIds \cup RollbackThreadIds :
          Joining(u)' => Joining(u) /\ joined'[u] = joined[u]
    BY <1>1, <1>2, <1>3 DEF Joining, Threads
  <2>2. QED
    BY <2>1, NoCycleKept DEF Core
<1>9. GoingUp' /\ Creating'
  BY <1>1, <1>2, <1>3 DEF Core, GoingUp, Creating, OneRun, Live, Upping, UpLabels
<1>10. OwnStop' /\ HandlersFit'
  BY <1>2, <1>3 DEF Core, OwnStop, HandlersFit, OneRun, Live, Threads, JoinLabels
<1>11. LostHandle' /\ PastJoin'
  BY <1>2, <1>3, <1>5 DEF Core, LostHandle, PastJoin, OneRun, Live, Quiet, Threads
<1>12. Held'
  BY <1>2, <1>3, <1>5 DEF Core, Held, OneRun, Live, Threads
<1>13. Released'
  <2>1. CASE label = "loop"
    <3>1. \A v \in VipThreadIds : pc'[v] = "add" => pc[v] = "add"
      BY <2>1, <1>3 DEF Threads
    <3>2. \A u \in Threads : pc[u] \in JoinLabels => pc'[u] \in JoinLabels
      BY <1>2, <1>3 DEF JoinLabels
    <3>3. QED
      BY <2>1, <3>1, <3>2, <1>2 DEF Core, Released
  <2>2. CASE label # "loop"
    BY <2>2, <1>2 DEF Released
  <2>3. QED
    BY <2>1, <2>2
<1>14. QED
  BY <1>4, <1>6, <1>7, <1>8, <1>9, <1>10, <1>11, <1>12, <1>13 DEF Core

(* The new rollback_thread takes the handle; the old one, if it still      *)
(* sleeps, is joined by nobody.                                            *)
LEMMA CreateRollbackThreadKeeps ==
  ASSUME Types, Core, NEW t \in VipThreadIds, CreateRollbackThread(t)
  PROVE  Types' /\ Core'
<1>1. t \in Threads
  BY DEF Threads
<1>2. PICK new \in RollbackThreadIds, first \in {"sleep", "stop"} :
        /\ pc[t] = "create rollback_thread"
        /\ pc[new] = "none"
        /\ rollback_thread' = new
        /\ pc' = [pc EXCEPT ![t] = "loop", ![new] = first]
        /\ UNCHANGED <<state, virtual_ip_thread, ip, joined>>
  BY <1>1, ReturnValue DEF CreateRollbackThread, At, Fresh
<1>3. /\ t # new /\ new \in Threads
      /\ pc'[t] = "loop" /\ pc'[new] = first
      /\ \A u \in Threads \ {t, new} : pc'[u] = pc[u]
  BY <1>1, <1>2, Disjoint DEF Types, TypeOK, Threads
<1>4. Types'
  <2>1. Kept(t, "loop") /\ Kept(new, first)
    BY <1>1, <1>2, Disjoint DEF Kept
  <2>2. UNCHANGED <<state, ip, joined, started, overtaken, defied>>
    BY <1>2 DEF CreateRollbackThread
  <2>3. /\ virtual_ip_thread' \in VipThreadIds \cup {NULL}
        /\ rollback_thread' \in RollbackThreadIds \cup {NULL}
        /\ first \in {"loop", "sleep", "stop"}
    BY <1>2 DEF Types, TypeOK
  <2>4. CASE first = "sleep"
    BY <1>1, <1>2, <1>3, <2>1, <2>2, <2>3, <2>4, TypesKeptByLaunch
  <2>5. CASE first = "stop"
    BY <1>1, <1>2, <1>3, <2>1, <2>2, <2>3, <2>5, TypesKeptByLaunch
  <2>6. QED
    BY <2>4, <2>5
<1>5. \A v : Watched(v) => Watched(v)'
  BY <1>1, <1>2, <1>3, WatchedKept
<1>6. OneRun' /\ SomeRun'
  <2>1. \A u \in Threads : (Live(u)' <=> Live(u)) /\ (Upping(u)' <=> Upping(u))
    BY <1>1, <1>2, <1>3, Disjoint DEF Live, Upping, UpLabels
  <2>2. QED
    BY <1>2, <2>1 DEF Core, OneRun, SomeRun
<1>7. Calm' /\ HandleJoinsItself'
  <2>1. ~Early'
    <3>1. state' \notin {"START", "BACKUP"}
      BY <1>2 DEF Core, HandlersFit
    <3>2. \A u \in Threads \ {t} : ~Live(u) /\ ~Upping(u)
      BY <1>1, <1>2 DEF Core, OneRun, Live
    <3>3. \A u \in Threads : ~Upping(u)'
      BY <1>3, <3>2 DEF Upping, UpLabels
    <3>4. \A v \in VipThreadIds :
            pc'[v] \notin {"observe", "act", "react", "add", "announce"} \cup DownLabels
      BY <1>2, <1>3, <3>2, Disjoint DEF Live, Threads, DownLabels, JoinLabels
    <3>5. QED
      BY <3>1, <3>3, <3>4 DEF Early
  <2>2. HandleJoinsItself'
    BY <1>2, <1>3 DEF HandleJoinsItself
  <2>3. QED
    BY <2>1, <2>2 DEF Calm
<1>8. NoCycle'
  <2>1. \A u \in VipThreadIds \cup RollbackThreadIds :
          Joining(u)' => Joining(u) /\ joined'[u] = joined[u]
    BY <1>1, <1>2, <1>3, Disjoint DEF Joining, Threads
  <2>2. QED
    BY <2>1, NoCycleKept DEF Core
<1>9. GoingUp' /\ Creating'
  BY <1>2, <1>3 DEF Core, GoingUp, Creating, DownLabels, JoinLabels
<1>10. OwnStop' /\ HandlersFit'
  BY <1>2, <1>3 DEF Core, OwnStop, HandlersFit, Threads, JoinLabels
<1>11. LostHandle'
  <2>1. \A v \in VipThreadIds : (Live(v)' <=> Live(v)) /\ (Quiet(v) => Quiet(v)')
    BY <1>1, <1>2, <1>3, Disjoint DEF Live, Quiet, Threads
  <2>2. \A u \in Threads : pc'[u] \in {"remove", "joining vip_thread"} => pc[u] = pc'[u]
    BY <1>1, <1>2, <1>3
  <2>3. QED
    BY <2>1, <2>2, <1>2, <1>5 DEF Core, LostHandle
<1>12. PastJoin'
  <2>1. \A v \in VipThreadIds : (Live(v)' <=> Live(v)) /\ (Quiet(v) => Quiet(v)')
    BY <1>1, <1>2, <1>3, Disjoint DEF Live, Quiet, Threads
  <2>2. \A u \in Threads : pc'[u] \in {"remove", "joining vip_thread"} => pc[u] = pc'[u]
    BY <1>1, <1>2, <1>3
  <2>3. QED
    BY <2>1, <2>2, <1>2, <1>5 DEF Core, PastJoin
<1>13. Held'
  <2>1. \A v \in VipThreadIds : (Live(v)' <=> Live(v)) /\ (v = t \/ pc'[v] = pc[v])
    BY <1>1, <1>2, <1>3, Disjoint DEF Live, Threads
  <2>2. SUFFICES ASSUME NEW v \in VipThreadIds, Live(v)',
                        state' \in Active \/ pc'[v] \in {"announce", "rollback", "rback_stop"}
                 PROVE  ip = TRUE \/ pc'[v] \in {"add", "go_down"} \/ Watched(v)'
    BY <1>2 DEF Held
  <2>3. CASE v = t
    BY <2>1, <2>2, <2>3, <1>2, <1>3, <1>5 DEF Core, Held
  <2>4. CASE v # t
    BY <2>1, <2>2, <2>4, <1>2, <1>5 DEF Core, Held
  <2>5. QED
    BY <2>3, <2>4
<1>14. Released'
  BY <1>2, <1>3 DEF Core, Released, Threads, JoinLabels
<1>15. QED
  BY <1>4, <1>6, <1>7, <1>8, <1>9, <1>10, <1>11, <1>12, <1>13, <1>14 DEF Core

(* A rollback that is called off leaves the node active.                   *)
LEMMA RbackStopKeeps ==
  ASSUME Types, Core, NEW t \in VipThreadIds, RbackStop(t)
  PROVE  Types' /\ Core'
<1>1. t \in Threads
  BY DEF Threads
<1>2. /\ Goto(t, "loop")
      /\ pc[t] = "rback_stop"
      /\ state' \in {state, "MASTER"}
      /\ UNCHANGED <<virtual_ip_thread, rollback_thread, ip, joined>>
  BY <1>1, ReturnValue DEF RbackStop, At, SetState
<1>3. pc'[t] = "loop" /\ \A u \in Threads \ {t} : pc'[u] = pc[u]
  BY <1>1, <1>2, GotoEffect
<1>4. Types'
  <2>1. Kept(t, "loop")
    BY Disjoint DEF Kept
  <2>2. started' \in 0 .. Starts /\ overtaken' \subseteq Threads /\ defied' \in BOOLEAN
    BY DEF Types, TypeOK, RbackStop, SetState, GoingDown
  <2>3. state' \in States /\ ip' \in BOOLEAN
    BY <1>2 DEF Types, TypeOK, States
  <2>4. QED
    BY <1>1, <1>2, <2>1, <2>2, <2>3, TypesKept DEF Types, TypeOK
<1>5. \A v : Watched(v) => Watched(v)'
  BY <1>1, <1>2, <1>3, WatchedKept
<1>6. OneRun' /\ SomeRun'
  BY <1>1, <1>2, <1>3 DEF Core, OneRun, SomeRun, Live, Upping
<1>7. Calm' /\ HandleJoinsItself'
  BY <1>2, <1>3 DEF Core, Calm, HandleJoinsItself, Types, TypeOK, Upping, Early, Threads,
     DownLabels, JoinLabels, UpLabels
<1>8. NoCycle'
  <2>1. \A u \in VipThreadIds \cup RollbackThreadIds :
          Joining(u)' => Joining(u) /\ joined'[u] = joined[u]
    BY <1>1, <1>2, <1>3 DEF Joining, Threads
  <2>2. QED
    BY <2>1, NoCycleKept DEF Core
<1>9. GoingUp' /\ Creating'
  BY <1>1, <1>2, <1>3 DEF Core, GoingUp, Creating, OneRun, Live, Upping, UpLabels
<1>10. OwnStop' /\ HandlersFit'
  BY <1>2, <1>3 DEF Core, OwnStop, HandlersFit, OneRun, Live, Threads, JoinLabels
<1>11. LostHandle' /\ PastJoin'
  BY <1>2, <1>3, <1>5 DEF Core, LostHandle, PastJoin, OneRun, Live, Quiet, Threads
<1>12. Held'
  BY <1>2, <1>3, <1>5 DEF Core, Held, OneRun, Live, Threads
<1>13. Released'
  BY <1>2, <1>3 DEF Core, Released, Threads, JoinLabels
<1>14. QED
  BY <1>4, <1>6, <1>7, <1>8, <1>9, <1>10, <1>11, <1>12, <1>13 DEF Core

-----------------------------------------------------------------------------
(* go_up keeps the invariant *)

(* go_up writes START when no stop and no other run is under way.          *)
LEMMA GoUpKeeps ==
  ASSUME Types, Core, NEW t \in Callers \cup RollbackThreadIds, GoUp(t)
  PROVE  Types' /\ Core'
<1>1. t \in Threads
  BY DEF Threads
<1>2. /\ Goto(t, "create vip_thread")
      /\ pc[t] = "go_up"
      /\ state' = "START"
      /\ UNCHANGED <<virtual_ip_thread, rollback_thread, ip, joined>>
  BY DEF GoUp, At, SetState
<1>3. pc'[t] = "create vip_thread" /\ \A u \in Threads \ {t} : pc'[u] = pc[u]
  BY <1>1, <1>2, GotoEffect
<1>4. Types'
  <2>1. Kept(t, "create vip_thread")
    BY Disjoint DEF Kept, UpLabels
  <2>2. started' \in 0 .. Starts /\ overtaken' \subseteq Threads /\ defied' \in BOOLEAN
    BY DEF Types, TypeOK, GoUp, SetState, GoingDown
  <2>3. state' \in States /\ ip' \in BOOLEAN
    BY <1>2 DEF Types, TypeOK, States
  <2>4. QED
    BY <1>1, <1>2, <2>1, <2>2, <2>3, TypesKept DEF Types, TypeOK
<1>5. OneRun' /\ SomeRun'
  BY <1>1, <1>2, <1>3 DEF Core, OneRun, SomeRun, Live, Upping, UpLabels
<1>6. Calm' /\ HandleJoinsItself'
  BY <1>2, <1>3 DEF Core, Calm, HandleJoinsItself, Types, TypeOK, Upping, Early, Threads,
     DownLabels, JoinLabels, UpLabels
<1>7. NoCycle'
  <2>1. \A u \in VipThreadIds \cup RollbackThreadIds :
          Joining(u)' => Joining(u) /\ joined'[u] = joined[u]
    BY <1>1, <1>2, <1>3 DEF Joining, Threads
  <2>2. QED
    BY <2>1, NoCycleKept DEF Core
<1>8. GoingUp' /\ Creating'
  BY <1>1, <1>2, <1>3 DEF Core, GoingUp, Creating, OneRun, Upping, DownLabels, JoinLabels, UpLabels
<1>9. OwnStop' /\ HandlersFit'
  BY <1>2, <1>3 DEF Core, OwnStop, HandlersFit, OneRun, Live, Upping, Threads, JoinLabels,
     UpLabels
<1>10. LostHandle' /\ PastJoin'
  BY <1>2, <1>3, Disjoint DEF Core, LostHandle, PastJoin, OneRun, Live, Upping, Threads, UpLabels
<1>11. Held'
  BY <1>2, <1>3, Disjoint DEF Core, Held, OneRun, Live, Upping, Threads, UpLabels
<1>12. Released'
  BY <1>2 DEF Released
<1>13. QED
  BY <1>4, <1>5, <1>6, <1>7, <1>8, <1>9, <1>10, <1>11, <1>12 DEF Core

(* The new vip_thread is the one run, and takes the handle.                *)
LEMMA CreateVipThreadKeeps ==
  ASSUME Types, Core, NEW t \in Callers \cup RollbackThreadIds, CreateVipThread(t)
  PROVE  Types' /\ Core'
<1>1. t \in Threads
  BY DEF Threads
<1>2. PICK new \in VipThreadIds, label \in {"ready", "ended"} :
        /\ pc[t] = "create vip_thread"
        /\ pc[new] = "none"
        /\ virtual_ip_thread' = new
        /\ t \in RollbackThreadIds => label = "ended"
        /\ t \in Callers => label = "ready"
        /\ pc' = [pc EXCEPT ![t] = label, ![new] = "loop"]
        /\ UNCHANGED <<state, rollback_thread, ip, joined>>
  BY <1>1, ReturnValue, Disjoint DEF CreateVipThread, At, Fresh
<1>3. /\ t # new /\ new \in Threads
      /\ pc'[t] = label /\ pc'[new] = "loop"
      /\ \A u \in Threads \ {t, new} : pc'[u] = pc[u]
  BY <1>1, <1>2, Disjoint DEF Types, TypeOK, Threads
<1>4. Types'
  <2>1. Kept(t, label) /\ Kept(new, "loop")
    BY <1>1, <1>2, Disjoint DEF Kept
  <2>2. UNCHANGED <<state, ip, joined, started, overtaken, defied>>
    BY <1>2 DEF CreateVipThread
  <2>3. QED
    BY <1>1, <1>2, <1>3, <2>1, <2>2, TypesKeptByLaunch DEF Types, TypeOK
<1>5. \A v : Watched(v) => Watched(v)'
  BY <1>1, <1>2, <1>3, WatchedKept
<1>6. OneRun' /\ SomeRun'
  BY <1>2, <1>3, Disjoint DEF Core, OneRun, SomeRun, Live, Upping, Threads, UpLabels
<1>7. Calm' /\ HandleJoinsItself'
  BY <1>2 DEF Core, Calm, HandleJoinsItself, Types, TypeOK, Upping, Early, Threads, DownLabels,
     JoinLabels, UpLabels
<1>8. NoCycle'
  <2>1. \A u \in VipThreadIds \cup RollbackThreadIds :
          Joining(u)' => Joining(u) /\ joined'[u] = joined[u]
    BY <1>1, <1>2, <1>3, Disjoint DEF Joining, Threads
  <2>2. QED
    BY <2>1, NoCycleKept DEF Core
<1>9. GoingUp' /\ Creating'
  BY <1>2, <1>3 DEF Core, GoingUp, Creating, DownLabels, JoinLabels
<1>10. OwnStop' /\ HandlersFit'
  BY <1>2, <1>3 DEF Core, OwnStop, HandlersFit, Threads, JoinLabels
<1>11. LostHandle' /\ PastJoin'
  BY <1>2, <1>3, Disjoint DEF Core, LostHandle, PastJoin, OneRun, Creating, Live, Upping, Quiet,
     Threads, JoinLabels, UpLabels
<1>12. Held'
  BY <1>2, <1>3, <1>5 DEF Core, Held, Creating, Live, Active, Threads
<1>13. Released'
  BY <1>2, <1>3 DEF Core, Released, Threads, JoinLabels
<1>14. QED
  BY <1>4, <1>6, <1>7, <1>8, <1>9, <1>10, <1>11, <1>12, <1>13 DEF Core

-----------------------------------------------------------------------------
(* go_down keeps the invariant *)

(* go_down writes IDLE before it waits: whatever runs, it will be          *)
(* released.                                                               *)
LEMMA GoDownKeeps ==
  ASSUME Types, Core, NEW t \in Threads, GoDown(t)
  PROVE  Types' /\ Core'
<1>1. t \in Threads
  OBVIOUS
<1>2. /\ Goto(t, "join rollback_thread")
      /\ pc[t] = "go_down"
      /\ state' = "IDLE"
      /\ UNCHANGED <<virtual_ip_thread, rollback_thread, ip, joined>>
  BY DEF GoDown, At
<1>3. pc'[t] = "join rollback_thread" /\ \A u \in Threads \ {t} : pc'[u] = pc[u]
  BY <1>1, <1>2, GotoEffect
<1>4. Types'
  <2>1. Kept(t, "join rollback_thread")
    BY DEF Kept, DownLabels, JoinLabels
  <2>2. started' \in 0 .. Starts /\ overtaken' \subseteq Threads /\ defied' \in BOOLEAN
    BY DEF Types, TypeOK, GoDown, SetState, GoingDown
  <2>3. state' \in States /\ ip' \in BOOLEAN
    BY <1>2 DEF Types, TypeOK, States
  <2>4. QED
    BY <1>1, <1>2, <2>1, <2>2, <2>3, TypesKept DEF Types, TypeOK
<1>5. \A v : Watched(v) => Watched(v)'
  BY <1>1, <1>2, <1>3, WatchedKept
<1>6. OneRun' /\ SomeRun'
  BY <1>2, <1>3 DEF Core, OneRun, SomeRun, Live, Upping, UpLabels
<1>7. Calm' /\ HandleJoinsItself'
  BY <1>2, <1>3 DEF Core, Calm, HandleJoinsItself, Types, TypeOK, Upping, Early, Threads,
     DownLabels, UpLabels
<1>8. NoCycle'
  <2>1. \A u \in VipThreadIds \cup RollbackThreadIds :
          Joining(u)' => Joining(u) /\ joined'[u] = joined[u]
    BY <1>1, <1>2, <1>3 DEF Joining, Threads
  <2>2. QED
    BY <2>1, NoCycleKept DEF Core
<1>9. GoingUp' /\ Creating'
  BY <1>2, <1>3 DEF Core, GoingUp, Creating, DownLabels
<1>10. OwnStop' /\ HandlersFit'
  BY <1>2 DEF OwnStop, HandlersFit, Active
<1>11. LostHandle' /\ PastJoin'
  BY <1>2, <1>3, <1>5 DEF Core, LostHandle, PastJoin, Live, Quiet, Threads
<1>12. Held'
  BY <1>2, <1>3, <1>5 DEF Core, Held, Live, Active, Threads
<1>13. Released'
  BY <1>3 DEF Released, JoinLabels
<1>14. QED
  BY <1>4, <1>6, <1>7, <1>8, <1>9, <1>10, <1>11, <1>12, <1>13 DEF Core

(* The thread in the handle is joined; a rollback_thread in its own stop   *)
(* finds itself there, or none.                                            *)
LEMMA JoinRollbackThreadKeeps ==
  ASSUME Types, Core, NEW t \in Threads, JoinRollbackThread(t)
  PROVE  Types' /\ Core'
<1>1. t \in Threads
  OBVIOUS
<1>2. PICK label \in {"join vip_thread", "joining rollback_thread"} :
        /\ Goto(t, label)
        /\ pc[t] = "join rollback_thread"
        /\ label = "joining rollback_thread" => rollback_thread \in RollbackThreadIds
        /\ joined' = [joined EXCEPT ![t] = rollback_thread]
        /\ UNCHANGED <<state, virtual_ip_thread, rollback_thread, ip>>
  BY DEF JoinRollbackThread, At, shared, Types, TypeOK
<1>3. pc'[t] = label /\ \A u \in Threads \ {t} : pc'[u] = pc[u]
  BY <1>1, <1>2, GotoEffect
<1>4. joined'[t] = rollback_thread /\ \A u \in Threads \ {t} : joined'[u] = joined[u]
  BY <1>1, <1>2 DEF Types, TypeOK
<1>5. Types'
  <2>1. Kept(t, label)
    BY DEF Kept, DownLabels, JoinLabels
  <2>2. started' \in 0 .. Starts /\ overtaken' \subseteq Threads /\ defied' \in BOOLEAN
    BY DEF Types, TypeOK, JoinRollbackThread, SetState, GoingDown
  <2>3. rollback_thread \in Threads \cup {NULL}
    BY DEF Types, TypeOK, Threads
  <2>4. state' \in States /\ ip' \in BOOLEAN
    BY <1>2 DEF Types, TypeOK, States
  <2>5. QED
    BY <1>1, <1>2, <1>4, <2>1, <2>2, <2>4, <2>3, TypesKept DEF Types, TypeOK
<1>6. \A v : Watched(v) => Watched(v)'
  BY <1>1, <1>2, <1>3, <1>4, WatchedKept
<1>7. OneRun' /\ SomeRun'
  BY <1>2, <1>3 DEF Core, OneRun, SomeRun, Live, Upping, UpLabels
<1>8. Calm' /\ HandleJoinsItself'
  BY <1>2, <1>3 DEF Core, Calm, HandleJoinsItself, Types, TypeOK, Upping, Early, Threads,
     DownLabels, JoinLabels, UpLabels
<1>9. NoCycle'
  <2>1. ASSUME NEW circle \in SUBSET (VipThreadIds \cup RollbackThreadIds), t \in circle,
               rollback_thread \in circle \ {t},
               \A u \in circle \ {t} : Joining(u) /\ joined[u] \in circle \ {u}
        PROVE  FALSE
    <3>1. Joining(rollback_thread) /\ joined[rollback_thread] \in circle \ {rollback_thread}
      BY <2>1
    <3>2. rollback_thread \in RollbackThreadIds /\ rollback_thread # NULL
      BY <2>1, Disjoint DEF Types, TypeOK, Threads
    <3>3. pc[rollback_thread] = "joining vip_thread"
      BY <3>1, <3>2 DEF Core, HandleJoinsItself, Joining
    <3>4. PICK v \in VipThreadIds : v \in circle /\ v = joined[rollback_thread]
      BY <3>1, <3>2, <3>3 DEF Types, Threads
    <3>5. pc[v] \in DownLabels
      BY <2>1, <3>4, <1>2 DEF Joining, DownLabels, JoinLabels
    <3>6. QED
      BY <3>2, <3>3, <3>5 DEF Core, Calm, Early, DownLabels, JoinLabels
  <2>2. QED
    BY <1>1, <1>3, <1>4, <2>1, NoCycleUnlessThroughTarget DEF Core
<1>10. GoingUp' /\ Creating'
  <2>1. \A u \in Threads : pc'[u] = pc[u] \/ (u = t /\ pc'[u] \in JoinLabels)
    BY <1>2, <1>3 DEF JoinLabels
  <2>2. QED
    BY <1>2, <2>1 DEF Core, GoingUp, Creating, DownLabels, JoinLabels
<1>11. OwnStop' /\ HandlersFit'
  BY <1>2, <1>3 DEF Core, OwnStop, HandlersFit, Threads, JoinLabels
<1>12. LostHandle'
  BY <1>2, <1>3, <1>6 DEF Core, LostHandle, Live, Quiet, Threads
<1>13. PastJoin'
  <2>1. SUFFICES ASSUME NEW v \in VipThreadIds, NEW u \in Threads, Live(v)',
                        pc'[u] = "remove" \/ (pc'[u] = "joining vip_thread" /\ joined'[u] # v)
                 PROVE  Watched(v)' \/ Quiet(v)'
    BY DEF PastJoin
  <2>2. Live(v) /\ (v # t => pc'[v] = pc[v])
    BY <2>1, <1>1, <1>2, <1>3 DEF Live, Threads
  <2>3. CASE u = t
    BY <2>1, <2>3, <1>2, <1>3
  <2>4. CASE u # t
    <3>1. pc[u] = pc'[u] /\ joined[u] = joined'[u]
      BY <2>4, <1>1, <1>3, <1>4
    <3>2. Watched(v) \/ Quiet(v)
      BY <2>1, <2>2, <3>1 DEF Core, PastJoin
    <3>3. Quiet(v) => Quiet(v)'
      BY <2>2, <1>2, <1>3 DEF Quiet
    <3>4. QED
      BY <3>2, <3>3, <1>6
  <2>5. QED
    BY <2>3, <2>4
<1>14. Held'
  BY <1>2, <1>3, <1>6 DEF Core, Held, Live, Threads
<1>15. Released'
  BY <1>3 DEF Released, JoinLabels
<1>16. QED
  BY <1>5, <1>7, <1>8, <1>9, <1>10, <1>11, <1>12, <1>13, <1>14, <1>15 DEF Core

(* The first join returns: only the handle is lost.                        *)
LEMMA RollbackThreadJoinedKeeps ==
  ASSUME Types, Core, NEW t \in Threads, RollbackThreadJoined(t)
  PROVE  Types' /\ Core'
<1>1. t \in Threads
  OBVIOUS
<1>2. /\ Goto(t, "join vip_thread")
      /\ pc[t] = "joining rollback_thread"
      /\ joined' = [joined EXCEPT ![t] = NULL]
      /\ rollback_thread' = NULL
      /\ UNCHANGED <<state, virtual_ip_thread, ip>>
  BY DEF RollbackThreadJoined, At, JoinReturns
<1>3. pc'[t] = "join vip_thread" /\ \A u \in Threads \ {t} : pc'[u] = pc[u]
  BY <1>1, <1>2, GotoEffect
<1>4. joined'[t] = NULL /\ \A u \in Threads \ {t} : joined'[u] = joined[u]
  BY <1>1, <1>2 DEF Types, TypeOK
<1>5. Types'
  <2>1. Kept(t, "join vip_thread")
    BY DEF Kept, DownLabels, JoinLabels
  <2>2. started' \in 0 .. Starts /\ overtaken' \subseteq Threads /\ defied' \in BOOLEAN
    BY DEF Types, TypeOK, RollbackThreadJoined, SetState, GoingDown
  <2>3. state' \in States /\ ip' \in BOOLEAN
    BY <1>2 DEF Types, TypeOK, States
  <2>4. QED
    BY <1>1, <1>2, <1>4, <2>1, <2>2, <2>3, TypesKept DEF Types, TypeOK
<1>6. \A v : Watched(v) => Watched(v)'
  BY <1>1, <1>2, <1>3, <1>4, WatchedKept
<1>7. OneRun' /\ SomeRun'
  BY <1>2, <1>3 DEF Core, OneRun, SomeRun, Live, Upping, UpLabels
<1>8. Calm' /\ HandleJoinsItself'
  BY <1>2, <1>3 DEF Core, Calm, HandleJoinsItself, Upping, Early, Threads, DownLabels, JoinLabels,
     UpLabels
<1>9. NoCycle'
  <2>1. \A u \in VipThreadIds \cup RollbackThreadIds :
          Joining(u)' => Joining(u) /\ joined'[u] = joined[u]
    BY <1>1, <1>2, <1>3, <1>4 DEF Joining, Threads
  <2>2. QED
    BY <2>1, NoCycleKept DEF Core
<1>10. GoingUp' /\ Creating'
  <2>1. \A u \in Threads : pc'[u] = pc[u] \/ (u = t /\ pc'[u] \in JoinLabels)
    BY <1>2, <1>3 DEF JoinLabels
  <2>2. QED
    BY <1>2, <2>1 DEF Core, GoingUp, Creating, DownLabels, JoinLabels
<1>11. OwnStop' /\ HandlersFit'
  BY <1>2, <1>3 DEF Core, OwnStop, HandlersFit, Threads, JoinLabels
<1>12. LostHandle'
  BY <1>2, <1>3, <1>6 DEF Core, LostHandle, Live, Quiet, Threads
<1>13. PastJoin'
  <2>1. SUFFICES ASSUME NEW v \in VipThreadIds, NEW u \in Threads, Live(v)',
                        pc'[u] = "remove" \/ (pc'[u] = "joining vip_thread" /\ joined'[u] # v)
                 PROVE  Watched(v)' \/ Quiet(v)'
    BY DEF PastJoin
  <2>2. Live(v) /\ (v # t => pc'[v] = pc[v])
    BY <2>1, <1>1, <1>2, <1>3 DEF Live, Threads
  <2>3. CASE u = t
    BY <2>1, <2>3, <1>2, <1>3
  <2>4. CASE u # t
    <3>1. pc[u] = pc'[u] /\ joined[u] = joined'[u]
      BY <2>4, <1>1, <1>3, <1>4
    <3>2. Watched(v) \/ Quiet(v)
      BY <2>1, <2>2, <3>1 DEF Core, PastJoin
    <3>3. Quiet(v) => Quiet(v)'
      BY <2>2, <1>2, <1>3 DEF Quiet
    <3>4. QED
      BY <3>2, <3>3, <1>6
  <2>5. QED
    BY <2>3, <2>4
<1>14. Held'
  BY <1>2, <1>3, <1>6 DEF Core, Held, Live, Threads
<1>15. Released'
  BY <1>3 DEF Released, JoinLabels
<1>16. QED
  BY <1>5, <1>7, <1>8, <1>9, <1>10, <1>11, <1>12, <1>13, <1>14, <1>15 DEF Core

(* vip_thread is joined, and by that watched.                              *)
LEMMA JoinVipThreadKeeps ==
  ASSUME Types, Core, NEW t \in Threads, JoinVipThread(t)
  PROVE  Types' /\ Core'
<1>1. t \in Threads
  OBVIOUS
<1>2. PICK label \in {"remove", "joining vip_thread"} :
        /\ Goto(t, label)
        /\ pc[t] = "join vip_thread"
        /\ label = "joining vip_thread" => virtual_ip_thread \in VipThreadIds
        /\ label = "remove" => virtual_ip_thread = NULL
        /\ joined' = [joined EXCEPT ![t] = virtual_ip_thread]
        /\ UNCHANGED <<state, virtual_ip_thread, rollback_thread, ip>>
  BY DEF JoinVipThread, At, shared, Types, TypeOK
<1>3. pc'[t] = label /\ \A u \in Threads \ {t} : pc'[u] = pc[u]
  BY <1>1, <1>2, GotoEffect
<1>4. joined'[t] = virtual_ip_thread /\ \A u \in Threads \ {t} : joined'[u] = joined[u]
  BY <1>1, <1>2 DEF Types, TypeOK
<1>5. Types'
  <2>1. Kept(t, label)
    BY DEF Kept, DownLabels, JoinLabels
  <2>2. started' \in 0 .. Starts /\ overtaken' \subseteq Threads /\ defied' \in BOOLEAN
    BY DEF Types, TypeOK, JoinVipThread, SetState, GoingDown
  <2>3. virtual_ip_thread \in Threads \cup {NULL}
    BY DEF Types, TypeOK, Threads
  <2>4. state' \in States /\ ip' \in BOOLEAN
    BY <1>2 DEF Types, TypeOK, States
  <2>5. QED
    BY <1>1, <1>2, <1>4, <2>1, <2>2, <2>4, <2>3, TypesKept DEF Types, TypeOK
<1>6. \A v : Watched(v) => Watched(v)'
  BY <1>1, <1>2, <1>3, <1>4, WatchedKept
<1>7. OneRun' /\ SomeRun'
  BY <1>2, <1>3 DEF Core, OneRun, SomeRun, Live, Upping, UpLabels
<1>8. Calm' /\ HandleJoinsItself'
  BY <1>2, <1>3 DEF Core, Calm, HandleJoinsItself, Types, TypeOK, Upping, Early, Threads,
     DownLabels, JoinLabels, UpLabels
<1>9. NoCycle'
  <2>1. ASSUME NEW circle \in SUBSET (VipThreadIds \cup RollbackThreadIds), t \in circle,
               virtual_ip_thread \in circle \ {t},
               \A u \in circle \ {t} : Joining(u) /\ joined[u] \in circle \ {u}
        PROVE  FALSE
    <3>1. Joining(virtual_ip_thread) /\ virtual_ip_thread \in VipThreadIds
      BY <2>1, Disjoint DEF Types, TypeOK, Threads
    <3>2. Early
      BY <3>1 DEF Early, Joining, DownLabels, JoinLabels
    <3>3. t \in VipThreadIds
      BY <2>1, <3>2, <1>2 DEF Core, Calm, DownLabels, JoinLabels
    <3>4. QED
      BY <3>1, <3>3, <1>2 DEF Core, OneRun, Live, Joining, Threads
  <2>2. QED
    BY <1>1, <1>3, <1>4, <2>1, NoCycleUnlessThroughTarget DEF Core
<1>10. GoingUp' /\ Creating'
  <2>1. \A u \in Threads : pc'[u] = pc[u] \/ (u = t /\ pc'[u] \in JoinLabels)
    BY <1>2, <1>3 DEF JoinLabels
  <2>2. QED
    BY <1>2, <2>1 DEF Core, GoingUp, Creating, DownLabels, JoinLabels
<1>11. OwnStop' /\ HandlersFit'
  BY <1>2, <1>3 DEF Core, OwnStop, HandlersFit, Threads, JoinLabels
<1>12. LostHandle'
  BY <1>2, <1>3, <1>6 DEF Core, LostHandle, Live, Quiet, Threads
<1>13. PastJoin'
  <2>1. SUFFICES ASSUME NEW v \in VipThreadIds, NEW u \in Threads, Live(v)',
                        pc'[u] = "remove" \/ (pc'[u] = "joining vip_thread" /\ joined'[u] # v)
                 PROVE  Watched(v)' \/ Quiet(v)'
    BY DEF PastJoin
  <2>2. Live(v) /\ (v # t => pc'[v] = pc[v])
    BY <2>1, <1>1, <1>2, <1>3 DEF Live, Threads
  <2>3. CASE u = t
    <3>1. virtual_ip_thread # v
      BY <2>1, <2>3, <1>2, <1>3, <1>4, Disjoint DEF Threads
    <3>2. Watched(v) \/ Quiet(v)
      BY <2>2, <3>1 DEF Core, LostHandle
    <3>3. Quiet(v) => Quiet(v)'
      BY <2>2, <1>2 DEF Quiet
    <3>4. QED
      BY <3>2, <3>3, <1>6
  <2>4. CASE u # t
    <3>1. pc[u] = pc'[u] /\ joined[u] = joined'[u]
      BY <2>4, <1>1, <1>3, <1>4
    <3>2. Watched(v) \/ Quiet(v)
      BY <2>1, <2>2, <3>1 DEF Core, PastJoin
    <3>3. Quiet(v) => Quiet(v)'
      BY <2>2, <1>2, <1>3 DEF Quiet
    <3>4. QED
      BY <3>2, <3>3, <1>6
  <2>5. QED
    BY <2>3, <2>4
<1>14. Held'
  BY <1>2, <1>3, <1>6 DEF Core, Held, Live, Threads
<1>15. Released'
  BY <1>3 DEF Released, JoinLabels
<1>16. QED
  BY <1>5, <1>7, <1>8, <1>9, <1>10, <1>11, <1>12, <1>13, <1>14, <1>15 DEF Core

(* The second join returns when vip_thread has ended, when it joined       *)
(* itself, or when another thread joins it too.                            *)
LEMMA VipThreadJoinedKeeps ==
  ASSUME Types, Core, NEW t \in Threads, VipThreadJoined(t)
  PROVE  Types' /\ Core'
<1>1. t \in Threads
  OBVIOUS
<1>2. /\ Goto(t, "remove")
      /\ pc[t] = "joining vip_thread"
      /\ joined' = [joined EXCEPT ![t] = NULL]
      /\ virtual_ip_thread' = NULL
      /\ JoinReturns(t)
      /\ UNCHANGED <<state, rollback_thread, ip>>
  BY DEF VipThreadJoined, At, JoinReturns
<1>3. pc'[t] = "remove" /\ \A u \in Threads \ {t} : pc'[u] = pc[u]
  BY <1>1, <1>2, GotoEffect
<1>4. joined'[t] = NULL /\ \A u \in Threads \ {t} : joined'[u] = joined[u]
  BY <1>1, <1>2 DEF Types, TypeOK
<1>5. Types'
  <2>1. Kept(t, "remove")
    BY DEF Kept, DownLabels, JoinLabels
  <2>2. started' \in 0 .. Starts /\ overtaken' \subseteq Threads /\ defied' \in BOOLEAN
    BY DEF Types, TypeOK, VipThreadJoined, SetState, GoingDown
  <2>3. state' \in States /\ ip' \in BOOLEAN
    BY <1>2 DEF Types, TypeOK, States
  <2>4. QED
    BY <1>1, <1>2, <1>4, <2>1, <2>2, <2>3, TypesKept DEF Types, TypeOK
<1>6. ASSUME NEW v \in VipThreadIds, Live(v)'
      PROVE  Watched(v)' \/ Quiet(v)'
  <2>1. Live(v) /\ v \in Threads /\ pc[v] # "ended"
    BY <1>6, <1>1, <1>2, <1>3 DEF Live, Threads
  <2>2. CASE v = t
    BY <2>2, <1>2, <1>3 DEF Core, OwnStop, JoinLabels, Quiet
  <2>3. CASE v # t /\ joined[t] # v
    <3>1. Watched(v) \/ Quiet(v)
      BY <2>1, <2>3, <1>1, <1>2 DEF Core, PastJoin
    <3>2. Watched(v) => Watched(v)'
      BY <2>3, <1>1, <1>3, <1>4 DEF Watched
    <3>3. Quiet(v) => Quiet(v)'
      BY <2>1, <2>3, <1>1, <1>2, <1>3 DEF Quiet
    <3>4. QED
      BY <3>1, <3>2, <3>3
  <2>4. CASE v # t /\ joined[t] = v
    <3>1. PICK other \in Threads \ {t} : Joining(other) /\ joined[other] = v
      BY <2>1, <2>4, <1>2 DEF JoinReturns
    <3>2. pc[other] = "joining vip_thread"
      BY <3>1, Disjoint DEF Types, Joining, Threads
    <3>3. QED
      BY <3>1, <3>2, <1>3, <1>4 DEF Watched
  <2>5. QED
    BY <2>2, <2>3, <2>4
<1>7. OneRun' /\ SomeRun'
  BY <1>2, <1>3 DEF Core, OneRun, SomeRun, Live, Upping, UpLabels
<1>8. Calm' /\ HandleJoinsItself'
  BY <1>2, <1>3 DEF Core, Calm, HandleJoinsItself, Types, TypeOK, Upping, Early, Threads,
     DownLabels, JoinLabels, UpLabels
<1>9. NoCycle'
  <2>1. \A u \in VipThreadIds \cup RollbackThreadIds :
          Joining(u)' => Joining(u) /\ joined'[u] = joined[u]
    BY <1>1, <1>2, <1>3, <1>4 DEF Joining, Threads
  <2>2. QED
    BY <2>1, NoCycleKept DEF Core
<1>10. GoingUp' /\ Creating'
  <2>1. \A u \in Threads : pc'[u] = pc[u] \/ (u = t /\ pc'[u] \in JoinLabels)
    BY <1>2, <1>3 DEF JoinLabels
  <2>2. QED
    BY <1>2, <2>1 DEF Core, GoingUp, Creating, DownLabels, JoinLabels
<1>11. OwnStop' /\ HandlersFit'
  BY <1>2, <1>3 DEF Core, OwnStop, HandlersFit, Threads, JoinLabels
<1>12. LostHandle'
  <2>1. SUFFICES ASSUME NEW v \in VipThreadIds, Live(v)' PROVE Watched(v)' \/ Quiet(v)'
    BY DEF LostHandle
  <2>2. QED
    BY <2>1, <1>6
<1>13. PastJoin'
  <2>1. SUFFICES ASSUME NEW v \in VipThreadIds, Live(v)' PROVE Watched(v)' \/ Quiet(v)'
    BY DEF PastJoin
  <2>2. QED
    BY <2>1, <1>6
<1>14. Held'
  <2>1. \A v \in VipThreadIds : Quiet(v)' => /\ state' \notin Active
                                             /\ pc'[v] \notin {"announce", "rollback", "rback_stop"}
    BY DEF Quiet, Active
  <2>2. QED
    BY <2>1, <1>6 DEF Held
<1>15. Released'
  BY <1>3 DEF Released, JoinLabels
<1>16. QED
  BY <1>5, <1>7, <1>8, <1>9, <1>10, <1>11, <1>12, <1>13, <1>14, <1>15 DEF Core

(* The address is removed; a handler that has yet to add it is watched by  *)
(* another stop.                                                           *)
LEMMA RemoveVipKeeps ==
  ASSUME Types, Core, NEW t \in Threads, RemoveVip(t)
  PROVE  Types' /\ Core'
<1>1. t \in Threads
  OBVIOUS
<1>2. PICK label \in {"loop", "ready", "pause"} :
        /\ Goto(t, label)
        /\ t \in VipThreadIds => label = "loop"
        /\ t \in RollbackThreadIds => label = "pause"
        /\ t \in Callers => label = "ready"
        /\ pc[t] = "remove"
        /\ ip' = FALSE
        /\ UNCHANGED <<state, virtual_ip_thread, rollback_thread, joined>>
  <2>1. /\ pc[t] = "remove" /\ ip' = FALSE /\ Goto(t, Return(t))
        /\ UNCHANGED <<state, virtual_ip_thread, rollback_thread, joined>>
    BY DEF RemoveVip, At
  <2>2. /\ t \in VipThreadIds => Return(t) = "loop"
        /\ t \in RollbackThreadIds => Return(t) = "pause"
        /\ t \in Callers => Return(t) = "ready"
    BY <2>1, ReturnValue
  <2>3. Return(t) \in {"loop", "ready", "pause"}
    BY <2>2 DEF Threads
  <2>4. QED
    BY <2>1, <2>2, <2>3
<1>3. pc'[t] = label /\ \A u \in Threads \ {t} : pc'[u] = pc[u]
  BY <1>1, <1>2, GotoEffect
<1>4. Types'
  <2>1. Kept(t, label)
    BY <1>2 DEF Kept
  <2>2. started' \in 0 .. Starts /\ overtaken' \subseteq Threads /\ defied' \in BOOLEAN
    BY DEF Types, TypeOK, RemoveVip, SetState, GoingDown
  <2>3. state' \in States /\ ip' \in BOOLEAN
    BY <1>2 DEF Types, TypeOK, States
  <2>4. QED
    BY <1>1, <1>2, <2>1, <2>2, <2>3, TypesKept DEF Types, TypeOK
<1>5. \A v : Watched(v) => Watched(v)'
  BY <1>1, <1>2, <1>3, WatchedKept
<1>6. OneRun' /\ SomeRun'
  BY <1>2, <1>3 DEF Core, OneRun, SomeRun, Live, Upping, UpLabels
<1>7. Calm' /\ HandleJoinsItself'
  BY <1>2, <1>3 DEF Core, Calm, HandleJoinsItself, Types, TypeOK, Upping, Early, Threads,
     DownLabels, JoinLabels, UpLabels
<1>8. NoCycle'
  <2>1. \A u \in VipThreadIds \cup RollbackThreadIds :
          Joining(u)' => Joining(u) /\ joined'[u] = joined[u]
    BY <1>1, <1>2, <1>3 DEF Joining, Threads
  <2>2. QED
    BY <2>1, NoCycleKept DEF Core
<1>9. GoingUp' /\ Creating'
  BY <1>2, <1>3 DEF Core, GoingUp, Creating, DownLabels, JoinLabels
<1>10. OwnStop' /\ HandlersFit'
  BY <1>2, <1>3 DEF Core, OwnStop, HandlersFit, Threads, JoinLabels
<1>11. LostHandle' /\ PastJoin'
  BY <1>2, <1>3, <1>5 DEF Core, LostHandle, PastJoin, Live, Quiet, Threads
<1>12. Held'
  BY <1>2, <1>3, <1>5 DEF Core, Held, PastJoin, Live, Quiet, Active, Threads
<1>13. Released'
  <2>1. SUFFICES ASSUME NEW v \in VipThreadIds, pc'[v] = "add"
                 PROVE  \E u \in Threads : pc'[u] \in JoinLabels
    BY <1>2 DEF Released
  <2>2. v # t /\ Live(v) /\ pc[v] = "add"
    BY <2>1, <1>1, <1>2, <1>3 DEF Live, Threads
  <2>3. Watched(v)
    BY <2>2, <1>1, <1>2 DEF Core, PastJoin, Quiet
  <2>4. QED
    BY <2>3, <1>1, <1>2, <1>3 DEF Watched, JoinLabels
<1>14. QED
  BY <1>4, <1>6, <1>7, <1>8, <1>9, <1>10, <1>11, <1>12, <1>13 DEF Core

-----------------------------------------------------------------------------
(* The loops of the threads and the callers keep the invariant *)

(* vip_thread enters the handler that fits the state.                      *)
LEMMA DispatchKeeps ==
  ASSUME Types, Core, NEW t \in VipThreadIds, Dispatch(t)
  PROVE  Types' /\ Core'
<1>1. t \in Threads
  BY DEF Threads
<1>2. PICK label \in {"loop", "go_down", "act", "react", "observe", "rollback", "rback_stop"} :
        /\ Goto(t, label)
        /\ pc[t] = "loop"
        /\ state # "IDLE"
        /\ label \in {"go_down", "act", "observe"} => state = "START"
        /\ label = "react" => state = "BACKUP"
        /\ label = "rollback" => state = "MASTER"
        /\ label = "rback_stop" => state = "RBACK"
        /\ UNCHANGED <<state, virtual_ip_thread, rollback_thread, ip, joined>>
  BY <1>1, ReturnValue, EventEntry DEF Dispatch, At, shared, Types, TypeOK
<1>3. pc'[t] = label /\ \A u \in Threads \ {t} : pc'[u] = pc[u]
  BY <1>1, <1>2, GotoEffect
<1>4. Types'
  <2>1. Kept(t, label)
    BY Disjoint DEF Kept, DownLabels, HandlerLabels
  <2>2. started' \in 0 .. Starts /\ overtaken' \subseteq Threads /\ defied' \in BOOLEAN
    BY DEF Types, TypeOK, Dispatch, SetState, GoingDown
  <2>3. state' \in States /\ ip' \in BOOLEAN
    BY <1>2 DEF Types, TypeOK, States
  <2>4. QED
    BY <1>1, <1>2, <2>1, <2>2, <2>3, TypesKept DEF Types, TypeOK
<1>5. \A v : Watched(v) => Watched(v)'
  BY <1>1, <1>2, <1>3, WatchedKept
<1>6. OneRun' /\ SomeRun'
  BY <1>2, <1>3 DEF Core, OneRun, SomeRun, Live, Upping
<1>7. Calm' /\ HandleJoinsItself'
  BY <1>2, <1>3, Disjoint DEF Core, Calm, HandleJoinsItself, Types, TypeOK, Upping, Early, Threads,
     DownLabels, JoinLabels, UpLabels
<1>8. NoCycle'
  <2>1. \A u \in VipThreadIds \cup RollbackThreadIds :
          Joining(u)' => Joining(u) /\ joined'[u] = joined[u]
    BY <1>1, <1>2, <1>3 DEF Joining, Threads
  <2>2. QED
    BY <2>1, NoCycleKept DEF Core
<1>9. GoingUp' /\ Creating'
  BY <1>2, <1>3 DEF Core, GoingUp, Creating, JoinLabels
<1>10. OwnStop' /\ HandlersFit'
  BY <1>2, <1>3 DEF Core, OwnStop, HandlersFit, Active, Threads, JoinLabels
<1>11. LostHandle' /\ PastJoin'
  BY <1>2, <1>3, <1>5 DEF Core, LostHandle, PastJoin, Live, Quiet, Threads
<1>12. Held'
  BY <1>2, <1>3, <1>5 DEF Core, Held, Live, Active, Threads
<1>13. Released'
  BY <1>2 DEF Released
<1>14. QED
  BY <1>4, <1>6, <1>7, <1>8, <1>9, <1>10, <1>11, <1>12, <1>13 DEF Core

(* vip_thread ends only on an IDLE node.                                   *)
LEMMA LoopEndsKeeps ==
  ASSUME Types, Core, NEW t \in VipThreadIds, LoopEnds(t)
  PROVE  Types' /\ Core'
<1>1. t \in Threads
  BY DEF Threads
<1>2. /\ Goto(t, "ended")
      /\ pc[t] = "loop"
      /\ state = "IDLE"
      /\ UNCHANGED <<state, virtual_ip_thread, rollback_thread, ip, joined>>
  BY DEF LoopEnds, At, shared
<1>3. pc'[t] = "ended" /\ \A u \in Threads \ {t} : pc'[u] = pc[u]
  BY <1>1, <1>2, GotoEffect
<1>4. Types'
  <2>1. Kept(t, "ended")
    BY Disjoint DEF Kept
  <2>2. started' \in 0 .. Starts /\ overtaken' \subseteq Threads /\ defied' \in BOOLEAN
    BY DEF Types, TypeOK, LoopEnds, SetState, GoingDown
  <2>3. state' \in States /\ ip' \in BOOLEAN
    BY <1>2 DEF Types, TypeOK, States
  <2>4. QED
    BY <1>1, <1>2, <2>1, <2>2, <2>3, TypesKept DEF Types, TypeOK
<1>5. \A v : Watched(v) => Watched(v)'
  BY <1>1, <1>2, <1>3, WatchedKept
<1>6. OneRun' /\ SomeRun'
  BY <1>2, <1>3 DEF Core, OneRun, SomeRun, Live, Upping
<1>7. Calm' /\ HandleJoinsItself'
  BY <1>2, <1>3 DEF Core, Calm, HandleJoinsItself, Types, TypeOK, Upping, Early, Threads,
     DownLabels, JoinLabels, UpLabels
<1>8. NoCycle'
  <2>1. \A u \in VipThreadIds \cup RollbackThreadIds :
          Joining(u)' => Joining(u) /\ joined'[u] = joined[u]
    BY <1>1, <1>2, <1>3 DEF Joining, Threads
  <2>2. QED
    BY <2>1, NoCycleKept DEF Core
<1>9. GoingUp' /\ Creating'
  BY <1>2, <1>3 DEF Core, GoingUp, Creating, DownLabels, JoinLabels
<1>10. OwnStop' /\ HandlersFit'
  BY <1>2, <1>3 DEF Core, OwnStop, HandlersFit, Threads
<1>11. LostHandle' /\ PastJoin'
  BY <1>2, <1>3 DEF Core, LostHandle, PastJoin, OneRun, Live, Threads
<1>12. Held'
  BY <1>2, <1>3, <1>5 DEF Core, Held, Live, Threads
<1>13. Released'
  BY <1>2, <1>3 DEF Core, Released, Threads, JoinLabels
<1>14. QED
  BY <1>4, <1>6, <1>7, <1>8, <1>9, <1>10, <1>11, <1>12, <1>13 DEF Core

(* The last look of rollback_thread finds RBACK: nothing is Early.         *)
LEMMA LookKeeps ==
  ASSUME Types, Core, NEW t \in RollbackThreadIds, Look(t)
  PROVE  Types' /\ Core'
<1>1. t \in Threads
  BY DEF Threads
<1>2. PICK label \in {"stop", "ended"} :
        /\ Goto(t, label)
        /\ pc[t] = "sleep"
        /\ label = "stop" => state = "RBACK"
        /\ SecondPasses
        /\ UNCHANGED <<state, virtual_ip_thread, rollback_thread, ip, joined>>
  BY DEF Look, At, shared
<1>3. pc'[t] = label /\ \A u \in Threads \ {t} : pc'[u] = pc[u]
  BY <1>1, <1>2, GotoEffect
<1>4. Types'
  <2>1. Kept(t, label)
    BY Disjoint DEF Kept
  <2>2. started' \in 0 .. Starts /\ overtaken' \subseteq Threads /\ defied' \in BOOLEAN
    BY DEF Types, TypeOK, Look, SetState, GoingDown
  <2>3. state' \in States /\ ip' \in BOOLEAN
    BY <1>2 DEF Types, TypeOK, States
  <2>4. QED
    BY <1>1, <1>2, <2>1, <2>2, <2>3, TypesKept DEF Types, TypeOK
<1>5. \A v : Watched(v) => Watched(v)'
  BY <1>1, <1>2, <1>3, WatchedKept
<1>6. OneRun' /\ SomeRun'
  BY <1>2, <1>3, Disjoint DEF Core, OneRun, SomeRun, Live, Upping, UpLabels
<1>7. Calm' /\ HandleJoinsItself'
  BY <1>2, <1>3 DEF Core, Calm, HandleJoinsItself, Types, TypeOK, Upping, Early, Threads,
     DownLabels, JoinLabels, UpLabels
<1>8. NoCycle'
  <2>1. \A u \in VipThreadIds \cup RollbackThreadIds :
          Joining(u)' => Joining(u) /\ joined'[u] = joined[u]
    BY <1>1, <1>2, <1>3 DEF Joining, Threads
  <2>2. QED
    BY <2>1, NoCycleKept DEF Core
<1>9. GoingUp' /\ Creating'
  BY <1>2, <1>3 DEF Core, GoingUp, Creating, DownLabels, JoinLabels
<1>10. OwnStop' /\ HandlersFit'
  BY <1>2, <1>3, Disjoint DEF Core, OwnStop, HandlersFit, Threads
<1>11. LostHandle' /\ PastJoin'
  BY <1>2, <1>3, <1>5 DEF Core, LostHandle, PastJoin, Live, Quiet, Threads
<1>12. Held'
  BY <1>2, <1>3, <1>5 DEF Core, Held, Live, Threads
<1>13. Released'
  BY <1>2, <1>3 DEF Core, Released, Threads, JoinLabels
<1>14. QED
  BY <1>4, <1>6, <1>7, <1>8, <1>9, <1>10, <1>11, <1>12, <1>13 DEF Core

(* The stop of rollback_thread begins where no vip_thread stops or goes    *)
(* up.                                                                     *)
LEMMA RollbackStopsKeeps ==
  ASSUME Types, Core, NEW t \in RollbackThreadIds, RollbackStops(t)
  PROVE  Types' /\ Core'
<1>1. t \in Threads
  BY DEF Threads
<1>2. PICK label \in {"go_down", "pause"} :
        /\ Goto(t, label)
        /\ pc[t] = "stop"
        /\ UNCHANGED <<state, virtual_ip_thread, rollback_thread, ip, joined>>
  BY <1>1, ReturnValue, CallEntry DEF RollbackStops, At, shared, Types, TypeOK
<1>3. pc'[t] = label /\ \A u \in Threads \ {t} : pc'[u] = pc[u]
  BY <1>1, <1>2, GotoEffect
<1>4. Types'
  <2>1. Kept(t, label)
    BY Disjoint DEF Kept, DownLabels
  <2>2. started' \in 0 .. Starts /\ overtaken' \subseteq Threads /\ defied' \in BOOLEAN
    BY DEF Types, TypeOK, RollbackStops, SetState, GoingDown
  <2>3. state' \in States /\ ip' \in BOOLEAN
    BY <1>2 DEF Types, TypeOK, States
  <2>4. QED
    BY <1>1, <1>2, <2>1, <2>2, <2>3, TypesKept DEF Types, TypeOK
<1>5. \A v : Watched(v) => Watched(v)'
  BY <1>1, <1>2, <1>3, WatchedKept
<1>6. OneRun' /\ SomeRun'
  BY <1>2, <1>3 DEF Core, OneRun, SomeRun, Live, Upping, UpLabels
<1>7. Calm' /\ HandleJoinsItself'
  BY <1>2, <1>3, Disjoint DEF Core, Calm, HandleJoinsItself, Types, TypeOK, Upping, Early, Threads,
     UpLabels
<1>8. NoCycle'
  <2>1. \A u \in VipThreadIds \cup RollbackThreadIds :
          Joining(u)' => Joining(u) /\ joined'[u] = joined[u]
    BY <1>1, <1>2, <1>3 DEF Joining, Threads
  <2>2. QED
    BY <2>1, NoCycleKept DEF Core
<1>9. GoingUp' /\ Creating'
  BY <1>2, <1>3 DEF Core, GoingUp, Creating, Calm, Upping, Early, UpLabels
<1>10. OwnStop' /\ HandlersFit'
  BY <1>2, <1>3, Disjoint DEF Core, OwnStop, HandlersFit, Threads
<1>11. LostHandle' /\ PastJoin'
  BY <1>2, <1>3, <1>5 DEF Core, LostHandle, PastJoin, Live, Quiet, Threads
<1>12. Held'
  BY <1>2, <1>3, <1>5 DEF Core, Held, Live, Threads
<1>13. Released'
  BY <1>2, <1>3 DEF Core, Released, JoinLabels, Threads
<1>14. QED
  BY <1>4, <1>6, <1>7, <1>8, <1>9, <1>10, <1>11, <1>12, <1>13 DEF Core

(* A rollback_thread that starts the node keeps the types, whatever it     *)
(* starts over.                                                            *)
LEMMA RollbackStartsTypes ==
  ASSUME Types, NEW t \in RollbackThreadIds, RollbackStarts(t)
  PROVE  Types'
<1>1. t \in Threads
  BY DEF Threads
<1>2. PICK label \in {"go_up", "ended"} :
        /\ Goto(t, label)
        /\ UNCHANGED <<state, virtual_ip_thread, rollback_thread, ip, joined>>
  BY DEF RollbackStarts, shared
<1>3. Types'
  <2>1. Kept(t, label)
    BY Disjoint DEF Kept, UpLabels
  <2>2. started' \in 0 .. Starts /\ overtaken' \subseteq Threads /\ defied' \in BOOLEAN
    BY DEF Types, TypeOK, RollbackStarts, SetState, GoingDown
  <2>3. state' \in States /\ ip' \in BOOLEAN
    BY <1>2 DEF Types, TypeOK, States
  <2>4. QED
    BY <1>1, <1>2, <2>1, <2>2, <2>3, TypesKept DEF Types, TypeOK
<1>4. QED
  BY <1>3

(* A rollback_thread that starts the node over no other run begins the one *)
(* run.                                                                    *)
LEMMA RollbackStartsKeeps ==
  ASSUME Types, Core, NEW t \in RollbackThreadIds, RollbackStarts(t), ~defied'
  PROVE  Types' /\ Core'
<1>1. t \in Threads
  BY DEF Threads
<1>2. PICK label \in {"go_up", "ended"} :
        /\ Goto(t, label)
        /\ pc[t] = "pause"
        /\ label = "go_up" => state = "IDLE"
        /\ label = "go_up" => \A u \in Threads : ~Live(u) /\ ~Upping(u) /\ pc[u] \notin DownLabels
        /\ \A r \in RollbackThreadIds : pc[r] # "stop"
        /\ UNCHANGED <<state, virtual_ip_thread, rollback_thread, ip, joined>>
  <2>1. PICK label :
          /\ label \in {"go_up", "ended"}
          /\ Goto(t, label)
          /\ label = "go_up" => /\ state = "IDLE"
                               /\ Launched(VipThreadIds) = {} /\ Stopping = {}
    BY CallTable DEF RollbackStarts, Types, TypeOK
  <2>2. \A u \in Threads : ~Upping(u) /\ pc[u] # "stop"
    BY DEF RollbackStarts, SecondPasses, Joining, Upping, UpLabels
  <2>3. label = "go_up" => \A u \in Threads : ~Live(u) /\ pc[u] \notin DownLabels
    BY <2>1 DEF Launched, Live, Stopping, GoingDown, DownLabels, JoinLabels
  <2>4. QED
    BY <2>1, <2>2, <2>3 DEF RollbackStarts, At, shared, Threads
<1>3. pc'[t] = label /\ \A u \in Threads \ {t} : pc'[u] = pc[u]
  BY <1>1, <1>2, GotoEffect
<1>4. Types'
  <2>1. Kept(t, label)
    BY Disjoint DEF Kept, UpLabels
  <2>2. started' \in 0 .. Starts /\ overtaken' \subseteq Threads /\ defied' \in BOOLEAN
    BY DEF Types, TypeOK, RollbackStarts, SetState, GoingDown
  <2>3. state' \in States /\ ip' \in BOOLEAN
    BY <1>2 DEF Types, TypeOK, States
  <2>4. QED
    BY <1>1, <1>2, <2>1, <2>2, <2>3, TypesKept DEF Types, TypeOK
<1>5. \A v : Watched(v) => Watched(v)'
  BY <1>1, <1>2, <1>3, WatchedKept
<1>6. OneRun' /\ SomeRun'
  <2>1. CASE label = "go_up"
    BY <2>1, <1>2, <1>3 DEF OneRun, SomeRun, Live, Upping
  <2>2. CASE label = "ended"
    <3>1. \A u \in Threads : (Live(u)' <=> Live(u)) /\ (Upping(u)' <=> Upping(u))
      BY <2>2, <1>1, <1>2, <1>3, Disjoint DEF Live, Upping, UpLabels
    <3>2. QED
      BY <3>1, <1>2 DEF Core, OneRun, SomeRun
  <2>3. QED
    BY <2>1, <2>2, <1>2
<1>7. Calm' /\ HandleJoinsItself'
  <2>1. CASE label = "go_up"
    <3>1. \A r \in RollbackThreadIds : pc'[r] \notin {"stop"} \cup DownLabels
      BY <2>1, <1>2, <1>3 DEF Threads, DownLabels, JoinLabels
    <3>2. rollback_thread \in RollbackThreadIds \cup {NULL}
      BY DEF Types, TypeOK
    <3>3. HandleJoinsItself'
      BY <3>1, <3>2, <1>2 DEF HandleJoinsItself, DownLabels, JoinLabels
    <3>4. QED
      BY <2>1, <3>1, <3>3, <1>2 DEF Calm
  <2>2. CASE label = "ended"
    BY <1>2, <1>3 DEF Core, Calm, HandleJoinsItself, Early, Upping, UpLabels, DownLabels,
       JoinLabels, Threads, Types, TypeOK
  <2>3. QED
    BY <2>1, <2>2, <1>2
<1>8. NoCycle'
  <2>1. \A u \in VipThreadIds \cup RollbackThreadIds :
          Joining(u)' => Joining(u) /\ joined'[u] = joined[u]
    BY <1>1, <1>2, <1>3 DEF Joining, Threads
  <2>2. QED
    BY <2>1, NoCycleKept DEF Core
<1>9. GoingUp' /\ Creating'
  <2>1. CASE label = "go_up"
    BY <2>1, <1>2, <1>3 DEF GoingUp, Creating, DownLabels, JoinLabels
  <2>2. CASE label = "ended"
    BY <1>2, <1>3 DEF Core, GoingUp, Creating, DownLabels, JoinLabels
  <2>3. QED
    BY <2>1, <2>2, <1>2
<1>10. OwnStop' /\ HandlersFit'
  BY <1>2, <1>3, Disjoint DEF Core, OwnStop, HandlersFit, Threads
<1>11. LostHandle' /\ PastJoin'
  BY <1>2, <1>3, <1>5 DEF Core, LostHandle, PastJoin, Live, Quiet, Threads
<1>12. Held'
  BY <1>2, <1>3, <1>5 DEF Core, Held, Live, Threads
<1>13. Released'
  BY <1>2, <1>3 DEF Core, Released, JoinLabels, Threads
<1>14. QED
  BY <1>4, <1>6, <1>7, <1>8, <1>9, <1>10, <1>11, <1>12, <1>13 DEF Core

(* A caller's stop.                                                        *)
LEMMA StopKeeps ==
  ASSUME Types, Core, NEW t \in Callers, Stop(t)
  PROVE  Types' /\ Core'
<1>1. t \in Threads
  BY DEF Threads
<1>2. /\ Goto(t, "go_down")
      /\ pc[t] = "ready"
      /\ state # "IDLE"
      /\ UNCHANGED <<state, virtual_ip_thread, rollback_thread, ip, joined>>
  BY <1>1, ReturnValue, CallEntry DEF Stop, At, shared, Types, TypeOK
<1>3. pc'[t] = "go_down" /\ \A u \in Threads \ {t} : pc'[u] = pc[u]
  BY <1>1, <1>2, GotoEffect
<1>4. Types'
  <2>1. Kept(t, "go_down")
    BY DEF Kept, DownLabels
  <2>2. started' \in 0 .. Starts /\ overtaken' \subseteq Threads /\ defied' \in BOOLEAN
    BY DEF Types, TypeOK, Stop, SetState, GoingDown
  <2>3. state' \in States /\ ip' \in BOOLEAN
    BY <1>2 DEF Types, TypeOK, States
  <2>4. QED
    BY <1>1, <1>2, <2>1, <2>2, <2>3, TypesKept DEF Types, TypeOK
<1>5. \A v : Watched(v) => Watched(v)'
  BY <1>1, <1>2, <1>3, WatchedKept
<1>6. OneRun' /\ SomeRun'
  BY <1>2, <1>3 DEF Core, OneRun, SomeRun, Live, Upping, UpLabels
<1>7. Calm' /\ HandleJoinsItself'
  BY <1>2, <1>3, Disjoint DEF Core, Calm, HandleJoinsItself, Types, TypeOK, Upping, Early, Threads,
     UpLabels
<1>8. NoCycle'
  <2>1. \A u \in VipThreadIds \cup RollbackThreadIds :
          Joining(u)' => Joining(u) /\ joined'[u] = joined[u]
    BY <1>1, <1>2, <1>3 DEF Joining, Threads
  <2>2. QED
    BY <2>1, NoCycleKept DEF Core
<1>9. GoingUp' /\ Creating'
  BY <1>2, <1>3 DEF Core, GoingUp, Creating, JoinLabels
<1>10. OwnStop' /\ HandlersFit'
  BY <1>2, <1>3, Disjoint DEF Core, OwnStop, HandlersFit, Threads
<1>11. LostHandle' /\ PastJoin'
  BY <1>2, <1>3, <1>5 DEF Core, LostHandle, PastJoin, Live, Quiet, Threads
<1>12. Held'
  BY <1>2, <1>3, <1>5 DEF Core, Held, Live, Threads
<1>13. Released'
  BY <1>2 DEF Released
<1>14. QED
  BY <1>4, <1>6, <1>7, <1>8, <1>9, <1>10, <1>11, <1>12, <1>13 DEF Core

(* A caller's start finds no run and no stop.                              *)
LEMMA StartKeeps ==
  ASSUME Types, Core, NEW t \in Callers, Start(t)
  PROVE  Types' /\ Core'
<1>1. t \in Threads
  BY DEF Threads
<1>2. /\ Goto(t, "go_up")
      /\ pc[t] = "ready"
      /\ state = "IDLE"
      /\ \A u \in Threads : ~Live(u) /\ ~Upping(u) /\ pc[u] \notin DownLabels
      /\ \A r \in RollbackThreadIds : pc[r] # "stop"
      /\ UNCHANGED <<state, virtual_ip_thread, rollback_thread, ip, joined>>
  <2>1. \A u \in VipThreadIds \cup RollbackThreadIds : pc[u] \in {"none", "ended"}
    BY DEF Start, AtRest, Launched
  <2>2. \A c \in Callers : pc[c] = "ready"
    BY DEF Start, AtRest
  <2>3. \A u \in Threads : ~Live(u) /\ ~Upping(u) /\ pc[u] \notin DownLabels
    BY <2>1, <2>2 DEF Threads, Live, Upping, UpLabels, DownLabels, JoinLabels
  <2>4. \A r \in RollbackThreadIds : pc[r] # "stop"
    BY <2>1
  <2>5. state = "IDLE" /\ Goto(t, "go_up") /\ pc[t] = "ready"
    BY <1>1, CallEntry, ReturnValue DEF Start, At, Types, TypeOK
  <2>6. QED
    BY <2>3, <2>4, <2>5 DEF Start, shared
<1>3. pc'[t] = "go_up" /\ \A u \in Threads \ {t} : pc'[u] = pc[u]
  BY <1>1, <1>2, GotoEffect
<1>4. Types'
  <2>1. Kept(t, "go_up")
    BY Disjoint DEF Kept, UpLabels
  <2>2. /\ started' \in 0 .. Starts
        /\ UNCHANGED <<overtaken, defied>>
    <3>1. started' = started + 1 /\ started < Starts /\ UNCHANGED <<overtaken, defied>>
      BY DEF Start
    <3>2. Starts \in Nat
      BY ThreadsAssumption
    <3>3. started \in 0 .. Starts
      BY DEF Types, TypeOK
    <3>4. started' \in 0 .. Starts
      BY <3>1, <3>2, <3>3
    <3>5. QED
      BY <3>1, <3>4
  <2>3. state' \in States /\ ip' \in BOOLEAN
    BY <1>2 DEF Types, TypeOK, States
  <2>4. QED
    BY <1>1, <1>2, <2>1, <2>2, <2>3, TypesKept DEF Types, TypeOK
<1>5. OneRun' /\ SomeRun'
  BY <1>2, <1>3 DEF OneRun, SomeRun, Live, Upping
<1>6. Calm' /\ HandleJoinsItself'
  BY <1>2, <1>3, Disjoint DEF Core, Calm, HandleJoinsItself, Types, TypeOK, Threads
<1>7. NoCycle'
  <2>1. \A u \in VipThreadIds \cup RollbackThreadIds :
          Joining(u)' => Joining(u) /\ joined'[u] = joined[u]
    BY <1>1, <1>2, <1>3 DEF Joining, Threads
  <2>2. QED
    BY <2>1, NoCycleKept DEF Core
<1>8. GoingUp' /\ Creating'
  BY <1>2, <1>3 DEF GoingUp, Creating, DownLabels, JoinLabels
<1>9. OwnStop' /\ HandlersFit'
  BY <1>2, <1>3 DEF Core, OwnStop, HandlersFit, Threads
<1>10. LostHandle' /\ PastJoin'
  BY <1>2, <1>3 DEF LostHandle, PastJoin, Live, Threads
<1>11. Held'
  BY <1>2, <1>3 DEF Held, Live, Threads
<1>12. Released'
  BY <1>2, <1>3 DEF Core, Released, Threads, DownLabels
<1>13. QED
  BY <1>4, <1>5, <1>6, <1>7, <1>8, <1>9, <1>10, <1>11, <1>12 DEF Core

-----------------------------------------------------------------------------
(* The theorems *)

(* The model stops where two runs overlap; until then each action keeps    *)
(* the invariant.                                                          *)
LEMMA ThreadsInvInvariant == Spec => []ThreadsInv
<1>1. Init => ThreadsInv
  <2> SUFFICES ASSUME Init PROVE ThreadsInv
    OBVIOUS
  <2>1. \A t \in Threads : /\ pc[t] = IF t \in Callers THEN "ready" ELSE "none"
                           /\ joined[t] = NULL
    BY DEF Init
  <2>2. Types
    <3>1. started \in 0 .. Starts
      BY ThreadsAssumption DEF Init
    <3>2. pc \in [Threads -> Labels] /\ joined \in [Threads -> Threads \cup {NULL}]
      BY DEF Init, Labels
    <3>3. TypeOK
      BY <3>1, <3>2 DEF Init, TypeOK, States
    <3>4. QED
      BY <2>1, <3>3, Disjoint DEF Types, Kept, Threads
  <2>3. \A t \in Threads : ~Live(t) /\ ~Upping(t) /\ ~Joining(t)
    BY <2>1, Disjoint DEF Live, Upping, Joining, UpLabels
  <2>4. OneRun /\ LostHandle /\ PastJoin /\ Held
    BY <2>3 DEF OneRun, LostHandle, PastJoin, Held, Threads
  <2>5. NoCycle
    <3>1. \A t \in VipThreadIds \cup RollbackThreadIds : ~Joining(t)
      BY <2>3 DEF Threads
    <3>2. QED
      BY <3>1 DEF NoCycle
  <2>6. Calm /\ HandleJoinsItself /\ SomeRun /\ OwnStop /\ HandlersFit /\ Released
    BY <2>1, <2>3, Disjoint DEF Init, Calm, Early, HandleJoinsItself, SomeRun, OwnStop,
       HandlersFit,
        Released, DownLabels, JoinLabels, Threads, Active
  <2>7. GoingUp /\ Creating
    BY <2>1 DEF GoingUp, Creating
  <2>8. QED
    BY <2>2, <2>4, <2>5, <2>6, <2>7 DEF ThreadsInv, Core
<1>2. ThreadsInv /\ [Next]_vars => ThreadsInv'
  <2> SUFFICES ASSUME ThreadsInv, [Next]_vars PROVE ThreadsInv'
    OBVIOUS
  <2>1. CASE UNCHANGED vars
    BY <2>1 DEF vars, shared, ThreadsInv, Types, TypeOK, Core, OneRun, Live, Upping, Calm, Early,
        HandleJoinsItself, NoCycle, Joining, SomeRun, GoingUp, Creating, OwnStop,
        HandlersFit, LostHandle, PastJoin, Watched, Quiet, Held, Released
  <2>2. CASE Next
    <3>1. ~defied
      BY <2>2 DEF Next, VipThread, Handler, Down, RollbackThread, Up, At, Dispatch, LoopEnds,
         TakeOver,
          AddVip, Announce, Observe, Rollback, CreateRollbackThread, RbackStop, GoUp, CreateVipThread,
          GoDown, JoinRollbackThread, RollbackThreadJoined, JoinVipThread, VipThreadJoined, RemoveVip,
          Look, RollbackStops, RollbackStarts, Stop, Start
    <3>2. Types /\ Core
      BY <3>1 DEF ThreadsInv
    <3>3. ASSUME NEW t \in Threads, Down(t) PROVE Types' /\ Core'
      BY <3>2, <3>3, GoDownKeeps, JoinRollbackThreadKeeps, RollbackThreadJoinedKeeps,
         JoinVipThreadKeeps, VipThreadJoinedKeeps, RemoveVipKeeps DEF Down
    <3>4. ASSUME NEW v \in VipThreadIds, VipThread(v) PROVE Types' /\ Core'
      <4>1. CASE Handler(v)
        BY <3>2, <4>1, TakeOverKeeps, AddVipKeeps, AnnounceKeeps, ObserveKeeps, RollbackKeeps,
           CreateRollbackThreadKeeps, RbackStopKeeps DEF Handler
      <4>2. QED
        BY <3>2, <3>3, <3>4, <4>1, DispatchKeeps, LoopEndsKeeps DEF VipThread, Threads
    <3>5. ASSUME NEW u \in Callers \cup RollbackThreadIds, Up(u) PROVE Types' /\ Core'
      BY <3>2, <3>5, GoUpKeeps, CreateVipThreadKeeps DEF Up
    <3>6. ASSUME NEW r \in RollbackThreadIds, RollbackThread(r) PROVE ThreadsInv'
      <4>1. CASE RollbackStarts(r)
        BY <3>2, <4>1, RollbackStartsTypes, RollbackStartsKeeps DEF ThreadsInv
      <4>2. CASE Look(r) \/ RollbackStops(r) \/ Up(r) \/ Down(r)
        <5>1. Types' /\ Core'
          BY <3>2, <3>3, <3>5, <4>2, LookKeeps, RollbackStopsKeeps DEF Threads
        <5>2. QED
          BY <5>1 DEF ThreadsInv
      <4>3. QED
        BY <3>6, <4>1, <4>2 DEF RollbackThread
    <3>7. ASSUME NEW c \in Callers, Stop(c) \/ Start(c) \/ Up(c) \/ Down(c) PROVE Types' /\ Core'
      BY <3>2, <3>3, <3>5, <3>7, StopKeeps, StartKeeps DEF Threads
    <3>8. QED
      BY <2>2, <3>4, <3>6, <3>7 DEF Next, ThreadsInv
  <2>3. QED
    BY <2>1, <2>2
<1>3. QED
  BY <1>1, <1>2, PTL DEF Spec

(* However many threads stop, start and handle events, the two handles     *)
(* hold threads of their kind and the state is one of the five.            *)
THEOREM ThreadsTypeCorrectness == Spec => []TypeOK
<1>1. ThreadsInv => TypeOK
  BY DEF ThreadsInv, Types
<1>2. QED
  BY <1>1, ThreadsInvInvariant, PTL

(* The joins of go_down close no circle, whichever of vip_thread, its      *)
(* rollback_threads and the callers run it together: a rollback_thread     *)
(* that stops the node joins itself and vip_thread, and vip_thread stops   *)
(* the node only while no rollback_thread does.                            *)
THEOREM StopsJoinInNoCircle == Spec => []NoJoinCycle
<1>1. ThreadsInv => NoJoinCycle
  BY DEF ThreadsInv, Core, NoCycle, NoJoinCycle
<1>2. QED
  BY <1>1, ThreadsInvInvariant, PTL

(* An address that a handler adds to a node while others stop it is        *)
(* removed by a stop that was waiting for that handler in its join.        *)
THEOREM StoppedNodeReleasesAddress == Spec => []NoAddressLeft
<1>1. ThreadsInv => NoAddressLeft
  <2> SUFFICES ASSUME Core, Settled, state = "IDLE" PROVE ~ip
    BY DEF ThreadsInv, NoAddressLeft
  <2>1. \A t \in Threads : pc[t] \notin JoinLabels
    BY DEF Settled, JoinLabels
  <2>2. ip # TRUE
    BY <2>1 DEF Core, Released
  <2>3. QED
    BY <2>2
<1>2. QED
  BY <1>1, ThreadsInvInvariant, PTL

(* No stop takes the address from a handler that has overtaken it: the     *)
(* handler's vip_thread lives on, and the stop waits for it.               *)
THEOREM ServingNodeKeepsAddress == Spec => []ServingNodeHasAddress
<1>1. ThreadsInv => ServingNodeHasAddress
  <2> SUFFICES ASSUME Core, Settled, state \in Active PROVE ip
    BY DEF ThreadsInv, ServingNodeHasAddress
  <2>1. \A t \in Threads : ~Upping(t)
    BY DEF Settled, Upping, UpLabels
  <2>2. PICK v \in VipThreadIds : Live(v)
    BY <2>1 DEF Core, SomeRun, Live, Active
  <2>3. ~Watched(v) /\ pc[v] \notin {"add", "go_down"}
    BY DEF Settled, Watched, Threads
  <2>4. ip = TRUE
    BY <2>2, <2>3 DEF Core, Held
  <2>5. QED
    BY <2>4
<1>2. QED
  BY <1>1, ThreadsInvInvariant, PTL

=============================================================================
