----------------------------- MODULE VipThreads -----------------------------
(***************************************************************************)
(* The threads of one node around one virtual_ip_t, which no lock guards:  *)
(* vip_thread runs the handlers of the group's events, a rollback_thread   *)
(* waits and then stops and starts the virtual IP, and the callers - the   *)
(* console and the arbiter - stop and start it.  VipGroup takes a handler  *)
(* as one step; here it is cut at each of its accesses to what the threads *)
(* share, and go_down at each of its joins.                                *)
(*                                                                         *)
(* The peers are an environment: any event may come, and the node may or   *)
(* may not be the first of its list, whose content is left out.  An access *)
(* to a field is taken as atomic; the failures of CPG, which VipGroup has, *)
(* and the end of the process are left out.                                *)
(***************************************************************************)
EXTENDS Fsm, FiniteSets, Naturals

CONSTANTS Callers,          \* the console's and the arbiter's threads
          VipThreadIds,     \* the vip_threads that may be launched
          RollbackThreadIds,\* the rollback_threads that may be launched
          Starts,           \* how many starts the callers make
          NULL

Threads == Callers \cup VipThreadIds \cup RollbackThreadIds

(* Each start, of a caller or of a rollback_thread, finds a thread to launch. *)
ASSUME ThreadsAssumption ==
  /\ Callers \cap VipThreadIds = {}
  /\ Callers \cap RollbackThreadIds = {}
  /\ VipThreadIds \cap RollbackThreadIds = {}
  /\ NULL \notin Threads
  /\ Starts \in Nat
  /\ IsFiniteSet(VipThreadIds) /\ IsFiniteSet(RollbackThreadIds)
  /\ Cardinality(VipThreadIds) >= Starts + Cardinality(RollbackThreadIds)

VARIABLES
  state,             \* vip.state
  virtual_ip_thread, \* vip.virtual_ip_thread: the handle go_down joins
  rollback_thread,   \* vip.rollback_thread: likewise
  ip,                \* the address is on the device
  pc,                \* where each thread is: the access it makes next
  joined,            \* the thread it waits for in switch_thread_join
  started,           \* starts of the callers so far
  overtaken,         \* threads whose go_down was overtaken by a later write of state
  defied             \* a rollback_thread has started the node over its last run

shared == <<state, virtual_ip_thread, rollback_thread, ip>>
vars == <<shared, pc, joined, started, overtaken, defied>>

Fresh(ids) == {t \in ids : pc[t] = "none"}
Launched(ids) == {t \in ids : pc[t] \notin {"none", "ended"}}

(* The threads in go_down past its reset, and all that are about to be.    *)
GoingDown == {t \in Threads : pc[t] \in {"join rollback_thread", "joining rollback_thread",
                                         "join vip_thread", "joining vip_thread", "remove"}}
Stopping == GoingDown \cup {t \in Threads : pc[t] = "go_down"}

Joining(t) == pc[t] \in {"joining rollback_thread", "joining vip_thread"}

Init ==
  /\ state = "IDLE"
  /\ virtual_ip_thread = NULL
  /\ rollback_thread = NULL
  /\ ip = FALSE
  /\ pc = [t \in Threads |-> IF t \in Callers THEN "ready" ELSE "none"]
  /\ joined = [t \in Threads |-> NULL]
  /\ started = 0
  /\ overtaken = {}
  /\ defied = FALSE

(* A thread is at one of its accesses.  The model ends where two runs of   *)
(* one virtual_ip_t overlap: nothing holds from there on.                  *)
At(t, label) == pc[t] = label /\ ~defied

Goto(t, label) == pc' = [pc EXCEPT ![t] = label]

(* Where a thread goes on when the action is done.                         *)
Return(t) ==
  CASE t \in Callers           -> "ready"
    [] t \in VipThreadIds      -> "loop"
    [] t \in RollbackThreadIds -> IF pc[t] = "create vip_thread"
                                    THEN "ended" ELSE "pause"

(* The handlers' and go_up's writes of vip.state.                          *)
SetState(t, value) ==
  /\ state' = value
  /\ overtaken' = overtaken \cup (GoingDown \ {t})

-----------------------------------------------------------------------------
(* fsm_do_transaction: the state is read, and the action of the table is   *)
(* entered; its own accesses follow.  The actions that touch nothing       *)
(* shared are done at once.                                                *)
Entry(t, event) ==
  LET action == table[event][state]
  IN  IF action \in {"go_up", "go_down", "act", "react", "observe", "rollback", "rback_stop"}
        THEN action
        ELSE Return(t)

-----------------------------------------------------------------------------
(* fsm.c: the actions, run by thread t *)

(* The head of the list is the node itself, or another: act then gives up  *)
(* and react leaves all to the other.                                      *)
TakeOver(t) ==
  /\ At(t, "act") \/ At(t, "react")
  /\ \/ SetState(t, "MASTER") /\ Goto(t, "add")
     \/ /\ Goto(t, IF pc[t] = "act" THEN "go_down" ELSE Return(t))
        /\ UNCHANGED <<state, overtaken>>
  /\ UNCHANGED <<virtual_ip_thread, rollback_thread, ip, joined, started, defied>>

(* Mutant of AddVip: a failure to add the address is logged only.          *)
AddVipOrLog(t) ==
  /\ At(t, "add")
  /\ \E added \in {ip, TRUE} : ip' = added
  /\ Goto(t, "announce")
  /\ UNCHANGED <<state, virtual_ip_thread, rollback_thread, joined, started, overtaken, defied>>

(* utils_add_vip: an address that is there already is no failure.          *)
AddVip(t) ==
  /\ At(t, "add")
  /\ \/ ip' = TRUE /\ Goto(t, "announce")
     \/ ip' = ip /\ Goto(t, "go_down")
  /\ UNCHANGED <<state, virtual_ip_thread, rollback_thread, joined, started, overtaken, defied>>

(* utils_send_gARP.                                                        *)
Announce(t) ==
  /\ At(t, "announce")
  /\ \/ ip' = ip /\ Goto(t, Return(t))
     \/ ip' = FALSE /\ Goto(t, "go_down")
  /\ UNCHANGED <<state, virtual_ip_thread, rollback_thread, joined, started, overtaken, defied>>

Observe(t) ==
  /\ At(t, "observe")
  /\ SetState(t, "BACKUP")
  /\ Goto(t, Return(t))
  /\ UNCHANGED <<virtual_ip_thread, rollback_thread, ip, joined, started, defied>>

(* A bound: a rollback_thread is left for the rollback that would begin.   *)
Spare == Cardinality({t \in Threads : pc[t] = "create rollback_thread"})
           < Cardinality(Fresh(RollbackThreadIds))

(* Only a better head of the list makes the node wait for it.              *)
Rollback(t) ==
  /\ At(t, "rollback")
  /\ \/ Spare /\ SetState(t, "RBACK") /\ Goto(t, "create rollback_thread")
     \/ Goto(t, Return(t)) /\ UNCHANGED <<state, overtaken>>
  /\ UNCHANGED <<virtual_ip_thread, rollback_thread, ip, joined, started, defied>>

(* The new thread waits for the delay, or not at all: a rollback_delay of  *)
(* 0, which stands where the parameter is not given, makes no turn of its  *)
(* loop.                                                                   *)
CreateRollbackThread(t) ==
  LET new == CHOOSE r \in Fresh(RollbackThreadIds) : TRUE
  IN  /\ At(t, "create rollback_thread")
      /\ Fresh(RollbackThreadIds) # {}
      /\ rollback_thread' = new
      /\ \E first \in {"sleep", "stop"} :
           pc' = [pc EXCEPT ![t] = Return(t), ![new] = first]
      /\ UNCHANGED <<state, virtual_ip_thread, ip, joined, started, overtaken, defied>>

(* Mutant of RbackStop: the node goes down when the rollback is off.       *)
RbackStopGoesDown(t) ==
  /\ At(t, "rback_stop")
  /\ Goto(t, "go_down")
  /\ UNCHANGED <<shared, joined, started, overtaken, defied>>

(* A rollback whose target is gone or no longer first is called off.       *)
RbackStop(t) ==
  /\ At(t, "rback_stop")
  /\ \/ SetState(t, "MASTER")
     \/ UNCHANGED <<state, overtaken>>
  /\ Goto(t, Return(t))
  /\ UNCHANGED <<virtual_ip_thread, rollback_thread, ip, joined, started, defied>>

GoUp(t) ==
  /\ At(t, "go_up")
  /\ SetState(t, "START")
  /\ Goto(t, "create vip_thread")
  /\ UNCHANGED <<virtual_ip_thread, rollback_thread, ip, joined, started, defied>>

(* Mutant of CreateVipThread: the creator's handle is stored.              *)
CreateVipThreadOwnHandle(t) ==
  LET new == CHOOSE v \in Fresh(VipThreadIds) : TRUE
  IN  /\ At(t, "create vip_thread")
      /\ Fresh(VipThreadIds) # {}
      /\ virtual_ip_thread' = t
      /\ pc' = [pc EXCEPT ![t] = Return(t), ![new] = "loop"]
      /\ UNCHANGED <<state, rollback_thread, ip, joined, started, overtaken, defied>>

CreateVipThread(t) ==
  LET new == CHOOSE v \in Fresh(VipThreadIds) : TRUE
  IN  /\ At(t, "create vip_thread")
      /\ Fresh(VipThreadIds) # {}
      /\ virtual_ip_thread' = new
      /\ pc' = [pc EXCEPT ![t] = Return(t), ![new] = "loop"]
      /\ UNCHANGED <<state, rollback_thread, ip, joined, started, overtaken, defied>>

(* go_down: the reset ...                                                  *)
GoDown(t) ==
  /\ At(t, "go_down")
  /\ state' = "IDLE"
  /\ overtaken' = overtaken \ {t}
  /\ Goto(t, "join rollback_thread")
  /\ UNCHANGED <<virtual_ip_thread, rollback_thread, ip, joined, started, defied>>

(* Mutant of JoinRollbackThread: the one handle is tested for both joins.  *)
JoinRollbackThreadOnly(t) ==
  /\ At(t, "join rollback_thread")
  /\ Goto(t, IF rollback_thread = NULL THEN "remove" ELSE "joining rollback_thread")
  /\ joined' = [joined EXCEPT ![t] = rollback_thread]
  /\ UNCHANGED <<shared, started, overtaken, defied>>

(* ... the two joins, each of the handle that is stored when it begins ... *)
JoinRollbackThread(t) ==
  /\ At(t, "join rollback_thread")
  /\ Goto(t, IF rollback_thread = NULL THEN "join vip_thread" ELSE "joining rollback_thread")
  /\ joined' = [joined EXCEPT ![t] = rollback_thread]
  /\ UNCHANGED <<shared, started, overtaken, defied>>

JoinVipThread(t) ==
  /\ At(t, "join vip_thread")
  /\ Goto(t, IF virtual_ip_thread = NULL THEN "remove" ELSE "joining vip_thread")
  /\ joined' = [joined EXCEPT ![t] = virtual_ip_thread]
  /\ UNCHANGED <<shared, started, overtaken, defied>>

(* ... which return when the thread has ended, at once for a thread that   *)
(* joins itself (EDEADLK), and at any time if another joins the same       *)
(* thread, which POSIX leaves undefined ...                                *)
JoinReturns(t) ==
  /\ \/ pc[joined[t]] = "ended"
     \/ joined[t] = t
     \/ \E other \in Threads \ {t} : Joining(other) /\ joined[other] = joined[t]
  /\ joined' = [joined EXCEPT ![t] = NULL]

RollbackThreadJoined(t) ==
  /\ At(t, "joining rollback_thread")
  /\ JoinReturns(t)
  /\ rollback_thread' = NULL
  /\ Goto(t, "join vip_thread")
  /\ UNCHANGED <<state, virtual_ip_thread, ip, started, overtaken, defied>>

VipThreadJoined(t) ==
  /\ At(t, "joining vip_thread")
  /\ JoinReturns(t)
  /\ virtual_ip_thread' = NULL
  /\ Goto(t, "remove")
  /\ UNCHANGED <<state, rollback_thread, ip, started, overtaken, defied>>

(* ... and utils_remove_vip, before the calls are hung up.                 *)
RemoveVip(t) ==
  /\ At(t, "remove")
  /\ ip' = FALSE
  /\ Goto(t, Return(t))
  /\ overtaken' = overtaken \ {t}
  /\ UNCHANGED <<state, virtual_ip_thread, rollback_thread, joined, started, defied>>

Handler(v) == \/ TakeOver(v) \/ AddVip(v) \/ Announce(v) \/ Observe(v)
              \/ Rollback(v) \/ CreateRollbackThread(v) \/ RbackStop(v)
Up(t) == GoUp(t) \/ CreateVipThread(t)
Down(t) == \/ GoDown(t) \/ JoinRollbackThread(t) \/ RollbackThreadJoined(t)
           \/ JoinVipThread(t) \/ VipThreadJoined(t) \/ RemoveVip(t)

-----------------------------------------------------------------------------
(* The threads *)

GroupEvents == {"DUPLICATE", "MASTER_DOWN", "MASTER_UP", "BACKUP_DOWN", "BACKUP_UP", "RBACK_REQ"}

(* A turn of vip_thread's loop: it goes on while the state is not IDLE, and *)
(* an event of the group is dispatched ...                                 *)
Dispatch(v) ==
  /\ At(v, "loop")
  /\ state # "IDLE"
  /\ \E event \in GroupEvents : Goto(v, Entry(v, event))
  /\ UNCHANGED <<shared, joined, started, overtaken, defied>>

(* Mutant of LoopEnds: the loop goes on while the thread is in its handle. *)
LoopEndsOnceReplaced(v) ==
  /\ At(v, "loop")
  /\ virtual_ip_thread # v
  /\ Goto(v, "ended")
  /\ UNCHANGED <<shared, joined, started, overtaken, defied>>

(* ... or the loop is left and the thread ends.                            *)
LoopEnds(v) ==
  /\ At(v, "loop")
  /\ state = "IDLE"
  /\ Goto(v, "ended")
  /\ UNCHANGED <<shared, joined, started, overtaken, defied>>

(* A second is longer than any thread takes between two of its accesses,   *)
(* unless it waits: in the loop, in a sleep of its own, in a join.         *)
SecondPasses ==
  \A t \in Threads :
    \/ pc[t] \in {"none", "ready", "loop", "sleep", "pause", "ended"}
    \/ Joining(t) /\ joined[t] # t /\ pc[joined[t]] # "ended"

(* rollback_thread looks every second whether the rollback goes on; after  *)
(* the last look it stops the virtual IP whatever has happened since ...   *)
Look(r) ==
  /\ At(r, "sleep")
  /\ SecondPasses
  /\ Goto(r, IF state = "RBACK" THEN "stop" ELSE "ended")
  /\ UNCHANGED <<shared, joined, started, overtaken, defied>>

RollbackStops(r) ==
  /\ At(r, "stop")
  /\ Goto(r, Entry(r, "STOP"))
  /\ UNCHANGED <<shared, joined, started, overtaken, defied>>

(* ... and a second later starts it, whatever became of the stop.          *)
RollbackStarts(r) ==
  /\ At(r, "pause")
  /\ SecondPasses
  /\ \/ /\ table.STARTUP[state] = "go_up"
        /\ Goto(r, "go_up")
        /\ defied' = (defied \/ Launched(VipThreadIds) # {} \/ Stopping # {})
     \/ /\ table.STARTUP[state] # "go_up"
        /\ Goto(r, "ended")
        /\ defied' = defied
  /\ UNCHANGED <<shared, joined, started, overtaken>>

Stop(c) ==
  /\ At(c, "ready")
  /\ Entry(c, "STOP") = "go_down"
  /\ Goto(c, "go_down")
  /\ UNCHANGED <<shared, joined, started, overtaken, defied>>

(* The callers start a node only when nothing of its last run is under way *)
(* any more: an operator waits for it, the arbiter comes every 5 seconds.  *)
AtRest ==
  /\ Launched(VipThreadIds \cup RollbackThreadIds) = {}
  /\ \A c \in Callers : pc[c] = "ready"

Start(c) ==
  /\ At(c, "ready")
  /\ AtRest
  /\ started < Starts
  /\ started' = started + 1
  /\ Entry(c, "STARTUP") = "go_up"
  /\ Goto(c, "go_up")
  /\ UNCHANGED <<shared, joined, overtaken, defied>>

VipThread(v) == Dispatch(v) \/ LoopEnds(v) \/ Handler(v) \/ Down(v)
RollbackThread(r) == Look(r) \/ RollbackStops(r) \/ RollbackStarts(r) \/ Up(r) \/ Down(r)

Next == \/ \E v \in VipThreadIds : VipThread(v)
        \/ \E r \in RollbackThreadIds : RollbackThread(r)
        \/ \E c \in Callers : Stop(c) \/ Start(c) \/ Up(c) \/ Down(c)

(* The threads are scheduled; events may come or not, and callers call or  *)
(* not.                                                                    *)
Fairness == /\ \A v \in VipThreadIds : WF_vars(LoopEnds(v) \/ Handler(v) \/ Down(v))
            /\ \A r \in RollbackThreadIds : WF_vars(RollbackThread(r))
            /\ \A c \in Callers : WF_vars(Up(c) \/ Down(c))

Spec == Init /\ [][Next]_vars /\ Fairness

-----------------------------------------------------------------------------
Labels == {"none", "ready", "loop", "sleep", "stop", "pause", "ended", "add", "announce",
           "create rollback_thread", "create vip_thread", "act", "react", "observe",
           "rollback", "rback_stop", "go_up", "go_down", "join rollback_thread",
           "joining rollback_thread", "join vip_thread", "joining vip_thread", "remove"}

TypeOK ==
  /\ state \in States
  /\ virtual_ip_thread \in VipThreadIds \cup {NULL}
  /\ rollback_thread \in RollbackThreadIds \cup {NULL}
  /\ ip \in BOOLEAN
  /\ pc \in [Threads -> Labels]
  /\ joined \in [Threads -> Threads \cup {NULL}]
  /\ started \in 0 .. Starts
  /\ overtaken \subseteq Threads
  /\ defied \in BOOLEAN

-----------------------------------------------------------------------------
(* Safety.  A rollback_thread starts the virtual IP a second after its     *)
(* stop, whatever has become of that stop and whoever else is stopping it: *)
(* if a vip_thread still runs then or a go_down is under way, two runs of  *)
(* one virtual_ip_t overlap, and none of the properties hold any longer.   *)
(* They say that this is the one way to break them.                        *)

(* No handler and no go_down is under way.                                 *)
Settled ==
  \A t \in Threads : pc[t] \in {"none", "ready", "loop", "sleep", "stop", "pause", "ended"}

(* When all threads that stop and all handlers are through, an IDLE node   *)
(* has no address left: the address a handler adds while another thread is *)
(* in go_down is removed by that go_down, after its join (fsm.c:274).      *)
NoAddressLeft == ~defied /\ Settled /\ state = "IDLE" => ~ip

(* ... and a node that serves has the address: no go_down takes it from a  *)
(* handler that was quicker to write the state (fsm.c:257).                *)
ServingNodeHasAddress == ~defied /\ Settled /\ state \in Active => ip

(* No threads wait for each other in a circle: go_down joins the two       *)
(* threads in which it may itself be running (fsm.c:269, fsm.c:273).       *)
NoJoinCycle ==
  \A circle \in (SUBSET (VipThreadIds \cup RollbackThreadIds)) \ {{}} :
    defied \/ \E t \in circle : ~Joining(t) \/ joined[t] \notin circle \ {t}

(* Liveness *)

(* Every go_down returns, unless a handler or a start wrote the state over *)
(* its IDLE: then vip_thread goes on, and the join with it (fsm.c:273).    *)
StopEnds ==
  \A t \in Callers \cup RollbackThreadIds :
    (t \in GoingDown) ~> (t \notin GoingDown \/ t \in overtaken \/ defied)

=============================================================================
