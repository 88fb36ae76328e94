------------------------------ MODULE VipGroup ------------------------------
(***************************************************************************)
(* One virtual IP on a cluster of FreeSWITCH nodes.  On every node mod_cpg *)
(* keeps a virtual_ip_t, driven by the state machine of fsm.c; the nodes   *)
(* talk through a corosync closed process group (CPG) whose events the     *)
(* node's vip_thread dispatches one at a time.                             *)
(*                                                                         *)
(* A callback runs to its end before the next one, and this module also    *)
(* takes the steps of the other threads (CLI, arbiter, rollback timer) as  *)
(* atomic with respect to a callback; go_down, which blocks on the thread  *)
(* it stops, is two steps.                                                 *)
(*                                                                         *)
(* The calls replicated for recovery are not part of this module: the SQL  *)
(* messages, utils_recover, utils_hupall and utils_clean_up_table change   *)
(* nothing the election reads.                                             *)
(***************************************************************************)
EXTENDS VirtualIp

CONSTANTS AutoLoad,  \* the nodes configured with autoload
          Limit      \* how often each kind of environment event may occur

ASSUME ConfigAssumption == AutoRollback \subseteq Nodes /\ AutoLoad \subseteq Nodes

Kinds == {"load", "start", "stop", "unload", "crash", "cut", "cpg", "ip"}

ASSUME LimitAssumption == Limit \in [Kinds -> Nat]

VARIABLES
  vip,           \* virtual_ip_t: the runtime fields, per node
  vip_thread,    \* where the node's vip_thread is
  stopper,       \* who waits inside go_down for vip_thread to end
  restarting,    \* rollback_thread sleeps between its stop and its start
  ip,            \* the virtual IP is configured on the node's device
  alive,         \* FreeSWITCH runs with the module loaded
  is_connected,  \* globals.is_connected, the arbiter's verdict
  inbox,         \* CPG events not yet dispatched, in the group's total order
  cut,           \* the nodes cut off the network: from the others and the gateway
  spent          \* environment events so far, by kind

vars == <<vip, vip_thread, stopper, restarting, ip, alive, is_connected, inbox, cut, spent>>

-----------------------------------------------------------------------------
(* The closed process group (corosync's CPG, as the code uses it): the     *)
(* members that can reach each other see the same configuration changes    *)
(* and messages in the same order.                                         *)

Joined == {n \in Nodes : vip_thread[n] \in {"running", "leaving"}}

(* The other members of the group that n can reach.                        *)
Peers(n) == IF n \in Joined \ cut THEN (Joined \ cut) \ {n} ELSE {}

Group(n) == Peers(n) \cup {n}

Multicast(box, to, events) ==
  [m \in Nodes |-> IF m \in to THEN box[m] \o events ELSE box[m]]

(* n leaves the group, or dies: the others are told, n hears nothing more. *)
Departure(n) ==
  [Multicast(inbox, Peers(n), <<Down(n, Peers(n))>>) EXCEPT ![n] = <<>>]

Spend(kind) ==
  /\ spent[kind] < Limit[kind]
  /\ spent' = [spent EXCEPT ![kind] = @ + 1]

-----------------------------------------------------------------------------
Init ==
  /\ vip = [n \in Nodes |-> IdleVip]
  /\ vip_thread = [n \in Nodes |-> "none"]
  /\ stopper = [n \in Nodes |-> "none"]
  /\ restarting = [n \in Nodes |-> FALSE]
  /\ ip = [n \in Nodes |-> FALSE]
  /\ alive = [n \in Nodes |-> FALSE]
  /\ is_connected = [n \in Nodes |-> FALSE]
  /\ inbox = [n \in Nodes |-> <<>>]
  /\ cut = {}
  /\ spent = [kind \in Kinds |-> 0]

(* An EVT_STARTUP is accepted.  The model takes it only once the previous *)
(* vip_thread is gone: every caller leaves it ample time.                  *)
CanGoUp(n) ==
  /\ table.STARTUP[vip[n].state] = "go_up"
  /\ vip_thread[n] = "none"
  /\ stopper[n] = "none"

GoUp(n) ==
  /\ vip' = [vip EXCEPT ![n] = go_up(@)]
  /\ vip_thread' = [vip_thread EXCEPT ![n] = "init"]

(* The part of an external go_down before it blocks on the thread.         *)
BeginStop(n, who) ==
  /\ table.STOP[vip[n].state] = "go_down"
  /\ vip' = [vip EXCEPT ![n] = go_down(@)]
  /\ stopper' = [stopper EXCEPT ![n] = who]

-----------------------------------------------------------------------------
(* vip_thread *)

(* cpg_local_get and cpg_join; the loop is not entered if stopped by then. *)
JoinGroup(n) ==
  /\ vip_thread[n] = "init"
  /\ vip_thread' = [vip_thread EXCEPT ![n] =
                      IF vip[n].state = "IDLE" THEN "leaving" ELSE "running"]
  /\ vip' = [vip EXCEPT ![n].node_id = n]
  /\ LET group == IF n \in cut THEN {n} ELSE (Joined \ cut) \cup {n}
     IN  inbox' = Multicast(inbox, group, <<Up(group)>>)
  /\ UNCHANGED <<stopper, restarting, ip, alive, is_connected, cut, spent>>

(* cpg_initialize or cpg_join fails for good: the thread ends, the state   *)
(* stays what it is.                                                       *)
InitFails(n) ==
  /\ vip_thread[n] = "init"
  /\ Spend("cpg")
  /\ vip_thread' = [vip_thread EXCEPT ![n] = "none"]
  /\ UNCHANGED <<vip, stopper, restarting, ip, alive, is_connected, inbox, cut>>

(* One callback.  After an external stop the dispatch in progress still    *)
(* hands over what has arrived, so this also happens in IDLE.              *)
Handle(n) ==
  /\ vip_thread[n] = "running"
  /\ inbox[n] # <<>>
  /\ LET Outcome(works) == Dispatch(n, vip[n], ip[n], Head(inbox[n]), works)
     IN  \E works \in BOOLEAN :
           /\ IF works THEN spent' = spent ELSE Spend("ip") /\ Outcome(FALSE) # Outcome(TRUE)
           /\ \E out \in {Outcome(works)} :
                /\ vip' = [vip EXCEPT ![n] = out.vip]
                /\ ip' = [ip EXCEPT ![n] = out.ip]
                /\ inbox' = Multicast([inbox EXCEPT ![n] = Tail(@)], Group(n), out.sent)
  /\ UNCHANGED <<vip_thread, stopper, restarting, alive, is_connected, cut>>

(* cpg_dispatch returns an error: the loop is left with the state as it is. *)
DispatchFails(n) ==
  /\ vip_thread[n] = "running"
  /\ Spend("cpg")
  /\ vip_thread' = [vip_thread EXCEPT ![n] = "leaving"]
  /\ UNCHANGED <<vip, stopper, restarting, ip, alive, is_connected, inbox, cut>>

(* Mutant of LeaveGroup: the loop goes on as long as dispatching works.    *)
LeaveGroupOnError(n) ==
  /\ vip_thread[n] = "leaving"
  /\ vip_thread' = [vip_thread EXCEPT ![n] = "none"]
  /\ inbox' = Departure(n)
  /\ UNCHANGED <<vip, stopper, restarting, ip, alive, is_connected, cut, spent>>

LeaveGroup(n) ==
  /\ \/ vip_thread[n] = "running" /\ vip[n].state = "IDLE"
     \/ vip_thread[n] = "leaving"
  /\ vip_thread' = [vip_thread EXCEPT ![n] = "none"]
  /\ inbox' = Departure(n)
  /\ UNCHANGED <<vip, stopper, restarting, ip, alive, is_connected, cut, spent>>

-----------------------------------------------------------------------------
(* The threads that start and stop the virtual IP *)

(* cpg vip <address> start *)
Start(n) ==
  /\ alive[n]
  /\ CanGoUp(n)
  /\ Spend("start")
  /\ GoUp(n)
  /\ UNCHANGED <<stopper, restarting, ip, alive, is_connected, inbox, cut>>

(* cpg vip <address> stop *)
Stop(n) ==
  /\ alive[n]
  /\ Spend("stop")
  /\ BeginStop(n, "api")
  /\ UNCHANGED <<vip_thread, restarting, ip, alive, is_connected, inbox, cut>>

(* Mutant of StopReturns: rollback_thread does not start the node again.   *)
StopReturnsForGood(n) ==
  /\ stopper[n] # "none"
  /\ vip_thread[n] = "none"
  /\ ip' = [ip EXCEPT ![n] = FALSE]
  /\ vip' = [vip EXCEPT ![n] = IF stopper[n] = "unload" THEN IdleVip ELSE @]
  /\ stopper' = [stopper EXCEPT ![n] = "none"]
  /\ restarting' = [restarting EXCEPT ![n] = FALSE]
  /\ alive' = [alive EXCEPT ![n] = stopper[n] # "unload"]
  /\ UNCHANGED <<vip_thread, is_connected, inbox, cut, spent>>

(* go_down gets past its joins: vip_thread has ended.  An unload then ends *)
(* too, and the virtual_ip_t is gone with the module.                      *)
StopReturns(n) ==
  /\ stopper[n] # "none"
  /\ vip_thread[n] = "none"
  /\ ip' = [ip EXCEPT ![n] = FALSE]
  /\ vip' = [vip EXCEPT ![n] = IF stopper[n] = "unload" THEN IdleVip ELSE @]
  /\ stopper' = [stopper EXCEPT ![n] = "none"]
  /\ restarting' = [restarting EXCEPT ![n] = CASE stopper[n] = "rollback" -> TRUE
                                               [] stopper[n] = "unload" -> FALSE
                                               [] OTHER -> @]
  /\ alive' = [alive EXCEPT ![n] = stopper[n] # "unload"]
  /\ UNCHANGED <<vip_thread, is_connected, inbox, cut, spent>>

(* The rollback delay has passed: rollback_thread stops the virtual IP ... *)
RollbackExpires(n) ==
  /\ vip[n].state = "RBACK"
  /\ BeginStop(n, "rollback")
  /\ UNCHANGED <<vip_thread, restarting, ip, alive, is_connected, inbox, cut, spent>>

(* ... and a second after its go_down returned starts it again.            *)
RollbackRestarts(n) ==
  /\ restarting[n]
  /\ restarting' = [restarting EXCEPT ![n] = FALSE]
  /\ \/ CanGoUp(n) /\ GoUp(n)
     \/ vip[n].state # "IDLE" /\ UNCHANGED <<vip, vip_thread>>
  /\ UNCHANGED <<stopper, ip, alive, is_connected, inbox, cut, spent>>

(* Mutant of ArbiterFails: only the first failure in a row stops the node. *)
ArbiterFailsOnce(n) ==
  /\ alive[n]
  /\ n \in cut
  /\ is_connected[n]
  /\ is_connected' = [is_connected EXCEPT ![n] = FALSE]
  /\ \/ BeginStop(n, "arbiter")
     \/ vip[n].state = "IDLE" /\ UNCHANGED <<vip, stopper>>
  /\ UNCHANGED <<vip_thread, restarting, ip, alive, inbox, cut, spent>>

(* arbiter.sh fails: the gateway does not answer.  The arbiter itself      *)
(* waits in go_down, so it does not come back before that returns.         *)
ArbiterFails(n) ==
  /\ alive[n]
  /\ n \in cut
  /\ stopper[n] # "arbiter"
  /\ is_connected' = [is_connected EXCEPT ![n] = FALSE]
  /\ \/ BeginStop(n, "arbiter")
     \/ vip[n].state = "IDLE" /\ UNCHANGED <<vip, stopper>>
  /\ UNCHANGED <<vip_thread, restarting, ip, alive, inbox, cut, spent>>

(* arbiter.sh succeeds again after a failure: autostart.                   *)
ArbiterRecovers(n) ==
  /\ alive[n]
  /\ n \notin cut
  /\ stopper[n] # "arbiter"
  /\ ~is_connected[n]
  /\ is_connected' = [is_connected EXCEPT ![n] = TRUE]
  /\ \/ n \in AutoLoad /\ CanGoUp(n) /\ GoUp(n)
     \/ (n \notin AutoLoad \/ vip[n].state # "IDLE") /\ UNCHANGED <<vip, vip_thread>>
  /\ UNCHANGED <<stopper, restarting, ip, alive, inbox, cut, spent>>

-----------------------------------------------------------------------------
(* The FreeSWITCH process and its monitor *)

(* Mutant of Load: FreeSWITCH is launched without the monitor's clean-up.  *)
LoadUnmonitored(n) ==
  /\ ~alive[n]
  /\ Spend("load")
  /\ alive' = [alive EXCEPT ![n] = TRUE]
  /\ is_connected' = [is_connected EXCEPT ![n] = TRUE]
  /\ IF n \in AutoLoad THEN GoUp(n) ELSE UNCHANGED <<vip, vip_thread>>
  /\ UNCHANGED <<stopper, restarting, ip, inbox, cut>>

(* fs_monitor launches FreeSWITCH once the address is off the device; the  *)
(* module is loaded and the virtual IP started if it is to autoload.       *)
Load(n) ==
  /\ ~alive[n]
  /\ ~ip[n]
  /\ Spend("load")
  /\ alive' = [alive EXCEPT ![n] = TRUE]
  /\ is_connected' = [is_connected EXCEPT ![n] = TRUE]
  /\ IF n \in AutoLoad THEN GoUp(n) ELSE UNCHANGED <<vip, vip_thread>>
  /\ UNCHANGED <<stopper, restarting, ip, inbox, cut>>

(* The process ends: corosync tells the group, and the kernel keeps the    *)
(* address.                                                                *)
ProcessEnds(n) ==
  /\ alive' = [alive EXCEPT ![n] = FALSE]
  /\ vip' = [vip EXCEPT ![n] = IdleVip]
  /\ vip_thread' = [vip_thread EXCEPT ![n] = "none"]
  /\ restarting' = [restarting EXCEPT ![n] = FALSE]
  /\ inbox' = Departure(n)

(* FreeSWITCH alone crashes, or the whole machine with its address.        *)
Crash(n) ==
  /\ alive[n]
  /\ Spend("crash")
  /\ ProcessEnds(n)
  /\ stopper' = [stopper EXCEPT ![n] = "none"]
  /\ \E kept \in {FALSE, ip[n]} : ip' = [ip EXCEPT ![n] = kept]
  /\ UNCHANGED <<is_connected, cut>>

(* mod_cpg_shutdown: a running virtual IP is stopped first.                *)
Unload(n) ==
  /\ alive[n]
  /\ stopper[n] = "none"
  /\ Spend("unload")
  /\ \/ /\ BeginStop(n, "unload")
        /\ UNCHANGED <<vip_thread, restarting, ip, alive, is_connected, inbox, cut>>
     \/ /\ vip[n].state = "IDLE"
        /\ ProcessEnds(n)
        /\ UNCHANGED <<stopper, ip, is_connected, cut>>

(* fs_monitor finds FreeSWITCH gone, or is about to launch it, and takes   *)
(* the address off.                                                        *)
MonitorRemovesIp(n) ==
  /\ ~alive[n]
  /\ ip[n]
  /\ ip' = [ip EXCEPT ![n] = FALSE]
  /\ UNCHANGED <<vip, vip_thread, stopper, restarting, alive, is_connected, inbox, cut, spent>>

-----------------------------------------------------------------------------
(* The network *)

(* n is cut off: its peers lose n, n loses its peers one after the other.  *)
CutOff(n) ==
  /\ n \notin cut
  /\ Spend("cut")
  /\ cut' = cut \cup {n}
  /\ \E order \in SetToSeqs(Peers(n)) :
       inbox' = [Multicast(inbox, Peers(n), <<Down(n, Peers(n))>>) EXCEPT
                   ![n] = @ \o [i \in DOMAIN order |-> Down(order[i], {n})]]
  /\ UNCHANGED <<vip, vip_thread, stopper, restarting, ip, alive, is_connected>>

(* n is back: if it is in the group, it and the others merge.              *)
Heal(n) ==
  /\ n \in cut
  /\ cut' = cut \ {n}
  /\ LET others == Joined \ cut
         group  == others \cup {n}
     IN  inbox' = IF n \in Joined /\ others # {}
                    THEN Multicast(inbox, group, <<Up(group)>>)
                    ELSE inbox
  /\ UNCHANGED <<vip, vip_thread, stopper, restarting, ip, alive, is_connected, spent>>

-----------------------------------------------------------------------------
VipThread(n) == JoinGroup(n) \/ InitFails(n) \/ Handle(n) \/ DispatchFails(n) \/ LeaveGroup(n)

Control(n) == \/ Start(n) \/ Stop(n) \/ StopReturns(n)
              \/ RollbackExpires(n) \/ RollbackRestarts(n)
              \/ ArbiterFails(n) \/ ArbiterRecovers(n)

Environment(n) == \/ Load(n) \/ Crash(n) \/ Unload(n) \/ MonitorRemovesIp(n)
                  \/ CutOff(n) \/ Heal(n)

Next == \E n \in Nodes : VipThread(n) \/ Control(n) \/ Environment(n)

Spec == Init /\ [][Next]_vars

-----------------------------------------------------------------------------
(* The threads keep running, the timers expire, the arbiter and the        *)
(* monitor keep polling.  Nothing is assumed of operators, crashes or the  *)
(* network.                                                                *)
Fairness ==
  \A n \in Nodes :
    /\ WF_vars(LeaveGroup(n) \/ JoinGroup(n) \/ Handle(n))
    /\ WF_vars(RollbackExpires(n) \/ RollbackRestarts(n))
    /\ WF_vars(ArbiterFails(n) \/ ArbiterRecovers(n))
    /\ WF_vars(StopReturns(n))
    /\ WF_vars(MonitorRemovesIp(n))

FairSpec == Spec /\ Fairness

-----------------------------------------------------------------------------
(* Types *)

Events == [type : {"down"}, nodeid : Nodes, member_list : SUBSET Nodes]
          \cup [type : {"up"}, member_list : SUBSET Nodes]
          \cup [type : {"state"}, nodeid : Nodes, state : States]

(* The shapes of the variables.                                            *)
TypeOK ==
  /\ vip \in [Nodes -> Vips]
  /\ vip_thread \in [Nodes -> {"none", "init", "running", "leaving"}]
  /\ stopper \in [Nodes -> {"none", "api", "arbiter", "rollback", "unload"}]
  /\ restarting \in [Nodes -> BOOLEAN]
  /\ ip \in [Nodes -> BOOLEAN]
  /\ alive \in [Nodes -> BOOLEAN]
  /\ is_connected \in [Nodes -> BOOLEAN]
  /\ inbox \in [Nodes -> Seq(Events)]
  /\ cut \subseteq Nodes
  /\ spent \in [Kinds -> Nat]

-----------------------------------------------------------------------------
(* Safety *)

(* The address is on the device of every node in MASTER or RBACK, and on   *)
(* no other node unless its go_down has not returned yet or its process is *)
(* dead and fs_monitor has not come round.                                 *)
IpMatchesRole ==
  \A n \in Nodes :
    /\ vip[n].state \in Active => ip[n]
    /\ ip[n] => \/ vip[n].state \in Active
                \/ stopper[n] # "none"
                \/ ~alive[n]

(* Two nodes never serve the address at once.                              *)
AtMostOneMaster ==
  \A m, n \in Nodes :
    vip[m].state \in Active /\ vip[n].state \in Active => m = n

(* The target of a pending rollback, while it lives, is the head of the    *)
(* list and a node of higher priority than the master about to hand over.  *)
RollbackTargetIsFirst ==
  \A n \in Nodes :
    LET target == vip[n].rollback_node_id
    IN  vip[n].state = "RBACK" /\ target # NoNode =>
          /\ target = node_first(vip[n].node_list)
          /\ Priority[target] > Priority[n]

(* A pending rollback always has a living target: fsm.c:68, "[se] cade un  *)
(* nodo BACKUP allora rimango master".                                     *)
PendingRollbackHasTarget ==
  \A n \in Nodes : vip[n].state = "RBACK" => vip[n].rollback_node_id # NoNode

(* With nothing left to dispatch and no thread about to act, every running *)
(* node lists exactly the nodes it can reach.                              *)
Quiescent ==
  \A n \in Nodes : /\ vip_thread[n] \in {"none", "running"}
                   /\ vip_thread[n] = "running" => vip[n].state # "IDLE"
                   /\ inbox[n] = <<>>

QuiescentListsAgree ==
  Quiescent => \A n \in Joined : /\ vip[n].member_list = Group(n)
                                 /\ ToSet(vip[n].node_list) = Group(n)

(* The node that n expects to take over when m falls: the one react finds  *)
(* at the head of the list once fsm_input_node_down has removed m.         *)
Successor(n, m) == node_first(node_remove(vip[n].node_list, m))

(* With nothing left to dispatch, all the nodes that a member leaves       *)
(* behind expect the same one of them to succeed it, a node of the highest *)
(* priority among them: each has built its list from messages of its own   *)
(* order.                                                                  *)
OneSuccessor ==
  Quiescent =>
    \A m \in Joined : \A n \in Peers(m) :
      /\ Successor(n, m) \in Peers(m)
      /\ \A k \in Peers(m) : /\ Priority[k] <= Priority[Successor(n, m)]
                            /\ Successor(k, m) = Successor(n, m)

(* Two nodes of one priority do not stay in one group: fsm.c:52, "se trovo *)
(* un altro nodo con il mio profilo e la mia stessa priorità mi spengo".   *)
QuiescentPrioritiesDiffer ==
  Quiescent =>
    \A n \in Joined : \A m \in Peers(n) : Priority[m] # Priority[n]

(* A node becomes BACKUP only when every member of its group has given it  *)
(* its state (fsm.c:51).                                                   *)
BackupKnowsEveryone ==
  [][\A n \in Nodes :
       vip[n].state = "START" /\ vip'[n].state = "BACKUP" =>
         vip'[n].member_list \subseteq ToSet(vip'[n].node_list)]_vars

-----------------------------------------------------------------------------
(* Liveness *)

(* A stop, whoever asked for it, ends with the address off the device.     *)
StopReleasesIp == \A n \in Nodes : stopper[n] # "none" ~> ~ip[n]

(* A node does not stay in START alone in its group: fsm.c:53, "se sono    *)
(* solo divento direttamente MASTER".                                      *)
AloneInStart(n) == vip[n].state = "START" /\ vip_thread[n] = "running" /\ Peers(n) = {}

AloneBecomesMaster == \A n \in Nodes : AloneInStart(n) ~> ~AloneInStart(n)

(* A node waits to hand over to a better one, and no departure of that one *)
(* is still to be dispatched: it waits for a node that lives.              *)
HandsOver(n, t) ==
  /\ vip[n].state = "RBACK"
  /\ vip[n].rollback_node_id = t
  /\ \A i \in DOMAIN inbox[n] : ~(inbox[n][i].type = "down" /\ inbox[n][i].nodeid = t)

(* A rollback ends with the roles swapped: the better node serves and the  *)
(* one that waited is its BACKUP, unless the former leaves the group or    *)
(* somebody stops or kills the latter. The delay may end before the better *)
(* node has become BACKUP (cpg_virtual_ip.c:181).                          *)
RollbackSwapsRoles ==
  \A n, t \in Nodes :
    HandsOver(n, t) ~>
      \/ vip[t].state \in Active /\ vip[n].state = "BACKUP"
      \/ t \notin Joined
      \/ stopper[n] \notin {"none", "rollback"}
      \/ ~alive[n]

(* A backup whose master has left the group takes its place, unless it is  *)
(* stopped itself or was not the first in line.                            *)
OrphanedBackup(n) ==
  /\ vip[n].state = "BACKUP"
  /\ vip[n].master_id \in Nodes \ Group(n)
  /\ Peers(n) = {}

BackupTakesOver ==
  \A n \in Nodes : OrphanedBackup(n) ~> vip[n].state \in Active \cup {"IDLE"}

(* A node that stays cut off gives the address up.                         *)
IsolatedNodeYields == \A n \in Nodes : ip[n] /\ n \in cut ~> ~ip[n] \/ n \notin cut

(* Two masters that can reach each other do not both go on serving: the    *)
(* one of lower priority rolls back to the other.                          *)
SplitBrain(m, n) == m \in Peers(n) /\ vip[m].state \in Active /\ vip[n].state \in Active

SplitBrainEnds ==
  \A m \in Nodes : \A n \in {k \in Nodes : k > m} : SplitBrain(m, n) ~> ~SplitBrain(m, n)

-----------------------------------------------------------------------------
(* Two nodes, never cut off from each other, implement FloatingIp.         *)

Role(n) == CASE vip[n].state \in Active            -> "serving"
             [] vip[n].state \in {"START", "BACKUP"} -> "standby"
             [] OTHER                              -> "off"

Floating == INSTANCE FloatingIp WITH role <- [n \in Nodes |-> Role(n)], address <- ip

ImplementsFloatingIp == Floating!Spec

=============================================================================
