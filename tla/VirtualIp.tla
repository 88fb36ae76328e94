------------------------------ MODULE VirtualIp ------------------------------
(***************************************************************************)
(* The virtual_ip_t of one node and the handlers of its events, as pure    *)
(* operators: fsm_input.c turns what the process group reports into an     *)
(* event, the lookup table of fsm.c turns event and state into an action.  *)
(* A handler maps the virtual_ip_t and the device before the event to      *)
(* those after it and the messages it sends.                               *)
(***************************************************************************)
EXTENDS NodeList, Fsm

CONSTANT AutoRollback  \* the nodes configured with autorollback

-----------------------------------------------------------------------------
(* Data *)

IdleVip == [state |-> "IDLE", node_id |-> NoNode, master_id |-> NoNode,
            rollback_node_id |-> NoNode, node_list |-> <<>>, member_list |-> {}]

Down(nodeid, members) == [type |-> "down", nodeid |-> nodeid, member_list |-> members]
Up(members) == [type |-> "up", member_list |-> members]

(* A node_msg_t: its priority is the sender's, so it is not carried.       *)
StateMessage(n, state) == [type |-> "state", nodeid |-> n, state |-> state]

(* Corosync hands over the members of the new configuration; the code      *)
(* keeps their number.                                                     *)
member_list_entries(v) == Cardinality(v.member_list)

(* What a handler leaves: the virtual_ip_t, the device, the messages sent. *)
Quiet(v, onDevice) == [vip |-> v, ip |-> onDevice, sent |-> <<>>]
virtual_ip_send_state(n, v, onDevice) ==
  [vip |-> v, ip |-> onDevice, sent |-> <<StateMessage(n, v.state)>>]

-----------------------------------------------------------------------------
(* fsm.c: the actions of the state machine *)

go_up(v) == [v EXCEPT !.state = "START"]

(* Everything but the threads is reset at once.                            *)
go_down(v) == IdleVip

observe(v) == [v EXCEPT !.state = "BACKUP"]

(* Mutant of rollback: the name cmd_status prints becomes the state.       *)
rollback_misnamed(v) ==
  IF node_first(v.node_list) # v.node_id
    THEN [v EXCEPT !.rollback_node_id = node_first(v.node_list), !.state = "ROLLBACK"]
    ELSE v

(* Mutant of rollback: it waits for the last node of the list.             *)
rollback_to_last(v) ==
  IF node_first(v.node_list) # v.node_id
    THEN [v EXCEPT !.rollback_node_id = Last(v.node_list), !.state = "RBACK"]
    ELSE v

(* With a better node at the head of the list, wait before yielding to it. *)
rollback(v) ==
  IF node_first(v.node_list) # v.node_id
    THEN [v EXCEPT !.rollback_node_id = node_first(v.node_list), !.state = "RBACK"]
    ELSE v

(* Called after an event: the wait ends unless its target is still the     *)
(* head of the list.                                                       *)
rback_stop(v) ==
  IF v.rollback_node_id = NoNode \/ v.rollback_node_id # node_first(v.node_list)
    THEN [v EXCEPT !.state = "MASTER"]
    ELSE v

(* Mutant of TakeOver: a failure to set the address does not stop the node. *)
TakeOver_regardless(n, v, works) ==
  virtual_ip_send_state(n, [v EXCEPT !.state = "MASTER"], works)

(* "works": adding the address and announcing it by ARP both succeed.      *)
(* When either fails the address is taken off again and the node stops.    *)
TakeOver(n, v, works) ==
  IF works
    THEN virtual_ip_send_state(n, [v EXCEPT !.state = "MASTER"], TRUE)
    ELSE Quiet(go_down(v), FALSE)

(* Run by vip_thread itself, go_down joins nothing and drops the address.  *)
act(n, v, works) ==
  IF v.node_id = node_first(v.node_list)
    THEN TakeOver(n, v, works)
    ELSE Quiet(go_down(v), FALSE)

react(n, v, onDevice, works) ==
  IF v.node_id = node_first(v.node_list)
    THEN TakeOver(n, v, works)
    ELSE Quiet(v, onDevice)

fsm_do_transaction(n, v, onDevice, event, works) ==
  LET action == table[event][v.state]
  IN  CASE action = "act"                    -> act(n, v, works)
        [] action = "react"                  -> react(n, v, onDevice, works)
        [] action \in {"nodeup", "backupup"} -> virtual_ip_send_state(n, v, onDevice)
        [] action = "observe"                -> Quiet(observe(v), onDevice)
        [] action = "rollback"               -> Quiet(rollback(v), onDevice)
        [] action = "rback_stop"             -> Quiet(rback_stop(v), onDevice)
        [] action = "go_down"                -> Quiet(go_down(v), FALSE)
        [] OTHER                             -> Quiet(v, onDevice)

-----------------------------------------------------------------------------
(* fsm_input.c: the events *)

(* Mutant of fsm_input_node_down: what node_remove returns is dropped.     *)
fsm_input_node_down_keeping(n, v, onDevice, nodeid, works) ==
  fsm_do_transaction(n, v, onDevice,
                     IF v.master_id = nodeid THEN "MASTER_DOWN" ELSE "BACKUP_DOWN", works)

fsm_input_node_down(n, v, onDevice, nodeid, works) ==
  LET event == IF v.master_id = nodeid THEN "MASTER_DOWN" ELSE "BACKUP_DOWN"
      left  == [v EXCEPT !.node_list = node_remove(@, nodeid),
                         !.rollback_node_id = IF @ = nodeid THEN NoNode ELSE @]
  IN  fsm_do_transaction(n, left, onDevice, event, works)

(* Mutant of fsm_input_node_up: a master keeps silent when others join.    *)
fsm_input_node_up_silent(n, v, onDevice, works) ==
  IF v.state \in Active THEN Quiet(v, onDevice)
  ELSE fsm_do_transaction(n, v, onDevice, "BACKUP_UP", works)

fsm_input_node_up(n, v, onDevice, works) ==
  fsm_do_transaction(n, v, onDevice, "BACKUP_UP", works)

(* The list and the master are recorded whatever the state, even IDLE.     *)
Recorded(v, msg) ==
  [v EXCEPT !.node_list = node_add(@, msg.nodeid),
            !.master_id = IF msg.state \in Active THEN msg.nodeid ELSE @]

(* Mutant of IsDuplicate: only a node that has just joined is compared.    *)
IsDuplicateNewcomer(n, v, msg) ==
  Priority[msg.nodeid] = Priority[n] /\ msg.nodeid # v.node_id /\ msg.state = "START"

IsDuplicate(n, v, msg) == Priority[msg.nodeid] = Priority[n] /\ msg.nodeid # v.node_id

(* Mutant of IsAlone: nobody else was heard of.                            *)
IsAloneByList(v) == list_entries(v.node_list) = 1

IsAlone(v) == member_list_entries(v) = 1

(* Mutant of HeardEveryone: the comparison is too weak.                    *)
HeardSomeone(v) == list_entries(v.node_list) <= member_list_entries(v)

HeardEveryone(v) == list_entries(v.node_list) = member_list_entries(v)

(* The event a state message amounts to, "none" when nothing is to be done. *)
MessageEvent(n, v, msg) ==
  IF IsDuplicate(n, v, msg) THEN "DUPLICATE"
  ELSE CASE v.state = "START" ->
              IF IsAlone(v) THEN "MASTER_DOWN"
              ELSE IF HeardEveryone(v) THEN "MASTER_UP" ELSE "none"
         [] v.state \in Active ->
              IF n \in AutoRollback /\ Priority[msg.nodeid] > Priority[n]
                THEN "RBACK_REQ" ELSE "none"
         [] OTHER -> "none"

fsm_input_new_state_message(n, v, onDevice, msg, works) ==
  LET heard == Recorded(v, msg)
      event == MessageEvent(n, heard, msg)
  IN  IF event = "none" THEN Quiet(heard, onDevice)
      ELSE fsm_do_transaction(n, heard, onDevice, event, works)

(* ConfchgCallback and DeliverCallback.  A configuration change in which   *)
(* several nodes left is one "down" per node, as in the callback's loop.   *)
Dispatch(n, v, onDevice, e, works) ==
  CASE e.type = "down"  -> fsm_input_node_down(n, [v EXCEPT !.member_list = e.member_list],
                                               onDevice, e.nodeid, works)
    [] e.type = "up"    -> fsm_input_node_up(n, [v EXCEPT !.member_list = e.member_list],
                                             onDevice, works)
    [] e.type = "state" -> fsm_input_new_state_message(n, v, onDevice, e, works)

-----------------------------------------------------------------------------
(* Types *)

Ids == Nodes \cup {NoNode}

Vips == [state : States, node_id : Ids, master_id : Ids, rollback_node_id : Ids,
         node_list : Seq(Nodes), member_list : SUBSET Nodes]

==============================================================================
