---------------------------- MODULE NodeListSpec ----------------------------
(***************************************************************************)
(* The list of node.c under any sequence of the calls that fsm_input.c and *)
(* fsm.c make on it.  The history variable "announced" is the set the list *)
(* is meant to represent.                                                  *)
(***************************************************************************)
EXTENDS NodeList

VARIABLES node_list, announced

vars == <<node_list, announced>>

Init == node_list = <<>> /\ announced = {}

(* A state message of "nodeid" (fsm_input_new_state_message).              *)
AddNode(nodeid) ==
  /\ node_list' = node_add(node_list, nodeid)
  /\ announced' = announced \cup {nodeid}

(* "nodeid" left the group (fsm_input_node_down), announced or not.        *)
RemoveNode(nodeid) ==
  /\ node_list' = node_remove(node_list, nodeid)
  /\ announced' = announced \ {nodeid}

(* go_down frees every element and resets the head.                        *)
RemoveAllNodes == node_list' = <<>> /\ announced' = {}

Next ==
  \/ \E nodeid \in Nodes : AddNode(nodeid) \/ RemoveNode(nodeid)
  \/ RemoveAllNodes

Spec == Init /\ [][Next]_vars

-----------------------------------------------------------------------------
(* The list holds exactly the announced nodes, each once, and the highest  *)
(* priority comes first: act, react and rollback all trust the head.       *)
ListIsOrderedSet ==
  /\ node_list \in NodeLists
  /\ ToSet(node_list) = announced
  /\ list_entries(node_list) = Cardinality(announced)

(* No call reorders two nodes that stay in the list: between equal         *)
(* priorities the order of announcement is never undone by later traffic,  *)
(* so the node entitled to take over does not change under the others.     *)
Before(list, m, n) ==
  \E i, j \in 1..Len(list) : i < j /\ list[i] = m /\ list[j] = n

OrderIsStable ==
  [][\A m, n \in announced \cap announced' :
        Before(node_list, m, n) <=> Before(node_list', m, n)]_vars

(* A newcomer goes in front of the nodes of its own priority: with equal   *)
(* priorities the LAST announced node is the first to take over.           *)
NewcomerLeadsItsEquals ==
  [][\A n \in announced' \ announced, m \in announced \cap announced' :
        Before(node_list', n, m) <=> Priority[n] >= Priority[m]]_vars

=============================================================================
