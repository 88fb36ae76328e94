------------------------------ MODULE NodeList ------------------------------
(***************************************************************************)
(* The priority list of node.c: every cluster member that has announced    *)
(* its state, in the order in which the members may take the virtual IP.   *)
(*                                                                         *)
(* The C list is singly linked and keeps a nodeid and a priority per       *)
(* element.  A node's priority never changes while its module is loaded,   *)
(* so the list is modelled by the sequence of its node ids and the         *)
(* priorities by a constant function.                                      *)
(***************************************************************************)
EXTENDS SequencesExt, Integers

CONSTANTS Nodes,     \* corosync node ids
          Priority   \* config.priority of the virtual IP on each node

(* A node id is a non-zero uint32_t: 0 stands for "no node" in the code.   *)
ASSUME NodesAssumption == Nodes \subseteq Nat \ {0} /\ IsFiniteSet(Nodes)
ASSUME PriorityAssumption == Priority \in [Nodes -> Int]

NoNode == 0

(* The position at which a walk from the head stops: the first element in  *)
(* S, or the end of the list (one past the last element).                  *)
Walk(list, S) ==
  CHOOSE i \in 1..(Len(list) + 1) :
    /\ i <= Len(list) => list[i] \in S
    /\ \A j \in 1..(i - 1) : list[j] \notin S

node_search(list, nodeid) == Walk(list, {nodeid}) <= Len(list)

(* Mutant of node_add: ">=" for ">" in the loop that looks for the place.  *)
node_add_after_equals(list, nodeid) ==
  IF node_search(list, nodeid)
    THEN list
    ELSE InsertAt(list, Walk(list, {m \in Nodes : Priority[m] < Priority[nodeid]}), nodeid)

(* Mutant of node_add: the search for the node is forgotten.               *)
node_add_again(list, nodeid) ==
  InsertAt(list, Walk(list, {m \in Nodes : Priority[m] <= Priority[nodeid]}), nodeid)

(* Mutant of node_add: a newcomer goes to the end of the list.             *)
node_add_last(list, nodeid) ==
  IF node_search(list, nodeid) THEN list ELSE Append(list, nodeid)

(* A node goes before the first element whose priority is not above its    *)
(* own; a node already in the list is left where it is.                    *)
node_add(list, nodeid) ==
  IF node_search(list, nodeid)
    THEN list
    ELSE LET NotAbove == {m \in Nodes : Priority[m] <= Priority[nodeid]}
         IN  InsertAt(list, Walk(list, NotAbove), nodeid)

(* Mutant of node_remove: the list is cut at the node instead of relinked. *)
node_remove_tail(list, nodeid) ==
  IF node_search(list, nodeid)
    THEN SubSeq(list, 1, Walk(list, {nodeid}) - 1)
    ELSE list

(* Mutant of node_remove: the last element takes the place of the removed. *)
node_remove_swap(list, nodeid) ==
  IF node_search(list, nodeid)
    THEN SubSeq([list EXCEPT ![Walk(list, {nodeid})] = list[Len(list)]], 1, Len(list) - 1)
    ELSE list

node_remove(list, nodeid) ==
  IF node_search(list, nodeid)
    THEN RemoveAt(list, Walk(list, {nodeid}))
    ELSE list

node_first(list) == IF list = <<>> THEN NoNode ELSE list[1]

list_entries(list) == Len(list)

-----------------------------------------------------------------------------
(* What the rest of the module relies on.                                  *)

ByPriority(list) ==
  \A i, j \in 1..Len(list) : i < j => Priority[list[i]] >= Priority[list[j]]

NoDuplicates(list) ==
  \A i, j \in 1..Len(list) : list[i] = list[j] => i = j

NodeLists == {list \in Seq(Nodes) : ByPriority(list) /\ NoDuplicates(list)}

=============================================================================
