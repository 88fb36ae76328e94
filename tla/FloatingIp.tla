----------------------------- MODULE FloatingIp -----------------------------
(***************************************************************************)
(* What the module promises of a virtual IP: at any time at most one node  *)
(* serves it, the address is on the device of the node that serves, and a  *)
(* device gains the address in no other way than by its node beginning to  *)
(* serve.  How the nodes agree on who serves is left open.                 *)
(***************************************************************************)
CONSTANT Nodes

VARIABLES
  role,     \* "off", "standby" or "serving", per node
  address   \* the virtual IP is on the node's device

vars == <<role, address>>

Init ==
  /\ role = [n \in Nodes |-> "off"]
  /\ address = [n \in Nodes |-> FALSE]

(* n takes part from now on, having no leftover of the address.            *)
Enter(n) ==
  /\ role[n] = "off"
  /\ ~address[n]
  /\ role' = [role EXCEPT ![n] = "standby"]
  /\ UNCHANGED address

(* n begins to serve: nobody else does.                                    *)
Serve(n) ==
  /\ role[n] = "standby"
  /\ \A m \in Nodes : role[m] # "serving"
  /\ role' = [role EXCEPT ![n] = "serving"]
  /\ address' = [address EXCEPT ![n] = TRUE]

(* n stops or dies, with the address or leaving it behind for a while ...  *)
Quit(n) ==
  /\ role[n] # "off"
  /\ role' = [role EXCEPT ![n] = "off"]
  /\ \E left \in {FALSE, address[n]} : address' = [address EXCEPT ![n] = left]

(* ... until it is taken off the device.                                   *)
Release(n) ==
  /\ role[n] = "off"
  /\ address' = [address EXCEPT ![n] = FALSE]
  /\ UNCHANGED role

Next == \E n \in Nodes : Enter(n) \/ Serve(n) \/ Quit(n) \/ Release(n)

Spec == Init /\ [][Next]_vars

=============================================================================
