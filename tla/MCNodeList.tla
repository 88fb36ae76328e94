----------------------------- MODULE MCNodeList -----------------------------
(* NodeListSpec on six nodes: two of them share the highest priority and   *)
(* three the lowest.                                                       *)
EXTENDS NodeListSpec

SixNodes == 1..6
TiedPriority ==
  [n \in SixNodes |-> CASE n \in {1, 4} -> 100 [] n = 2 -> 80 [] OTHER -> 50]

=============================================================================
