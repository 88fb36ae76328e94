---------------------------- MODULE MCVipGroup3 ----------------------------
(* VipGroup on three nodes.                                                *)
EXTENDS VipGroup

ThreeNodes == 1..3
Descending == [n \in ThreeNodes |-> 100 - 10 * n]

None == [kind \in Kinds |-> 0]
CrashLimit == [None EXCEPT !["load"] = 3, !["crash"] = 1]

=============================================================================
