---------------------------- MODULE MCVipGroup2 ----------------------------
(* VipGroup on the pair of servers it was written for.                     *)
EXTENDS VipGroup

TwoNodes == {1, 2}
HighFirst == [n \in TwoNodes |-> IF n = 1 THEN 100 ELSE 50]
Tied == [n \in TwoNodes |-> 100]

None == [kind \in Kinds |-> 0]
StopLimit == [None EXCEPT !["load"] = 3, !["start"] = 1, !["stop"] = 1, !["unload"] = 1,
                          !["crash"] = 1, !["ip"] = 1]
LiveLimit == [None EXCEPT !["load"] = 3, !["stop"] = 1, !["crash"] = 1]
CutLimit == [None EXCEPT !["load"] = 2, !["cut"] = 1]
CutCrashLimit == [CutLimit EXCEPT !["crash"] = 1]
EqualsLimit == [LiveLimit EXCEPT !["cpg"] = 1]
RestartLimit == [None EXCEPT !["load"] = 2, !["start"] = 1, !["stop"] = 1]
TinyLimit == [None EXCEPT !["load"] = 2, !["crash"] = 1]

=============================================================================
