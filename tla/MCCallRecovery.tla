--------------------------- MODULE MCCallRecovery ---------------------------
(* CallRecovery on two and three nodes.                                    *)
EXTENDS CallRecovery

ThreeNodes == 1..3
Descending == [n \in ThreeNodes |-> 100 - 10 * n]

TwoCalls == {"c1", "c2"}
OneOfEach == [c \in TwoCalls |-> IF c = "c1" THEN "internal" ELSE "external"]

Profile(name, recovered) == [name |-> name, autorecover |-> recovered]
Single == <<Profile("internal", TRUE)>>
Mixed == <<Profile("internal", TRUE), Profile("external", FALSE)>>
Edited == <<Profile("unknown", TRUE), Profile("external", FALSE), Profile("external", TRUE),
            Profile("internal", TRUE), Profile("lan", TRUE)>>
FilesRead == {Single, Mixed, Edited}

(* Who is there, who makes calls under which file, who may fall, come up   *)
(* (again), and fail to set the address.                                   *)
Scenario(members, file, calls, fall, up, ip) ==
  [members |-> members, file |-> file, calls |-> calls,
   limit |-> [fall |-> fall, up |-> up, ip |-> ip]]

FallsAndReturns ==
  {Scenario({1, 2}, Mixed, TwoCalls, {1}, {}, {}),
   Scenario({1, 2, 3}, Edited, {"c2"}, {1}, {}, {}),
   Scenario({1, 2, 3}, Single, {"c1"}, {1, 2}, {}, {2}),
   Scenario({1, 2}, Single, {"c1"}, {1}, {1}, {}),
   Scenario({1, 2}, Single, {"c1"}, {}, {3}, {})}

=============================================================================
