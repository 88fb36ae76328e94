---------------------------- MODULE MCVipThreads ----------------------------
(* VipThreads with two callers, two rollbacks and two starts.              *)
EXTENDS VipThreads

TwoCallers == {"console", "arbiter"}
FourRuns == {"v1", "v2", "v3", "v4"}
TwoRollbacks == {"r1", "r2"}

=============================================================================
