---------------------------- MODULE MCPolicyFilter ----------------------------
(***************************************************************************)
(* Instances of PolicyFilter for TLC.  One pod has two containers, one of  *)
(* them seen with two cgroup ids, the other has one.  The policies differ  *)
(* in the labels and in the containers that they match.                    *)
(***************************************************************************)
EXTENDS PolicyFilter

TheHome == [c \in Containers |-> IF c = "c3" THEN "q" ELSE "p"]
TheOwner == [cg \in CgroupIDs |-> CASE cg \in {1, 2} -> "c1" [] cg = 3 -> "c2" [] cg = 4 -> "c3"]
ThePodSelector == [p \in Policies |-> IF p = 1 THEN {"x"} ELSE {"x", "y"}]
TheContainerSelector == [p \in Policies |-> IF p = 1 THEN Containers ELSE {"c1", "c3"}]

=============================================================================
