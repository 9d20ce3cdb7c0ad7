---------------------------- MODULE MCCgroupIdMap ----------------------------
(* Instances of CgroupIdMap: one pod with two containers, one with one;    *)
(* each has one cgroup, or one of them has a subgroup as well.             *)
EXTENDS CgroupIdMap, TLC

TheHome == [c \in Conts |-> IF c = "c3" THEN "q" ELSE "p"]
One == [c \in Conts |-> {c}]
Subgroup == ("c1" :> {"c1", "s1"}) @@ ("c2" :> {"c2"}) @@ ("c3" :> {"c3"})
==============================================================================
