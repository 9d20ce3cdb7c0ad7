----------------------------- MODULE MCCgroupRate -----------------------------
(***************************************************************************)
(* Instances of CgroupRate for TLC: two cgroups that compete for one entry *)
(* of the map, and one cgroup whose throttle message may be lost.          *)
(***************************************************************************)
EXTENDS CgroupRate

=============================================================================
