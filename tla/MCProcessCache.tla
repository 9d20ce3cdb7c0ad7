--------------------------- MODULE MCProcessCache ---------------------------
(***************************************************************************)
(* Instances of ProcessCache for TLC. Two processes in a cache of one      *)
(* entry make evictions race with collections; two goroutines make a       *)
(* lookup race with a walk; MaxOwed = 2 lets a process be referenced by    *)
(* its own life and by a child, and RefMax = 4 leaves room for the two     *)
(* drops that can be pending at the same time.                             *)
(***************************************************************************)
EXTENDS ProcessCache

=============================================================================
