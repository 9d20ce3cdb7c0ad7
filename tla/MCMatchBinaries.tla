--------------------------- MODULE MCMatchBinaries ---------------------------
(* Instances of MatchBinaries: the policies follow the same binary; the    *)
(* shell is followed by none.                                              *)
EXTENDS MatchBinaries, TLC

CONSTANTS init, a, b, p1, p2, p3

ThePathsOf == [q \in Policies |-> {"cron"}]

Budget(forks, execs, removals, fails) ==
    [forks |-> forks, execs |-> execs, removals |-> removals, fails |-> fails]

(* A removal among forks; two removals at once; a family of three; a call  *)
(* that fails.                                                             *)
TheBudgets == {Budget(1, 1, 1, 0), Budget(0, 2, 2, 0), Budget(2, 1, 0, 0), Budget(0, 1, 1, 1)}

(* For a policy that is removed, fails to load, or meets a pid again.      *)
Removal == {Budget(2, 2, 1, 0)}
Failure == {Budget(0, 0, 1, 1)}
Family == {Budget(4, 4, 0, 0)}

Symmetry == Permutations(Pids \ {Root}) \cup Permutations(Policies)
==============================================================================
