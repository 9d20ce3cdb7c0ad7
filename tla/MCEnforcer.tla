------------------------------ MODULE MCEnforcer ------------------------------
(* Instances of Enforcer: two hooks that ask for different things.         *)
EXTENDS Enforcer, TLC

TheRequests == {[info |-> 1, error |-> -1, signal |-> 9],
                [info |-> 2, error |-> 65523, signal |-> 0]}

Symmetry == Permutations(Threads) \cup Permutations(Elements)
==============================================================================
