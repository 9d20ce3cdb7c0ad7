--------------------------- MODULE MCGenericKprobe ---------------------------
(* Instances of GenericKprobe: three processes, two of which the policy is *)
(* about, three values, and small policies that overlap.                   *)
EXTENDS GenericKprobe, TLC

CONSTANTS t1, t2, f, g, w1, w2, w3

Sel(procs, args, rets, list, rlist) ==
    [procs |-> procs, args |-> args, rets |-> rets, acts |-> list,
     racts |-> rlist]

(* For f no selector, one, two that both may match, and three of which the *)
(* first is for another process; for g none, or two that overlap.          *)
ForF ==
    {<<>>} \cup
    {<<Sel({w1}, {0}, {0}, l, <<>>)>> :
        l \in {<<"NoPost">>, <<"Signal", "NoPost">>}} \cup
    {<<Sel({w1}, {0}, {0}, l, <<>>), Sel({w1, w2}, {0, 1}, {1}, k, <<>>)>> :
        l \in {<<>>, <<"Override">>}, k \in {<<"Signal">>, <<"Override", "NoPost">>}}
    \cup
    {<<Sel({w2}, {0, 1}, {0, 1}, <<"NoPost">>, <<>>),
       Sel({w1}, {1}, {0, 1}, <<"Override">>, <<>>),
       Sel({w1}, {0}, {0}, <<>>, <<"NoPost">>)>>}

ForG == {<<>>, <<Sel({w2}, {0}, {1}, <<>>, <<>>),
                 Sel({w1, w2}, {0, 1}, {0, 1}, <<"Override">>, <<>>)>>}

OnePolicies == {f :> s : s \in ForF}
TwoPolicies == {(f :> s) @@ (g :> r) : s \in ForF, r \in ForG}

(* One selector whose list begins or ends with UnfollowFD.                 *)
FdPolicies ==
    {f :> <<Sel({w1, w2}, {0, 1}, {0, 1}, l, <<>>)>> :
        l \in {<<"UnfollowFD", "Signal">>, <<"Signal", "UnfollowFD">>}}

Symmetry == Permutations(Threads) \cup Permutations(Cpus)
==============================================================================
