----------------------------- MODULE CgroupIdMap -----------------------------
(***************************************************************************)
(* The map from cgroup ids to containers: pkg/cgidmap.                     *)
(*                                                                         *)
(* A slice of entries with two indices, cgMap and contMap.  The runtime    *)
(* hook adds a container as it is created.  The pod informer's handlers    *)
(* call Update with the containers of a pod: entries of other containers   *)
(* of that pod become free space, containers without an entry are queued   *)
(* for the CRI resolver, if there is one: a goroutine that asks the        *)
(* runtime and adds them.                                                  *)
(* Every method holds the map's mutex; the resolver holds no lock while it *)
(* asks.                                                                   *)
(***************************************************************************)
EXTENDS Naturals, Sequences, SequencesExt, FiniteSetsExt

CONSTANTS
    Pods, Conts, Home,  \* containers and the pod of each
    CgIds,
    IdsOf,              \* the cgroup ids found for a container: more than
                        \* one where the runtime makes a subgroup later
    EnableCRI,          \* option.Config.EnableCRI: there is a resolver
    InitCap,            \* the capacity with which entries is made
    MaxUnmapped         \* maxUnmappedIDs

ASSUME CgroupIdMapAssumption ==
    /\ Home \in [Conts -> Pods] /\ IsFiniteSet(Conts)
    /\ IdsOf \in [Conts -> SUBSET CgIds] /\ EnableCRI \in BOOLEAN
    /\ {InitCap, MaxUnmapped} \subseteq Nat
    /\ InitCap > 0 /\ MaxUnmapped > 0

None == "none"

VARIABLES
    entries, cgMap, contMap, invalidCnt, cap,
    unresolvedIDs,  \* the resolver's list, front first
    resolving,      \* the container that the resolver asks about
    life,           \* container -> "no", "made", "listed" in its pod's
                    \* status, "over"
    deleted,        \* the pods that are deleted
    told            \* the pods whose last change the informer has delivered

map == <<entries, cgMap, contMap, invalidCnt, cap>>
IdMapVars == <<entries, cgMap, contMap, invalidCnt, cap, unresolvedIDs, resolving,
          life, deleted, told>>

Indices == DOMAIN entries
Valid == {i \in Indices : ~entries[i].invalid}

(***************************************************************************)
(* The methods of cgidm.                                                   *)
(***************************************************************************)

(* Get, with None for the failed lookup.                                   *)
Get(cg) == IF cg \in DOMAIN cgMap THEN entries[cgMap[cg]].cont ELSE None

Put(f, k, v) == [x \in DOMAIN f \cup {k} |-> IF x = k THEN v ELSE f[x]]
Drop(f, ks) == [x \in DOMAIN f \ ks |-> f[x]]

(* addEntry: append while there is capacity or nothing is free, which may  *)
(* grow the slice; otherwise the first free entry.                         *)
addEntry(e) ==
    LET free == {i \in Indices : entries[i].invalid}
        append == cap > Len(entries) \/ invalidCnt = 0 \/ free = {}
        idx == IF append THEN Len(entries) + 1 ELSE Min(free)
    IN  /\ entries' = IF append THEN Append(entries, e)
                                ELSE [entries EXCEPT ![idx] = e]
        /\ cap' = IF append /\ cap = Len(entries) THEN 2 * cap ELSE cap
        /\ invalidCnt' = IF append THEN invalidCnt ELSE invalidCnt - 1
        /\ contMap' = Put(contMap, e.cont, idx)
        /\ cgMap' = Put(cgMap, e.cg, idx)

(* updateEntry writes the entry; the indices stay.                         *)
updateEntry(idx, e) ==
    /\ entries' = [entries EXCEPT ![idx].pod = e.pod, ![idx].cg = e.cg]
    /\ UNCHANGED <<cgMap, contMap, invalidCnt, cap>>

Add(c, cg) ==
    LET e == [cg |-> cg, cont |-> c, pod |-> Home[c], invalid |-> FALSE]
    IN  IF c \in DOMAIN contMap THEN updateEntry(contMap[c], e) ELSE addEntry(e)

(* Mutant: the index by cgroup id is not cleaned.                          *)
KeepsIndex(p, conts) ==
    LET gone == {i \in Valid : entries[i].pod = p /\ entries[i].cont \notin conts}
    IN  /\ entries' = [i \in Indices |->
                          [entries[i] EXCEPT !.invalid = @ \/ i \in gone]]
        /\ contMap' = Drop(contMap, {entries[i].cont : i \in gone})
        /\ invalidCnt' = invalidCnt + Cardinality(gone)
        /\ UNCHANGED <<cap, cgMap>>

(* Update, the part on the map: free the pod's entries whose container is  *)
(* not among conts.                                                        *)
Removed(p, conts) ==
    LET gone == {i \in Valid : entries[i].pod = p /\ entries[i].cont \notin conts}
    IN  /\ entries' = [i \in Indices |->
                          [entries[i] EXCEPT !.invalid = @ \/ i \in gone]]
        /\ cgMap' = Drop(cgMap, {entries[i].cg : i \in gone})
        /\ contMap' = Drop(contMap, {entries[i].cont : i \in gone})
        /\ invalidCnt' = invalidCnt + Cardinality(gone)
        /\ UNCHANGED cap

(* enqeue: each id to the front; ids at the back are given up for them.    *)
enqeue(ids) ==
    LET kept == SubSeq(ids, 1, IF Len(ids) < MaxUnmapped THEN Len(ids)
                                                          ELSE MaxUnmapped)
    IN  SubSeq(Reverse(kept) \o unresolvedIDs, 1,
               IF Len(kept) + Len(unresolvedIDs) < MaxUnmapped
               THEN Len(kept) + Len(unresolvedIDs) ELSE MaxUnmapped)

(* The orders in which Go may range over a set.                            *)
Orders(S) == {s \in [1..Cardinality(S) -> S] : IsInjective(s)}

(* Mutant: a free entry of the container passes for its entry.             *)
FreeCounts(p, conts) ==
    LET have == {entries[i].cont : i \in {j \in Indices : entries[j].pod = p}}
    IN  /\ Removed(p, conts)
        /\ IF conts \subseteq have THEN UNCHANGED unresolvedIDs
           ELSE \E ids \in Orders(conts \ have) : unresolvedIDs' = enqeue(ids)

Update(p, conts) ==
    LET have == {entries[i].cont : i \in {j \in Valid : entries[j].pod = p}}
    IN  /\ Removed(p, conts)
        /\ IF conts \subseteq have \/ ~EnableCRI THEN UNCHANGED unresolvedIDs
           ELSE \E ids \in Orders(conts \ have) : unresolvedIDs' = enqeue(ids)

(***************************************************************************)
(* The callers.                                                            *)
(***************************************************************************)

(* createContainerHook, or a container made where the hook is missing.     *)
createContainerHook(c) ==
    /\ life[c] = "no" /\ Home[c] \notin deleted
    /\ life' = [life EXCEPT ![c] = "made"]
    /\ \/ \E cg \in IdsOf[c] : Add(c, cg)
       \/ UNCHANGED map
    /\ UNCHANGED <<unresolvedIDs, resolving, deleted, told>>

(* The kubelet puts a container into its pod's status, or takes it out ... *)
ContainerStatus(c) ==
    /\ \/ life[c] = "made" /\ life' = [life EXCEPT ![c] = "listed"]
       \/ life[c] = "listed" /\ life' = [life EXCEPT ![c] = "over"]
    /\ told' = told \ {Home[c]}
    /\ UNCHANGED <<map, unresolvedIDs, resolving, deleted>>

(* ... or the pod is deleted.                                              *)
DeletePod(p) ==
    /\ p \notin deleted
    /\ deleted' = deleted \cup {p}
    /\ life' = [c \in Conts |-> IF Home[c] = p THEN "over" ELSE life[c]]
    /\ told' = told \ {p}
    /\ UNCHANGED <<map, unresolvedIDs, resolving>>

Listed(p) == {c \in Conts : Home[c] = p /\ life[c] = "listed"}

(* updatePodHandler and deletePodHandler; the informer repeats the update  *)
(* of a pod that exists.                                                   *)
podHandler(p) ==
    /\ p \notin told \/ p \notin deleted
    /\ Update(p, Listed(p))
    /\ told' = told \cup {p}
    /\ UNCHANGED <<resolving, life, deleted>>

(* The resolver's goroutine takes the front of the list ...                *)
ResolveNext ==
    /\ resolving = None /\ unresolvedIDs # <<>>
    /\ resolving' = Head(unresolvedIDs)
    /\ unresolvedIDs' = Tail(unresolvedIDs)
    /\ UNCHANGED <<map, life, deleted, told>>

(* ... and adds what the CRI answers: the container may be gone by then.   *)
criResolve ==
    /\ resolving # None
    /\ \E cg \in IdsOf[resolving] : Add(resolving, cg)
    /\ resolving' = None
    /\ UNCHANGED <<unresolvedIDs, life, deleted, told>>

(* The runtime may fail to answer; for a container that is gone it will.   *)
criFails ==
    /\ resolving # None
    /\ resolving' = None
    /\ UNCHANGED <<map, unresolvedIDs, life, deleted, told>>

(***************************************************************************)
(* The specification.                                                      *)
(***************************************************************************)
IdMapInit ==
    /\ entries = <<>> /\ invalidCnt = 0 /\ cap = InitCap
    /\ cgMap = [x \in {} |-> 0] /\ contMap = [x \in {} |-> 0]
    /\ unresolvedIDs = <<>> /\ resolving = None
    /\ life \in [Conts -> {"no", "listed"}]
    /\ deleted = {} /\ told = {}

IdMapNext ==
    \/ \E c \in Conts : createContainerHook(c) \/ ContainerStatus(c)
    \/ \E p \in Pods : DeletePod(p) \/ podHandler(p)
    \/ ResolveNext \/ criResolve \/ criFails

IdMapSpec == IdMapInit /\ [][IdMapNext]_IdMapVars

(* The informer delivers and resyncs, the resolver's goroutine runs, and   *)
(* the runtime, asked again and again about a container, answers.          *)
IdMapFairSpec ==
    /\ IdMapSpec
    /\ \A p \in Pods : WF_IdMapVars(podHandler(p))
    /\ WF_IdMapVars(ResolveNext) /\ WF_IdMapVars(criResolve \/ criFails)
    /\ \A c \in Conts : SF_IdMapVars(resolving = c /\ criResolve)

(***************************************************************************)
(* Properties.                                                             *)
(***************************************************************************)

(* The variables have their types.                                         *)
IdMapTypeOK ==
    /\ entries \in Seq([cg : CgIds, cont : Conts, pod : Pods, invalid : BOOLEAN])
    /\ Len(entries) <= cap
    /\ DOMAIN cgMap \subseteq CgIds /\ DOMAIN contMap \subseteq Conts
    /\ \A k \in DOMAIN cgMap : cgMap[k] \in Indices
    /\ \A k \in DOMAIN contMap : contMap[k] \in Indices
    /\ unresolvedIDs \in Seq(Conts) /\ Len(unresolvedIDs) <= MaxUnmapped
    /\ resolving \in Conts \cup {None}
    /\ life \in [Conts -> {"no", "made", "listed", "over"}]

(* The two indices lead to the entries that are not free, and only there;  *)
(* a container has at most one entry; invalidCnt is the number of the free *)
(* ones, without which addEntryAllocID reports that the "invalid count is  *)
(* wrong".                                                                 *)
Indexed ==
    /\ \A i \in Valid : /\ entries[i].cont \in DOMAIN contMap
                        /\ contMap[entries[i].cont] = i
                        /\ entries[i].cg \in DOMAIN cgMap
                        /\ cgMap[entries[i].cg] = i
    /\ {contMap[k] : k \in DOMAIN contMap} \cup {cgMap[k] : k \in DOMAIN cgMap}
          \subseteq Valid
    /\ invalidCnt = Cardinality(Indices \ Valid)

(* An event of a cgroup is given to the container whose cgroup it is.      *)
RightContainer ==
    \A cg \in CgIds : Get(cg) # None => cg \in IdsOf[Get(cg)]

(* What Update's comment says of an empty list: once the informer has told *)
(* of a pod's deletion nothing is left of it.                              *)
NothingLeft ==
    \A p \in told \cap deleted : \A i \in Valid : entries[i].pod # p

(* With --enable-cri a container that stays in its pod's status is found   *)
(* in the end, also if it was pushed out of the resolver's list:           *)
(* "subsequent sync updates from the pod hooks will ensure that the ids    *)
(* that were dropped will be added if they are still alive".               *)
Found ==
    EnableCRI => \A c \in Conts :
        life[c] = "listed" ~>
            life[c] = "over" \/ \E cg \in IdsOf[c] : Get(cg) = c
==============================================================================
