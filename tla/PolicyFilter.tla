----------------------------- MODULE PolicyFilter -----------------------------
(***************************************************************************)
(* The policy filter (pkg/policyfilter/state.go, map.go): which tracing    *)
(* policies apply to which containers.  The agent keeps the pods and the   *)
(* policies, and updates two BPF maps step by step as they change:         *)
(* policy_filter_maps, which the BPF programs ask whether a policy applies *)
(* to a cgroup (bpf/process/policy_filter.h), and, if it is enabled, the   *)
(* reverse map policy_filter_cgroup_maps.                                  *)
(*                                                                         *)
(* Kubernetes informers, the runtime hook and the sensor manager call in,  *)
(* in any order and with what they know at that time; m.mu serializes      *)
(* them.  An operation is one step, but for UpdatePod, which is one step   *)
(* for the labels, one for the containers that are gone and one for the    *)
(* new ones: the BPF programs look at the maps in between.                 *)
(*                                                                         *)
(* Abstractions: a container entry is its cgroup id, which belongs to one  *)
(* container; a container may have several (see containerExists).  The     *)
(* labels of a pod, its namespace among them, are one value, and a         *)
(* selector the set of values it matches.  The namespace map is left out.  *)
(***************************************************************************)
EXTENDS Integers, FiniteSets

CONSTANTS
  Pods, Containers, CgroupIDs, Policies, Labels,
  Home,              \* the pod of each container
  Owner,             \* the container of each cgroup id
  PodSelector,       \* labels that each policy matches
  ContainerSelector, \* containers that each policy matches
  CgroupMap,         \* whether the reverse map is enabled
  PolMapSize,        \* size of an inner map of policy_filter_maps
  CgroupMapSize      \* size of policy_filter_cgroup_maps

ASSUME WorldAssumption ==
  /\ Home \in [Containers -> Pods] /\ Owner \in [CgroupIDs -> Containers]
  /\ PodSelector \in [Policies -> SUBSET Labels]
  /\ ContainerSelector \in [Policies -> SUBSET Containers]
ASSUME LabelAssumption == "none" \notin Labels \* the labels of no pod
ASSUME MapAssumption ==
  CgroupMap \in BOOLEAN /\ PolMapSize \in Nat /\ CgroupMapSize \in Nat

VARIABLES
  policies,  \* m.policies
  pods,      \* m.pods
  outer,     \* policies that have an entry in policy_filter_maps
  polMap,    \* the inner map of each policy
  cgroupMap, \* policy_filter_cgroup_maps
  op,        \* UpdatePod on its way
  unlisted   \* cgroup ids a hook added and no update has listed (history)

vars == <<policies, pods, outer, polMap, cgroupMap, op, unlisted>>
maps == <<outer, polMap, cgroupMap>>

Pod == [labels : Labels, containers : SUBSET CgroupIDs, matched : SUBSET Policies]
Absent == [labels |-> "none", containers |-> {}, matched |-> {}]
Known(pod) == pods[pod] # Absent

Places == {"idle", "labels", "delete", "add"}
Idle == [at |-> "idle", pod |-> "none", labels |-> "none", ids |-> {}]

IDsOf(pod) == {cg \in CgroupIDs : Home[Owner[cg]] = pod}
OwnersOf(cgIDs) == {Owner[cg] : cg \in cgIDs}

podMatches(p, l) == l \in PodSelector[p]
matchingContainersCgroupIDs(p, cgIDs) ==
  {cg \in cgIDs : Owner[cg] \in ContainerSelector[p]}

Matched(l) == {p \in policies : podMatches(p, l)}

Init ==
  /\ policies = {}
  /\ pods = [pod \in Pods |-> Absent]
  /\ outer = {}
  /\ polMap = [p \in Policies |-> {}]
  /\ cgroupMap = [cg \in CgroupIDs |-> {}]
  /\ op = Idle
  /\ unlisted = {}

-----------------------------------------------------------------------------
(***************************************************************************)
(* map.go.  What an update of a map leaves behind is a set, because an     *)
(* update of several keys stops at the first that fails.                   *)
(***************************************************************************)

\* polMap.addCgroupIDs: the ids that are in the inner map afterwards.
addCgroupIDs(p, cgIDs) ==
  IF Cardinality(polMap[p] \cup cgIDs) <= PolMapSize THEN {polMap[p] \cup cgIDs}
  ELSE {polMap[p] \cup s : s \in {t \in SUBSET cgIDs :
                                    Cardinality(polMap[p] \cup t) = PolMapSize}}

\* polMap.delCgroupIDs: an id that is not there ends it, and without the
\* reverse map it does nothing at all.
delCgroupIDs(p, cgIDs) ==
  CASE ~CgroupMap -> {polMap[p]}
    [] CgroupMap /\ cgIDs \subseteq polMap[p] -> {polMap[p] \ cgIDs}
    [] CgroupMap /\ ~(cgIDs \subseteq polMap[p]) ->
         {polMap[p] \ s : s \in SUBSET (cgIDs \cap polMap[p])}

None == [p \in Policies |-> {}]
Keys == {cg \in CgroupIDs : cgroupMap[cg] # {}}

\* addPolicyIDMapping of the ids ids[p] of each policy p: the ids it got done
\* before the reverse map was full.
addPolicyIDs(ids) ==
  LET KeysWith(done) == Keys \cup UNION {done[p] : p \in Policies}
  IN CASE ~CgroupMap -> {None}
       [] CgroupMap /\ Cardinality(KeysWith(ids)) <= CgroupMapSize -> {ids}
       [] CgroupMap /\ Cardinality(KeysWith(ids)) > CgroupMapSize ->
            {done \in [Policies -> SUBSET CgroupIDs] :
               /\ \A p \in Policies : done[p] \subseteq ids[p]
               /\ Cardinality(KeysWith(done)) = CgroupMapSize}

\* Add the ids add[p] to the map of each policy p, or delete the ids del[p].
\* The reverse map follows where the inner map was updated without an error.
UpdateMaps(add, del) ==
  /\ polMap' \in [Policies -> SUBSET CgroupIDs]
  /\ \A p \in Policies :
       polMap'[p] \in CASE add[p] # {} -> addCgroupIDs(p, add[p])
                        [] add[p] = {} /\ del[p] # {} -> delCgroupIDs(p, del[p])
                        [] add[p] = {} /\ del[p] = {} -> {polMap[p]}
  /\ LET added == [p \in Policies |-> IF add[p] \subseteq polMap'[p] THEN add[p] ELSE {}]
         deleted == [p \in Policies |->
                       IF CgroupMap /\ del[p] \subseteq polMap[p] THEN del[p] ELSE {}]
     IN \E done \in addPolicyIDs(added) :
          cgroupMap' = [cg \in CgroupIDs |->
            (cgroupMap[cg] \cup {p \in Policies : cg \in done[p]})
              \ {p \in Policies : cg \in deleted[p]}]

-----------------------------------------------------------------------------
(***************************************************************************)
(* state.go                                                                *)
(***************************************************************************)
Unlocked == op = Idle

\* The ids the new policy starts with.
\* Mutant: the pods that are known already are not looked at.
OnlyNewPods(p) == {}
InitialIDs(p) ==
  UNION {matchingContainersCgroupIDs(p, pods[pod].containers) :
           pod \in {q \in Pods : Known(q) /\ podMatches(p, pods[q].labels)}}

\* AddPolicy, which newPolicyMap may refuse: before the inner map is in place,
\* or after that, and then it stays there.
AddPolicy(p) ==
  /\ Unlocked /\ p \notin policies /\ p \notin outer
  /\ IF Cardinality(InitialIDs(p)) > PolMapSize
     THEN UNCHANGED <<policies, pods, maps>>
     ELSE /\ polMap' = [polMap EXCEPT ![p] = InitialIDs(p)]
          /\ outer' = outer \cup {p}
          /\ \E done \in addPolicyIDs([None EXCEPT ![p] = InitialIDs(p)]) :
               /\ cgroupMap' = [cg \in CgroupIDs |->
                                  cgroupMap[cg] \cup {q \in {p} : cg \in done[q]}]
               /\ IF CgroupMap /\ done[p] # InitialIDs(p)
                  THEN UNCHANGED <<policies, pods>>
                  ELSE /\ policies' = policies \cup {p}
                       /\ pods' = [pod \in Pods |->
                            IF Known(pod) /\ podMatches(p, pods[pod].labels)
                            THEN [pods[pod] EXCEPT !.matched = @ \cup {p}]
                            ELSE pods[pod]]
  /\ UNCHANGED <<op, unlisted>>

\* Mutant: the reverse map keeps the policy.
ReverseKept(p) == cgroupMap
deletePolicyIDInCgroupMap(p) == [cg \in CgroupIDs |-> cgroupMap[cg] \ {p}]

\* DelPolicy, of a policy that was added: the sensor manager asks for no other.
DelPolicy(p) ==
  /\ Unlocked /\ p \in policies
  /\ policies' = policies \ {p}
  /\ outer' = outer \ {p}
  /\ polMap' = [polMap EXCEPT ![p] = {}]
  /\ cgroupMap' = deletePolicyIDInCgroupMap(p)
  /\ pods' = [pod \in Pods |-> [pods[pod] EXCEPT !.matched = @ \ {p}]]
  /\ UNCHANGED <<op, unlisted>>

\* For each policy the pod matches, those of the containers that match it too.
PerPolicy(matched, cgIDs) ==
  [p \in Policies |-> IF p \in matched THEN matchingContainersCgroupIDs(p, cgIDs)
                                       ELSE {}]

addNewPod(l) == [labels |-> l, containers |-> {}, matched |-> Matched(l)]

\* addPodContainers: all the containers go to the maps again, not the new ones
\* only, unless there are no new ones.
addPodContainers(pod, info, new) ==
  /\ pods' = [pods EXCEPT ![pod] = [info EXCEPT !.containers = @ \cup new]]
  /\ IF new = {} THEN UNCHANGED <<polMap, cgroupMap>>
     ELSE UpdateMaps(PerPolicy(info.matched, info.containers \cup new), None)

\* AddPodContainer: the runtime hook knows the cgroup id.  The labels count
\* only if the pod is new.
AddPodContainer(cg, l) ==
  LET pod == Home[Owner[cg]]
      info == IF Known(pod) THEN pods[pod] ELSE addNewPod(l)
  IN /\ Unlocked
     /\ addPodContainers(pod, info, {cg} \ info.containers)
     /\ unlisted' = unlisted \cup {cg}
     /\ UNCHANGED <<policies, outer, op>>

\* delPodCgroupIDsFromPolicyMaps, where a pod is left as info.
delContainers(pod, info, gone) ==
  /\ pods' = [pods EXCEPT ![pod] = info]
  /\ UpdateMaps(None, PerPolicy(pods[pod].matched, gone))

DelPodContainer(c) ==
  LET pod == Home[c]
      gone == {cg \in pods[pod].containers : Owner[cg] = c}
  IN /\ Unlocked /\ Known(pod)
     /\ delContainers(pod, [pods[pod] EXCEPT !.containers = @ \ gone], gone)
     /\ unlisted' = {cg \in unlisted : Owner[cg] # c}
     /\ UNCHANGED <<policies, outer, op>>

DelPod(pod) ==
  /\ Unlocked /\ Known(pod)
  /\ delContainers(pod, Absent, pods[pod].containers)
  /\ unlisted' = unlisted \ IDsOf(pod)
  /\ UNCHANGED <<policies, outer, op>>

\* UpdatePod, from the informers, with the container ids in the status.
UpdatePod(pod, l, ids) ==
  /\ Unlocked
  /\ pods' = IF Known(pod) THEN pods ELSE [pods EXCEPT ![pod] = addNewPod(l)]
  /\ op' = [at |-> "labels", pod |-> pod, labels |-> l, ids |-> ids]
  /\ unlisted' = {cg \in unlisted : Owner[cg] \notin ids}
  /\ UNCHANGED <<policies, maps>>

\* Mutant: the policies that no longer match stay.
StillMatched(pod, new) == {}
policiesDiffDeleted(pod, new) == pods[pod].matched \ new

\* policiesDiff and applyPodPolicyDiff; the code skips them if the labels are
\* the same, which makes no difference.
applyPodPolicyDiff ==
  LET pod == op.pod
      new == Matched(op.labels)
      added == new \ pods[pod].matched
      deleted == policiesDiffDeleted(pod, new)
  IN /\ op.at = "labels"
     /\ pods' = [pods EXCEPT ![pod].labels = op.labels,
                             ![pod].matched = IF added \cup deleted = {} THEN @ ELSE new]
     /\ UpdateMaps(PerPolicy(added, pods[pod].containers),
                   PerPolicy(deleted, pods[pod].containers))
     /\ op' = [op EXCEPT !.at = "delete"]
     /\ UNCHANGED <<policies, outer, unlisted>>

\* The containers that the status does not list.
delListed ==
  LET pod == op.pod
      gone == {cg \in pods[pod].containers : Owner[cg] \notin op.ids}
  IN /\ op.at = "delete"
     /\ delContainers(pod, [pods[pod] EXCEPT !.containers = @ \ gone], gone)
     /\ op' = [op EXCEPT !.at = "add"]
     /\ UNCHANGED <<policies, outer, unlisted>>

\* The containers that are new, as far as findCgroupID finds their cgroup.
addListed ==
  LET pod == op.pod
      missing == op.ids \ OwnersOf(pods[pod].containers)
  IN /\ op.at = "add"
     /\ \E found \in SUBSET {cg \in CgroupIDs : Owner[cg] \in missing} :
          /\ \A a, b \in found : Owner[a] = Owner[b] => a = b
          /\ addPodContainers(pod, pods[pod], found)
     /\ op' = Idle
     /\ UNCHANGED <<policies, outer, unlisted>>

Next ==
  \/ \E p \in Policies : AddPolicy(p) \/ DelPolicy(p)
  \/ \E cg \in CgroupIDs, l \in Labels : AddPodContainer(cg, l)
  \/ \E c \in Containers : DelPodContainer(c)
  \/ \E pod \in Pods :
       \/ DelPod(pod)
       \/ \E l \in Labels, ids \in SUBSET {c \in Containers : Home[c] = pod} :
            UpdatePod(pod, l, ids)
  \/ applyPodPolicyDiff \/ delListed \/ addListed

Spec == Init /\ [][Next]_vars

\* policy_filter_check, for a process in the cgroup that cgtracker substitutes
\* for its own.  Policies have ids: id 0 is that of policies without a filter,
\* which apply everywhere; a process without a cgroup id matches none.
policy_filter_check(p, cg) == p \in outer /\ cg \in polMap[p]

-----------------------------------------------------------------------------
(***************************************************************************)
(* Properties.                                                             *)
(***************************************************************************)

\* Every variable keeps its type.
TypeOK ==
  /\ policies \subseteq Policies /\ outer \subseteq Policies
  /\ pods \in [Pods -> Pod \cup {Absent}]
  /\ polMap \in [Policies -> SUBSET CgroupIDs]
  /\ cgroupMap \in [CgroupIDs -> SUBSET Policies]
  /\ op.at \in Places /\ (op.at # "idle" => op.pod \in Pods /\ Known(op.pod))
  /\ unlisted \subseteq CgroupIDs

\* The policies that apply to a container the agent knows, from scratch.
Applies(p, cg) ==
  LET pod == Home[Owner[cg]]
  IN /\ p \in policies /\ Known(pod) /\ cg \in pods[pod].containers
     /\ podMatches(p, pods[pod].labels)
     /\ Owner[cg] \in ContainerSelector[p]

\* state.go:42, "If entry policy_id -> cgroup_id exists, then policy is to
\* be applied": while no operation is on its way, BPF applies exactly the
\* policies that the labels and containers known to the agent call for,
\* although the maps are only ever updated by differences.
Applied ==
  Unlocked => \A p \in Policies, cg \in CgroupIDs :
                policy_filter_check(p, cg) <=> Applies(p, cg)

Matches(p, cg) ==
  LET pod == Home[Owner[cg]]
  IN p \in pods[pod].matched /\ cg \in matchingContainersCgroupIDs(p, pods[pod].containers)

\* Also in the middle of an update, a container whose pod and policy stay what
\* they are is never out of the policy's map.
NoGap == \A p \in Policies, cg \in CgroupIDs : Matches(p, cg) => policy_filter_check(p, cg)

\* policy_filter.h:34-35: the reverse map "keeps exactly the same information
\* as policy_filter_maps but keeps the reverse mappings".
Reverse ==
  CgroupMap => \A p \in Policies, cg \in CgroupIDs :
                 p \in cgroupMap[cg] <=> cg \in polMap[p]

\* runtime-hooks.md:17-18: with hooks, "the Tetragon agent sets up the
\* necessary state for filtering before the container starts".  So what the
\* hook has set up is still there when the API server gets to know of it.
HookedStays ==
  Unlocked => \A cg \in unlisted : cg \in pods[Home[Owner[cg]]].containers

=============================================================================
