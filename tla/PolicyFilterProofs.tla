-------------------------- MODULE PolicyFilterProofs --------------------------
(***************************************************************************)
(* Proofs about PolicyFilter, for every set of pods, containers, policies  *)
(* and labels and every choice of selectors, where the reverse map is      *)
(* enabled and both maps have room for every cgroup (Roomy).  Without      *)
(* either, Applied and Reverse do not hold.                                *)
(***************************************************************************)
EXTENDS PolicyFilter, FiniteSetTheorems, TLAPS

Roomy ==
  /\ CgroupMap
  /\ IsFiniteSet(CgroupIDs)
  /\ Cardinality(CgroupIDs) <= PolMapSize
  /\ Cardinality(CgroupIDs) <= CgroupMapSize

-----------------------------------------------------------------------------
(***************************************************************************)
(* The inductive invariant.  Applied compares the maps with the labels,    *)
(* which an update changes before the maps; the steps themselves go by the *)
(* policies a pod is cached to match.  So the invariant says that the      *)
(* cached policies are those the labels call for, and that the maps are    *)
(* what the cached policies and containers call for, at every step.        *)
(***************************************************************************)
Update == [at : {"labels", "delete", "add"}, pod : Pods, labels : Labels,
           ids : SUBSET Containers]

\* An update under way is about a pod and containers of that pod.
UpdateOK == \/ op = Idle
            \/ op \in Update /\ \A c \in op.ids : Home[c] = op.pod

\* A pod has its own containers only.
OwnContainers == \A pod \in Pods : \A cg \in pods[pod].containers : Home[Owner[cg]] = pod

\* The policies a pod is cached to match are those its labels call for.
MatchedOK ==
  \A pod \in Pods, p \in Policies :
    p \in pods[pod].matched <=> p \in policies /\ pods[pod].labels \in PodSelector[p]

\* The maps are what the cached policies and containers call for.
Exact == \A p \in Policies, cg \in CgroupIDs : cg \in polMap[p] <=> Matches(p, cg)

IInv == /\ TypeOK /\ UpdateOK /\ OwnContainers /\ MatchedOK
        /\ outer = policies /\ Exact /\ Reverse

-----------------------------------------------------------------------------
(***************************************************************************)
(* The maps.                                                               *)
(***************************************************************************)

\* With room for every cgroup no set of cgroups is too large for either map.
LEMMA Fits ==
  ASSUME Roomy, NEW s \in SUBSET CgroupIDs
  PROVE  Cardinality(s) <= PolMapSize /\ Cardinality(s) <= CgroupMapSize
<1>1. /\ IsFiniteSet(s) /\ Cardinality(s) \in Nat
      /\ Cardinality(CgroupIDs) \in Nat /\ Cardinality(s) <= Cardinality(CgroupIDs)
  BY FS_Subset, FS_CardinalityType DEF Roomy
<1> QED BY <1>1, MapAssumption DEF Roomy

\* So the reverse map takes everything it is asked to.
LEMMA AllAdded ==
  ASSUME Roomy, NEW ids \in [Policies -> SUBSET CgroupIDs]
  PROVE  addPolicyIDs(ids) = {ids}
<1> DEFINE all == Keys \cup UNION {ids[p] : p \in Policies}
<1>1. all \in SUBSET CgroupIDs
  BY DEF Keys
<1>2. Cardinality(all) <= CgroupMapSize /\ ~(Cardinality(all) > CgroupMapSize)
  <2>1. Cardinality(all) \in Nat
    BY <1>1, FS_Subset, FS_CardinalityType DEF Roomy
  <2> QED BY <1>1, <2>1, Fits, MapAssumption
<1> QED BY <1>2, Zenon DEF addPolicyIDs, Roomy

\* An update of the maps by differences, where what is deleted was there and
\* no policy both gains and loses: both maps end up as asked.
LEMMA UpdateExact ==
  ASSUME Roomy, TypeOK, Reverse,
         NEW add \in [Policies -> SUBSET CgroupIDs],
         NEW del \in [Policies -> SUBSET CgroupIDs],
         \A p \in Policies : add[p] = {} \/ del[p] = {},
         \A p \in Policies : del[p] \subseteq polMap[p],
         UpdateMaps(add, del)
  PROVE  /\ polMap' \in [Policies -> SUBSET CgroupIDs]
         /\ cgroupMap' \in [CgroupIDs -> SUBSET Policies]
         /\ \A p \in Policies : polMap'[p] = (polMap[p] \cup add[p]) \ del[p]
         /\ Reverse'
<1>1. polMap' \in [Policies -> SUBSET CgroupIDs]
  BY DEF UpdateMaps
<1>2. ASSUME NEW p \in Policies PROVE polMap'[p] = (polMap[p] \cup add[p]) \ del[p]
  <2>1. polMap[p] \cup add[p] \in SUBSET CgroupIDs
    BY DEF TypeOK
  <2>2. Cardinality(polMap[p] \cup add[p]) <= PolMapSize
    BY <2>1, Fits
  <2>3. CASE add[p] # {}
    BY <2>2, <2>3 DEF UpdateMaps, addCgroupIDs
  <2>4. CASE add[p] = {} /\ del[p] # {}
    BY <2>4 DEF UpdateMaps, delCgroupIDs, Roomy
  <2>5. CASE add[p] = {} /\ del[p] = {}
    BY <2>5 DEF UpdateMaps
  <2> QED BY <2>3, <2>4, <2>5
<1>3. cgroupMap' = [cg \in CgroupIDs |->
                      (cgroupMap[cg] \cup {p \in Policies : cg \in add[p]})
                        \ {p \in Policies : cg \in del[p]}]
  <2> DEFINE added == [p \in Policies |-> IF add[p] \subseteq polMap'[p] THEN add[p] ELSE {}]
             deleted == [p \in Policies |->
                           IF CgroupMap /\ del[p] \subseteq polMap[p] THEN del[p] ELSE {}]
  <2>1. added = add
    BY <1>2
  <2>2. deleted = del
    BY DEF Roomy
  <2>3. addPolicyIDs(added) = {add}
    BY <2>1, AllAdded
  <2>4. \E done \in addPolicyIDs(added) :
          cgroupMap' = [cg \in CgroupIDs |->
            (cgroupMap[cg] \cup {p \in Policies : cg \in done[p]})
              \ {p \in Policies : cg \in deleted[p]}]
    BY DEF UpdateMaps
  <2> HIDE DEF added, deleted
  <2> QED BY <2>2, <2>3, <2>4
<1>4. cgroupMap' \in [CgroupIDs -> SUBSET Policies]
  BY <1>3 DEF TypeOK
<1>5. Reverse'
  BY <1>2, <1>3 DEF Reverse, TypeOK, Roomy
<1> QED BY <1>1, <1>2, <1>4, <1>5

-----------------------------------------------------------------------------
(***************************************************************************)
(* Pods and what is asked of the maps for them.                            *)
(***************************************************************************)
AnyPod == [labels : Labels \cup {"none"}, containers : SUBSET CgroupIDs,
           matched : SUBSET Policies]

\* A pod the agent does not know has no containers and matches nothing; one it
\* knows has labels.
LEMMA PodType ==
  ASSUME TypeOK, NEW pod \in Pods
  PROVE  /\ pods[pod] \in AnyPod
         /\ Known(pod) <=> pods[pod] \in Pod
         /\ Known(pod) <=> pods[pod].labels \in Labels
         /\ ~Known(pod) => pods[pod] = Absent
BY LabelAssumption DEF TypeOK, AnyPod, Known, Pod, Absent

\* What a pod's containers ask of each policy's map.
LEMMA PerPolicyType ==
  ASSUME NEW matched \in SUBSET Policies, NEW cgIDs \in SUBSET CgroupIDs
  PROVE  /\ PerPolicy(matched, cgIDs) \in [Policies -> SUBSET CgroupIDs]
         /\ \A p \in Policies, cg \in CgroupIDs :
              cg \in PerPolicy(matched, cgIDs)[p] <=>
                p \in matched /\ cg \in cgIDs /\ Owner[cg] \in ContainerSelector[p]
         /\ \A p \in Policies \ matched : PerPolicy(matched, cgIDs)[p] = {}
BY DEF PerPolicy, matchingContainersCgroupIDs

LEMMA NoneType ==
  None \in [Policies -> SUBSET CgroupIDs] /\ \A p \in Policies : None[p] = {}
BY DEF None

\* Containers of a pod are added to the maps, all of them or the new ones.
LEMMA AddedExact ==
  ASSUME Roomy, IInv, NEW pod \in Pods, NEW info \in Pod, NEW new \in SUBSET CgroupIDs,
         \A cg \in new : Home[Owner[cg]] = pod,
         info = pods[pod] \/ (~Known(pod) /\ info.containers = {}),
         \A p \in Policies : p \in info.matched <=>
                               p \in policies /\ info.labels \in PodSelector[p],
         addPodContainers(pod, info, new),
         UNCHANGED <<policies, outer>>, UpdateOK', unlisted' \subseteq CgroupIDs,
         op' = Idle
  PROVE  IInv'
<1> DEFINE add == PerPolicy(info.matched, info.containers \cup new)
           next == [info EXCEPT !.containers = @ \cup new]
<1>1. pods' = [pods EXCEPT ![pod] = next] /\ next \in Pod
      /\ next.labels = info.labels /\ next.matched = info.matched
      /\ next.containers = info.containers \cup new
  BY DEF addPodContainers, Pod
<1>2. /\ add \in [Policies -> SUBSET CgroupIDs]
      /\ \A p \in Policies, cg \in CgroupIDs :
              cg \in add[p] <=> /\ p \in info.matched /\ cg \in info.containers \cup new
                                /\ Owner[cg] \in ContainerSelector[p]
  BY PerPolicyType DEF Pod
<1>3. \A cg \in info.containers : Home[Owner[cg]] = pod
  BY DEF IInv, OwnContainers
<1> HIDE DEF add, next
<1>4. /\ polMap' \in [Policies -> SUBSET CgroupIDs]
      /\ cgroupMap' \in [CgroupIDs -> SUBSET Policies]
      /\ Reverse'
      /\ \A p \in Policies, cg \in CgroupIDs : cg \in polMap'[p] <=>
            \/ cg \in polMap[p]
            \/ new # {} /\ cg \in add[p]
  <2>1. CASE new = {}
    BY <2>1 DEF addPodContainers, IInv, TypeOK, Reverse
  <2>2. CASE new # {}
    <3>1. UpdateMaps(add, None)
      BY <2>2 DEF addPodContainers, add
    <3>2. /\ polMap' \in [Policies -> SUBSET CgroupIDs]
          /\ cgroupMap' \in [CgroupIDs -> SUBSET Policies]
          /\ \A p \in Policies : polMap'[p] = (polMap[p] \cup add[p]) \ None[p]
          /\ Reverse'
      BY <1>2, <3>1, NoneType, UpdateExact DEF IInv
    <3> QED BY <2>2, <3>2, NoneType
  <2> QED BY <2>1, <2>2
<1>5. TypeOK'
  BY <1>1, <1>4 DEF IInv, TypeOK, Idle, Places
<1>6. OwnContainers'
  BY <1>1, <1>3 DEF IInv, OwnContainers, TypeOK
<1>7. MatchedOK'
  BY <1>1 DEF IInv, MatchedOK, TypeOK
<1>8. Exact'
  BY <1>1, <1>2, <1>3, <1>4, WorldAssumption
  DEF IInv, Exact, Matches, matchingContainersCgroupIDs, OwnContainers, MatchedOK, TypeOK, Known, Absent
<1> QED BY <1>4, <1>5, <1>6, <1>7, <1>8 DEF IInv

\* Containers of a pod are taken out of the maps, and the pod keeps the others
\* or is forgotten with all of them.
LEMMA DeletedExact ==
  ASSUME Roomy, IInv, NEW pod \in Pods, NEW info, NEW gone \in SUBSET pods[pod].containers,
         \/ info = Absent /\ gone = pods[pod].containers
         \/ info \in Pod /\ info = [pods[pod] EXCEPT !.containers = @ \ gone],
         delContainers(pod, info, gone),
         UNCHANGED <<policies, outer>>, UpdateOK', unlisted' \subseteq CgroupIDs,
         op' = Idle \/ (op' \in Update /\ op'.pod = pod /\ info \in Pod)
  PROVE  IInv'
<1> DEFINE del == PerPolicy(pods[pod].matched, gone)
<1>1. pods[pod] \in AnyPod
  BY PodType DEF IInv
<1>2. /\ pods' = [pods EXCEPT ![pod] = info]
      /\ info \in Pod \cup {Absent} /\ info \in AnyPod
      /\ info.containers = pods[pod].containers \ gone
      /\ \/ info = Absent /\ info.labels = "none" /\ info.matched = {} /\ info.containers = {}
         \/ info.labels = pods[pod].labels /\ info.matched = pods[pod].matched
  BY <1>1 DEF delContainers, Pod, AnyPod, Absent
<1>3. /\ del \in [Policies -> SUBSET CgroupIDs]
      /\ \A p \in Policies, cg \in CgroupIDs :
           cg \in del[p] <=> /\ p \in pods[pod].matched /\ cg \in gone
                             /\ Owner[cg] \in ContainerSelector[p]
  BY <1>1, PerPolicyType DEF AnyPod
<1>4. UpdateMaps(None, del)
  BY DEF delContainers
<1> HIDE DEF del
<1>5. \A cg \in pods[pod].containers : cg \in CgroupIDs /\ Home[Owner[cg]] = pod
  BY <1>1 DEF IInv, OwnContainers, AnyPod
<1>6. \A p \in Policies : del[p] \subseteq polMap[p]
  BY <1>3, <1>5 DEF IInv, Exact, Matches, matchingContainersCgroupIDs
<1>7. /\ polMap' \in [Policies -> SUBSET CgroupIDs]
      /\ cgroupMap' \in [CgroupIDs -> SUBSET Policies]
      /\ \A p \in Policies : polMap'[p] = (polMap[p] \cup None[p]) \ del[p]
      /\ Reverse'
  BY <1>3, <1>4, <1>6, NoneType, UpdateExact DEF IInv
<1>8. TypeOK'
  <2>1. op'.at # "idle" => op'.pod \in Pods /\ pods'[op'.pod] # Absent
    BY <1>2, LabelAssumption DEF Idle, Update, Pod, Absent, IInv, TypeOK
  <2>2. op'.at \in Places
    BY DEF Idle, Update, Places
  <2> QED BY <1>2, <1>7, <2>1, <2>2 DEF IInv, TypeOK, Known
<1>9. OwnContainers'
  BY <1>2, <1>5 DEF IInv, OwnContainers, TypeOK
<1>10. MatchedOK'
  BY <1>2, LabelAssumption, WorldAssumption DEF IInv, MatchedOK, TypeOK
<1>11. Exact'
  BY <1>2, <1>3, <1>5, <1>7, NoneType, WorldAssumption
  DEF IInv, Exact, Matches, matchingContainersCgroupIDs, OwnContainers, TypeOK
<1> QED BY <1>7, <1>8, <1>9, <1>10, <1>11 DEF IInv

-----------------------------------------------------------------------------
(***************************************************************************)
(* One lemma per operation.                                                *)
(***************************************************************************)

\* Nothing is known at the start.
LEMMA InitIInv == Init => IInv
BY WorldAssumption, LabelAssumption
DEF Init, IInv, TypeOK, UpdateOK, OwnContainers, MatchedOK, Exact, Reverse, Matches,
    matchingContainersCgroupIDs, Absent, Places, Idle, Known

\* The labels of a pod that is met for the first time.
LEMMA NewPod ==
  ASSUME IInv, NEW l \in Labels
  PROVE  /\ addNewPod(l) \in Pod /\ addNewPod(l).containers = {}
         /\ addNewPod(l).labels = l
         /\ \A p \in Policies : p \in addNewPod(l).matched <=>
                                  p \in policies /\ l \in PodSelector[p]
BY DEF IInv, TypeOK, addNewPod, Pod, Matched, podMatches

LEMMA AddPodContainerIInv ==
  ASSUME Roomy, IInv, NEW cg \in CgroupIDs, NEW l \in Labels, AddPodContainer(cg, l)
  PROVE  IInv'
<1> DEFINE pod == Home[Owner[cg]]
           info == IF Known(pod) THEN pods[pod] ELSE addNewPod(l)
           new == {cg} \ info.containers
<1>1. pod \in Pods
  BY WorldAssumption
<1>2. info \in Pod /\ (info = pods[pod] \/ (~Known(pod) /\ info.containers = {}))
  BY <1>1, PodType, NewPod DEF IInv
<1>3. \A p \in Policies : p \in info.matched <=>
                            p \in policies /\ info.labels \in PodSelector[p]
  BY <1>1, NewPod DEF IInv, MatchedOK
<1>4. /\ addPodContainers(pod, info, new) /\ UNCHANGED <<policies, outer, op>>
      /\ unlisted' = unlisted \cup {cg} /\ op = Idle
  BY DEF AddPodContainer, Unlocked
<1>5. new \in SUBSET CgroupIDs /\ \A x \in new : Home[Owner[x]] = pod
  OBVIOUS
<1>6. UpdateOK' /\ unlisted' \subseteq CgroupIDs /\ op' = Idle
  BY <1>4 DEF UpdateOK, IInv, TypeOK
<1> HIDE DEF pod, info, new
<1> QED BY <1>1, <1>2, <1>3, <1>4, <1>5, <1>6, AddedExact

LEMMA DelPodContainerIInv ==
  ASSUME Roomy, IInv, NEW c \in Containers, DelPodContainer(c)
  PROVE  IInv'
<1> DEFINE pod == Home[c]
           gone == {cg \in pods[pod].containers : Owner[cg] = c}
           info == [pods[pod] EXCEPT !.containers = @ \ gone]
<1>1. pod \in Pods /\ pods[pod] \in Pod
  BY WorldAssumption, PodType DEF DelPodContainer, IInv
<1>2. info \in Pod /\ gone \in SUBSET pods[pod].containers
  BY <1>1 DEF Pod
<1>3. /\ delContainers(pod, info, gone) /\ UNCHANGED <<policies, outer, op>>
      /\ op = Idle /\ unlisted' \subseteq unlisted
  BY DEF DelPodContainer, Unlocked
<1>4. UpdateOK' /\ op' = Idle /\ unlisted' \subseteq CgroupIDs
  BY <1>3 DEF UpdateOK, IInv, TypeOK
<1> HIDE DEF gone, pod
<1> QED BY <1>1, <1>2, <1>3, <1>4, DeletedExact

LEMMA DelPodIInv ==
  ASSUME Roomy, IInv, NEW pod \in Pods, DelPod(pod)
  PROVE  IInv'
<1>1. /\ delContainers(pod, Absent, pods[pod].containers) /\ UNCHANGED <<policies, outer, op>>
      /\ op = Idle /\ unlisted' \subseteq unlisted
  BY DEF DelPod, Unlocked
<1>2. UpdateOK' /\ op' = Idle /\ unlisted' \subseteq CgroupIDs
  BY <1>1 DEF UpdateOK, IInv, TypeOK
<1> QED BY <1>1, <1>2, DeletedExact

LEMMA UpdatePodIInv ==
  ASSUME IInv, NEW pod \in Pods, NEW l \in Labels, NEW ids \in SUBSET Containers,
         \A c \in ids : Home[c] = pod, UpdatePod(pod, l, ids)
  PROVE  IInv'
<1> DEFINE info == IF Known(pod) THEN pods[pod] ELSE addNewPod(l)
<1>1. /\ pods[pod] \in AnyPod /\ info \in Pod
      /\ info.containers = pods[pod].containers
      /\ info = pods[pod] \/ (info.containers = {} /\ pods[pod].matched = {}
                              /\ pods[pod].containers = {})
      /\ \A p \in Policies : p \in info.matched <=>
                               p \in policies /\ info.labels \in PodSelector[p]
  <2>1. CASE Known(pod)
    BY <2>1, PodType DEF IInv, MatchedOK
  <2>2. CASE ~Known(pod)
    <3>1. pods[pod] \in AnyPod /\ pods[pod] = Absent /\ info = addNewPod(l)
      BY <2>2, PodType DEF IInv
    <3>2. /\ info \in Pod /\ info.containers = {} /\ info.labels = l
          /\ \A p \in Policies : p \in info.matched <=> p \in policies /\ l \in PodSelector[p]
      BY <3>1, NewPod
    <3>3. pods[pod].containers = {} /\ pods[pod].matched = {}
      BY <3>1 DEF Absent
    <3> HIDE DEF info
    <3> QED BY <3>1, <3>2, <3>3
  <2> QED BY <2>1, <2>2
<1>2. pods' = [pods EXCEPT ![pod] = info]
  BY DEF UpdatePod, IInv, TypeOK
<1>3. /\ UNCHANGED <<policies, outer, polMap, cgroupMap>> /\ unlisted' \subseteq unlisted
      /\ op' = [at |-> "labels", pod |-> pod, labels |-> l, ids |-> ids]
  BY DEF UpdatePod, maps
<1> HIDE DEF info
<1>4. UpdateOK'
  BY <1>3 DEF UpdateOK, Update
<1>5. TypeOK'
  <2>1. pods'[pod] # Absent
    BY <1>1, <1>2, LabelAssumption DEF IInv, TypeOK, Pod, Absent
  <2> QED BY <1>1, <1>2, <1>3, <2>1 DEF IInv, TypeOK, Places, Known
<1>6. OwnContainers' /\ MatchedOK'
  BY <1>1, <1>2, <1>3 DEF IInv, OwnContainers, MatchedOK, TypeOK
<1>7. Exact'
  BY <1>1, <1>2, <1>3, WorldAssumption
  DEF IInv, Exact, Matches, matchingContainersCgroupIDs, TypeOK
<1>8. Reverse'
  BY <1>3 DEF IInv, Reverse
<1> QED BY <1>3, <1>4, <1>5, <1>6, <1>7, <1>8 DEF IInv

\* The step of an update that changes the labels: the policies gained and those
\* lost are disjoint, and what is lost was there.
LEMMA ApplyDiffIInv ==
  ASSUME Roomy, IInv, applyPodPolicyDiff
  PROVE  IInv'
<1> DEFINE pod == op.pod
           new == Matched(op.labels)
           gained == new \ pods[pod].matched
           gone == pods[pod].matched \ new
           add == PerPolicy(gained, pods[pod].containers)
           del == PerPolicy(gone, pods[pod].containers)
           info == [pods[pod] EXCEPT !.labels = op.labels, !.matched = new]
<1>1. op \in Update /\ op.at = "labels" /\ \A c \in op.ids : Home[c] = op.pod
  BY DEF applyPodPolicyDiff, IInv, UpdateOK, Idle
<1>2. pod \in Pods /\ pods[pod] \in Pod /\ op.labels \in Labels
  BY <1>1, PodType DEF IInv, TypeOK, Update
<1>3. /\ new \in SUBSET Policies
      /\ \A p \in Policies : p \in new <=> p \in policies /\ op.labels \in PodSelector[p]
  BY DEF Matched, podMatches, IInv, TypeOK
<1>4. pods' = [pods EXCEPT ![pod] = info]
  <2>1. pods' = [pods EXCEPT ![pod].labels = op.labels,
                             ![pod].matched = IF gained \cup gone = {} THEN @ ELSE new]
    BY DEF applyPodPolicyDiff, policiesDiffDeleted
  <2>2. gained \cup gone = {} => pods[pod].matched = new
    BY <1>2, <1>3 DEF Pod
  <2> HIDE DEF new
  <2> QED BY <1>2, <2>1, <2>2 DEF IInv, TypeOK, Pod
<1>5. UpdateMaps(add, del)
  BY DEF applyPodPolicyDiff, policiesDiffDeleted
<1>6. /\ op' = [op EXCEPT !.at = "delete"] /\ UNCHANGED <<policies, outer, unlisted>>
  BY DEF applyPodPolicyDiff
<1>7. /\ info \in Pod /\ info.labels = op.labels /\ info.matched = new
      /\ info.containers = pods[pod].containers
  BY <1>2, <1>3 DEF Pod
<1>8. /\ add \in [Policies -> SUBSET CgroupIDs] /\ del \in [Policies -> SUBSET CgroupIDs]
      /\ \A p \in Policies, cg \in CgroupIDs :
           /\ cg \in add[p] <=> /\ p \in gained /\ cg \in pods[pod].containers
                                /\ Owner[cg] \in ContainerSelector[p]
           /\ cg \in del[p] <=> /\ p \in gone /\ cg \in pods[pod].containers
                                /\ Owner[cg] \in ContainerSelector[p]
  <2>1. gained \in SUBSET Policies /\ gone \in SUBSET Policies
        /\ pods[pod].containers \in SUBSET CgroupIDs
    BY <1>2, <1>3 DEF Pod
  <2> HIDE DEF gained, gone
  <2>2. /\ add \in [Policies -> SUBSET CgroupIDs]
        /\ \A p \in Policies, cg \in CgroupIDs :
             cg \in add[p] <=> /\ p \in gained /\ cg \in pods[pod].containers
                               /\ Owner[cg] \in ContainerSelector[p]
    BY <2>1 DEF PerPolicy, matchingContainersCgroupIDs
  <2>3. /\ del \in [Policies -> SUBSET CgroupIDs]
        /\ \A p \in Policies, cg \in CgroupIDs :
             cg \in del[p] <=> /\ p \in gone /\ cg \in pods[pod].containers
                               /\ Owner[cg] \in ContainerSelector[p]
    BY <2>1 DEF PerPolicy, matchingContainersCgroupIDs
  <2> HIDE DEF add, del
  <2> QED BY <2>2, <2>3
<1>9. \A p \in Policies : add[p] = {} \/ del[p] = {}
  BY <1>2, <1>8 DEF Pod
<1> HIDE DEF add, del, info, new
<1>10. \A cg \in pods[pod].containers : cg \in CgroupIDs /\ Home[Owner[cg]] = pod
  BY <1>2 DEF IInv, OwnContainers, Pod
<1>11. \A p \in Policies : del[p] \subseteq polMap[p]
  BY <1>8, <1>10 DEF IInv, Exact, Matches, matchingContainersCgroupIDs
<1>12. /\ polMap' \in [Policies -> SUBSET CgroupIDs]
       /\ cgroupMap' \in [CgroupIDs -> SUBSET Policies]
       /\ \A p \in Policies : polMap'[p] = (polMap[p] \cup add[p]) \ del[p]
       /\ Reverse'
  BY <1>5, <1>8, <1>9, <1>11, UpdateExact DEF IInv
<1>13. UpdateOK' /\ op' \in Update /\ op'.pod = pod
  BY <1>1, <1>6 DEF UpdateOK, Update
<1>14. TypeOK'
  <2>1. pods'[pod] # Absent
    BY <1>2, <1>4, <1>7, LabelAssumption DEF IInv, TypeOK, Pod, Absent
  <2> QED BY <1>2, <1>4, <1>6, <1>7, <1>12, <1>13, <2>1 DEF IInv, TypeOK, Places, Known, Update
<1>15. OwnContainers' /\ MatchedOK'
  BY <1>2, <1>3, <1>4, <1>6, <1>7 DEF IInv, OwnContainers, MatchedOK, TypeOK
<1>16. Exact'
  BY <1>2, <1>4, <1>7, <1>8, <1>10, <1>12, WorldAssumption
  DEF IInv, Exact, Matches, matchingContainersCgroupIDs, TypeOK, Pod
<1> QED BY <1>6, <1>12, <1>13, <1>14, <1>15, <1>16 DEF IInv

LEMMA DelListedIInv ==
  ASSUME Roomy, IInv, delListed
  PROVE  IInv'
<1> DEFINE pod == op.pod
           gone == {cg \in pods[pod].containers : Owner[cg] \notin op.ids}
           info == [pods[pod] EXCEPT !.containers = @ \ gone]
<1>1. op \in Update /\ op.at = "delete" /\ \A c \in op.ids : Home[c] = op.pod
  BY DEF delListed, IInv, UpdateOK, Idle
<1>2. pod \in Pods /\ pods[pod] \in Pod
  BY <1>1, PodType DEF IInv, TypeOK, Update
<1>3. info \in Pod /\ gone \in SUBSET pods[pod].containers
  BY <1>2 DEF Pod
<1>4. /\ delContainers(pod, info, gone) /\ UNCHANGED <<policies, outer, unlisted>>
      /\ op' = [op EXCEPT !.at = "add"]
  BY DEF delListed
<1>5. UpdateOK' /\ op' \in Update /\ op'.pod = pod /\ unlisted' \subseteq CgroupIDs
  BY <1>1, <1>4 DEF UpdateOK, Update, IInv, TypeOK
<1> HIDE DEF gone, pod
<1> QED BY <1>2, <1>3, <1>4, <1>5, DeletedExact

LEMMA AddListedIInv ==
  ASSUME Roomy, IInv, addListed
  PROVE  IInv'
<1> DEFINE pod == op.pod
<1>1. op \in Update /\ op.at = "add" /\ \A c \in op.ids : Home[c] = op.pod
  BY DEF addListed, IInv, UpdateOK, Idle
<1>2. pod \in Pods /\ pods[pod] \in Pod
  BY <1>1, PodType DEF IInv, TypeOK, Update
<1>3. PICK found \in SUBSET {cg \in CgroupIDs : Owner[cg] \in op.ids} :
        addPodContainers(pod, pods[pod], found)
  BY DEF addListed
<1>4. op' = Idle /\ UNCHANGED <<policies, outer, unlisted>>
  BY DEF addListed
<1>5. UpdateOK' /\ unlisted' \subseteq CgroupIDs
  BY <1>4 DEF UpdateOK, IInv, TypeOK
<1>6. \A cg \in found : Home[Owner[cg]] = pod
  BY <1>1, <1>3
<1>7. \A p \in Policies : p \in pods[pod].matched <=>
                            p \in policies /\ pods[pod].labels \in PodSelector[p]
  BY <1>2 DEF IInv, MatchedOK
<1> HIDE DEF pod
<1> QED BY <1>2, <1>3, <1>4, <1>5, <1>6, <1>7, AddedExact

\* A new policy starts with the containers of the pods that are known already,
\* and these pods are cached to match it.
LEMMA AddPolicyIInv ==
  ASSUME Roomy, IInv, NEW p \in Policies, AddPolicy(p)
  PROVE  IInv'
<1> DEFINE ids == InitialIDs(p)
           asked == [None EXCEPT ![p] = ids]
<1>1. ASSUME NEW pod \in Pods
      PROVE  /\ pods[pod] \in AnyPod /\ pods[pod] \in Pod \cup {Absent}
             /\ Known(pod) <=> pods[pod] \in Pod
             /\ Known(pod) <=> pods[pod].labels \in Labels
             /\ p \notin pods[pod].matched
             /\ \A cg \in pods[pod].containers : cg \in CgroupIDs /\ Home[Owner[cg]] = pod
  BY PodType DEF IInv, MatchedOK, AddPolicy, OwnContainers, AnyPod, TypeOK
<1>2. /\ ids \in SUBSET CgroupIDs
      /\ \A cg \in CgroupIDs : cg \in ids <=>
            /\ Known(Home[Owner[cg]]) /\ podMatches(p, pods[Home[Owner[cg]]].labels)
            /\ cg \in pods[Home[Owner[cg]]].containers
            /\ Owner[cg] \in ContainerSelector[p]
  BY <1>1, WorldAssumption DEF InitialIDs, matchingContainersCgroupIDs
<1>3. asked \in [Policies -> SUBSET CgroupIDs] /\ asked[p] = ids
  BY <1>2, NoneType
<1>4. addPolicyIDs(asked) = {asked}
  BY <1>3, AllAdded
<1>5. ~(Cardinality(ids) > PolMapSize)
  <2>1. Cardinality(ids) \in Nat
    BY <1>2, FS_Subset, FS_CardinalityType DEF Roomy
  <2> QED BY <1>2, <2>1, Fits, MapAssumption
<1> HIDE DEF ids, asked
<1>6. /\ polMap' = [polMap EXCEPT ![p] = ids] /\ outer' = outer \cup {p}
      /\ cgroupMap' = [cg \in CgroupIDs |->
                         cgroupMap[cg] \cup {q \in {p} : cg \in asked[q]}]
      /\ policies' = policies \cup {p}
      /\ pods' = [pod \in Pods |-> IF Known(pod) /\ podMatches(p, pods[pod].labels)
                                   THEN [pods[pod] EXCEPT !.matched = @ \cup {p}]
                                   ELSE pods[pod]]
      /\ UNCHANGED <<op, unlisted>> /\ op = Idle /\ p \notin policies
  BY <1>3, <1>4, <1>5 DEF AddPolicy, ids, asked, Unlocked
<1>7. ASSUME NEW pod \in Pods
      PROVE  /\ pods'[pod] \in Pod \cup {Absent}
             /\ pods'[pod].labels = pods[pod].labels
             /\ pods'[pod].containers = pods[pod].containers
             /\ \A q \in Policies : q \in pods'[pod].matched <=>
                  \/ q \in pods[pod].matched
                  \/ q = p /\ Known(pod) /\ podMatches(p, pods[pod].labels)
  <2>1. CASE Known(pod) /\ podMatches(p, pods[pod].labels)
    <3>1. pods[pod] \in Pod /\ pods'[pod] = [pods[pod] EXCEPT !.matched = @ \cup {p}]
      BY <1>1, <1>6, <2>1
    <3> QED BY <2>1, <3>1 DEF Pod
  <2>2. CASE ~(Known(pod) /\ podMatches(p, pods[pod].labels))
    <3>1. pods'[pod] = pods[pod]
      BY <1>6, <2>2
    <3> QED BY <1>1, <2>2, <3>1
  <2> QED BY <2>1, <2>2
<1>8. TypeOK'
  BY <1>2, <1>6, <1>7 DEF IInv, TypeOK, Idle, Places
<1>9. UpdateOK'
  BY <1>6 DEF UpdateOK
<1>10. OwnContainers'
  BY <1>7 DEF IInv, OwnContainers
<1>11. MatchedOK'
  BY <1>1, <1>6, <1>7, WorldAssumption DEF IInv, MatchedOK, podMatches
<1>12. Exact'
  <2>1. \A q \in Policies, cg \in CgroupIDs : cg \in polMap'[q] <=>
           IF q = p THEN cg \in ids ELSE cg \in polMap[q]
    BY <1>6 DEF IInv, TypeOK
  <2>2. ASSUME NEW q \in Policies, NEW cg \in CgroupIDs
        PROVE  cg \in polMap'[q] <=>
                 /\ q \in pods'[Home[Owner[cg]]].matched
                 /\ cg \in pods'[Home[Owner[cg]]].containers
                 /\ Owner[cg] \in ContainerSelector[q]
    <3>1. Home[Owner[cg]] \in Pods
      BY WorldAssumption
    <3>2. CASE q = p
      BY <1>1, <1>2, <1>7, <2>1, <3>1, <3>2
    <3>3. CASE q # p
      BY <1>7, <2>1, <3>1, <3>3 DEF IInv, Exact, Matches, matchingContainersCgroupIDs
    <3> QED BY <3>2, <3>3
  <2> QED BY <2>2 DEF Exact, Matches, matchingContainersCgroupIDs
<1>13. Reverse'
  <2>1. polMap[p] = {} /\ \A cg \in CgroupIDs : p \notin cgroupMap[cg]
    BY <1>1, WorldAssumption
    DEF IInv, TypeOK, Exact, Matches, Reverse, matchingContainersCgroupIDs, Roomy
  <2> QED BY <1>2, <1>3, <1>6, <2>1 DEF IInv, TypeOK, Reverse, Roomy
<1> QED BY <1>6, <1>8, <1>9, <1>10, <1>11, <1>12, <1>13 DEF IInv

LEMMA DelPolicyIInv ==
  ASSUME IInv, NEW p \in Policies, DelPolicy(p)
  PROVE  IInv'
<1>1. /\ policies' = policies \ {p} /\ outer' = outer \ {p}
      /\ polMap' = [polMap EXCEPT ![p] = {}]
      /\ cgroupMap' = [cg \in CgroupIDs |-> cgroupMap[cg] \ {p}]
      /\ pods' = [pod \in Pods |-> [pods[pod] EXCEPT !.matched = @ \ {p}]]
      /\ UNCHANGED <<op, unlisted>> /\ op = Idle
  BY DEF DelPolicy, deletePolicyIDInCgroupMap, Unlocked
<1>2. ASSUME NEW pod \in Pods
      PROVE  /\ pods'[pod] \in Pod \cup {Absent}
             /\ pods'[pod].labels = pods[pod].labels
             /\ pods'[pod].containers = pods[pod].containers
             /\ pods'[pod].matched = pods[pod].matched \ {p}
  <2>1. pods'[pod] = [pods[pod] EXCEPT !.matched = @ \ {p}]
    BY <1>1
  <2>2. CASE pods[pod] \in Pod
    BY <2>1, <2>2 DEF Pod
  <2>3. CASE pods[pod] = Absent
    BY <2>1, <2>3 DEF Absent
  <2> QED BY <2>2, <2>3 DEF IInv, TypeOK
<1>3. TypeOK'
  BY <1>1, <1>2 DEF IInv, TypeOK, Idle, Places
<1>4. UpdateOK' /\ OwnContainers'
  BY <1>1, <1>2 DEF IInv, UpdateOK, OwnContainers
<1>5. MatchedOK'
  BY <1>1, <1>2 DEF IInv, MatchedOK
<1>6. Exact'
  BY <1>1, <1>2, WorldAssumption
  DEF IInv, TypeOK, Exact, Matches, matchingContainersCgroupIDs
<1>7. Reverse'
  BY <1>1 DEF IInv, TypeOK, Reverse
<1> QED BY <1>1, <1>3, <1>4, <1>5, <1>6, <1>7 DEF IInv

-----------------------------------------------------------------------------
(***************************************************************************)
(* The theorems.                                                           *)
(***************************************************************************)

LEMMA NextIInv ==
  ASSUME Roomy, IInv, [Next]_vars
  PROVE  IInv'
<1>1. CASE UNCHANGED vars
  BY <1>1 DEF vars, IInv, TypeOK, UpdateOK, OwnContainers, MatchedOK, Exact, Reverse,
              Matches, matchingContainersCgroupIDs, Known, Keys
<1>2. ASSUME NEW p \in Policies, AddPolicy(p) \/ DelPolicy(p) PROVE IInv'
  BY <1>2, AddPolicyIInv, DelPolicyIInv
<1>3. ASSUME NEW cg \in CgroupIDs, NEW l \in Labels, AddPodContainer(cg, l) PROVE IInv'
  BY <1>3, AddPodContainerIInv
<1>4. ASSUME NEW c \in Containers, DelPodContainer(c) PROVE IInv'
  BY <1>4, DelPodContainerIInv
<1>5. ASSUME NEW pod \in Pods, DelPod(pod) PROVE IInv'
  BY <1>5, DelPodIInv
<1>6. ASSUME NEW pod \in Pods, NEW l \in Labels,
             NEW ids \in SUBSET {c \in Containers : Home[c] = pod}, UpdatePod(pod, l, ids)
      PROVE  IInv'
  <2>1. ids \in SUBSET Containers /\ \A c \in ids : Home[c] = pod
    OBVIOUS
  <2> QED BY <1>6, <2>1, UpdatePodIInv
<1>7. CASE applyPodPolicyDiff
  BY <1>7, ApplyDiffIInv
<1>8. CASE delListed
  BY <1>8, DelListedIInv
<1>9. CASE addListed
  BY <1>9, AddListedIInv
<1> QED BY <1>1, <1>2, <1>3, <1>4, <1>5, <1>6, <1>7, <1>8, <1>9 DEF Next

LEMMA Invariance ==
  ASSUME Roomy
  PROVE  Spec => []IInv
<1>1. Init => IInv
  BY InitIInv
<1>2. IInv /\ [Next]_vars => IInv'
  BY NextIInv
<1> QED BY <1>1, <1>2, PTL DEF Spec

\* Every variable of the policy filter keeps its type, and an update is about a
\* pod that is known until it is over.
THEOREM FilterTypeCorrect ==
  ASSUME Roomy
  PROVE  Spec => []TypeOK
<1>1. IInv => TypeOK
  BY DEF IInv
<1> QED BY <1>1, Invariance, PTL

\* policy_filter_check answers what the labels and containers known to the
\* agent call for, however the maps got there by differences.
THEOREM AppliedCorrect ==
  ASSUME Roomy
  PROVE  Spec => []Applied
<1>1. IInv => Applied
  <2> SUFFICES ASSUME IInv, NEW p \in Policies, NEW cg \in CgroupIDs
               PROVE  policy_filter_check(p, cg) <=> Applies(p, cg)
    BY DEF Applied
  <2> DEFINE pod == Home[Owner[cg]]
  <2>1. pod \in Pods /\ (Known(pod) <=> pods[pod].labels \in Labels)
    BY WorldAssumption, PodType DEF IInv
  <2>2. PodSelector[p] \subseteq Labels
    BY WorldAssumption
  <2> QED BY <2>1, <2>2 DEF IInv, policy_filter_check, Applies, Exact, Matches, MatchedOK,
                           podMatches, matchingContainersCgroupIDs
<1> QED BY <1>1, Invariance, PTL

\* In the middle of an update too, a container whose pod is cached to match a
\* policy is in the policy's map.
THEOREM NoGapCorrect ==
  ASSUME Roomy
  PROVE  Spec => []NoGap
<1>1. IInv => NoGap
  <2> SUFFICES ASSUME IInv, NEW p \in Policies, NEW cg \in CgroupIDs, Matches(p, cg)
               PROVE  policy_filter_check(p, cg)
    BY DEF NoGap
  <2>1. Home[Owner[cg]] \in Pods
    BY WorldAssumption
  <2> QED BY <2>1 DEF IInv, policy_filter_check, Exact, Matches, MatchedOK
<1> QED BY <1>1, Invariance, PTL

\* The reverse map has the same information as the policies' maps.
THEOREM ReverseCorrect ==
  ASSUME Roomy
  PROVE  Spec => []Reverse
<1>1. IInv => Reverse
  BY DEF IInv
<1> QED BY <1>1, Invariance, PTL

=============================================================================
