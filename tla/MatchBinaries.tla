---------------------------- MODULE MatchBinaries ----------------------------
(***************************************************************************)
(* matchBinaries with followChildren: bpf/process/bpf_mbset.h,             *)
(* match_binaries in types/basic.h, the propagation in bpf_fork.c and      *)
(* bpf_execve_event.c, bpf_execve_map_update.c, and pkg/mbset.             *)
(*                                                                         *)
(* A policy that follows children owns a bit, its id.  tg_mbset_map gives  *)
(* the bits of a binary path; every process has a bitset in execve_map,    *)
(* copied on fork, extended on exec, and brought up to date by a walk over *)
(* its ancestors when the generation changed since the last walk.  When a  *)
(* policy goes, the agent takes its bit out of both maps and frees the id. *)
(*                                                                         *)
(* BPF programs and the agent interleave, and so do the removals of two    *)
(* policies, which share the data of execve_map_update.  A fork reads the  *)
(* parent's binary in one step and writes the child's in the next; an exec *)
(* reads its parent's bits and the map in separate steps from the atomic   *)
(* ORs.  One walk over the ancestors is one step.                          *)
(*                                                                         *)
(* Abstractions: every process has an entry in execve_map; a path that is  *)
(* too long for an entry, and is left empty there, is one that no policy   *)
(* names.                                                                  *)
(***************************************************************************)
EXTENDS Integers, FiniteSets, Functions, FiniteSetsExt

CONSTANTS
    Pids, Paths,
    Root,               \* the process that adopts orphans
    Policies, PathsOf,  \* the policies and the binaries each one names
    MaxIDs,             \* bits of mbset_t
    IntBits,            \* bits of an int, in which the mask is computed
    Batch,              \* pids that one run of execve_map_update takes
    Tries,              \* attempts of RemoveID to clean execve_map
    Budgets,            \* bounds: the forks, execs, removals and failing calls of the
                        \*         agent in a behaviour, one of several choices
    Reuse               \* may a new process get the pid of a dead one?

ASSUME MatchBinariesAssumption ==
    /\ Root \in Pids /\ "none" \notin Pids
    /\ PathsOf \in [Policies -> SUBSET Paths]
    /\ {MaxIDs, IntBits, Batch, Tries} \subseteq Nat
    /\ Budgets \subseteq [{"forks", "execs", "removals", "fails"} -> Nat]
    /\ Reuse \in BOOLEAN

Ids == 0..MaxIDs - 1
NoId == -1
NoPid == "none"

VARIABLES
    ids,        \* state.ids: the ids taken
    policy,     \* policy -> its life cycle and id
    mbset_map,  \* path -> bits
    gen,        \* tg_mbset_gen
    task,       \* execve_map: pid -> binary, parent, bits, generation
    real,       \* the kernel's real_parent
    prog,       \* pid -> the fork or exec under way for it
    removal,    \* policy -> the RemoveID under way for it
    data,       \* execve_map_update_data: the policy whose bit goes, and the pids
    left,       \* the forks, execs, removals and failures still to come
    ran,        \* pid -> the binaries that it and its forebears have run
    due,        \* pid -> policies whose binary it or a forebear started
                \*        to run after they had been installed
    spoiled     \* policies whose bit the removal of another may have cleared

agentVars == <<ids, policy, mbset_map, gen, removal, data, spoiled>>
MbVars == <<agentVars, task, real, prog, left, ran, due>>

Installed == {q \in Policies : policy[q].st = "installed"}
Alive == {p \in Pids : task[p].live}
Calm(p) == prog[p].at = "none"
Takes(what) == left[what] > 0 /\ left' = [left EXCEPT ![what] = @ - 1]
NoProg == [at |-> "none"]
NoRemoval == [at |-> "none", todo |-> {}, pids |-> {}, tries |-> 0]
NoTask(path) ==
    [live |-> FALSE, path |-> path, parent |-> NoPid, bits |-> {}, gen |-> 0]

(***************************************************************************)
(* The agent.                                                              *)
(***************************************************************************)

(* AllocID takes the lowest free id.                                       *)
FreeID == Min(Ids \ ids)

(* ParseMatchBinary with followChildren.                                   *)
AllocID(q) ==
    /\ policy[q].st = "none" /\ Ids \ ids # {}
    /\ LET id == FreeID IN
       /\ ids' = ids \cup {id}
       /\ policy' = [policy EXCEPT ![q] = [st |-> "allocated", id |-> id]]
    /\ UNCHANGED <<mbset_map, gen, task, real, prog, removal, data, left, ran, due,
                   spoiled>>

(* Mutant: the bit is put into the paths of every policy.                  *)
MarkAll(q, put) == [x \in Paths |-> mbset_map[x] \cup {policy[q].id}]
Mark(q, put) == [x \in Paths |-> IF x \in put THEN mbset_map[x] \cup {policy[q].id}
                                             ELSE mbset_map[x]]

(* UpdateMap, when the policy's maps are populated: the bit in every path, *)
(* then the generation.  If the map is full, or another call of the load   *)
(* fails before, the policy fails to load with the bit in some paths.      *)
UpdateMap(q) ==
    /\ policy[q].st = "allocated"
    /\ \/ /\ policy' = [policy EXCEPT ![q].st = "installed"]
          /\ mbset_map' = Mark(q, PathsOf[q])
          /\ gen' = gen + 1 /\ UNCHANGED left
       \/ /\ Takes("fails")
          /\ policy' = [policy EXCEPT ![q].st = "failed"]
          /\ \E put \in SUBSET PathsOf[q] : mbset_map' = Mark(q, put)
          /\ UNCHANGED gen
    /\ UNCHANGED <<ids, task, real, prog, removal, data, ran, due, spoiled>>

(* The policy is deleted.  RemoveID begins with the bits of its paths in   *)
(* tg_mbset_map, under s.mu; a path that is not in the map, or that cannot *)
(* be written, ends it with an error, and the id stays taken.  Without an  *)
(* updater it returns before the first path.                               *)
RemoveID(q) ==
    \E cleaned \in SUBSET PathsOf[q] :
        /\ policy[q].st \in {"installed", "failed"} /\ left.removals > 0
        /\ \A x \in cleaned : mbset_map[x] # {}
        /\ LET found == cleaned = PathsOf[q]
               fails == ~found /\ \A x \in PathsOf[q] : mbset_map[x] # {}
           IN  /\ fails => left.fails > 0
               /\ left' = [left EXCEPT !.removals = @ - 1,
                                       !.fails = IF fails THEN @ - 1 ELSE @]
               /\ removal' = IF ~found THEN removal
                             ELSE [removal EXCEPT ![q] = [at |-> "scan", todo |-> Alive,
                                                          pids |-> {}, tries |-> Tries]]
        /\ policy' = [policy EXCEPT ![q].st = "gone"]
        /\ mbset_map' = [x \in Paths |->
              IF x \in cleaned THEN mbset_map[x] \ {policy[q].id} ELSE mbset_map[x]]
        /\ due' = [p \in Pids |-> due[p] \ {q}]
        /\ UNCHANGED <<ids, gen, task, real, prog, data, ran, spoiled>>

(* updatePids, without s.mu: look at one entry of execve_map after the     *)
(* other.                                                                  *)
ScanPid(q) ==
    /\ removal[q].at = "scan"
    /\ \E p \in removal[q].todo :
          removal' = [removal EXCEPT
              ![q].todo = @ \ {p},
              ![q].pids = IF task[p].live /\ policy[q].id \in task[p].bits
                          THEN @ \cup {p} ELSE @]
    /\ UNCHANGED <<ids, policy, mbset_map, gen, task, real, prog, data, left, ran, due,
                   spoiled>>

(* A scan that found the bit nowhere frees the id; otherwise the bit is    *)
(* cleared where it was seen.                                              *)
EndScan(q) ==
    /\ removal[q].at = "scan" /\ removal[q].todo = {}
    /\ IF removal[q].pids = {}
       THEN removal' = [removal EXCEPT ![q] = NoRemoval] /\ ids' = ids \ {policy[q].id}
       ELSE removal' = [removal EXCEPT ![q].at = "clear"] /\ UNCHANGED ids
    /\ UNCHANGED <<policy, mbset_map, gen, task, real, prog, data, left, ran, due,
                   spoiled>>

(* MBSetBitClear: the next batch becomes the data of the program.  The pid *)
(* that finds the batch full is not put into the next one.                 *)
FillBatch(q) ==
    /\ removal[q].at = "clear"
    /\ \E batch \in SUBSET removal[q].pids, full \in SUBSET removal[q].pids :
          /\ batch \cap full = {} /\ Cardinality(batch) <= Batch
          /\ \/ full = {} /\ batch = removal[q].pids
             \/ Cardinality(full) = 1 /\ Cardinality(batch) = Batch
          /\ data' = [by |-> q, pids |-> batch]
          /\ removal' = [removal EXCEPT ![q].at = "run",
                                        ![q].pids = @ \ (batch \cup full)]
    /\ UNCHANGED <<ids, policy, mbset_map, gen, task, real, prog, left, ran, due, spoiled>>

(* What lock_and with ~(1 << bit) leaves of a bitset.  The mask is an int: *)
(* its sign reaches the upper bits.  For the sign bit itself it does not,  *)
(* and for a bit beyond the int the shift is undefined: the machine takes  *)
(* the count modulo the width, or shifts everything out.                   *)
Without(bits, bit) ==
    IF bit < IntBits - 1 THEN {bits \ {bit}}
    ELSE IF bit = IntBits - 1 THEN {{b \in bits : b < bit}}
    ELSE {bits \ {bit % IntBits}, bits}

(* The other bits that it may take with it.                                *)
Misses(bit) ==
    IF bit < IntBits - 1 THEN {}
    ELSE IF bit = IntBits - 1 THEN {b \in Ids : b > bit}
    ELSE {bit % IntBits}

(* A run for policy q spoils the policies whose bits its mask hits by      *)
(* mistake, and, if another removal has put its data there since, the new  *)
(* owner of the other's bit.                                               *)
Spoils(q) ==
    LET bit == policy[data.by].id IN
    {r \in Installed : policy[r].id \in Misses(bit) \cup (IF data.by = q THEN {} ELSE {bit})}

(* After the last batch the pids are scanned again, Tries times in all;    *)
(* then the id stays taken.                                                *)
AfterRun(r) ==
    IF r.pids # {} THEN [r EXCEPT !.at = "clear"]
    ELSE IF r.tries <= 1 THEN NoRemoval
    ELSE [r EXCEPT !.at = "scan", !.todo = Alive, !.tries = r.tries - 1]

(* execve_map_update takes the bit out of the entries of the batch.  If a  *)
(* run fails, the id stays taken.                                          *)
RunBatch(q) ==
    /\ removal[q].at = "run"
    /\ \/ /\ \E clear \in [data.pids -> SUBSET Ids] :
               /\ \A p \in data.pids :
                     clear[p] \in Without(task[p].bits, policy[data.by].id)
               /\ task' = [p \in Pids |->
                     IF p \in data.pids /\ task[p].live
                     THEN [task[p] EXCEPT !.bits = clear[p]] ELSE task[p]]
          /\ removal' = [removal EXCEPT ![q] = AfterRun(@)]
          /\ spoiled' = spoiled \cup Spoils(q)
          /\ UNCHANGED left
       \/ /\ Takes("fails")
          /\ removal' = [removal EXCEPT ![q] = NoRemoval]
          /\ UNCHANGED <<task, spoiled>>
    /\ UNCHANGED <<ids, policy, mbset_map, gen, real, prog, data, ran, due>>

(***************************************************************************)
(* The BPF programs.                                                       *)
(***************************************************************************)

(* What a walk over the live processes meets, from p on, when each step    *)
(* goes from c to up[c]: what is in every set that no step leaves.         *)
Walk(up, p) ==
    LET closed == {S \in SUBSET Pids :
                      p \in S /\ \A c \in S : up[c] \in Alive => up[c] \in S}
    IN  {x \in Pids : \A S \in closed : x \in S} \ {p}

Forebears(p) == Walk(real, p)
Ancestors(p) == Walk([c \in Pids |-> task[c].parent], p)

(* update_mb_task: the walk adds what tg_mbset_map says of the ancestors'  *)
(* binaries.                                                               *)
update_mb_task(p) ==
    IF task[p].gen = gen THEN task[p]
    ELSE [task[p] EXCEPT
             !.bits = @ \cup UNION {mbset_map[task[q].path] : q \in Ancestors(p)},
             !.gen = gen]

(* match_binaries for a policy whose operator is In.                       *)
match_binaries(p, q) ==
    \/ policy[q].id \in update_mb_task(p).bits
    \/ task[p].path \in PathsOf[q]

(* A hook with a selector of policy q runs in p.                           *)
Hook(p, q) ==
    /\ p \in Alive /\ Calm(p) /\ q \in Installed
    /\ task' = [task EXCEPT ![p] = update_mb_task(p)]
    /\ UNCHANGED <<agentVars, real, prog, left, ran, due>>

(* event_wake_up_new_task: the child's entry is there before the parent's  *)
(* binary has been copied into it.                                         *)
Fork(p, c) ==
    /\ p \in Alive /\ Calm(p) /\ ~task[c].live /\ Takes("forks")
    /\ Reuse \/ ran[c] = {}
    /\ task' = [task EXCEPT ![c] = [live |-> TRUE, path |-> task[p].path,
                   parent |-> p, bits |-> {}, gen |-> 0]]
    /\ prog' = [prog EXCEPT ![c] = [at |-> "fork", bits |-> task[p].bits,
                                    gen |-> task[p].gen]]
    /\ real' = [real EXCEPT ![c] = p]
    /\ ran' = [ran EXCEPT ![c] = ran[p]]
    /\ due' = [due EXCEPT ![c] = due[p]]
    /\ UNCHANGED agentVars

(* Mutant: the child begins with an empty set.                             *)
NoCopy(c) ==
    /\ prog[c].at = "fork"
    /\ prog' = [prog EXCEPT ![c] = NoProg]
    /\ UNCHANGED <<agentVars, task, real, left, ran, due>>

ForkCopy(c) ==
    /\ prog[c].at = "fork"
    /\ task' = [task EXCEPT ![c].bits = prog[c].bits, ![c].gen = prog[c].gen]
    /\ prog' = [prog EXCEPT ![c] = NoProg]
    /\ UNCHANGED <<agentVars, real, left, ran, due>>

(* event_execve brings the parent up to date.                              *)
ParentUpdated(p) ==
    IF real[p] = NoPid THEN task
    ELSE [task EXCEPT ![real[p]] = update_mb_task(real[p])]

(* execve_send takes the new path and parent and reads the parent's bits.  *)
(* binary_reset keeps bits and generation.                                 *)
Exec(p, path) ==
    /\ p \in Alive /\ Calm(p) /\ Takes("execs")
    /\ task' = [ParentUpdated(p) EXCEPT ![p].path = path, ![p].parent = real[p]]
    /\ prog' = [prog EXCEPT ![p] =
          [at |-> "parent",
           bits |-> IF real[p] = NoPid THEN {} ELSE update_mb_task(real[p]).bits,
           due |-> {q \in Installed : path \in PathsOf[q]}]]
    /\ ran' = [ran EXCEPT ![p] = @ \cup {path}]
    /\ UNCHANGED <<agentVars, real, due>>

(* cgroup_rate holds the exec back before execve_send: the process goes on *)
(* under the entry of its old binary.                                      *)
ThrottledExec(p, path) ==
    /\ p \in Alive /\ Calm(p) /\ Takes("execs")
    /\ task' = ParentUpdated(p)
    /\ ran' = [ran EXCEPT ![p] = @ \cup {path}]
    /\ UNCHANGED <<agentVars, real, prog, due>>

(* update_mb_bitset: OR the parent's bits, look the path up, OR its bits.  *)
ExecParentBits(p) ==
    /\ prog[p].at = "parent"
    /\ task' = [task EXCEPT ![p].bits = @ \cup prog[p].bits]
    /\ prog' = [prog EXCEPT ![p].at = "path", ![p].bits = mbset_map[task[p].path]]
    /\ UNCHANGED <<agentVars, real, left, ran, due>>

ExecPathBits(p) ==
    /\ prog[p].at = "path"
    /\ task' = [task EXCEPT ![p].bits = @ \cup prog[p].bits]
    /\ prog' = [prog EXCEPT ![p] = NoProg]
    /\ due' = [due EXCEPT ![p] = @ \cup (prog[p].due \cap Installed)]
    /\ UNCHANGED <<agentVars, real, left, ran>>

(* event_exit deletes the entry; the kernel gives the children to Root.    *)
(* The children keep what p and its forebears have run.                    *)
Exit(p) ==
    LET child == {c \in Pids : real[c] = p} IN
    /\ p \in Alive /\ p # Root /\ Calm(p)
    /\ \A c \in child : prog[c].at # "fork"
    /\ task' = [task EXCEPT ![p] = NoTask(task[p].path)]
    /\ real' = [c \in Pids |-> IF c \in child THEN Root
                               ELSE IF c = p THEN NoPid ELSE real[c]]
    /\ ran' = [c \in Pids |-> IF c \in child
                   THEN ran[c] \cup UNION {ran[a] : a \in {p} \cup Forebears(p)}
                   ELSE ran[c]]
    /\ due' = [due EXCEPT ![p] = {}]
    /\ UNCHANGED <<agentVars, prog, left>>

(***************************************************************************)
(* The specification.                                                      *)
(***************************************************************************)
MbInit ==
    \E path \in Paths :
        /\ ids = {} /\ gen = 0
        /\ policy = [q \in Policies |-> [st |-> "none", id |-> NoId]]
        /\ mbset_map = [x \in Paths |-> {}]
        /\ task = [p \in Pids |-> [NoTask(path) EXCEPT !.live = p = Root]]
        /\ real = [p \in Pids |-> NoPid]
        /\ prog = [p \in Pids |-> NoProg]
        /\ removal = [q \in Policies |-> NoRemoval]
        /\ data = [by |-> "none", pids |-> {}]
        /\ spoiled = {}
        /\ left \in Budgets
        /\ ran = [p \in Pids |-> IF p = Root THEN {path} ELSE {}]
        /\ due = [p \in Pids |-> {}]

MbNext ==
    \/ \E q \in Policies : \/ AllocID(q) \/ UpdateMap(q) \/ RemoveID(q)
                           \/ ScanPid(q) \/ EndScan(q) \/ FillBatch(q) \/ RunBatch(q)
    \/ \E p \in Pids, q \in Policies : Hook(p, q)
    \/ \E p, c \in Pids : Fork(p, c)
    \/ \E p \in Pids, path \in Paths : Exec(p, path) \/ ThrottledExec(p, path)
    \/ \E p \in Pids : \/ ForkCopy(p) \/ ExecParentBits(p) \/ ExecPathBits(p)
                       \/ Exit(p)

MbSpec == MbInit /\ [][MbNext]_MbVars

(***************************************************************************)
(* Properties.                                                             *)
(***************************************************************************)

(* The variables have their types.                                         *)
MbTypeOK ==
    /\ ids \subseteq Ids
    /\ policy \in [Policies ->
          [st : {"none", "allocated", "installed", "failed", "gone"},
           id : Ids \cup {NoId}]]
    /\ mbset_map \in [Paths -> SUBSET Ids]
    /\ gen \in Nat
    /\ task \in [Pids -> [live : BOOLEAN, path : Paths,
                          parent : Pids \cup {NoPid}, bits : SUBSET Ids,
                          gen : 0..gen]]
    /\ real \in [Pids -> Pids \cup {NoPid}]
    /\ \A p \in Pids : prog[p].at \in {"none", "fork", "parent", "path"}
    /\ removal \in [Policies -> [at : {"none", "scan", "clear", "run"},
                                 todo : SUBSET Pids, pids : SUBSET Pids,
                                 tries : 0..Tries]]
    /\ data \in [by : Policies \cup {"none"}, pids : SUBSET Pids]
    /\ spoiled \subseteq Policies
    /\ ran \in [Pids -> SUBSET Paths]
    /\ due \in [Pids -> SUBSET Policies]

(* A process that started a binary of an installed policy after the policy *)
(* came, in an exec that was not throttled, and every descendant of it,    *)
(* has the policy's bit, whatever other policies come and go, and whoever  *)
(* execs and exits in between: neither the copy on fork, nor binary_reset  *)
(* on exec, nor the clearing of another policy's bit loses it.  The        *)
(* exception is exactly the two ways in which one removal may clear the    *)
(* bit of another policy: the mask of its own id is wrong, from the sign   *)
(* bit of an int on, or it runs the batch of a removal that overtook it.   *)
FollowsLater ==
    \A p \in Alive : Calm(p) =>
        \A q \in (due[p] \cap Installed) \ spoiled : policy[q].id \in task[p].bits

(* The same without the exceptions.                                        *)
FollowsAlways ==
    \A p \in Alive : Calm(p) =>
        \A q \in due[p] \cap Installed : policy[q].id \in task[p].bits

(* A policy matches only a process which itself, or of which a forebear,   *)
(* has run one of its binaries ("either because the binary matches or      *)
(* because the binary of a parent matched", match_binaries), provided that *)
(* it is the first to have its id (see FreeIsUnused) and that no pid is    *)
(* reused.                                                                 *)
FirstOwner(q) == \A r \in Policies \ {q} : policy[r].id # policy[q].id

OnlyDescendants ==
    \A p \in Alive, q \in Installed :
        FirstOwner(q) /\ Calm(p) /\ match_binaries(p, q) =>
            \E a \in {p} \cup Forebears(p) : ran[a] \cap PathsOf[q] # {}

(* What RemoveID iterates the pids again for: an id that is free is in no  *)
(* process's set, so that the next policy does not inherit matches.        *)
FreeIsUnused ==
    \A p \in Alive : Calm(p) => task[p].bits \subseteq ids

(* What RemoveID is for, there being only MaxIDs ids: an id is taken only  *)
(* while its policy is there or being removed.                             *)
IdsReturned ==
    ids \subseteq {policy[q].id : q \in {r \in Policies : \/ policy[r].st # "gone"
                                                       \/ removal[r].at # "none"}}
==============================================================================
