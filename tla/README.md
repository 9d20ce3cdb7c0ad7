# Tetragon: TLA+ models, model checking and proofs

Tetragon watches a Linux machine with BPF programs and reports process events,
enriched with process and Kubernetes metadata, to its gRPC listeners.  This
directory holds TLA+ models of the parts whose correctness depends on the order
in which several actors take their steps, the TLC instances that check them, and
TLAPS proofs for every size of the parameters.

## 1. Inventory

| Part | State | Operations | Interacts with | What is hard |
|---|---|---|---|---|
| Process cache (`pkg/process/cache.go`) | LRU list of `ProcessInternal`, reference counts, colors, delete queue | add, get, remove, refInc, refDec, collector goroutine | every event handler | the collector reads counts that other goroutines change; unbuffered channel; duplicate deletes; eviction |
| Lifecycle handlers (`pkg/grpc/exec`) | RefCntDone of each message | HandleMessage, RetryInternal, Retry of clone, exec, exit, cleanup | process cache, event cache, listeners | messages out of order or lost; a retry of what was half done |
| Event cache (`pkg/eventcache`) | list of waiting objects with a retry count | Add, loop, handleEvents | handlers, process cache, pod watcher, listeners | bounded retries; a loop that must not wait for itself |
| Process BPF programs (`bpf/process/bpf_fork.c`, `bpf_execve_event.c`, `bpf_exit.h`) | `execve_map` | fork, exec, exit | ring buffers | per-CPU buffers: no order between CPUs, loss when full |
| Sensor manager (`pkg/sensors`) | collections of sensors and their states | add, delete, enable, disable policy; sensors | policy filter, BPF loader | the map lock is released while loading |
| Policy filter (`pkg/policyfilter`) | pods, containers, policies, one BPF map of cgroup ids per policy and a reverse map | add and delete policy, add, update and delete pod or container | sensor manager, runtime hooks, pod watcher | differences applied to several maps of bounded size |
| gRPC server (`pkg/server`, `pkg/grpc/process_manager.go`, `pkg/aggregator`) | set of listeners, one channel each | Notify, AddListener, RemoveListener, GetEvents | event handlers, clients | slow clients, removal during a notification |
| Cgroup rate (`bpf/process/bpf_rate.h`, `pkg/cgrouprate`) | per-cgroup and per-CPU windows, throttle state | cgroup_rate, timer, cleanup | exec and clone programs | a BPF map both sides write without a lock; one message that must not get lost |
| Generic kprobes (`bpf/process/generic_calls.h`, `bpf_generic_kprobe.c`, `bpf_generic_retkprobe.c`, `retprobe_map.h`) | per-CPU heap slot, `retprobe_map`, override tasks | a chain of tail calls per call and per return | selectors, enforcer, ring buffer | state left in a slot by the chain before; recursion; a full map |
| Match binaries (`bpf/process/bpf_mbset.h`, `pkg/mbset`) | ids, a map of paths to bits, bits of each process, a generation | allocate and remove ids, inherit on fork, exec and match | selectors, `execve_map` | forks and execs that race with the removal of an id; 64 ids |
| Enforcer (`bpf/process/bpf_enforcer.*`) | one request per thread, counters of missed ones | notify, consume, clean up (optional) | generic kprobes | elements of a preallocated map read after they are deleted; a request that outlives its call |
| Cgroup id map (`pkg/cgidmap`) | slice of entries, two indices, list of unresolved containers | Add, Update, Get, resolver goroutine | runtime hooks, pod informer, container runtime | two indices of one slice; a resolver without a lock |
| Observer (`pkg/observer`) | bounded queue between readers and handler | RunEvents, receiveEvent | BPF buffers, handlers | drop when full |
| Cgroup tracker (`pkg/cgtracker`, `bpf/cgroup`) | map of cgroup ids to trackers | mkdir, release, walk | policy filter, handlers | a walk that races with mkdir and release |
| Pod watcher, runtime hooks, export filters, configuration, metrics, `tetra` | indexes, flags, counters | updates and lookups | policy filter, handlers | late or missing information |

How the parts interact.  The BPF programs write fork, exec and exit messages
into per-CPU buffers, unless the cgroup rate holds the cgroup back.  The observer
reads them into a bounded queue and one goroutine runs the handler of each
message.  A handler looks processes up in the process cache, takes and drops
references, and notifies the listeners, one per client; what it cannot complete
it sends to the event cache, whose goroutine retries it every two seconds.  A
count that reaches zero is sent to the collector of the process cache.  Beside
this, gRPC clients and the Kubernetes watcher of tracing policies call the sensor
manager, each on a goroutine of its own; it loads and unloads sensors and tells
the policy filter which policies exist.  Pod informers and runtime hooks tell the
policy filter and the cgroup id map which containers exist.  The programs of a
loaded policy ask the maps of the policy filter and of match binaries whether
they apply to a process, walk their selectors, post events, and leave requests to
the enforcer.

What makes each part correct:

* process cache: a referenced process stays, an unreferenced one leaves, the
  gauge and the delete queue are right whatever the interleaving;
* lifecycle handlers with the event cache: every reference taken for a process
  or for its child is dropped exactly once, in whatever order the messages come;
  every event is reported once; nothing waits for itself;
* sensor manager: what a listing says of a policy is true, two clients never
  work on one collection, the policy filter agrees, every request ends;
* policy filter: each policy map holds the cgroup ids of the matching containers
  of the matching pods, and no other;
* server: a slow or leaving client delays nobody and loses only its own events;
* cgroup rate: a throttled cgroup is resumed when its traffic gets stable;
* generic kprobes: the first selector that matches, and no other, decides what is
  posted and done, and a return is paired with its own entry;
* match binaries: a process matches if and only if it or a forebear ran a binary
  of the policy;
* enforcer: each call gets what was last asked for under its thread id, and each
  request is carried out or counted once;
* cgroup id map: both indices lead to the entries they say, and a container that
  stays is found.

## 2. Plan

Modules in the order of importance.

| Module | Part | Composes or refines | State |
|---|---|---|---|
| `ProcessCache`, `ProcessCacheAbs`, `ProcessCacheProofs` | process cache | `ProcessCache` implements `ProcessCacheAbs` | modelled, checked, proved |
| `ProcessEvents`, `ProcessEventsProofs` | kernel side, handlers, event cache | uses `ProcessCacheAbs` for the cache | modelled, checked, proved |
| `SensorManager`, `SensorManagerProofs` | sensor manager | none | modelled, checked, proved |
| `PolicyFilter`, `PolicyFilterProofs` | policy filter with both maps | none | modelled, checked, proved |
| `EventServer`, `EventServerProofs` | process manager, listeners, aggregator | none | modelled, checked, proved |
| `CgroupRate`, `CgroupRateProofs` | throttling, BPF side and agent | none | modelled, checked, proved |
| `GenericKprobe`, `GenericKprobeProofs` | kprobe and return chains, selectors, return probe map | none | modelled, checked, proved |
| `MatchBinaries` | followChildren | none | modelled, checked, proved in `EnforcerProofs` |
| `Enforcer`, `EnforcerProofs` | enforcer, BPF side | none | modelled, checked, proved |
| `CgroupIdMap` | cgroup ids to containers, resolver | none | modelled, checked, proved in `CgroupRateProofs` |
| cgroup tracker | mkdir, release and walk | none | left |
| merge of entry and return in the agent | `generickprobe.go`, `pendingEvents` | with `GenericKprobe` | left |
| observer queue | readers, bounded queue, lost counters | none | left |

Every invariant and every action property that a run checks is also a theorem, in
some cases under a hypothesis that section 5 states; the liveness properties are
out of the prover's reach and stay with TLC.  What the plan has left are the parts
marked so above, each with its invariants to prove.

## 3. Modules and the code

### ProcessCache

State: `cache` and `total` are the LRU list and the gauge; `refcnt` and `color`
the two fields of a `ProcessInternal`; `deleteQueue`, `newQueue`, `walking` and
`removing` the local variables and the program point of the collector; `todo[g]`
the `refInc`, `refDec` or channel send that goroutine `g` is about to make;
`owed` the references the callers hold, so that the callers keep the protocol of
the comment at `process.go:57-60` (a reference is dropped only by whoever took it,
after it was taken: `Release` waits for the pending `refInc`); that the handlers do keep
it is what `Balanced` and `LiveReferenced` of `ProcessEvents` are about.  `fate` and `quiet` are history.

Actions: `AddProcess`, `Reference` and `Release` are callers; `refInc` and
`refDec` one atomic addition each; `gcReceive` is the `deleteChan` case of the
collector (a rendezvous, so the sender advances too); `gcTick`, `gcVisit`,
`gcRemove` and `gcEndWalk` are the ticker case, split where it reads a count and
where it removes.  Eviction may hit any entry and the walk visits the queue in
any order, both of which include what the code does.

`ProcessCacheAbs` states the promise without the collector: an object stays
until it is evicted for another one or its last reference has been dropped at
least once.  It deliberately allows the removal of an object that was referenced
again in between, because the code reads the count and removes in two steps.

### ProcessEvents

`task` is `execve_map`; `wire` holds messages of all CPUs, unordered, and `Emit`
may lose one; `prog[g]` the calls a goroutine still has to make (the observer,
the event cache loop, and the goroutine each completed exec may start);
`waiting` and `walk` the event cache.  `Receive` runs the lookups of a handler
and leaves its calls in `prog`; `Step` makes one call; `ecTick`, `ecRetry` and
`ecEnd` are `handleEvents`; `PodArrives` is the pod watcher; `Collect` is the
collector of the process cache, by way of `ProcessCacheAbs`.  A call that raises or
drops a count also carries the key of the process on whose behalf it is made, and
`counted` is the history of these calls; no guard reads either.  They let the
proofs say of a count which calls it adds up.

Two timing assumptions, in the guards where they apply:

* `ecTick`: a message is received before the last `Reserve` retries of the
  objects that may wait for it.  The event cache retries 15 times every 2 s, and
  messages are in the buffers for milliseconds.  `Reserve` is the length of the
  longest chain of objects waiting for each other.
* `Collect`: a process is removed when the handlers under way and the event
  cache are through.  The collector takes one to two intervals of 30 s after a
  count reached zero, the event cache gives up within 30 s.

`PodInTime` says whether the pod is known before the retries run out.

`execve_map` has room for every task.  The exec of a task without an entry is still
reported (`bpf_execve_event.c:381-382`), but its exit is not (`bpf_exit.h:36-38`) and
a child of it is not announced (`bpf_fork.c:41-47`): its process would stay in the cache until it is evicted, and
`Balanced` is not about such a task.  An exec that the cgroup rate holds back leaves
`execve_map` and the buffers as they were, and is no step of this module.

The collector of the code removes a process without asking for the handlers; that
it waits for them is the second assumption.  So no property says of `Collect`
itself that what it removes is not needed: `LiveReferenced` says that the count of
a live process, which is what the collector goes by, does not reach zero.

### SensorManager

`table` is the map of collections, `info` the fields of each, `loaded` and
`destroyed` the two flags of each sensor, `pf` the policies the filter knows,
`mu` and `muLoad` the holders of the two locks, `run[g]` the request, place and
loop counter of a goroutine.  A section under `collections.mu` is one step
unless it destroys sensors on the way (removal), when `mu` is held across steps.
Loading a sensor is two steps (`load`, `attach`), unloading three (`unload` asks
`IsLoaded`, `check` is the test inside `Sensor.Unload`, `detach` its end), and
destroying likewise, so that a destroy, which takes no lock, falls between any
two of them.  Failures of BPF, of the filter and of the policy handlers are
arbitrary.

The requests for a sensor go by a key without a namespace (`ClusterWide`), and
`enableSensor`, `disableSensor` and `removeSensor` look only at the key: they also
take the collection of a cluster-wide tracing policy, as
`generickprobe_test.go:175-177` does.  They load or unload it and leave `col.state`
alone, or remove it without telling the policy filter.  `touched` (history) has the
collections that were enabled or disabled this way, and `Listed` excepts exactly
these: a listing goes on to call such a policy enabled.  `abandoned` (history) has
the collections that were added over, removed as sensors or removed at shutdown: the
policy filter keeps their entries, which `FilterAgrees` allows for exactly these.

### PolicyFilter

`policies` and `pods` are the two maps of the agent's state (a pod with its
labels, its containers' cgroup ids and the policies it is cached to match);
`outer` and `polMap` are `policy_filter_maps`, `cgroupMap` the reverse map, which
is there only if `enable-policy-filter-cgroup-map` is set (`CgroupMap`).  An
operation holds the agent's lock and is one step, except `UpdatePod`: `op` keeps
it between its three parts (labels, containers that are gone, new containers),
because BPF programs look at the maps in between.  `UpdateMaps` is what every
operation does to the maps: `addCgroupIDs`, which fails as a whole where a map is
full, `delCgroupIDs`, which returns at once without the reverse map, and the same
for the reverse map.  A container with several cgroup ids is one with several
entries, as `containerExists` allows.  `policy_filter_check` is the lookup of a
cgroup id in the policy's map; that policy 0 applies to all, that a task without a
cgroup id is in no policy's map, and that the tracker's id stands in for the task's
own come before it and are left out.

### EventServer

`NotifyListener` takes `pm.mux` and notes all listeners in `todo`; `Notify` tells
one, by a send that never blocks; `EndNotify` releases the mutex.  `GetEvents`
makes a listener and an aggregator, `AddListener` and `RemoveListener` wait for
the mutex, `receive` and `send` are the loop of the call, `aggregate` its send
into the aggregator's channel, whose size the client chooses and which may be 0: an
unbuffered channel takes an event only while the aggregator waits for one.
`aggregatorTake` and `aggregatorSend` are the aggregator's goroutine, which nothing
ends; a `Send` of it that fails is only logged (`aggregator.go:69-71`), so that the
event is lost while the call goes on.  `cancel` is the end of the call's context,
`drain` and `done` the end of `removeNotifierAndDrain`.  `got`, `owed`, `missed` (no
room) and `unsent` (a failed `Send`) are history.

### CgroupRate

`rateMap` is `cgroup_rate_map`, one value per CPU; points in time are kept as
ages, so that time goes on for ever in finitely many states.  `cgroup_rate` is
one step with all its branches: new entry, new window, idle, throttling.  The
goroutine looks a cgroup up, decides, and puts the values back in separate steps
(`loop`), while events go on; `Clock` lets time pass, also within a run of the
timer, by at most `MaxLag`.  The BPF side reads `CLOCK_BOOTTIME` and the agent
`CLOCK_MONOTONIC`; `Skew` is the difference.  A throttle message may be lost,
which `lost` remembers: `Monitored` and `Resumes` except such a cgroup.
`WordAssumption` keeps the product in the estimate below 2^64.  The code does not
enforce it: `--cgroup-rate` takes any interval, and with one of days a busy CPU could
count enough events for the product to wrap.

### GenericKprobe

One program of a chain of tail calls is one action; chains of different CPUs
interleave, and the chains of one CPU share its heap slot.  A selector is the set
of processes, arguments and return values it accepts and the list of its actions.
`retprobe_map` is keyed by function and thread and has a size; `lost` remembers
calls whose entry an inner call replaced or for which there was no room, and
`Marked` excepts these.  Every return is probed; a kretprobe that the kernel misses
would leave an entry as an overwritten one does.

### MatchBinaries

`task` is the part of `execve_map` with the binary's bits and generation, `real`
the kernel's parent.  Every process has an entry, and a path too long for one, which
is left empty there, is one that no policy names.  A fork reads the parent and writes the child in two steps,
an exec reads and ORs in several; the walk of `update_mb_task` over the ancestors
is one step (`Walk`: the least set of processes with the starting one that no step
to a live parent leaves).  `ThrottledExec` is the exec that `cgroup_rate` holds
back: the parent is brought up to date, but the process keeps the entry of its old
binary.

`UpdateMap` sets the bit in every path, or fails with the bit in some of them.
`RemoveID` takes it out of the paths under `s.mu`, which it then releases: it scans
the processes one by one (`ScanPid`), and clears the bit where it was seen, in
batches, until none has it (at most `Tries` times); then it frees the id.  Several
removals may be under way (`removal` is a function of the policy), and they share
one `execve_map_update_data`: `FillBatch` writes it and `RunBatch` reads it, so a
removal may run the batch of another that overtook it.  `Without` is the mask
`~(1 << bit)` in an int of `IntBits` bits: right below the sign bit; at the sign bit
it also clears the bits above; beyond it the shift is undefined, and the machine
takes the count modulo the width or shifts everything out.

`ran`, `due` and `spoiled` are history: the binaries a process and its forebears
ran, the policies whose binary one of them started after the policy was there, and
the policies whose bit a wrong mask or an overtaken batch may have cleared.
`update_mb_task` never looks up the path of the task itself, so `FollowsLater`
speaks of binaries started after the policy was installed, in an exec that was not
throttled, and excepts `spoiled`; `OnlyDescendants` is about an id without an
earlier owner.

### Enforcer

Every access to a map is a step.  `element` holds what the elements of the
preallocated map contain, also after they are deleted; `enforcer_data` says which
one a thread has.  `dropped` counts requests and counts a full map has dropped,
`taken` the threads whose element was taken by another between `map_delete_elem`
and the read of `data->error`; `Accounted` and `OwnRequest` except exactly these.
Error and signal are cast to 16 bits (`S16`).

A call ends with `do_enforcer_cleanup` or without it (`Return`): it is the action
`CleanupEnforcerNotification`, which a policy may list and which the documented
example (`selectors.md:1494-1512`) and `killer.yaml` do not.  `want` is what was last
asked for under a thread id and neither carried out nor cleaned up, `owed` what that
was when the enforcer ran, `own` the threads that asked in the present call, `bare`
those whose last call had no cleanup.  `OwnRequest` says that the enforcer did what
was owed, and that this stems from the present call unless the thread is in `bare`.

### CgroupIdMap

`entries`, `cgMap`, `contMap`, `invalidCnt` and `cap` are the fields of the map
and the capacity of its slice, which decides whether `addEntry` uses free space.
`unresolvedIDs` and `resolving` are the resolver's bounded list and the container
it asks the runtime about, without a lock; without `EnableCRI` there is no resolver,
an unmapped container is not queued, and `Found` promises nothing.  `podHandler` delivers the last state
of a pod, `told` says for which pods it has; the runtime and the API server are
external.

## 4. Runs

| Run | Instance | States | Shows |
|---|---|---|---|
| `cache_safety` | 2 processes, cache of 1, 2 goroutines, 2 references each | 45,816 | gauge, delete queue, counts and the refinement hold in every interleaving; no goroutine stays blocked on `deleteChan`; an unreferenced process is collected unless a walk bounced it |
| `events_safety` | 2 pids, 3 exec ids, 1 lost message, 4 retries, in a container | 1.65 M | counts balance, events are reported once, live processes stay referenced |
| `events_progress` | 2 pids, 2 exec ids, 1 lost message, 2 retries, the pod perhaps never known | | handlers and event cache always catch up |
| `sensors_safety` | 2 goroutines, 1 cluster-wide policy and 1 sensor, 2 collections, 2 sensors per policy, 4 requests | 365,796 | listings are true of what was not enabled or disabled as a sensor, one worker per collection, the filter agrees, every request ends |
| `rate_safety` | 2 cgroups, 1 CPU, a map of 1 | 648 k | the estimate stays in range, a paused CPU is known to the agent and is resumed |
| `filter_safety` | 2 pods, 3 containers, 4 cgroup ids, 2 policies, 2 labels | 49,588 | BPF applies what the pods call for, also between the steps of an update; the reverse map agrees |
| `filter_no_reverse` | the same without the reverse map | | **violation**: nothing is ever deleted (finding 1) |
| `server_safety` | 2 producers, 2 clients, one with an aggregator, queue of 2, buffer of 0 or 1, 3 events | 128,380 | order, losses also by failing sends of the aggregator, and that clients that do not read block nothing |
| `kprobe_safety` | 2 CPUs, 2 threads, 2 functions, 2 calls, lists of up to 3 selectors, `retprobe_map` of 1 | 3.5 M | first match, actions, marks and pairing of returns |
| `mbset_safety` | 3 pids, 2 binaries, 3 policies, 3 ids with an int of 2 bits; 1 fork, exec and removal, or 2 execs and removals, or 2 forks and 1 exec, or 1 exec, removal and failure | 1.44 M | no descendant loses a bit but those `spoiled` names, no stranger gets one |
| `enforcer_safety` | 3 threads, 2 elements, 1 counter, 3 requests of 2 kinds | 1.58 M | what was owed is done, and every request accounted for |
| `cgid_safety` | 2 pods, 3 containers, a slice that starts with room for 1, a list of 1 | 196,492 | both indices agree; a container that stays is found |

Why the bounds are enough.  Two goroutines and a collector make every pairwise
race of the cache; the second process evicts a queued one.  Three exec ids allow
fork, exec and a second fork or exec, a child that outlives its parent, and a pid
that is used again; with `NumRetries = 4` and `Reserve = 3` an object may wait for
another one that waits itself.  Two collections allow a policy to be added again
while the old collection is still being loaded or deleted; two sensors allow a
load to fail half way; four requests, of either client, add a policy, disable it as
a sensor, delete it and add it again.  A map of one entry makes two cgroups compete for it, and
`MaxLag`, `Skew` and `Alive` of one unit make the timer late.  A container with
two cgroup ids and two policies with different selectors make every kind of
difference of an update.  A queue of two and three events overflow; one client has
an aggregator, whose channel, unbuffered or of one, overflows before its queue.  Two calls allow
nesting, recursion and two CPUs; each of the selectors' lists has overlapping
selectors.  With more threads than elements the enforcer's map is full and its
elements change hands, and with one counter its counters are full too; the error of
one request does not fit 16 bits as it is.  Three ids and an int of two bits have an
id below the sign bit, one on it and one beyond; two removals overtake each other.
`InitCap = 1` reaches both branches of `addEntry` and the
growth of the slice, `MaxUnmapped = 1` the dropping of ids.

Symmetry is used only in runs without liveness properties.  Deadlock is checked in
the runs of the cgroup rate, the policy filter, the server and the enforcer.  In
the others the bounds (exec ids, collections, processes, calls) make every
behaviour stop, and the absence of blocking is what `SendsComplete`, `CatchesUp`,
`Completes` and `Found` state.

Every property has a mutant: an operator beside the definition it replaces,
marked "Mutant", that changes the code's behaviour the way a plausible bug
would, and under which TLC finds the property violated.

### Further configurations

Instances that TLC refutes, each for a behaviour that a listed run excludes by an
exception or by a constant; section 6 says what they show:
`MCProcessCacheCollected` (`Collected`), `MCProcessEventsPodLate`
(`LiveReferenced`), `MCSensorManagerLeft` (`NothingLeftLoaded`),
`MCSensorManagerUnload` (`UnloadSucceeds`), `MCCgroupRateLost` (`ResumesAlways`),
`MCPolicyFilterFull` (`Reverse`), `MCPolicyFilterHook` (`HookedStays`),
`MCGenericKprobeStale` (`ReturnMatches`), `MCGenericKprobeAgain` (`NoneLost`),
`MCGenericKprobeFd` (`ListExecuted`), `MCMatchBinariesInt` (`FollowsAlways`),
`MCMatchBinariesLeak` (`IdsReturned`), `MCMatchBinariesReuse`
(`OnlyDescendants`), `MCMatchBinariesStale` (`FreeIsUnused`), `MCEnforcerReuse`
(`OwnError` and `OwnCall`; TLC stops at the first, either is refuted without the
other), `MCCgroupIdMapSub` (`RightContainer`), `MCCgroupIdMapDeleted`
(`NothingLeft`).

### Fairness

* A goroutine inside a call runs on (weak fairness): the Go scheduler is
  preemptive.
* The tickers fire, the buffers are read and time passes.  Where a channel and a
  timer are ready together, `select` picks at random, so that each is taken if it
  is ready again and again (strong fairness of `Receive`, `processCgroups` and
  `Clock` in `CgroupRate`).
* A send on `deleteChan` or `objsChan` that is ready again and again is received
  (strong fairness), for the same reason.
* A waiter gets a mutex that is free again and again (strong fairness):
  `sync.Mutex` and `sync.RWMutex` hand over to a starving waiter.
* `EventServer` assumes of the agent only what is above (`AgentFairness`): a
  client may stop reading for ever.  `Arrives` has reading clients as a
  hypothesis (`ClientFairness`).
* `CgroupIdMap`: the informer delivers the last state of a pod, the resolver goes
  on, and the runtime does not fail for ever for a container that exists (strong
  fairness of `criResolve` for each container): it is asked again and again.
* Nothing obliges callers, clients or the kernel to do anything, or a pod to
  become known.

## 5. Proofs

### ProcessCacheProofs

Proved for every set of processes and goroutines, every size and every counter
width: `TypeCorrect`, `QueuedOnceCorrect`, `LeavesWhenDueCorrect`,
`GaugeCorrect`, `LedgerCorrect`, `NoLostDeleteCorrect` and
`ImplementsAbsCorrect`.  Assumptions: the sets are finite, the size is positive,
and the counter has room for the references held and the drops under way
(`RefMaxAssumption`; without it the counter may wrap).

The argument goes from the program point of a goroutine to the counts.

* `OneCall`: a goroutine has at most one call pending, so a set of goroutines at
  a call can be counted, and a step changes it by at most one element.
* `QueueInv`: the color, the history of leaving the queue and the number of
  occurrences in both queues go together.  `QueuedOnce` alone is not inductive,
  because a walk moves an object from one queue to the other and a message
  arrives for an object that has left both.
* `LedgerInv`: the counter equals what is held, less the increments and plus the
  decrements pending, and pending increments never exceed what is held.  The
  second half is what keeps a decrement from wrapping.
* `FreshInv`: an object that was not created was never sent to the collector,
  and one that is being removed was; the refinement needs both, for creation and
  for removal.
* The refinement maps `lapsed` to the objects whose color is no longer `inUse` or
  that a goroutine is about to send to the collector, and each step to a step of `ProcessCacheAbs` or a stutter.

### PolicyFilterProofs

Proved for every set of pods, containers, cgroup ids, policies and labels and
every choice of selectors: `FilterTypeCorrect`, `AppliedCorrect`, `NoGapCorrect`
and `ReverseCorrect`, each under `Roomy`: the reverse map is enabled and both maps
have room for every cgroup id.  Both halves are needed: `filter_no_reverse`
refutes `Applied` without the first, `MCPolicyFilterFull` refutes `Reverse`
without the second.

`Applied` compares the maps with the labels, which an update changes before it
changes the maps, while the steps go by the policies a pod is cached to match.  So
the inductive invariant says two things at every step: the cached policies are
those the labels call for (`MatchedOK`), and the maps are what the cached policies
and containers call for (`Exact`).  `UpdateOK` and `OwnContainers` say that an
update touches containers of its own pod only: without them a change for one pod
could take an entry of another out of the maps.  `UpdateExact` is the lemma all
actions rest on: what is deleted was there and no policy both gains and loses, so
both maps end up as asked and agree with each other.

### EventServerProofs

Proved for every set of producers and clients, every filter and every size of the
queues and buffers: `ServerTypeCorrect`, `InOrderCorrect`, `OnlyOwnLossCorrect`
and `ListeningCorrect`.  The only assumptions are that the queue has room for one
event and that `NoOne` is no producer; a channel of the aggregator may have any size,
0 included, and its sends may fail.

`InOrder` speaks of what a client has received; the invariant says it of all
places an event goes through (`Ordered`: received, buffered, in hand, queued, read
one after the other, are increasing) and that none of them is an event still to
come (`Past`: the event being handed out is in them only if the client has been
told of it, which makes the next append keep the order).  `HandOK` excludes that a
client without an aggregator has a buffer, which `send` would overtake.
`OwnLoss` is `OnlyOwnLoss` of one client; `NothingOwed` makes it true when a call
begins.  A step of one client leaves the invariant of all others alone (`Frame`,
`OneClient`), so that each action is argued for one client.

### ProcessEventsProofs

Proved for every set of pids and every number of exec ids, lost messages and
retries, with and without Kubernetes: `EventsTypeCorrect` and
`NotifiedOnceCorrect`.  Neither uses the timing assumptions of `ecTick` and
`Collect`, nor `PodInTime`: a message that is given up is reported too.

The other three need that nothing is given up too early, and say so:
`NothingUnsettledCorrect`, `BalancedCorrect` and `LiveReferencedCorrect` assume `PodInTime` (`MCProcessEventsPodLate` shows
`LiveReferenced` violated without it) and `[]Shallow`: no clone waits for a clone
that waits for another, and so on, `Reserve` or more deep.  Without it a clone at the
end of a longer chain is given up although all messages came: each walk of the event
cache settles only one link, in the worst order.  `FewKeysCorrect` removes that
hypothesis where there are no more exec ids than `Reserve`, which is the instance of
`events_safety`.

For `NotifiedOnce` the invariant says where a message is.  From when it is received until it is
reported it is in exactly one place (`ReportOK`, `Unique`): the last call of a
goroutine, the waiting objects, or the objects a walk still has to retry.  That it
is the last call (`LastOnly`) is what lets a handler, a cleanup or a retry put
calls in front without moving it, and what makes the goroutine's list empty after
the report.  `ProgOK` says that cleanup goroutines hold no report, since the
`go` statement overwrites their calls.  Counting by type and key is right because
the kernel sends one message of each type for a key (`WireOK`), which rests on
keys being handed out once and belonging to one task (`TaskOK`); what was not
received was not counted (`Unheard`).  Most steps move nothing (`Frame`, `Made`);
`Taken`, `EnqueueStep`, `NotifyStep`, `TickStep` and `RetryStep` are the five that
do.

`Balanced` and the others rest on a second invariant, `CInv`.  `SentOK` and `MsgOK`
tie the messages to the tasks they were sent for; `PlaceOK`, `SourceOK` and `BornOK`
say of every pending call which message it stems from and what has been cached by
then; `FlagOK` and `CleanupOK` what the flags of a waiting object promise about
calls already made.  `CountOK` is the heart: each counting call is made once, and
the count of a process is one, plus those who raised it, minus those who dropped
it.  `RaisedOK` and `HandledOK` say that each process has raised its parent and each
exit has dropped both, or is still about to; with nothing pending `Balanced` follows.
`CachedOK` says that whatever is still to be looked up is still cached, which is
where the guard of `Collect` enters.  What was lost is not found by anybody else
either (`Gone`, `GivenUpOK`), so that a live process keeps its reference also when
messages are lost.  `WalkOK` is the argument about retries: `rank` numbers the
clones along a chain, and after `n` walks a clone that still waits has rank `n` at
least, so with `Shallow` none is left before the retries run out.

### SensorManagerProofs

Proved for every set of goroutines and policies and any number of collections and
sensors, and any choice of cluster-wide keys: `SensorTypeCorrect`,
`OneWorkerCorrect`, `ListedCorrect` and `FilterAgreesCorrect`.  Assumptions: a policy
has at least one sensor and `NoOne` is no goroutine.

The map's lock is released while a policy is loaded, so none of the three is
inductive.  The invariant says of every collection who works on it and how far
that goroutine is (`WorkerOK`, `Progress`: the sensors loaded are those before the
loop counter, and after a roll-back none), who deletes it (`DeleteOK`) and whether
the filter knows it (`FilterOK`).  `TableOK` (no collection has two keys, one that
is still to be made has left no trace) is what makes a policy that is added again
independent of the old collection, and `RequestOK` that a removal, which holds the
lock across steps, finds the table as it left it, and that a request for a sensor has
put its collection into `touched`.  `ListedOK` is silent about such a collection, and
about one that a removal is destroying: a listing waits for its lock.  A step
of one goroutine leaves alone the collections it does not work on (`ColFrame`,
`Others`), so each action is argued for one collection.

### EnforcerProofs

Proved for every finite set of threads and every set of elements, requests and
counters: `EnforcerTypeCorrect`, `OwnRequestCorrect` and `AccountedCorrect`.
`OwnRequest` excepts the error of a thread whose element was taken, and lets a request
outlive its call where that call had no cleanup; `MCEnforcerReuse` shows that both
are needed.

`Exclusive` says that no two threads have the same element.  `PlaceOK` says for each
place of a thread what its element holds: `Holds`, that the entry is what was last
asked for, whoever else takes and gives back elements; `Fresh`, that before the
enforced function nothing was done to the call and what is wanted stems from it or
from one without a cleanup; and that an element which was deleted and is still being
read is free unless the thread is in `taken`.
`Accounted` is a sum over threads; `Weight` is a thread's share, and a step of a
thread changes only its own (`CardStep`).

The second part is about `MatchBinaries`, whose definitions carry the prefix `Mb`
where `Enforcer` has one of the same name.  Proved for every set of pids, paths and
policies and any number of ids, forks, execs and removals: `MbTypeCorrect`,
`FollowsLaterCorrect` and `OnlyDescendantsCorrect`.

* `FollowsLaterCorrect` has no hypothesis: it holds for every number of ids and every
  width of the int, for removals at once and for throttled execs.  `FollowsAlways`,
  without the exception of `spoiled`, is refuted by `MCMatchBinariesInt` (finding 12).
  `IdsOK` says that an id has one owner, or none while it is being removed, so that what
  a removal means to clear is no installed policy's; `ClearedOne` is what the mask does
  to the others.  `DueOK` follows a bit through a fork or exec that is under way: the
  path map has it (`MapHas`), the program that will OR it in holds it or will read it
  (`ProgHas`), the process has it (`DueHas`).
* `OnlyDescendantsCorrect` assumes `~Reuse`: `MCMatchBinariesReuse` shows that a
  reused pid leads the walk to a stranger's parent.  `BitsOK` says that each bit in
  the map, a task or a program belongs to some policy one of whose binaries the
  process or a forebear ran.  The walk reads `execve_map`'s parents and the property
  speaks of the kernel's; `TreeOK` says that each parent the walk sees is a real
  forebear.  A walk is the least set closed under steps, so what is shown of every
  closed set holds of it without induction (`MetLeast`, `AncestorsReach`); `ExitGrows`
  is the hard step, in which the children of an exiting process change parents.
* `MbTypeCorrect` includes that no process has a generation that `tg_mbset_gen` has
  not reached (`GenOK`).

### CgroupRateProofs

Proved for every set of cgroups and CPUs, every limit, interval, inactivity time,
lag and skew: `RateTypeCorrect`, `RateInRangeCorrect` and `MonitoredCorrect`.
`WordAssumption` says that `interval * MaxCount` and `2 * MaxCount` fit into the
64 bits of the counters: with the interval in nanoseconds, that a CPU posts less
than 2^64 / interval events in a window.  Nothing in the code checks it.

`RateInRange` of the map is not inductive, because the goroutine writes back
values it has looked up earlier: `AllSound` says the same of these, and bounds the
counts, without which the product in the estimate could wrap.  `ShareInRange` is
the arithmetic: the share of the last window, an integer division, is at most its
count.  `Monitored` is inductive beside it, since a value put back never throttles.

The second part is about `CgroupIdMap`, whose definitions carry the prefix `IdMap`
where `CgroupRate` has one of the same name.  Proved for every set of pods, every
finite set of containers and every size of the resolver's list: `IdMapTypeCorrect`,
and, under `OwnId`, `IndexedCorrect` and `RightContainerCorrect`.  `OwnId` says that
each container has one cgroup id of its own; `MCCgroupIdMapSub` shows what happens
where it has two, since `updateEntry` changes the id of an entry without its index
(finding 17).  `IndexOK` strengthens `Indexed`: both indices are inverse to the
entries, so an index that a removed entry gives up is no other entry's, and the id in
an entry is its container's.  `addEntry` then reuses a free entry to which no index
leads (`AddKeeps`), and `Update` frees exactly what it takes out of both indices
(`RemovedKeeps`).  `IdMapTypeCorrect` needs none of this.

### GenericKprobeProofs

Proved for every set of CPUs, threads and functions, every nesting, every size of
`retprobe_map` and every policy of at most six selectors with at most three
actions (`PolicyAssumption`; `ParseMatchActions` refuses more actions, the
documentation allows five selectors): `KprobeTypeCorrect`, `FirstMatchCorrect`,
`ListExecutedCorrect`, `MarkedCorrect` and `PairedCorrect`.  Their hypothesis
`NoFailures` says that no action of a policy fails; it holds in `kprobe_safety`,
and `MCGenericKprobeFd` refutes `ListExecuted` without it.

The properties are about calls whose entry chain is over.  The invariant says it
of these (`Settled`) and, for the call on top of each stack, what the chain has
established at each place (`ChainOK`): while the filters are walked the active set
is the active set of the selectors walked so far, past `setup` the call is marked
or lost, in `args` no selector before the present one matched, in `actions` the
one that passed is the first that matches.  `EntryOK` is what pairs returns: of the calls
of a function that a thread is inside of, the last one that got to
`retprobe_map_set` owns the entry, if there is one.  It needs that a thread is one
process (`StackOK`), since an inner call that the filters drop must not leave the
entry of an outer one for its own return to find.  Chains of other threads are
left alone by every step (`OthersStay`) although they may use the same slot later:
nothing in the invariant depends on what a slot held before a chain started.

### Only model-checked

* Every liveness property (`SendsComplete`, `CollectedUnlessBounced`, `CatchesUp`,
  `Completes`, `Resumes`, `NeverBlocks`, `Arrives`, `Found`): the prover does not
  handle fairness.

Nothing else that a passing run checks is without a theorem.  Some theorems have a
hypothesis, named with each above (`Roomy`, `PodInTime`, `Shallow`, `NoFailures`,
`~Reuse`, `OwnId`); each holds in the instance of the run, and a
configuration beside the runs shows the violation without it; for `Shallow` it is that
of `events_safety` with a `Reserve` of 2 and 3 retries instead, where TLC finds
`NothingUnsettled` violated: the exit of a clone of a clone of a clone is given up
while the clone itself still waits.

Each inductive invariant was checked by TLC before it was proved, on the instance of
the listed run; those of `ProcessEvents` on two pids, two exec ids, one lost message
and two retries (`NotifiedOnce`), or three retries with two in reserve (`CInv`,
12,278 states).

## 6. Findings

The run `filter_no_reverse` shows the first; the others are shown by the
configurations named with them.

1. `policyfilter/map.go:391` (`filter_no_reverse`): `delCgroupIDs` returns before
   it deletes anything where the reverse map is not enabled, which is the default:
   a container stays in the policy's map after a change of labels or its deletion.
   `policyfilter/state.go:820` says "removing cgroup ids for policies that did not
   match, but did match before".
2. `process/cache.go:98` (`MCProcessCacheCollected`): a process bounced from the
   delete queue is never queued again.  The comment at `cache.go:69-72` says a
   later zero is handled normally.  It stays cached until it is evicted.
3. `exec.go:206` (`MCProcessEventsPodLate`): with Kubernetes and a pod that stays
   unknown, an exec is given up before it references its parent, but its exit
   still drops that reference.
4. `handler.go:184` (`MCSensorManagerLeft`): a policy deleted while it is loading
   leaves its programs attached, since destroy does not take `muLoad`.
5. `collection.go:230` (`MCSensorManagerUnload`): a policy deleted while it is
   being disabled makes `unload` fail, which `handler.go:208-209` calls impossible.
6. `bpf_rate.h:144` (`MCCgroupRateLost`): `throttled` is set before the throttle
   message, which may be lost; no other message is ever sent and the agent only
   looks at cgroups it had a message of.  `cgroup-rate.md:14-15`: "The throttled
   cgroup is monitored".
7. `policyfilter/map.go:118` (`MCPolicyFilterFull`): a full reverse map loses
   cgroups the policy maps keep; `policy_filter.h:34-35` says it "keeps exactly the
   same information".
8. `policyfilter/state.go:942` (`MCPolicyFilterHook`): `UpdatePod` removes a
   container that a runtime hook has just added and the API server does not list
   yet.  `runtime-hooks.md:17-18` promises the state "before the container starts".
9. `generic_calls.h:1174` (`MCGenericKprobeStale`): the return chain filters with
   `e->sel.active` of the heap slot, which belongs to the entry chain that ran last
   on this CPU.  `selectors.md:28`: "all of its filters must match".
10. `retprobe_map.h:70` (`MCGenericKprobeAgain`): a recursive call overwrites the
    entry of the outer one, whose return then finds nothing.
11. `generic_calls.h:1080` (`MCGenericKprobeFd`): a failed `UnfollowFD` answers 0,
    which `do_actions` takes for the next index, and the list begins again.
12. `bpf_execve_map_update.c:50` (`MCMatchBinariesInt`): `~(1 << bit)` is computed
    in an int, so that clearing bit 31 clears the bits above it, and from bit 32 on
    the shift is undefined, while there are 64 ids (`mbset.go:25`).
    `mbset.go:84`: "clean up execve_map and unset ID bit from all its binary records".
    The same property, `FollowsAlways`, fails where a removal runs the batch of another
    one: `mbset.go:160` releases the lock before `execve_map_update_data` is used.
    (`MCMatchBinariesInt` with `IntBits = 8` and `TheBudgets`, which leave only this.)
13. `mbset.go:107` (`MCMatchBinariesLeak`): the id of a policy that failed to load
    is never returned; `mbset.go:79-80` says ids must be released.
14. `bpf_mbset.h:68` (`MCMatchBinariesReuse`): the walk over the ancestors may meet
    a process that has got the pid of a dead parent.
15. `mbset.go:145` (`MCMatchBinariesStale`): a fork or exec sets a bit behind the
    scan that was to remove it.
16. `bpf_enforcer.c:19` (`MCEnforcerReuse`): `data->error` is read after
    `map_delete_elem`, when another thread may have taken the element.
    `bpf_enforcer.h:72` (`OwnCall`, the same configuration): without the optional
    cleanup a request whose function was not called stays and is carried out at a later
    call under the same thread id, though `selectors.md` says of its example, which has
    no cleanup, that it kills a program "whenever it calls sys_dup or sys_dup2".
17. `cgidmap.go:152` (`MCCgroupIdMapSub`): `updateEntry` changes an entry's cgroup
    id but not the index; the old id later leads to another container.
18. `cgidmap/cri.go:109` (`MCCgroupIdMapDeleted`): the resolver adds a container
    after its pod was deleted, and nothing removes it.

## 7. Not modelled

* Process cache: the purge at shutdown, dumps, the order of the LRU list.
* Handlers: ancestors (off by default), contents of the protobuf messages,
  cgroup and kernel-stack messages, replacing a running event cache.
* Kernel side: arguments, paths, credentials, namespaces.
* Sensor manager: policy modes, the contents of the hooks, programs shared by
  several sensors and their counts, pin paths (a policy added again while the
  old one is still being unpinned uses the same directory).
* Policy filter: the namespace map, workloads, host selectors, listing the maps.
* Server: field filters, what the aggregator would sum up, other requests.
* Cgroup rate: configuration and metrics.  Exits are posted without a call of
  `cgroup_rate`, so they are neither counted nor held back.
* Generic kprobes: reading and encoding arguments, `rate_limit`, namespace and
  capability changes and their updates after posting (`generic_calls.h:1137-1162`), the
  loss of a posted event in a full ring buffer (1170), the drop of a call whose process
  has no entry (1299-1305), the action `NotifyEnforcer` (its effect is in `Enforcer`),
  missed kretprobes, tracepoints, LSM, uprobes and USDT; in the agent, the merge
  of entry and return messages.  `retprobe_map` keys by frame pointer.
* Match binaries: prefix and postfix operators; a process without an entry; the walk over the ancestors is one
  step, though other programs run during it.
* Enforcer: attaching; `generic_fmodret_override`, which reads its error after
  `map_delete_elem` too (`bpf_generic_kprobe.c:171-172`).
* Cgroup tracker, observer queue: left, see section 2.
* The generated kernel headers (`bpf/include/vmlinux_generated_*.h`), which are
  19 of 20 lines of the C sources and only declare types, libbpf, vendored code,
  and the parts `PROJECT.json` lists as `not_modelled` with their reason: they are
  I/O, layout of data, or generated.
