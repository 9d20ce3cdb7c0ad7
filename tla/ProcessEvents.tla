---------------------------- MODULE ProcessEvents ----------------------------
(***************************************************************************)
(* The life of a process through the agent: the BPF programs that report   *)
(* fork, exec and exit (bpf/process/bpf_fork.c, bpf_execve_event.c,        *)
(* bpf_exit.h), the handlers of those messages (pkg/grpc/exec/exec.go),    *)
(* the event cache that retries what could not be handled yet              *)
(* (pkg/eventcache/eventcache.go), and the reference counts they keep in   *)
(* the process cache (ProcessCacheAbs).                                    *)
(*                                                                         *)
(* Goroutines run concurrently: the observer handles one message after the *)
(* other; the event cache loop walks its objects on a tick or takes a new  *)
(* one from the unbuffered objsChan; each exec completed by that loop      *)
(* starts a goroutine for the old image.  A handler looks up what it needs *)
(* in one step and then makes its calls one at a time: the calls it still  *)
(* has to make are prog[g].                                                *)
(*                                                                         *)
(* Abstractions: an exec id is a number, in the order of creation; the     *)
(* lookups of one handler form one step; the LRU list does not fill up;    *)
(* ancestors are not enabled; every task but the root is in one container, *)
(* whose pod the watcher may learn of late or never; execve_map has room   *)
(* for every task, so the branches for a task without an entry are not     *)
(* taken.  A throttled exec (execve_rate) changes nothing here.  A         *)
(* negative count stands for the wrapped uint32 with the same residue.     *)
(***************************************************************************)
EXTENDS ProcessCacheAbs, Sequences

CONSTANTS
  Pids,       \* process ids of the tasks other than the root
  MaxKey,     \* bound: exec ids handed out
  MaxLost,    \* bound: messages lost between the kernel and the observer
  NumRetries, \* option.Config.EventCacheNumRetries
  Reserve,    \* retries an object has left when what it waits for was received
  K8s,        \* option.Config.EnableK8s
  PodInTime   \* the watcher learns of a pod before the retries run out

VARIABLES
  task,     \* execve_map: the key of each live pid, and its clone flag
  ppid,     \* the real parent of each live pid
  nextKey,  \* the next exec id
  wire,     \* messages in the per-CPU buffers, in no order
  lost,     \* messages lost so far
  object,   \* fields of each cached ProcessInternal: parent, docker, pod
  podKnown, \* the watcher has the pod of the container
  prog,     \* calls each goroutine still has to make
  waiting,  \* ec.cache; during a walk, the objects kept so far
  walk,     \* objects the walk of the event cache still has to retry
  walking,  \* the event cache loop is inside handleEvents
  notified, \* times each message was handed to the listeners
  received, \* messages the observer has taken (history)
  counted,  \* calls that raised or lowered a count (history)
  unsettled \* messages given up with calls still to make (history)

kernelVars == <<task, ppid, nextKey, lost>>
ecVars == <<waiting, walk, walking, unsettled>>
vars == <<absVars, kernelVars, wire, object, podKnown, prog, ecVars, notified,
          received, counted>>

Root == 0
None == -1
Keys == 1 .. MaxKey
ASSUME KeysAssumption == MaxKey \in Nat /\ Procs = {Root} \cup Keys
ASSUME OptionsAssumption ==
  /\ NumRetries \in Nat \ {0} /\ Reserve \in 1 .. NumRetries
  /\ MaxLost \in Nat /\ K8s \in BOOLEAN

Observer == 0
Loop == -1
Goroutines == {Observer, Loop} \cup Keys \* a key: the cleanup started by its exec

CloneMsg(k, parent) == [type |-> "clone", key |-> k, parent |-> parent]
ExecMsg(k, parent, old, cloned) ==
  [type |-> "exec", key |-> k, parent |-> parent, cleanup |-> old, clone |-> cloned]
ExitMsg(k) == [type |-> "exit", key |-> k]
CleanupMsg(k) == [type |-> "cleanup", key |-> k]
Notifies(m) == m.type \in {"exec", "exit"}

\* An object of the event cache: CacheObj, with the RefCntDone of its message.
CacheObj(m, internal) ==
  [msg |-> m, internal |-> internal, color |-> 0, parentDone |-> FALSE,
   procDone |-> FALSE]

\* A call that counts says for which process: by.
DoInc(k, c) == [op |-> "inc", key |-> k, by |-> c]
DoDec(k, c) == [op |-> "dec", key |-> k, by |-> c]
DoAdd(k, fields) == [op |-> "add", key |-> k, fields |-> fields]
DoEnqueue(o) == [op |-> "enqueue", obj |-> o]
DoNotify(m) == [op |-> "notify", msg |-> m]
DoCleanup(k) == [op |-> "cleanup", key |-> k]
DoGo(k, old) == [op |-> "go", key |-> k, old |-> old]

Idle(g) == prog[g] = << >>

-----------------------------------------------------------------------------
(***************************************************************************)
(* The kernel: tasks, and the BPF programs that keep execve_map.           *)
(***************************************************************************)
Alive == {pid \in Pids : task[pid].key # None}
KeyOf(pid) == IF pid = Root THEN Root ELSE task[pid].key

\* event_output: the message reaches a buffer or is lost.
Emit(m) ==
  \/ wire' = wire \cup {m} /\ UNCHANGED lost
  \/ lost < MaxLost /\ lost' = lost + 1 /\ UNCHANGED wire

Fork(pid, parent) ==
  /\ pid \notin Alive /\ parent \in Alive \cup {Root}
  /\ nextKey <= MaxKey
  /\ task' = [task EXCEPT ![pid] = [key |-> nextKey, clone |-> TRUE]]
  /\ ppid' = [ppid EXCEPT ![pid] = parent]
  /\ nextKey' = nextKey + 1
  /\ Emit(CloneMsg(nextKey, KeyOf(parent)))

\* The new image replaces the key; the old one is reported for cleanup.
Exec(pid) ==
  /\ pid \in Alive
  /\ nextKey <= MaxKey
  /\ task' = [task EXCEPT ![pid] = [key |-> nextKey, clone |-> FALSE]]
  /\ nextKey' = nextKey + 1
  /\ Emit(ExecMsg(nextKey, KeyOf(ppid[pid]), task[pid].key, task[pid].clone))
  /\ UNCHANGED ppid

\* The children of a dead task move to the root.
Exit(pid) ==
  /\ pid \in Alive
  /\ task' = [task EXCEPT ![pid] = [key |-> None, clone |-> FALSE]]
  /\ ppid' = [c \in Pids |-> IF ppid[c] = pid THEN Root ELSE ppid[c]]
  /\ Emit(ExitMsg(task[pid].key))
  /\ UNCHANGED nextKey

Kernel ==
  /\ \E pid \in Pids : \/ \E parent \in Pids \cup {Root} : Fork(pid, parent)
                       \/ Exec(pid)
                       \/ Exit(pid)
  /\ UNCHANGED <<absVars, object, podKnown, prog, ecVars, notified, received,
                 counted>>

-----------------------------------------------------------------------------
(***************************************************************************)
(* The handlers of the observer, up to their first call.                   *)
(***************************************************************************)
Parent(k) == object[k].parent

\* ec.Needed, of a process that is not nil.
Needed(fields) == K8s /\ fields.docker /\ ~fields.pod

\* process.AddCloneEvent: the new object copies the fields of its parent.
CloneFields(m) ==
  [parent |-> m.parent, docker |-> object[m.parent].docker,
   pod |-> object[m.parent].pod \/ (K8s /\ object[m.parent].docker /\ podKnown)]

\* Mutant: the parent of a clone is not referenced.
AddUnreferenced(m) == <<DoAdd(m.key, CloneFields(m))>>
AddCloneEvent(m) == <<DoInc(m.parent, m.key), DoAdd(m.key, CloneFields(m))>>

HandleClone(m) ==
  /\ prog' = [prog EXCEPT ![Observer] =
       IF m.parent \notin cache
         THEN <<DoEnqueue(CacheObj(m, FALSE))>>
         ELSE AddCloneEvent(m) \o
              (IF Needed(CloneFields(m)) THEN <<DoEnqueue(CacheObj(m, TRUE))>>
                                         ELSE << >>)]
  /\ UNCHANGED <<absVars, object>>

\* The parent of a new image is the old one, unless that was only a clone.
ExecParent(m) == IF m.cleanup = None \/ m.clone THEN m.parent ELSE m.cleanup

ExecFields(m) == [parent |-> ExecParent(m), docker |-> K8s, pod |-> K8s /\ podKnown]

\* getCleanupEvent
CleanupOf(m) == IF m.cleanup = None THEN << >> ELSE <<DoCleanup(m.cleanup)>>

HandleExec(m) ==
  /\ born' = born \cup {m.key}
  /\ cache' = cache \cup {m.key}
  /\ refcnt' = [refcnt EXCEPT ![m.key] = 1]
  /\ object' = [object EXCEPT ![m.key] = ExecFields(m)]
  /\ prog' = [prog EXCEPT ![Observer] =
       IF \/ Needed(ExecFields(m))
          \/ ExecParent(m) \notin cache
          \/ Needed(object[ExecParent(m)])
         THEN <<DoEnqueue(CacheObj(m, TRUE))>>
         ELSE <<DoInc(ExecParent(m), m.key)>> \o CleanupOf(m) \o <<DoNotify(m)>>]
  /\ UNCHANGED lapsed

Known(k) == k \in cache /\ Parent(k) \in cache

HandleExit(m) ==
  /\ prog' = [prog EXCEPT ![Observer] =
       IF ~Known(m.key) \/ Needed(object[m.key]) \/ Needed(object[Parent(m.key)])
         THEN <<DoEnqueue(CacheObj(m, FALSE))>>
         ELSE <<DoDec(Parent(m.key), m.key), DoDec(m.key, m.key), DoNotify(m)>>]
  /\ UNCHANGED <<absVars, object>>

Receive(m) ==
  /\ Idle(Observer)
  /\ wire' = wire \ {m}
  /\ received' = received \cup {m}
  /\ \/ m.type = "clone" /\ HandleClone(m)
     \/ m.type = "exec" /\ HandleExec(m)
     \/ m.type = "exit" /\ HandleExit(m)
  /\ UNCHANGED <<kernelVars, podKnown, ecVars, notified, counted>>

-----------------------------------------------------------------------------
(***************************************************************************)
(* The calls of a goroutine, one at a time.                                *)
(***************************************************************************)
At(g, op) == ~Idle(g) /\ Head(prog[g]).op = op
Return(g) == prog' = [prog EXCEPT ![g] = Tail(@)]

StepInc(g) ==
  /\ At(g, "inc")
  /\ RefInc(Head(prog[g]).key)
  /\ counted' = counted \cup {Head(prog[g])}
  /\ Return(g)
  /\ UNCHANGED <<object, ecVars, notified>>

StepDec(g) ==
  /\ At(g, "dec")
  /\ RefDec(Head(prog[g]).key)
  /\ counted' = counted \cup {Head(prog[g])}
  /\ Return(g)
  /\ UNCHANGED <<object, ecVars, notified>>

StepAdd(g) ==
  /\ At(g, "add")
  /\ LET k == Head(prog[g]).key IN
     /\ born' = born \cup {k}
     /\ cache' = cache \cup {k}
     /\ refcnt' = [refcnt EXCEPT ![k] = 1]
     /\ object' = [object EXCEPT ![k] = Head(prog[g]).fields]
  /\ Return(g)
  /\ UNCHANGED <<lapsed, ecVars, notified, counted>>

\* ec.Add: a send on objsChan, taken by the loop between two walks.
StepEnqueue(g) ==
  /\ At(g, "enqueue")
  /\ ~walking /\ Idle(Loop)
  /\ waiting' = Append(waiting, Head(prog[g]).obj)
  /\ Return(g)
  /\ UNCHANGED <<absVars, object, walk, walking, unsettled, notified, counted>>

StepNotify(g) ==
  /\ At(g, "notify")
  /\ LET m == Head(prog[g]).msg IN
     notified' = [notified EXCEPT ![<<m.type, m.key>>] = @ + 1]
  /\ Return(g)
  /\ UNCHANGED <<absVars, object, ecVars, counted>>

\* The lookups of the handler of a cleanup event.
StepCleanup(g) ==
  /\ At(g, "cleanup")
  /\ LET k == Head(prog[g]).key IN
     prog' = [prog EXCEPT ![g] =
       (IF Known(k) THEN <<DoDec(Parent(k), k), DoDec(k, k)>>
                    ELSE <<DoEnqueue(CacheObj(CleanupMsg(k), FALSE))>>) \o Tail(@)]
  /\ UNCHANGED <<absVars, object, ecVars, notified, counted>>

\* Mutant: the old image is handled on the goroutine of the loop.
StepInline(g) ==
  /\ At(g, "go")
  /\ prog' = [prog EXCEPT ![g] = <<DoCleanup(Head(@).old)>> \o Tail(@)]
  /\ UNCHANGED <<absVars, object, ecVars, notified, counted>>

\* go cleanupEvent.HandleMessage()
StepGo(g) ==
  /\ At(g, "go")
  /\ prog' = [prog EXCEPT ![g] = Tail(@),
                          ![Head(prog[g]).key] = <<DoCleanup(Head(prog[g]).old)>>]
  /\ UNCHANGED <<absVars, object, ecVars, notified, counted>>

Step(g) ==
  /\ \/ StepInc(g) \/ StepDec(g) \/ StepAdd(g) \/ StepEnqueue(g)
     \/ StepNotify(g) \/ StepCleanup(g) \/ StepGo(g)
  /\ UNCHANGED <<kernelVars, wire, podKnown, received>>

-----------------------------------------------------------------------------
(***************************************************************************)
(* The event cache loop.  A retry of an object makes the calls do, leaves  *)
(* the object as obj, and err says whether it has to be retried again.     *)
(***************************************************************************)
\* Mutant: RefCntDone is not looked at.
EachTime(done, call) == <<call>>
\* A call guarded by RefCntDone.
Once(done, call) == IF done THEN << >> ELSE <<call>>

Retried(do, obj, err) == [do |-> do, obj |-> obj, err |-> err]

RetryClone(o) ==
  LET m == o.msg
      fields == IF o.internal THEN object[m.key] ELSE CloneFields(m) IN
  IF ~o.internal /\ m.parent \notin cache
    THEN Retried(<< >>, o, TRUE)
    ELSE Retried(IF o.internal THEN << >> ELSE AddCloneEvent(m),
                 [o EXCEPT !.internal = TRUE],
                 Needed(fields) /\ ~podKnown)

\* The pod is waited for first: without it neither the parent is referenced
\* nor the old image cleaned up.
RetryExec(o) ==
  LET m == o.msg IN
  IF K8s /\ object[m.key].docker /\ ~podKnown
    THEN Retried(<< >>, o, TRUE)
  ELSE IF ~o.parentDone /\ Parent(m.key) \notin cache
    THEN Retried(<< >>, o, TRUE)
    ELSE Retried(Once(o.parentDone, DoInc(Parent(m.key), m.key)) \o
                 (IF m.cleanup = None THEN << >> ELSE <<DoGo(m.key, m.cleanup)>>),
                 [o EXCEPT !.parentDone = TRUE], FALSE)

\* RetryInternal of exit and cleanup: what is found is dropped once.
RetryDrop(o) ==
  LET k == o.msg.key
      proc == k \in cache
      parent == Known(k) IN
  Retried((IF parent THEN Once(o.parentDone, DoDec(Parent(k), k)) ELSE << >>) \o
          (IF proc THEN Once(o.procDone, DoDec(k, k)) ELSE << >>),
          [o EXCEPT !.parentDone = @ \/ parent, !.procDone = @ \/ proc,
                    !.internal = parent],
          ~parent)

\* HandleGenericEvent asks for a pod whether there is a container or not.
RetryExit(o) ==
  LET r == IF o.internal THEN Retried(<< >>, o, FALSE) ELSE RetryDrop(o) IN
  [r EXCEPT !.err = @ \/ (K8s /\ ~object[o.msg.key].pod)]

RetryObj(o) ==
  CASE o.msg.type = "clone" -> RetryClone(o)
    [] o.msg.type = "exec" -> RetryExec(o)
    [] o.msg.type = "exit" -> RetryExit(o)
    [] o.msg.type = "cleanup" -> RetryDrop(o)

\* The calls of the message have been made.
Settled(o) == IF o.msg.type \in {"exit", "cleanup"} THEN o.procDone /\ o.parentDone
              ELSE IF o.msg.type = "clone" THEN o.internal
              ELSE o.parentDone

\* Mutant: no retry.
OnlyTry(o) == TRUE
LastTry(o) == o.color + 1 >= NumRetries

\* Timing: a message is received before the last retries of what waits for it,
\* directly or through another waiting object (EventCacheNumRetries times the
\* retry delay is 30 s by default).
Urgent(o) == o.color + Reserve >= NumRetries
Quiet == wire = {} /\ \A g \in Goroutines : Idle(g)

Drained == Quiet /\ waiting = << >> /\ ~walking

ecTick ==
  /\ ~walking /\ Idle(Loop) /\ waiting # << >>
  /\ (\E i \in DOMAIN waiting : Urgent(waiting[i]))
       => Quiet /\ (K8s /\ PodInTime => podKnown)
  /\ walking' = TRUE
  /\ walk' = waiting
  /\ waiting' = << >>
  /\ UNCHANGED <<absVars, object, prog, unsettled>>

\* Mutant: an object that stays is reported too.
TellAlways(m, done) == IF Notifies(m) THEN <<DoNotify(m)>> ELSE << >>
\* NotifyListener, for a message that is done.
Tell(m, done) == IF done /\ Notifies(m) THEN <<DoNotify(m)>> ELSE << >>

ecRetry ==
  /\ walking /\ Idle(Loop) /\ walk # << >>
  /\ walk' = Tail(walk)
  /\ LET o == Head(walk)
         r == RetryObj(o)
         done == ~r.err \/ LastTry(o) IN
     /\ prog' = [prog EXCEPT ![Loop] = r.do \o Tell(o.msg, done)]
     /\ waiting' = IF done THEN waiting
                   ELSE Append(waiting, [r.obj EXCEPT !.color = @ + 1])
     /\ unsettled' = IF r.err /\ LastTry(o) /\ ~Settled(r.obj)
                      THEN unsettled \cup {o.msg} ELSE unsettled
     /\ object' = IF podKnown /\ o.msg.type \in {"clone", "exec"} /\ o.internal
                    THEN [object EXCEPT ![o.msg.key].pod = K8s /\ object[o.msg.key].docker]
                    ELSE object
  /\ UNCHANGED <<absVars, walking>>

ecEnd ==
  /\ walking /\ Idle(Loop) /\ walk = << >>
  /\ walking' = FALSE
  /\ UNCHANGED <<absVars, object, prog, waiting, walk, unsettled>>

EventCache ==
  /\ ecTick \/ ecRetry \/ ecEnd
  /\ UNCHANGED <<kernelVars, wire, podKnown, notified, received, counted>>

-----------------------------------------------------------------------------
\* The watcher learns of the pod.
PodArrives ==
  /\ K8s /\ ~podKnown
  /\ podKnown' = TRUE
  /\ UNCHANGED <<absVars, kernelVars, wire, object, prog, ecVars, notified,
                 received, counted>>

\* The collector, at least one GC interval after it was told of a zero count.
\* Timing: by then (30 s) the handlers under way have made their calls.
Collect(k) ==
  /\ Drained /\ refcnt[k] = 0
  /\ Expire(k)
  /\ UNCHANGED <<kernelVars, wire, object, podKnown, prog, ecVars, notified,
                 received, counted>>

Init ==
  /\ born = {Root} /\ cache = {Root} /\ lapsed = {}
  /\ refcnt = [p \in Procs |-> IF p = Root THEN 1 ELSE 0]
  /\ task = [p \in Pids |-> [key |-> None, clone |-> FALSE]]
  /\ ppid = [p \in Pids |-> Root]
  /\ nextKey = 1 /\ wire = {} /\ lost = 0
  /\ object = [p \in Procs |-> [parent |-> Root, docker |-> FALSE, pod |-> FALSE]]
  /\ podKnown = FALSE
  /\ prog = [g \in Goroutines |-> << >>]
  /\ waiting = << >> /\ walk = << >> /\ walking = FALSE /\ unsettled = {}
  /\ received = {} /\ counted = {}
  /\ notified = [m \in {"exec", "exit"} \X Keys |-> 0]

Next ==
  \/ Kernel
  \/ \E m \in wire : Receive(m)
  \/ \E g \in Goroutines : Step(g)
  \/ EventCache
  \/ PodArrives
  \/ \E k \in Procs : Collect(k)

Spec == Init /\ [][Next]_vars

-----------------------------------------------------------------------------
\* A call sent on objsChan is received in the end although ticks compete with
\* it: select picks among its ready cases at random.  Other goroutines run on,
\* buffers are read and the ticker fires.
Fairness ==
  /\ WF_vars(\E m \in wire : Receive(m))
  /\ \A g \in Goroutines : SF_vars(Step(g))
  /\ WF_vars(EventCache)

FairSpec == Spec /\ Fairness

-----------------------------------------------------------------------------
(***************************************************************************)
(* Properties.                                                             *)
(***************************************************************************)
Fields == [parent : Procs, docker : BOOLEAN, pod : BOOLEAN]
WireMsg ==
  [type : {"clone"}, key : Keys, parent : Procs]
    \cup [type : {"exec"}, key : Keys, parent : Procs, cleanup : Procs,
          clone : BOOLEAN]
    \cup [type : {"exit"}, key : Keys]
CacheObjs ==
  [msg : WireMsg \cup [type : {"cleanup"}, key : Procs], internal : BOOLEAN,
   color : 0 .. NumRetries - 1, parentDone : BOOLEAN, procDone : BOOLEAN]
Calls ==
  [op : {"inc", "dec"}, key : Procs, by : Procs]
    \cup [op : {"cleanup"}, key : Procs]
    \cup [op : {"add"}, key : Keys, fields : Fields]
    \cup [op : {"enqueue"}, obj : CacheObjs]
    \cup [op : {"notify"}, msg : WireMsg]
    \cup [op : {"go"}, key : Keys, old : Procs]

\* Every variable keeps its type; only created objects are cached or counted.
TypeOK ==
  /\ born \subseteq Procs /\ cache \subseteq born /\ lapsed \subseteq born
  /\ refcnt \in [Procs -> Int]
  /\ task \in [Pids -> [key : Keys \cup {None}, clone : BOOLEAN]]
  /\ ppid \in [Pids -> Pids \cup {Root}]
  /\ nextKey \in 1 .. MaxKey + 1 /\ lost \in 0 .. MaxLost
  /\ wire \subseteq WireMsg /\ received \subseteq WireMsg
  /\ counted \subseteq Calls
  /\ object \in [Procs -> Fields]
  /\ podKnown \in BOOLEAN /\ walking \in BOOLEAN
  /\ prog \in [Goroutines -> Seq(Calls)]
  /\ waiting \in Seq(CacheObjs) /\ walk \in Seq(CacheObjs)
  /\ notified \in [{"exec", "exit"} \X Keys -> Nat]

Live == {Root} \cup {task[pid].key : pid \in Alive}

\* Each exec and exit the observer takes is reported exactly once, whether it
\* is handled at once, retried, or given up, and in whatever order and on
\* whichever goroutine.
NotifiedOnce ==
  /\ \A m \in DOMAIN notified : notified[m] <= 1
  /\ Drained => \A m \in received : Notifies(m) => notified[<<m.type, m.key>>] = 1

\* With every message delivered, in any order, and every pod known in time,
\* nothing is given up before its references are settled.
NothingUnsettled == lost = 0 => unsettled = {}

\* Once everything is handled, the count of a process is one for its own life
\* and one for each live process that has it as a parent, although handlers
\* and retries made their calls in any order: process++ and process--,
\* parent++ and parent-- pair up.
Balanced ==
  Drained /\ lost = 0 =>
    \A k \in born :
      refcnt[k] = Cardinality({k} \cap Live)
                  + Cardinality({c \in Live \ {Root} : Parent(c) = k})

\* Whatever was lost: once everything is handled, a live process the cache has
\* learnt of is referenced, and no count is below zero.
LiveReferenced ==
  Drained => /\ \A k \in Live \cap born : refcnt[k] > 0
             /\ \A k \in born : refcnt[k] >= 0

\* The agent always catches up: no goroutine waits for ever on objsChan, and
\* every waiting object is completed or given up.
CatchesUp == []<>Drained

=============================================================================
