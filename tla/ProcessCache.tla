---------------------------- MODULE ProcessCache ----------------------------
(***************************************************************************)
(* The process cache of the agent (pkg/process/cache.go): ProcessInternal  *)
(* objects kept in an LRU cache, the reference counts that keep them       *)
(* there, and the garbage collector goroutine that removes them.           *)
(*                                                                         *)
(* A goroutine that handles an event looks processes up and then runs      *)
(* refInc and refDec on them one at a time; refDec blocks on the           *)
(* unbuffered deleteChan when it drops the last reference.  The collector  *)
(* either serves deleteChan or walks its delete queue on a tick; it cannot *)
(* do both, and it reads a reference count that other goroutines change    *)
(* while it walks.                                                         *)
(*                                                                         *)
(* Abstractions: the order of the LRU list and of the delete queue is left *)
(* out (any victim may be evicted, the walk visits the queue in any        *)
(* order), so each is an over-approximation of what the code does.         *)
(***************************************************************************)
EXTENDS Integers, Sequences, FiniteSets

CONSTANTS
  Procs,      \* the ProcessInternal objects, one for each exec id
  Goroutines, \* the goroutines that call into the cache
  CacheSize,  \* processCacheSize
  RefMax,     \* largest value of the refcnt counter, 2^32 - 1 in the code
  MaxOwed     \* bound: references the callers hold on one object at a time

ASSUME ProcsAssumption == IsFiniteSet(Procs)
ASSUME SizeAssumption == CacheSize \in Nat \ {0}
ASSUME GoroutinesAssumption == IsFiniteSet(Goroutines)
ASSUME MaxOwedAssumption == MaxOwed \in Nat \ {0}
\* The counter has room for every reference held and every drop under way.
ASSUME RefMaxAssumption ==
  RefMax \in Nat /\ RefMax >= MaxOwed + Cardinality(Goroutines)

VARIABLES
  born,        \* objects that have been created
  cache,       \* objects found by pc.get
  total,       \* the gauge processCacheTotal
  refcnt,      \* the atomic reference counts
  color,       \* garbage collection state, written by the collector only
  deleteQueue, \* occurrences of each object in deleteQueue still to visit
  newQueue,    \* occurrences of each object in the queue of the next tick
  walking,     \* the collector is inside its tick case
  removing,    \* the object the collector is about to remove, at most one
  todo,        \* refInc and refDec calls each goroutine still has to make
  owed,        \* references the callers hold and have not begun to drop
  fate,        \* how an object left the delete queue, if it did (history)
  quiet        \* collector visits that saw zero since the last message (history)

gcVars == <<deleteQueue, newQueue, walking, removing>>
cacheVars == <<born, cache, total, refcnt, color, gcVars, todo, fate, quiet>>
vars == <<cacheVars, owed>>

Colors == {"inUse", "deletePending", "deleteReady", "deleted"}
RefOp == [op : {"inc", "dec", "send"}, proc : Procs]
Inc(p) == [op |-> "inc", proc |-> p]
Dec(p) == [op |-> "dec", proc |-> p]
Send(p) == [op |-> "send", proc |-> p]

NoneQueued == [p \in Procs |-> 0]

CacheInit ==
  /\ born = {}
  /\ cache = {}
  /\ total = 0
  /\ refcnt = [p \in Procs |-> 0]
  /\ color = [p \in Procs |-> "inUse"]
  /\ deleteQueue = NoneQueued
  /\ newQueue = NoneQueued
  /\ walking = FALSE
  /\ removing = {}
  /\ todo = [g \in Goroutines |-> << >>]
  /\ fate = [p \in Procs |-> "none"]
  /\ quiet = [p \in Procs |-> 0]

-----------------------------------------------------------------------------
(***************************************************************************)
(* The LRU cache.  pc.add counts the object unless an entry was evicted to *)
(* make room for it.                                                       *)
(***************************************************************************)
LruFull(p) == p \notin cache /\ Cardinality(cache) >= CacheSize

\* lru.Cache.Add on a full cache drops one of the other entries.
LruAfterAdd(p) ==
  IF LruFull(p) THEN {(cache \ {v}) \cup {p} : v \in cache}
                ELSE {cache \cup {p}}

\* The new object has refcnt 1 and color inUse, the zero value.
add(p) ==
  /\ born' = born \cup {p}
  /\ refcnt' = [refcnt EXCEPT ![p] = 1]
  /\ cache' \in LruAfterAdd(p)
  /\ total' = IF LruFull(p) THEN total ELSE total + 1

\* Mutant: the gauge is decremented although nothing was removed.
removeUncounted(p) == cache' = cache \ {p} /\ total' = total - 1

remove(p) ==
  /\ cache' = cache \ {p}
  /\ total' = IF p \in cache THEN total - 1 ELSE total

-----------------------------------------------------------------------------
(***************************************************************************)
(* Reference counting, one atomic add at a time.                           *)
(***************************************************************************)
Ready(g) == todo[g] # << >>

\* The atomic uint32 wraps at both ends.
DecTwice(n) == n - 2 \* Mutant: one call drops two references.
IncWrap(n) == IF n = RefMax THEN 0 ELSE n + 1
DecWrap(n) == IF n = 0 THEN RefMax ELSE n - 1

refInc(g) ==
  /\ Ready(g) /\ Head(todo[g]).op = "inc"
  /\ LET p == Head(todo[g]).proc IN
     refcnt' = [refcnt EXCEPT ![p] = IncWrap(@)]
  /\ todo' = [todo EXCEPT ![g] = Tail(@)]
  /\ UNCHANGED <<born, cache, total, color, gcVars, fate, quiet>>

IsOne(ref) == ref = 1 \* Mutant: the last reference is taken for the one before.
IsLast(ref) == ref = 0

\* The goroutine that drops the last reference goes on to send the object on
\* deleteChan.
refDec(g) ==
  /\ Ready(g) /\ Head(todo[g]).op = "dec"
  /\ LET p == Head(todo[g]).proc
         ref == DecWrap(refcnt[p]) IN
     /\ refcnt' = [refcnt EXCEPT ![p] = ref]
     /\ todo' = [todo EXCEPT ![g] =
                   IF IsLast(ref) THEN <<Send(p)>> \o Tail(@) ELSE Tail(@)]
  /\ UNCHANGED <<born, cache, total, color, gcVars, fate, quiet>>

-----------------------------------------------------------------------------
(***************************************************************************)
(* The garbage collector goroutine.                                        *)
(***************************************************************************)

\* Mutants: only an object that was removed counts as sent before; the test
\* is the wrong way round.
Removed(p) == color[p] = "deleted"
FirstSent(p) == color[p] = "inUse"
Duplicate(p) == color[p] # "inUse"

\* case p := <-pc.deleteChan.  The test for inUse comes first, so an object
\* that was seen before is only set back to deletePending, even if it is no
\* longer queued.
gcReceive(g) ==
  /\ ~walking
  /\ Ready(g) /\ Head(todo[g]).op = "send"
  /\ LET p == Head(todo[g]).proc IN
     /\ color' = [color EXCEPT ![p] = "deletePending"]
     /\ quiet' = [quiet EXCEPT ![p] = 0]
     /\ IF Duplicate(p)
          THEN UNCHANGED deleteQueue
          ELSE deleteQueue' = [deleteQueue EXCEPT ![p] = @ + 1]
  /\ todo' = [todo EXCEPT ![g] = Tail(@)]
  /\ UNCHANGED <<born, cache, total, refcnt, newQueue, walking, removing, fate>>

\* case <-ticker.C.  A tick with an empty queue changes nothing.
gcTick ==
  /\ ~walking
  /\ deleteQueue # NoneQueued
  /\ walking' = TRUE
  /\ UNCHANGED <<born, cache, total, refcnt, color, deleteQueue, newQueue,
                 removing, todo, fate, quiet>>

\* Mutant: an object is removed on the first visit.
DueAtOnce(p) == color[p] # "inUse"
Due(p) == color[p] = "deleteReady"

\* One iteration of the walk, up to the call of pc.remove.
gcVisit(p) ==
  /\ walking /\ removing = {} /\ deleteQueue[p] > 0
  /\ deleteQueue' = [deleteQueue EXCEPT ![p] = @ - 1]
  /\ \/ /\ refcnt[p] # 0
        /\ fate' = [fate EXCEPT ![p] = "bounced"]
        /\ UNCHANGED <<newQueue, color, removing, quiet>>
     \/ /\ refcnt[p] = 0 /\ Due(p)
        /\ color' = [color EXCEPT ![p] = "deleted"]
        /\ removing' = {p}
        /\ fate' = [fate EXCEPT ![p] = "removed"]
        /\ quiet' = [quiet EXCEPT ![p] = @ + 1]
        /\ UNCHANGED newQueue
     \/ /\ refcnt[p] = 0 /\ ~Due(p)
        /\ color' = [color EXCEPT ![p] = "deleteReady"]
        /\ newQueue' = [newQueue EXCEPT ![p] = @ + 1]
        /\ quiet' = [quiet EXCEPT ![p] = @ + 1]
        /\ UNCHANGED <<removing, fate>>
  /\ UNCHANGED <<born, cache, total, refcnt, walking, todo>>

\* pc.remove(p.process), after the count was read.
gcRemove(p) ==
  /\ p \in removing
  /\ remove(p)
  /\ removing' = {}
  /\ UNCHANGED <<born, refcnt, color, deleteQueue, newQueue, walking, todo,
                 fate, quiet>>

\* Mutant: the walk goes on until nothing is left to visit again.
AllGone == deleteQueue = NoneQueued /\ newQueue = NoneQueued
AllVisited == deleteQueue = NoneQueued

\* deleteQueue = newQueue
gcEndWalk ==
  /\ walking /\ removing = {} /\ AllVisited
  /\ walking' = FALSE
  /\ deleteQueue' = newQueue
  /\ newQueue' = NoneQueued
  /\ UNCHANGED <<born, cache, total, refcnt, color, removing, todo, fate, quiet>>

Collector ==
  \/ \E g \in Goroutines : gcReceive(g)
  \/ gcTick
  \/ \E p \in Procs : gcVisit(p) \/ gcRemove(p)
  \/ gcEndWalk

RefCounting == \E g \in Goroutines : refInc(g) \/ refDec(g)

-----------------------------------------------------------------------------
(***************************************************************************)
(* Callers.  A goroutine between two events adds an object, or finds one   *)
(* and takes a reference, or drops a reference the callers own.  The       *)
(* lookup and the refInc that follows it are two steps, as they are in the *)
(* event handlers; a dropped reference need not be one this goroutine      *)
(* took.                                                                   *)
(***************************************************************************)
AddProcess(g, p) ==
  /\ ~Ready(g) /\ p \notin born
  /\ add(p)
  /\ owed' = [owed EXCEPT ![p] = @ + 1]
  /\ UNCHANGED <<color, gcVars, todo, fate, quiet>>

Reference(g, p) ==
  /\ ~Ready(g) /\ p \in cache
  /\ owed[p] < MaxOwed
  /\ todo' = [todo EXCEPT ![g] = <<Inc(p)>>]
  /\ owed' = [owed EXCEPT ![p] = @ + 1]
  /\ UNCHANGED <<born, cache, total, refcnt, color, gcVars, fate, quiet>>

\* A reference is dropped after it was taken: no refInc of it is pending.
\* That is how the callers are to use the cache, which does not enforce it;
\* whether they do is checked in ProcessEvents, where the calls of a handler
\* are steps and the counts are compared with the live processes.
Release(g, p) ==
  /\ ~Ready(g) /\ owed[p] > 0
  /\ \A h \in Goroutines : ~(Ready(h) /\ Head(todo[h]) = Inc(p))
  /\ todo' = [todo EXCEPT ![g] = <<Dec(p)>>]
  /\ owed' = [owed EXCEPT ![p] = @ - 1]
  /\ UNCHANGED <<born, cache, total, refcnt, color, gcVars, fate, quiet>>

Callers ==
  \E g \in Goroutines, p \in Procs :
    AddProcess(g, p) \/ Reference(g, p) \/ Release(g, p)

Init == CacheInit /\ owed = [p \in Procs |-> 0]

Next == Callers \/ ((RefCounting \/ Collector) /\ UNCHANGED owed)

Spec == Init /\ [][Next]_vars

\* A goroutine inside a call runs on; the ticker fires; a ready send is not
\* passed over for ever by select, which picks among its ready cases at
\* random.  Nothing obliges the callers to make another call.
Fairness ==
  /\ \A g \in Goroutines :
       /\ WF_vars((refInc(g) \/ refDec(g)) /\ UNCHANGED owed)
       /\ SF_vars(gcReceive(g) /\ UNCHANGED owed)
  /\ WF_vars(gcTick /\ UNCHANGED owed)
  /\ WF_vars((gcEndWalk \/ \E p \in Procs : gcVisit(p) \/ gcRemove(p))
               /\ UNCHANGED owed)

FairSpec == Spec /\ Fairness

-----------------------------------------------------------------------------
(***************************************************************************)
(* Properties.                                                             *)
(***************************************************************************)

\* Every variable keeps its type; a reference count stays within its width.
TypeOK ==
  /\ born \subseteq Procs
  /\ cache \subseteq born
  /\ total \in Int
  /\ refcnt \in [Procs -> 0 .. RefMax]
  /\ color \in [Procs -> Colors]
  /\ deleteQueue \in [Procs -> Nat]
  /\ newQueue \in [Procs -> Nat]
  /\ walking \in BOOLEAN
  /\ removing \in SUBSET Procs
  /\ todo \in [Goroutines -> Seq(RefOp)]
  /\ owed \in [Procs -> Nat]
  /\ fate \in [Procs -> {"none", "bounced", "removed"}]
  /\ quiet \in [Procs -> Nat]

\* The gauge processCacheTotal is the number of cached processes, across
\* additions, LRU evictions and removals of what was already evicted, and
\* the cache never outgrows its size.
GaugeIsSize ==
  /\ total = Cardinality(cache)
  /\ Cardinality(cache) <= CacheSize

Queued(p) == deleteQueue[p] + newQueue[p]

\* An object is on the delete queue at most once however many times its
\* count reaches zero, and it never comes back once it has left, so the
\* collector calls pc.remove at most once for it.
QueuedOnce ==
  \A p \in Procs :
    IF color[p] = "inUse" \/ fate[p] # "none"
      THEN Queued(p) = 0
      ELSE Queued(p) = 1

\* The goroutines that are at a given call.
Pending(call) == {g \in Goroutines : Ready(g) /\ Head(todo[g]) = call}

\* The ledger: at every interleaving of lookups, refInc and refDec the counter
\* is what the callers hold, less what they have not added yet, plus what they
\* have not subtracted yet.  It therefore neither wraps nor drops below zero.
Ledger ==
  \A p \in born :
    /\ refcnt[p] = owed[p] - Cardinality(Pending(Inc(p)))
                          + Cardinality(Pending(Dec(p)))
    /\ owed[p] >= Cardinality(Pending(Inc(p)))

\* No zero count is forgotten: an object that has lost its last reference is
\* being sent to the collector, is queued, or has left the queue.
NoLostDelete ==
  \A p \in born : refcnt[p] = 0 => \/ Pending(Send(p)) # {}
                                   \/ Queued(p) = 1
                                   \/ fate[p] # "none"

\* A process leaves the cache only to make room for another one, or after the
\* collector saw it unreferenced in two walks since the last message about it:
\* a message buys one full GC interval ("This will cause the GC to keep it
\* alive for at least another pass").
LeavesWhenDue ==
  [][\A p \in cache \ cache' : cache' \subseteq cache => quiet[p] >= 2]_vars

\* The objects that have been, or are about to be, sent on deleteChan are the
\* ones that lost a last reference.
Lapsed == {p \in born : color[p] # "inUse" \/ Pending(Send(p)) # {}}

Abs == INSTANCE ProcessCacheAbs WITH lapsed <- Lapsed

\* The cache with its collector, its queue and its channel implements that
\* promise: in particular no walk removes an object that was always referenced.
ImplementsAbs == Abs!AbsSpec

\* A goroutine that drops a last reference is not blocked on deleteChan for
\* ever, whatever the walks of the collector.
SendsComplete == \A g \in Goroutines : Ready(g) ~> ~Ready(g)

\* An unreferenced process leaves the cache, or is referenced again, or was
\* once found referenced by a walk.
CollectedUnlessBounced ==
  \A p \in Procs :
    (p \in cache /\ refcnt[p] = 0)
      ~> (p \notin cache \/ refcnt[p] # 0 \/ fate[p] = "bounced")

\* cache.go:69-72: a process found referenced is bounced from the remove list,
\* and a count that reaches zero again "we will handle normally".
Collected ==
  \A p \in Procs :
    (p \in cache /\ refcnt[p] = 0) ~> (p \notin cache \/ refcnt[p] # 0)

=============================================================================
