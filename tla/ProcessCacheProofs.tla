------------------------- MODULE ProcessCacheProofs -------------------------
(***************************************************************************)
(* Proofs about ProcessCache, for every set of processes and goroutines,   *)
(* every cache size and every counter width.                               *)
(***************************************************************************)
EXTENDS ProcessCache, FiniteSetTheorems, TLAPS

-----------------------------------------------------------------------------
(***************************************************************************)
(* Types.  A goroutine has at most one call under way between two events.  *)
(***************************************************************************)
OneCall == \A g \in Goroutines : Len(todo[g]) <= 1

\* A goroutine with a call under way is at that call and has no other.
LEMMA ReadyCall ==
  ASSUME TypeOK, OneCall, NEW g \in Goroutines, Ready(g)
  PROVE  /\ Head(todo[g]) \in RefOp
         /\ todo[g] = <<Head(todo[g])>>
         /\ Tail(todo[g]) = << >>
BY DEF TypeOK, OneCall, Ready

\* Counters stay within their width.
LEMMA WrapType ==
  ASSUME NEW n \in 0 .. RefMax
  PROVE  IncWrap(n) \in 0 .. RefMax /\ DecWrap(n) \in 0 .. RefMax
BY RefMaxAssumption DEF IncWrap, DecWrap

\* What a call of refInc does to the call it is at.
LEMMA IncStep ==
  ASSUME TypeOK, OneCall, NEW g \in Goroutines, refInc(g)
  PROVE  \E p \in Procs :
           /\ todo[g] = <<Inc(p)>>
           /\ refcnt' = [refcnt EXCEPT ![p] = IncWrap(refcnt[p])]
           /\ todo' = [todo EXCEPT ![g] = << >>]
<1>1. Head(todo[g]) \in RefOp /\ Head(todo[g]).op = "inc"
  BY ReadyCall DEF refInc
<1>2. Head(todo[g]).proc \in Procs /\ Head(todo[g]) = Inc(Head(todo[g]).proc)
  BY <1>1 DEF RefOp, Inc
<1>3. todo[g] = <<Inc(Head(todo[g]).proc)>>
  BY <1>2, ReadyCall DEF refInc
<1>4. QED
  BY <1>2, <1>3, ReadyCall DEF refInc, TypeOK

\* What a call of refDec does: it ends, or goes on to the send.
LEMMA DecStep ==
  ASSUME TypeOK, OneCall, NEW g \in Goroutines, refDec(g)
  PROVE  \E p \in Procs :
           /\ todo[g] = <<Dec(p)>>
           /\ refcnt' = [refcnt EXCEPT ![p] = DecWrap(refcnt[p])]
           /\ todo' = [todo EXCEPT ![g] = IF DecWrap(refcnt[p]) = 0
                                            THEN <<Send(p)>> ELSE << >>]
<1>1. Head(todo[g]) \in RefOp /\ Head(todo[g]).op = "dec"
  BY ReadyCall DEF refDec
<1> DEFINE q == Head(todo[g]).proc
<1>2. q \in Procs /\ Head(todo[g]) = Dec(q)
  BY <1>1 DEF RefOp, Dec
<1>3. todo[g] = <<Dec(q)>>
  BY <1>2, ReadyCall DEF refDec
<1>4. Tail(todo[g]) = << >> /\ <<Send(q)>> \o << >> = <<Send(q)>>
  BY ReadyCall DEF refDec, Send
<1>5. todo' = [todo EXCEPT ![g] = IF DecWrap(refcnt[q]) = 0
                                    THEN <<Send(q)>> ELSE << >>]
  BY <1>4 DEF refDec, IsLast, TypeOK
<1>6. refcnt' = [refcnt EXCEPT ![q] = DecWrap(refcnt[q])]
  BY DEF refDec
<1> HIDE DEF q
<1>7. QED
  BY <1>2, <1>3, <1>5, <1>6

\* What the collector does with a message on deleteChan.
LEMMA ReceiveStep ==
  ASSUME TypeOK, OneCall, NEW g \in Goroutines, gcReceive(g)
  PROVE  \E p \in Procs :
           /\ todo[g] = <<Send(p)>>
           /\ todo' = [todo EXCEPT ![g] = << >>]
           /\ color' = [color EXCEPT ![p] = "deletePending"]
           /\ quiet' = [quiet EXCEPT ![p] = 0]
           /\ \/ color[p] # "inUse" /\ deleteQueue' = deleteQueue
              \/ /\ color[p] = "inUse"
                 /\ deleteQueue' = [deleteQueue EXCEPT ![p] = deleteQueue[p] + 1]
<1>1. Head(todo[g]) \in RefOp /\ Head(todo[g]).op = "send"
  BY ReadyCall DEF gcReceive
<1> DEFINE q == Head(todo[g]).proc
<1>2. q \in Procs /\ Head(todo[g]) = Send(q)
  BY <1>1 DEF RefOp, Send
<1>3. todo[g] = <<Send(q)>> /\ Tail(todo[g]) = << >>
  BY <1>2, ReadyCall DEF gcReceive
<1>4. /\ todo' = [todo EXCEPT ![g] = << >>]
      /\ color' = [color EXCEPT ![q] = "deletePending"]
      /\ quiet' = [quiet EXCEPT ![q] = 0]
  BY <1>3 DEF gcReceive
<1>5. IF color[q] # "inUse"
        THEN UNCHANGED deleteQueue
        ELSE deleteQueue' = [deleteQueue EXCEPT ![q] = deleteQueue[q] + 1]
  BY DEF gcReceive, Duplicate
<1> HIDE DEF q
<1>6. QED
  BY <1>2, <1>3, <1>4, <1>5

\* The initial state is well typed.
LEMMA TypeInit == Init => TypeOK /\ OneCall
<1> SUFFICES ASSUME Init PROVE TypeOK /\ OneCall
  OBVIOUS
<1>1. refcnt \in [Procs -> 0 .. RefMax]
  BY RefMaxAssumption DEF Init, CacheInit
<1>2. todo \in [Goroutines -> Seq(RefOp)] /\ OneCall
  BY DEF Init, CacheInit, OneCall
<1>3. walking \in BOOLEAN /\ removing \in SUBSET Procs
  BY DEF Init, CacheInit
<1>4. QED
  BY <1>1, <1>2, <1>3 DEF Init, CacheInit, TypeOK, NoneQueued, Colors

\* Every step keeps the types.
LEMMA TypeNext == TypeOK /\ OneCall /\ [Next]_vars => TypeOK' /\ OneCall'
<1> SUFFICES ASSUME TypeOK, OneCall, [Next]_vars PROVE TypeOK' /\ OneCall'
  OBVIOUS
<1>1. ASSUME NEW g \in Goroutines, NEW p \in Procs, AddProcess(g, p)
      PROVE  TypeOK' /\ OneCall'
  <2>1. cache' \subseteq born' /\ born' \subseteq Procs
    BY <1>1 DEF AddProcess, add, LruAfterAdd, TypeOK
  <2>2. refcnt' \in [Procs -> 0 .. RefMax]
    <3>1. 1 \in 0 .. RefMax
      BY RefMaxAssumption, MaxOwedAssumption, GoroutinesAssumption,
         FS_CardinalityType
    <3>2. QED
      BY <1>1, <3>1 DEF AddProcess, add, TypeOK
  <2>3. total' \in Int
    BY <1>1 DEF AddProcess, add, TypeOK
  <2>4. owed' \in [Procs -> Nat]
    BY <1>1 DEF AddProcess, TypeOK
  <2>5. UNCHANGED <<color, deleteQueue, newQueue, walking, removing, todo, fate,
                    quiet>>
    BY <1>1 DEF AddProcess, gcVars
  <2>6. QED
    BY <2>1, <2>2, <2>3, <2>4, <2>5 DEF TypeOK, OneCall
<1>2. ASSUME NEW g \in Goroutines, NEW p \in Procs, Reference(g, p)
      PROVE  TypeOK' /\ OneCall'
  <2>1. todo' \in [Goroutines -> Seq(RefOp)] /\ OneCall'
    BY <1>2 DEF Reference, TypeOK, OneCall, RefOp, Inc
  <2>2. QED
    BY <1>2, <2>1 DEF Reference, gcVars, TypeOK
<1>3. ASSUME NEW g \in Goroutines, NEW p \in Procs, Release(g, p)
      PROVE  TypeOK' /\ OneCall'
  <2>1. todo' \in [Goroutines -> Seq(RefOp)] /\ OneCall'
    BY <1>3 DEF Release, TypeOK, OneCall, RefOp, Dec
  <2>2. owed' \in [Procs -> Nat]
    BY <1>3 DEF Release, TypeOK
  <2>3. QED
    BY <1>3, <2>1, <2>2 DEF Release, gcVars, TypeOK
<1>4. ASSUME NEW g \in Goroutines, refInc(g), UNCHANGED owed
      PROVE  TypeOK' /\ OneCall'
  <2>1. PICK p \in Procs :
          /\ refcnt' = [refcnt EXCEPT ![p] = IncWrap(refcnt[p])]
          /\ todo' = [todo EXCEPT ![g] = << >>]
    BY <1>4, IncStep
  <2>2. refcnt' \in [Procs -> 0 .. RefMax]
    BY <2>1, WrapType DEF TypeOK
  <2>3. todo' \in [Goroutines -> Seq(RefOp)] /\ OneCall'
    BY <2>1 DEF TypeOK, OneCall
  <2>4. QED
    BY <1>4, <2>2, <2>3 DEF refInc, gcVars, TypeOK
<1>5. ASSUME NEW g \in Goroutines, refDec(g), UNCHANGED owed
      PROVE  TypeOK' /\ OneCall'
  <2>1. PICK p \in Procs :
          /\ refcnt' = [refcnt EXCEPT ![p] = DecWrap(refcnt[p])]
          /\ todo' = [todo EXCEPT ![g] = IF DecWrap(refcnt[p]) = 0
                                           THEN <<Send(p)>> ELSE << >>]
    BY <1>5, DecStep
  <2>2. refcnt' \in [Procs -> 0 .. RefMax]
    BY <2>1, WrapType DEF TypeOK
  <2>3. <<Send(p)>> \in Seq(RefOp) /\ Len(<<Send(p)>>) = 1
    BY DEF Send, RefOp
  <2>4. todo' \in [Goroutines -> Seq(RefOp)] /\ OneCall'
    BY <2>1, <2>3 DEF TypeOK, OneCall
  <2>5. QED
    BY <1>5, <2>2, <2>4 DEF refDec, gcVars, TypeOK
<1>6. ASSUME NEW g \in Goroutines, gcReceive(g), UNCHANGED owed
      PROVE  TypeOK' /\ OneCall'
  <2>1. PICK p \in Procs :
          /\ todo' = [todo EXCEPT ![g] = << >>]
          /\ color' = [color EXCEPT ![p] = "deletePending"]
          /\ quiet' = [quiet EXCEPT ![p] = 0]
          /\ \/ deleteQueue' = deleteQueue
             \/ deleteQueue' = [deleteQueue EXCEPT ![p] = deleteQueue[p] + 1]
    BY <1>6, ReceiveStep
  <2>2. todo' \in [Goroutines -> Seq(RefOp)] /\ OneCall'
    BY <2>1 DEF TypeOK, OneCall
  <2>3. /\ color' \in [Procs -> Colors]
        /\ quiet' \in [Procs -> Nat]
        /\ deleteQueue' \in [Procs -> Nat]
    BY <2>1 DEF TypeOK, Colors
  <2>4. QED
    BY <1>6, <2>2, <2>3 DEF gcReceive, TypeOK
<1>7. ASSUME gcTick, UNCHANGED owed
      PROVE  TypeOK' /\ OneCall'
  BY <1>7 DEF gcTick, TypeOK, OneCall
<1>8. ASSUME NEW p \in Procs, gcVisit(p), UNCHANGED owed
      PROVE  TypeOK' /\ OneCall'
  <2>1. /\ deleteQueue' \in [Procs -> Nat]
        /\ newQueue' \in [Procs -> Nat]
        /\ quiet' \in [Procs -> Nat]
    BY <1>8, SMTT(30) DEF gcVisit, Due, TypeOK
  <2>2. /\ color' \in [Procs -> Colors]
        /\ fate' \in [Procs -> {"none", "bounced", "removed"}]
        /\ removing' \in SUBSET Procs
    BY <1>8 DEF gcVisit, Due, TypeOK, Colors
  <2>3. QED
    BY <1>8, <2>1, <2>2 DEF gcVisit, Due, TypeOK, OneCall
<1>9. ASSUME NEW p \in Procs, gcRemove(p), UNCHANGED owed
      PROVE  TypeOK' /\ OneCall'
  BY <1>9 DEF gcRemove, remove, TypeOK, OneCall
<1>10. ASSUME gcEndWalk, UNCHANGED owed
       PROVE  TypeOK' /\ OneCall'
  BY <1>10 DEF gcEndWalk, AllVisited, TypeOK, OneCall, NoneQueued
<1>11. ASSUME UNCHANGED vars
       PROVE  TypeOK' /\ OneCall'
  BY <1>11 DEF vars, cacheVars, gcVars, TypeOK, OneCall
<1>12. QED
  BY <1>1, <1>2, <1>3, <1>4, <1>5, <1>6, <1>7, <1>8, <1>9, <1>10, <1>11
  DEF Next, Callers, RefCounting, Collector

\* Spec => []TypeOK: every variable keeps its type, the reference counts their
\* width, in every behaviour of the cache.
THEOREM TypeCorrect == Spec => [](TypeOK /\ OneCall)
BY TypeInit, TypeNext, PTL DEF Spec
-----------------------------------------------------------------------------
(***************************************************************************)
(* The delete queue.  The inductive invariant ties an object's color to    *)
(* its place in the queue: only an object that was never sent is inUse,    *)
(* any other is queued exactly once until it leaves, and one that is       *)
(* queued as deleteReady was already seen unreferenced.                    *)
(***************************************************************************)
QueueInv(p) ==
  /\ color[p] = "inUse" => Queued(p) = 0 /\ fate[p] = "none"
  /\ fate[p] # "none" => Queued(p) = 0
  /\ color[p] # "inUse" /\ fate[p] = "none" => Queued(p) = 1
  /\ color[p] = "deleteReady" => quiet[p] >= 1
  /\ p \in removing => quiet[p] >= 2 /\ walking

QueuesInv == \A p \in Procs : QueueInv(p)

\* The queue invariant is kept by every step.
LEMMA QueueNext ==
  TypeOK /\ OneCall /\ QueuesInv /\ [Next]_vars => QueuesInv'
<1> SUFFICES ASSUME TypeOK, OneCall, QueuesInv, [Next]_vars,
                    NEW q \in Procs
             PROVE  QueueInv(q)'
  BY DEF QueuesInv
<1> QueueInv(q)
  BY DEF QueuesInv
<1> USE DEF QueueInv, Queued
<1>1. ASSUME UNCHANGED <<color, deleteQueue, newQueue, walking, removing, fate,
                         quiet>>
      PROVE  QueueInv(q)'
  BY <1>1
<1>2. CASE Callers
  BY <1>1, <1>2 DEF Callers, AddProcess, Reference, Release, gcVars
<1>3. CASE RefCounting
  BY <1>1, <1>3 DEF RefCounting, refInc, refDec, gcVars
<1>4. ASSUME NEW g \in Goroutines, gcReceive(g)
      PROVE  QueueInv(q)'
  <2>1. PICK p \in Procs :
          /\ color' = [color EXCEPT ![p] = "deletePending"]
          /\ quiet' = [quiet EXCEPT ![p] = 0]
          /\ \/ color[p] # "inUse" /\ deleteQueue' = deleteQueue
             \/ /\ color[p] = "inUse"
                /\ deleteQueue' = [deleteQueue EXCEPT ![p] = deleteQueue[p] + 1]
    BY <1>4, ReceiveStep
  <2>2. /\ ~walking
        /\ UNCHANGED <<newQueue, walking, removing, fate>>
    BY <1>4 DEF gcReceive
  <2>3. CASE p = q
    BY <2>1, <2>2, <2>3 DEF TypeOK
  <2>4. CASE p # q
    BY <2>1, <2>2, <2>4 DEF TypeOK
  <2>5. QED
    BY <2>3, <2>4
<1>5. CASE gcTick
  BY <1>5 DEF gcTick, TypeOK
<1>6. ASSUME NEW p \in Procs, gcVisit(p)
      PROVE  QueueInv(q)'
  <2>1. CASE p # q
    BY <1>6, <2>1 DEF gcVisit, Due, TypeOK
  <2>2. CASE p = q /\ refcnt[q] # 0
    BY <1>6, <2>2 DEF gcVisit, Due, TypeOK
  <2>3. CASE p = q /\ refcnt[q] = 0 /\ color[q] = "deleteReady"
    BY <1>6, <2>3 DEF gcVisit, Due, TypeOK
  <2>4. CASE p = q /\ refcnt[q] = 0 /\ color[q] # "deleteReady"
    BY <1>6, <2>4 DEF gcVisit, Due, TypeOK
  <2>5. QED
    BY <2>1, <2>2, <2>3, <2>4
<1>7. ASSUME NEW p \in Procs, gcRemove(p)
      PROVE  QueueInv(q)'
  BY <1>7 DEF gcRemove
<1>8. CASE gcEndWalk
  BY <1>8 DEF gcEndWalk, AllVisited, NoneQueued, TypeOK
<1>9. CASE UNCHANGED vars
  BY <1>1, <1>9 DEF vars, cacheVars, gcVars
<1>10. QED
  BY <1>2, <1>3, <1>4, <1>5, <1>6, <1>7, <1>8, <1>9 DEF Next, Collector

\* The queue invariant holds in every state.
LEMMA QueuesCorrect == Spec => []QueuesInv
<1>1. Init => QueuesInv
  BY DEF Init, CacheInit, QueuesInv, QueueInv, Queued, NoneQueued
<1>2. QED
  BY <1>1, QueueNext, TypeCorrect, PTL DEF Spec

\* An object is queued for deletion at most once, whatever the interleaving of
\* refDec, deleteChan and the walks of the collector.
THEOREM QueuedOnceCorrect == Spec => []QueuedOnce
<1>1. QueuesInv => QueuedOnce
  BY DEF QueuesInv, QueueInv, QueuedOnce
<1>2. QED
  BY <1>1, QueuesCorrect, PTL

\* A process leaves the cache to make room, or after two walks found it
\* unreferenced.
THEOREM LeavesWhenDueCorrect == Spec => LeavesWhenDue
<1> DEFINE A == \A p \in cache \ cache' : cache' \subseteq cache => quiet[p] >= 2
<1>1. TypeOK /\ QueuesInv /\ [Next]_vars => [A]_vars
  <2> SUFFICES ASSUME TypeOK, QueuesInv, Next, NEW q \in cache \ cache',
                      cache' \subseteq cache
               PROVE  quiet[q] >= 2
    OBVIOUS
  <2>1. ASSUME NEW g \in Goroutines, NEW p \in Procs, AddProcess(g, p)
        PROVE  FALSE
    BY <2>1 DEF AddProcess, add, LruAfterAdd, LruFull, TypeOK
  <2>2. ASSUME NEW p \in Procs, gcRemove(p)
        PROVE  quiet[q] >= 2
    BY <2>2 DEF gcRemove, remove, QueuesInv, QueueInv, TypeOK
  <2>3. CASE UNCHANGED cache
    BY <2>3
  <2>4. QED
    BY <2>1, <2>2, <2>3
    DEF Next, Callers, Reference, Release, RefCounting, refInc, refDec,
        Collector, gcReceive, gcTick, gcVisit, gcEndWalk
<1>2. QED
  BY <1>1, TypeCorrect, QueuesCorrect, PTL DEF Spec, LeavesWhenDue

-----------------------------------------------------------------------------
(***************************************************************************)
(* The LRU cache and its gauge.                                            *)
(***************************************************************************)

\* The cached objects are finitely many.
LEMMA CacheFinite == TypeOK => IsFiniteSet(cache)
<1> SUFFICES ASSUME TypeOK PROVE IsFiniteSet(cache)
  OBVIOUS
<1>1. cache \in SUBSET Procs
  BY DEF TypeOK
<1>2. QED
  BY <1>1, ProcsAssumption, FS_Subset

\* The gauge counts the cached processes, and the cache keeps to its size.
THEOREM GaugeCorrect == Spec => []GaugeIsSize
<1>1. Init => GaugeIsSize
  BY FS_EmptySet, SizeAssumption DEF Init, CacheInit, GaugeIsSize
<1>2. TypeOK /\ GaugeIsSize /\ [Next]_vars => GaugeIsSize'
  <2> SUFFICES ASSUME TypeOK, GaugeIsSize, [Next]_vars PROVE GaugeIsSize'
    OBVIOUS
  <2>1. IsFiniteSet(cache) /\ Cardinality(cache) \in Nat
    BY CacheFinite, FS_CardinalityType
  <2>2. ASSUME NEW g \in Goroutines, NEW p \in Procs, AddProcess(g, p)
        PROVE  GaugeIsSize'
    <3>1. p \notin cache
      BY <2>2 DEF AddProcess, TypeOK
    <3>2. CASE LruFull(p)
      <4>1. PICK v \in cache : cache' = (cache \ {v}) \cup {p}
        BY <2>2, <3>2 DEF AddProcess, add, LruAfterAdd
      <4>2. /\ IsFiniteSet(cache \ {v})
            /\ Cardinality(cache \ {v}) = Cardinality(cache) - 1
        BY <2>1, FS_RemoveElement
      <4>3. Cardinality(cache') = Cardinality(cache \ {v}) + 1
        BY <3>1, <4>1, <4>2, FS_AddElement
      <4>4. total' = total
        BY <2>2, <3>2 DEF AddProcess, add
      <4>5. QED
        BY <2>1, <4>2, <4>3, <4>4 DEF GaugeIsSize
    <3>3. CASE ~LruFull(p)
      <4>1. cache' = cache \cup {p} /\ total' = total + 1
        BY <2>2, <3>3 DEF AddProcess, add, LruAfterAdd
      <4>2. Cardinality(cache') = Cardinality(cache) + 1
        BY <2>1, <3>1, <4>1, FS_AddElement
      <4>3. Cardinality(cache) < CacheSize
        BY <2>1, <3>1, <3>3, SizeAssumption DEF LruFull
      <4>4. QED
        BY <2>1, <4>1, <4>2, <4>3, SizeAssumption DEF GaugeIsSize
    <3>4. QED
      BY <3>2, <3>3
  <2>3. ASSUME NEW p \in Procs, gcRemove(p)
        PROVE  GaugeIsSize'
    <3>1. Cardinality(cache \ {p}) = IF p \in cache THEN Cardinality(cache) - 1
                                                    ELSE Cardinality(cache)
      BY <2>1, FS_RemoveElement
    <3>2. QED
      BY <2>1, <2>3, <3>1, SizeAssumption DEF gcRemove, remove, GaugeIsSize
  <2>4. CASE UNCHANGED <<cache, total>>
    BY <2>4 DEF GaugeIsSize
  <2>5. QED
    BY <2>2, <2>3, <2>4
    DEF Next, Callers, Reference, Release, RefCounting, refInc, refDec,
        Collector, gcReceive, gcTick, gcVisit, gcEndWalk, vars, cacheVars
<1>3. QED
  BY <1>1, <1>2, TypeCorrect, PTL DEF Spec
-----------------------------------------------------------------------------
(***************************************************************************)
(* The reference counts.  The ledger is inductive once the bound on what   *)
(* the callers hold and the objects not yet created are added to it.       *)
(***************************************************************************)
LedgerInv(p) ==
  /\ refcnt[p] = owed[p] - Cardinality(Pending(Inc(p)))
                        + Cardinality(Pending(Dec(p)))
  /\ owed[p] >= Cardinality(Pending(Inc(p)))
  /\ owed[p] <= MaxOwed
  /\ p \notin born => owed[p] = 0 /\ Pending(Dec(p)) = {}

LedgersInv == \A p \in Procs : LedgerInv(p)

\* The goroutines at one call are finitely many.
LEMMA PendingFinite ==
  ASSUME NEW call
  PROVE  /\ IsFiniteSet(Pending(call))
         /\ Cardinality(Pending(call)) \in Nat
         /\ Cardinality(Pending(call)) <= Cardinality(Goroutines)
<1>1. Pending(call) \in SUBSET Goroutines
  BY DEF Pending
<1>2. QED
  BY <1>1, GoroutinesAssumption, FS_Subset, FS_CardinalityType

\* A step of one goroutine to the call o takes it from the goroutines at any
\* other call.
LEMMA PendingJoin ==
  ASSUME TypeOK, NEW g \in Goroutines, NEW o \in RefOp,
         todo' = [todo EXCEPT ![g] = <<o>>]
  PROVE  \A call : Pending(call)' = IF o = call THEN Pending(call) \cup {g}
                                                ELSE Pending(call) \ {g}
<1> TAKE call
<1>1. \A h \in Goroutines : todo'[h] = IF h = g THEN <<o>> ELSE todo[h]
  BY DEF TypeOK
<1>2. Pending(call) = {h \in Goroutines : todo[h] # << >> /\ Head(todo[h]) = call}
  BY DEF Pending, Ready
<1>3. Pending(call)' = {h \in Goroutines : todo'[h] # << >> /\ Head(todo'[h]) = call}
  BY DEF Pending, Ready
<1>4. <<o>> # << >> /\ Head(<<o>>) = o
  OBVIOUS
<1>5. CASE o = call
  BY <1>1, <1>2, <1>3, <1>4, <1>5
<1>6. CASE o # call
  BY <1>1, <1>2, <1>3, <1>4, <1>6
<1>7. QED
  BY <1>5, <1>6

\* A goroutine that returns leaves the goroutines at its call.
LEMMA PendingLeave ==
  ASSUME TypeOK, NEW g \in Goroutines, todo' = [todo EXCEPT ![g] = << >>]
  PROVE  \A call : Pending(call)' = Pending(call) \ {g}
<1> TAKE call
<1>1. \A h \in Goroutines : todo'[h] = IF h = g THEN << >> ELSE todo[h]
  BY DEF TypeOK
<1>2. QED
  BY <1>1 DEF Pending, Ready

\* The calls a goroutine may be at, compared.
LEMMA CallsDiffer ==
  ASSUME NEW p, NEW q
  PROVE  /\ Inc(p) # Dec(q) /\ Inc(p) # Send(q) /\ Dec(p) # Send(q)
         /\ p # q => Inc(p) # Inc(q) /\ Dec(p) # Dec(q) /\ Send(p) # Send(q)
BY DEF Inc, Dec, Send

\* Cardinality of the goroutines at a call, after g joined or left them.
LEMMA PendingCard ==
  ASSUME NEW call, NEW g
  PROVE  /\ Cardinality(Pending(call) \cup {g}) =
              IF g \in Pending(call) THEN Cardinality(Pending(call))
                                      ELSE Cardinality(Pending(call)) + 1
         /\ Cardinality(Pending(call) \ {g}) =
              IF g \in Pending(call) THEN Cardinality(Pending(call)) - 1
                                      ELSE Cardinality(Pending(call))
         /\ g \in Pending(call) => Cardinality(Pending(call)) >= 1
<1>1. Pending(call) # {} => Cardinality(Pending(call)) # 0
  BY PendingFinite, FS_EmptySet
<1>2. IsFiniteSet(Pending(call)) /\ Cardinality(Pending(call)) \in Nat
  BY PendingFinite
<1>3. Cardinality(Pending(call) \cup {g}) =
        IF g \in Pending(call) THEN Cardinality(Pending(call))
                               ELSE Cardinality(Pending(call)) + 1
  BY <1>2, FS_AddElement
<1>4. Cardinality(Pending(call) \ {g}) =
        IF g \in Pending(call) THEN Cardinality(Pending(call)) - 1
                               ELSE Cardinality(Pending(call))
  BY <1>2, FS_RemoveElement
<1>5. QED
  BY <1>1, <1>2, <1>3, <1>4

\* A goroutine at a call is among the goroutines at that call and no other.
LEMMA AtCall ==
  ASSUME NEW g \in Goroutines, NEW call
  PROVE  g \in Pending(call) <=>
           todo[g] # << >> /\ Head(todo[g]) = call
BY DEF Pending, Ready

\* The ledger is kept by every step.
LEMMA LedgerNext ==
  TypeOK /\ OneCall /\ LedgersInv /\ [Next]_vars => LedgersInv'
<1> SUFFICES ASSUME TypeOK, OneCall, LedgersInv, [Next]_vars,
                    NEW q \in Procs
             PROVE  LedgerInv(q)'
  BY DEF LedgersInv
<1> DEFINE I == Pending(Inc(q))
           D == Pending(Dec(q))
<1>0. LedgerInv(q)
  BY DEF LedgersInv
<1>t. /\ refcnt[q] \in 0 .. RefMax /\ owed[q] \in Nat
      /\ MaxOwed \in Nat /\ RefMax \in Nat /\ Cardinality(Goroutines) \in Nat
      /\ RefMax >= MaxOwed + Cardinality(Goroutines)
  BY RefMaxAssumption, MaxOwedAssumption, GoroutinesAssumption,
     FS_CardinalityType DEF TypeOK
<1>c. /\ Cardinality(I) \in Nat
      /\ Cardinality(D) \in Nat /\ Cardinality(D) <= Cardinality(Goroutines)
  BY PendingFinite
<1>s. ASSUME NEW g, g \notin I PROVE I \ {g} = I
  BY <1>s
<1>d. ASSUME NEW g, g \notin D PROVE D \ {g} = D
  BY <1>d
<1>1. ASSUME NEW g \in Goroutines, NEW p \in Procs, AddProcess(g, p)
      PROVE  LedgerInv(q)'
  <2>1. Pending(Inc(q))' = I /\ Pending(Dec(q))' = D
    BY <1>1 DEF AddProcess, Pending, Ready
  <2>2. CASE p # q
    BY <1>0, <1>1, <2>1, <2>2 DEF AddProcess, add, LedgerInv, TypeOK
  <2>3. CASE p = q
    <3>1. owed[q] = 0 /\ D = {}
      BY <1>0, <1>1, <2>3 DEF AddProcess, LedgerInv
    <3>2. Cardinality(I) = 0 /\ Cardinality(D) = 0
      BY <1>0, <1>c, <3>1, FS_EmptySet DEF LedgerInv
    <3>3. refcnt'[q] = 1 /\ owed'[q] = 1 /\ q \in born'
      BY <1>1, <2>3, <3>1 DEF AddProcess, add, TypeOK
    <3>4. QED
      BY <2>1, <3>2, <3>3, MaxOwedAssumption DEF LedgerInv
  <2>4. QED
    BY <2>2, <2>3
<1>2. ASSUME NEW g \in Goroutines, NEW p \in Procs, Reference(g, p)
      PROVE  LedgerInv(q)'
  <2>1. /\ todo[g] = << >> /\ p \in cache /\ owed[p] < MaxOwed
        /\ todo' = [todo EXCEPT ![g] = <<Inc(p)>>]
        /\ owed' = [owed EXCEPT ![p] = owed[p] + 1]
        /\ refcnt' = refcnt /\ born' = born
    BY <1>2 DEF Reference, Ready
  <2>2. Inc(p) \in RefOp
    BY DEF Inc, RefOp
  <2>3. g \notin I /\ g \notin D
    BY <2>1, AtCall
  <2>4. Pending(Dec(q))' = D
    <3>1. Pending(Dec(q))' = D \ {g}
      BY <2>1, <2>2, PendingJoin, CallsDiffer
    <3>2. QED
      BY <1>d, <2>3, <3>1
  <2>5. CASE p # q
    <3>1. Pending(Inc(q))' = I \ {g}
      BY <2>1, <2>2, <2>5, PendingJoin, CallsDiffer
    <3>2. Pending(Inc(q))' = I
      BY <1>s, <2>3, <3>1
    <3>3. QED
      BY <1>0, <2>1, <2>4, <2>5, <3>2 DEF LedgerInv, TypeOK
  <2>6. CASE p = q
    <3>1. Pending(Inc(q))' = I \cup {g}
      BY <2>1, <2>2, <2>6, PendingJoin, CallsDiffer
    <3>2. Cardinality(Pending(Inc(q))') = Cardinality(I) + 1
      BY <2>3, <3>1, PendingCard
    <3>3. q \in born /\ owed'[q] = owed[q] + 1
      BY <2>1, <2>6 DEF TypeOK
    <3>4. QED
      BY <1>0, <1>t, <1>c, <2>1, <2>4, <2>6, <3>2, <3>3 DEF LedgerInv
  <2>7. QED
    BY <2>5, <2>6
<1>3. ASSUME NEW g \in Goroutines, NEW p \in Procs, Release(g, p)
      PROVE  LedgerInv(q)'
  <2>1. /\ todo[g] = << >> /\ owed[p] > 0 /\ Pending(Inc(p)) = {}
        /\ todo' = [todo EXCEPT ![g] = <<Dec(p)>>]
        /\ owed' = [owed EXCEPT ![p] = owed[p] - 1]
        /\ refcnt' = refcnt /\ born' = born
    BY <1>3 DEF Release, Ready, Pending
  <2>2. Dec(p) \in RefOp
    BY DEF Dec, RefOp
  <2>3. g \notin I /\ g \notin D
    BY <2>1, AtCall
  <2>4. Pending(Inc(q))' = I
    <3>1. Pending(Inc(q))' = I \ {g}
      BY <2>1, <2>2, PendingJoin, CallsDiffer
    <3>2. QED
      BY <1>s, <2>3, <3>1
  <2>5. CASE p # q
    <3>1. Pending(Dec(q))' = D \ {g}
      BY <2>1, <2>2, <2>5, PendingJoin, CallsDiffer
    <3>2. Pending(Dec(q))' = D
      BY <1>d, <2>3, <3>1
    <3>3. QED
      BY <1>0, <2>1, <2>4, <2>5, <3>2 DEF LedgerInv, TypeOK
  <2>6. CASE p = q
    <3>1. Pending(Dec(q))' = D \cup {g}
      BY <2>1, <2>2, <2>6, PendingJoin, CallsDiffer
    <3>2. Cardinality(Pending(Dec(q))') = Cardinality(D) + 1
      BY <2>3, <3>1, PendingCard
    <3>3. q \in born /\ owed'[q] = owed[q] - 1
      BY <1>0, <1>t, <2>1, <2>6 DEF TypeOK, LedgerInv
    <3>4. Cardinality(I) = 0
      BY <2>1, <2>6, FS_EmptySet
    <3>5. QED
      BY <1>0, <1>t, <1>c, <2>1, <2>4, <2>6, <3>2, <3>3, <3>4 DEF LedgerInv
  <2>7. QED
    BY <2>5, <2>6
<1>4. ASSUME NEW g \in Goroutines, refInc(g), UNCHANGED owed
      PROVE  LedgerInv(q)'
  <2>1. PICK p \in Procs :
          /\ todo[g] = <<Inc(p)>>
          /\ refcnt' = [refcnt EXCEPT ![p] = IncWrap(refcnt[p])]
          /\ todo' = [todo EXCEPT ![g] = << >>]
    BY <1>4, IncStep
  <2>2. Pending(Inc(q))' = I \ {g} /\ Pending(Dec(q))' = D \ {g}
    BY <2>1, PendingLeave
  <2>3. g \notin D
    BY <2>1, AtCall, CallsDiffer
  <2>4. born' = born
    BY <1>4 DEF refInc
  <2>5. CASE p # q
    <3>1. g \notin I
      BY <2>1, <2>5, AtCall, CallsDiffer
    <3>2. Pending(Inc(q))' = I /\ Pending(Dec(q))' = D
      BY <2>2, <2>3, <3>1
    <3>3. QED
      BY <1>0, <1>4, <2>1, <2>4, <2>5, <3>2 DEF LedgerInv, TypeOK
  <2>6. CASE p = q
    <3>1. g \in I
      BY <2>1, <2>6, AtCall, CallsDiffer
    <3>2. /\ Cardinality(Pending(Inc(q))') = Cardinality(I) - 1
          /\ Cardinality(I) >= 1
      BY <2>2, <3>1, PendingCard
    <3>3. Pending(Dec(q))' = D
      BY <2>2, <2>3
    <3>4. refcnt[q] < RefMax
      BY <1>0, <1>t, <1>c, <3>2 DEF LedgerInv
    <3>5. refcnt'[q] = refcnt[q] + 1
      BY <2>1, <2>6, <3>4 DEF IncWrap, TypeOK
    <3>6. QED
      BY <1>0, <1>t, <1>c, <1>4, <2>4, <3>2, <3>3, <3>5 DEF LedgerInv
  <2>7. QED
    BY <2>5, <2>6
<1>5. ASSUME NEW g \in Goroutines, refDec(g), UNCHANGED owed
      PROVE  LedgerInv(q)'
  <2>1. PICK p \in Procs :
          /\ todo[g] = <<Dec(p)>>
          /\ refcnt' = [refcnt EXCEPT ![p] = DecWrap(refcnt[p])]
          /\ todo' = [todo EXCEPT ![g] = IF DecWrap(refcnt[p]) = 0
                                           THEN <<Send(p)>> ELSE << >>]
    BY <1>5, DecStep
  <2>2. Pending(Inc(q))' = I \ {g} /\ Pending(Dec(q))' = D \ {g}
    <3>1. CASE todo' = [todo EXCEPT ![g] = << >>]
      BY <3>1, PendingLeave
    <3>2. CASE todo' = [todo EXCEPT ![g] = <<Send(p)>>]
      <4>1. Send(p) \in RefOp
        BY DEF Send, RefOp
      <4>2. QED
        BY <3>2, <4>1, PendingJoin, CallsDiffer
    <3>3. QED
      BY <2>1, <3>1, <3>2
  <2>3. g \notin I
    BY <2>1, AtCall, CallsDiffer
  <2>4. born' = born
    BY <1>5 DEF refDec
  <2>5. CASE p # q
    <3>1. g \notin D
      BY <2>1, <2>5, AtCall, CallsDiffer
    <3>2. Pending(Inc(q))' = I /\ Pending(Dec(q))' = D
      BY <2>2, <2>3, <3>1
    <3>3. QED
      BY <1>0, <1>5, <2>1, <2>4, <2>5, <3>2 DEF LedgerInv, TypeOK
  <2>6. CASE p = q
    <3>1. g \in D
      BY <2>1, <2>6, AtCall, CallsDiffer
    <3>2. /\ Cardinality(Pending(Dec(q))') = Cardinality(D) - 1
          /\ Cardinality(D) >= 1
      BY <2>2, <3>1, PendingCard
    <3>3. Pending(Inc(q))' = I
      BY <2>2, <2>3
    <3>4. refcnt[q] > 0 /\ q \in born
      BY <1>0, <1>t, <1>c, <3>1, <3>2 DEF LedgerInv
    <3>5. refcnt'[q] = refcnt[q] - 1
      BY <2>1, <2>6, <3>4 DEF DecWrap, TypeOK
    <3>6. QED
      BY <1>0, <1>t, <1>c, <1>5, <2>4, <3>2, <3>3, <3>4, <3>5 DEF LedgerInv
  <2>7. QED
    BY <2>5, <2>6
<1>6. ASSUME NEW g \in Goroutines, gcReceive(g), UNCHANGED owed
      PROVE  LedgerInv(q)'
  <2>1. PICK p \in Procs : /\ todo[g] = <<Send(p)>>
                           /\ todo' = [todo EXCEPT ![g] = << >>]
    BY <1>6, ReceiveStep
  <2>2. g \notin I /\ g \notin D
    BY <2>1, AtCall, CallsDiffer
  <2>3. Pending(Inc(q))' = I /\ Pending(Dec(q))' = D
    <3>1. Pending(Inc(q))' = I \ {g} /\ Pending(Dec(q))' = D \ {g}
      BY <2>1, PendingLeave
    <3>2. QED
      BY <1>s, <1>d, <2>2, <3>1
  <2>4. QED
    BY <1>0, <1>6, <2>3 DEF gcReceive, LedgerInv
<1>7. ASSUME UNCHANGED <<born, refcnt, todo, owed>>
      PROVE  LedgerInv(q)'
  BY <1>0, <1>7 DEF LedgerInv, Pending, Ready
<1>8. QED
  BY <1>1, <1>2, <1>3, <1>4, <1>5, <1>6, <1>7
  DEF Next, Callers, RefCounting, Collector, gcTick, gcVisit, gcRemove,
      gcEndWalk, vars, cacheVars

\* The ledger invariant holds in every state.
LEMMA LedgersCorrect == Spec => []LedgersInv
<1>1. Init => LedgersInv
  <2> SUFFICES ASSUME Init, NEW p \in Procs PROVE LedgerInv(p)
    BY DEF LedgersInv
  <2>1. Pending(Inc(p)) = {} /\ Pending(Dec(p)) = {}
    BY DEF Init, CacheInit, Pending, Ready
  <2>2. Cardinality(Pending(Inc(p))) = 0 /\ Cardinality(Pending(Dec(p))) = 0
    BY <2>1, FS_EmptySet
  <2>3. refcnt[p] = 0 /\ owed[p] = 0
    BY DEF Init, CacheInit
  <2>4. QED
    BY <2>1, <2>2, <2>3, MaxOwedAssumption DEF LedgerInv
<1>2. QED
  BY <1>1, LedgerNext, TypeCorrect, PTL DEF Spec

\* The counter of every object is what its holders have taken and not dropped,
\* at every interleaving of the atomic adds, for every number of goroutines.
THEOREM LedgerCorrect == Spec => []Ledger
<1>1. TypeOK /\ LedgersInv => Ledger
  BY DEF TypeOK, LedgersInv, LedgerInv, Ledger
<1>2. QED
  BY <1>1, TypeCorrect, LedgersCorrect, PTL

\* A pending refInc does not wrap its counter.
LEMMA NoWrap ==
  ASSUME TypeOK, LedgersInv, NEW g \in Goroutines, NEW p \in Procs,
         todo[g] = <<Inc(p)>>
  PROVE  IncWrap(refcnt[p]) = refcnt[p] + 1
<1>1. g \in Pending(Inc(p))
  BY AtCall
<1>2. Cardinality(Pending(Inc(p))) >= 1
  BY <1>1, PendingCard
<1>3. /\ Cardinality(Pending(Inc(p))) \in Nat
      /\ Cardinality(Pending(Dec(p))) \in Nat
      /\ Cardinality(Pending(Dec(p))) <= Cardinality(Goroutines)
  BY PendingFinite
<1>4. refcnt[p] \in Nat /\ owed[p] \in Nat
  BY DEF TypeOK
<1>5. Cardinality(Goroutines) \in Nat
  BY GoroutinesAssumption, FS_CardinalityType
<1>6. refcnt[p] < RefMax
  BY <1>2, <1>3, <1>4, <1>5, RefMaxAssumption, MaxOwedAssumption
  DEF LedgersInv, LedgerInv
<1>7. QED
  BY <1>4, <1>6, RefMaxAssumption DEF IncWrap

\* No object whose count reached zero is forgotten: it is on its way to the
\* collector, is queued, or has left the queue.
THEOREM NoLostDeleteCorrect == Spec => []NoLostDelete
<1>1. Init => NoLostDelete
  BY DEF Init, CacheInit, NoLostDelete
<1>2. TypeOK /\ OneCall /\ LedgersInv /\ QueuesInv /\ QueuesInv'
        /\ NoLostDelete /\ [Next]_vars => NoLostDelete'
  <2> SUFFICES ASSUME TypeOK, OneCall, LedgersInv, QueuesInv, QueuesInv',
                      NoLostDelete, [Next]_vars, NEW q \in born', refcnt'[q] = 0
               PROVE  \/ Pending(Send(q))' # {}
                      \/ Queued(q)' = 1
                      \/ fate'[q] # "none"
    BY DEF NoLostDelete
  <2>1. ASSUME NEW g \in Goroutines, NEW p \in Procs, AddProcess(g, p)
        PROVE  \/ Pending(Send(q))' # {}
               \/ Queued(q)' = 1
               \/ fate'[q] # "none"
    <3>1. p # q
      BY <2>1 DEF AddProcess, add, TypeOK
    <3>2. q \in born /\ refcnt[q] = 0
      BY <2>1, <3>1 DEF AddProcess, add, TypeOK
    <3>3. Pending(Send(q))' = Pending(Send(q)) /\ Queued(q)' = Queued(q)
          /\ fate' = fate
      BY <2>1 DEF AddProcess, Pending, Ready, Queued, gcVars
    <3>4. QED
      BY <3>2, <3>3 DEF NoLostDelete
  <2>2. ASSUME q \in born, refcnt[q] = 0, fate' = fate,
               Queued(q)' = Queued(q),
               Pending(Send(q)) \subseteq Pending(Send(q))'
        PROVE  \/ Pending(Send(q))' # {}
               \/ Queued(q)' = 1
               \/ fate'[q] # "none"
    BY <2>2 DEF NoLostDelete
  <2>3. ASSUME NEW g \in Goroutines, NEW p \in Procs, Reference(g, p)
        PROVE  \/ Pending(Send(q))' # {}
               \/ Queued(q)' = 1
               \/ fate'[q] # "none"
    <3>1. Pending(Send(q))' = Pending(Send(q)) \ {g}
      <4>1. Inc(p) \in RefOp
        BY DEF Inc, RefOp
      <4>2. QED
        BY <2>3, <4>1, PendingJoin, CallsDiffer DEF Reference
    <3>2. g \notin Pending(Send(q))
      BY <2>3 DEF Reference, Pending
    <3>3. QED
      BY <2>2, <2>3, <3>1, <3>2 DEF Reference, Queued, gcVars
  <2>4. ASSUME NEW g \in Goroutines, NEW p \in Procs, Release(g, p)
        PROVE  \/ Pending(Send(q))' # {}
               \/ Queued(q)' = 1
               \/ fate'[q] # "none"
    <3>1. Pending(Send(q))' = Pending(Send(q)) \ {g}
      <4>1. Dec(p) \in RefOp
        BY DEF Dec, RefOp
      <4>2. QED
        BY <2>4, <4>1, PendingJoin, CallsDiffer DEF Release
    <3>2. g \notin Pending(Send(q))
      BY <2>4 DEF Release, Pending
    <3>3. QED
      BY <2>2, <2>4, <3>1, <3>2 DEF Release, Queued, gcVars
  <2>5. ASSUME NEW g \in Goroutines, refInc(g), UNCHANGED owed
        PROVE  \/ Pending(Send(q))' # {}
               \/ Queued(q)' = 1
               \/ fate'[q] # "none"
    <3>1. PICK p \in Procs :
            /\ todo[g] = <<Inc(p)>>
            /\ refcnt' = [refcnt EXCEPT ![p] = IncWrap(refcnt[p])]
            /\ todo' = [todo EXCEPT ![g] = << >>]
      BY <2>5, IncStep
    <3>2. IncWrap(refcnt[p]) = refcnt[p] + 1
      BY <3>1, NoWrap
    <3>3. q \in born /\ refcnt[q] = 0
      BY <2>5, <3>1, <3>2 DEF refInc, TypeOK
    <3>4. Pending(Send(q))' = Pending(Send(q)) \ {g}
      BY <3>1, PendingLeave
    <3>5. g \notin Pending(Send(q))
      BY <3>1, AtCall, CallsDiffer
    <3>6. QED
      BY <2>2, <2>5, <3>3, <3>4, <3>5 DEF refInc, Queued, gcVars
  <2>6. ASSUME NEW g \in Goroutines, refDec(g), UNCHANGED owed
        PROVE  \/ Pending(Send(q))' # {}
               \/ Queued(q)' = 1
               \/ fate'[q] # "none"
    <3>1. PICK p \in Procs :
            /\ todo[g] = <<Dec(p)>>
            /\ refcnt' = [refcnt EXCEPT ![p] = DecWrap(refcnt[p])]
            /\ todo' = [todo EXCEPT ![g] = IF DecWrap(refcnt[p]) = 0
                                             THEN <<Send(p)>> ELSE << >>]
      BY <2>6, DecStep
    <3>2. CASE p = q
      <4>1. todo' = [todo EXCEPT ![g] = <<Send(q)>>]
        BY <3>1, <3>2 DEF TypeOK
      <4>2. Send(q) \in RefOp
        BY <3>2 DEF Send, RefOp
      <4>3. Pending(Send(q))' = Pending(Send(q)) \cup {g}
        BY <4>1, <4>2, PendingJoin
      <4>4. QED
        BY <4>3
    <3>3. CASE p # q
      <4>1. q \in born /\ refcnt[q] = 0
        BY <2>6, <3>1, <3>3 DEF refDec, TypeOK
      <4>2. g \notin Pending(Send(q))
        BY <3>1, AtCall, CallsDiffer
      <4>3. Pending(Send(q))' = Pending(Send(q)) \ {g}
        <5>1. Send(p) \in RefOp
          BY DEF Send, RefOp
        <5>2. CASE DecWrap(refcnt[p]) = 0
          BY <3>1, <3>3, <5>1, <5>2, PendingJoin, CallsDiffer
        <5>3. CASE DecWrap(refcnt[p]) # 0
          BY <3>1, <5>3, PendingLeave
        <5>4. QED
          BY <5>2, <5>3
      <4>4. QED
        BY <2>2, <2>6, <4>1, <4>2, <4>3 DEF refDec, Queued, gcVars
    <3>4. QED
      BY <3>2, <3>3
  <2>7. ASSUME NEW g \in Goroutines, gcReceive(g), UNCHANGED owed
        PROVE  \/ Pending(Send(q))' # {}
               \/ Queued(q)' = 1
               \/ fate'[q] # "none"
    <3>1. PICK p \in Procs :
            /\ todo[g] = <<Send(p)>>
            /\ todo' = [todo EXCEPT ![g] = << >>]
            /\ color' = [color EXCEPT ![p] = "deletePending"]
            /\ \/ color[p] # "inUse" /\ deleteQueue' = deleteQueue
               \/ /\ color[p] = "inUse"
                  /\ deleteQueue' = [deleteQueue EXCEPT ![p] = deleteQueue[p] + 1]
      BY <2>7, ReceiveStep
    <3>2. CASE p = q
      BY <3>1, <3>2 DEF TypeOK, QueuesInv, QueueInv
    <3>3. CASE p # q
      <4>1. q \in born /\ refcnt[q] = 0 /\ fate' = fate
        BY <2>7 DEF gcReceive
      <4>2. g \notin Pending(Send(q))
        BY <3>1, <3>3, AtCall, CallsDiffer
      <4>3. Pending(Send(q))' = Pending(Send(q)) \ {g}
        BY <3>1, PendingLeave
      <4>4. q \in Procs /\ newQueue' = newQueue
        BY <2>7, <4>1 DEF gcReceive, TypeOK
      <4>5. Queued(q)' = Queued(q)
        BY <3>1, <3>3, <4>4 DEF Queued, TypeOK
      <4>6. QED
        BY <2>2, <4>1, <4>2, <4>3, <4>5
    <3>4. QED
      BY <3>2, <3>3
  <2>8. ASSUME NEW p \in Procs, gcVisit(p)
        PROVE  \/ Pending(Send(q))' # {}
               \/ Queued(q)' = 1
               \/ fate'[q] # "none"
    <3>1. q \in born /\ refcnt[q] = 0 /\ q \in Procs
      BY <2>8 DEF gcVisit, Due, TypeOK
    <3>2. Pending(Send(q))' = Pending(Send(q))
      BY <2>8 DEF gcVisit, Pending, Ready
    <3>3. CASE p # q
      BY <2>8, <3>1, <3>2, <3>3
      DEF gcVisit, NoLostDelete, Queued, TypeOK
    <3>4. CASE p = q
      BY <2>8, <3>1, <3>4
      DEF gcVisit, Due, Queued, TypeOK, QueuesInv, QueueInv
    <3>5. QED
      BY <3>3, <3>4
  <2>9. ASSUME NEW p \in Procs, gcRemove(p)
        PROVE  \/ Pending(Send(q))' # {}
               \/ Queued(q)' = 1
               \/ fate'[q] # "none"
    BY <2>2, <2>9 DEF gcRemove, Queued, Pending, Ready
  <2>10. CASE gcTick
    BY <2>2, <2>10 DEF gcTick, Queued, Pending, Ready
  <2>11. CASE gcEndWalk
    <3>1. Queued(q)' = Queued(q)
      BY <2>11 DEF gcEndWalk, AllVisited, Queued, TypeOK, NoneQueued
    <3>2. QED
      BY <2>2, <2>11, <3>1 DEF gcEndWalk, AllVisited, Pending, Ready
  <2>12. CASE UNCHANGED vars
    BY <2>2, <2>12 DEF vars, cacheVars, gcVars, Queued, Pending, Ready
  <2>13. QED
    BY <2>1, <2>3, <2>4, <2>5, <2>6, <2>7, <2>8, <2>9, <2>10, <2>11, <2>12
    DEF Next, Callers, RefCounting, Collector
<1>3. QED
  BY <1>1, <1>2, TypeCorrect, QueuesCorrect, LedgersCorrect, PTL DEF Spec

-----------------------------------------------------------------------------
(***************************************************************************)
(* Refinement.  An object nobody has created was never sent, and what is   *)
(* being removed was.                                                      *)
(***************************************************************************)
FreshInv(p) ==
  /\ p \notin born => color[p] = "inUse" /\ Pending(Send(p)) = {}
  /\ p \in removing => color[p] # "inUse"

AllFresh == \A p \in Procs : FreshInv(p)

\* A goroutine about to drop a reference drops one that is counted.
LEMMA DecCounted ==
  ASSUME TypeOK, LedgersInv, NEW g \in Goroutines, NEW p \in Procs,
         todo[g] = <<Dec(p)>>
  PROVE  p \in born /\ DecWrap(refcnt[p]) = refcnt[p] - 1 /\ refcnt[p] > 0
<1>1. g \in Pending(Dec(p))
  BY AtCall
<1>2. Cardinality(Pending(Dec(p))) >= 1
  BY <1>1, PendingCard
<1>3. /\ Cardinality(Pending(Inc(p))) \in Nat
      /\ Cardinality(Pending(Dec(p))) \in Nat
  BY PendingFinite
<1>4. refcnt[p] \in Nat /\ owed[p] \in Nat
  BY DEF TypeOK
<1>5. p \in born /\ refcnt[p] > 0
  BY <1>1, <1>2, <1>3, <1>4 DEF LedgersInv, LedgerInv
<1>6. QED
  BY <1>4, <1>5 DEF DecWrap

\* How each kind of step changes the goroutines that are sending an object.
LEMMA SendersStep ==
  ASSUME TypeOK, OneCall, [Next]_vars, NEW q \in Procs,
         \A g \in Goroutines : ~refDec(g) /\ ~gcReceive(g)
  PROVE  Pending(Send(q))' = Pending(Send(q))
<1>1. CASE UNCHANGED todo
  BY <1>1 DEF Pending, Ready
<1>2. ASSUME NEW g \in Goroutines, Pending(Send(q))' = Pending(Send(q)) \ {g},
             g \notin Pending(Send(q))
      PROVE  Pending(Send(q))' = Pending(Send(q))
  BY <1>2
<1>3. ASSUME NEW g \in Goroutines, NEW p \in Procs, Reference(g, p)
      PROVE  Pending(Send(q))' = Pending(Send(q))
  <2>1. Inc(p) \in RefOp
    BY DEF Inc, RefOp
  <2>2. Pending(Send(q))' = Pending(Send(q)) \ {g}
    BY <1>3, <2>1, PendingJoin, CallsDiffer DEF Reference
  <2>3. g \notin Pending(Send(q))
    BY <1>3 DEF Reference, Pending
  <2>4. QED
    BY <1>2, <2>2, <2>3
<1>4. ASSUME NEW g \in Goroutines, NEW p \in Procs, Release(g, p)
      PROVE  Pending(Send(q))' = Pending(Send(q))
  <2>1. Dec(p) \in RefOp
    BY DEF Dec, RefOp
  <2>2. Pending(Send(q))' = Pending(Send(q)) \ {g}
    BY <1>4, <2>1, PendingJoin, CallsDiffer DEF Release
  <2>3. g \notin Pending(Send(q))
    BY <1>4 DEF Release, Pending
  <2>4. QED
    BY <1>2, <2>2, <2>3
<1>5. ASSUME NEW g \in Goroutines, refInc(g)
      PROVE  Pending(Send(q))' = Pending(Send(q))
  <2>1. PICK p \in Procs : /\ todo[g] = <<Inc(p)>>
                           /\ todo' = [todo EXCEPT ![g] = << >>]
    BY <1>5, IncStep
  <2>2. Pending(Send(q))' = Pending(Send(q)) \ {g}
    BY <2>1, PendingLeave
  <2>3. g \notin Pending(Send(q))
    BY <2>1, AtCall, CallsDiffer
  <2>4. QED
    BY <1>2, <2>2, <2>3
<1>6. QED
  BY <1>1, <1>3, <1>4, <1>5
  DEF Next, Callers, AddProcess, RefCounting, Collector, gcTick, gcVisit,
      gcRemove, gcEndWalk, vars, cacheVars

\* The senders of an object after a refDec: the goroutine joins them if it
\* dropped the last reference.
LEMMA SendersDec ==
  ASSUME TypeOK, OneCall, NEW g \in Goroutines, NEW p \in Procs, NEW q \in Procs,
         todo[g] = <<Dec(p)>>,
         todo' = [todo EXCEPT ![g] = IF DecWrap(refcnt[p]) = 0
                                       THEN <<Send(p)>> ELSE << >>]
  PROVE  Pending(Send(q))' = IF p = q /\ DecWrap(refcnt[p]) = 0
                               THEN Pending(Send(q)) \cup {g}
                               ELSE Pending(Send(q))
<1>1. g \notin Pending(Send(q))
  BY AtCall, CallsDiffer
<1>2. Send(p) \in RefOp
  BY DEF Send, RefOp
<1>3. CASE DecWrap(refcnt[p]) = 0 /\ p = q
  <2>1. todo' = [todo EXCEPT ![g] = <<Send(p)>>]
    BY <1>3
  <2>2. QED
    BY <1>2, <1>3, <2>1, PendingJoin
<1>4. CASE DecWrap(refcnt[p]) = 0 /\ p # q
  <2>1. todo' = [todo EXCEPT ![g] = <<Send(p)>>]
    BY <1>4
  <2>2. Pending(Send(q))' = Pending(Send(q)) \ {g}
    BY <1>2, <1>4, <2>1, PendingJoin, CallsDiffer
  <2>3. QED
    BY <1>1, <1>4, <2>2
<1>5. CASE DecWrap(refcnt[p]) # 0
  <2>1. todo' = [todo EXCEPT ![g] = << >>]
    BY <1>5
  <2>2. Pending(Send(q))' = Pending(Send(q)) \ {g}
    BY <2>1, PendingLeave
  <2>3. QED
    BY <1>1, <1>5, <2>2
<1>6. QED
  BY <1>3, <1>4, <1>5

\* Freshness is kept by every step.
LEMMA FreshNext ==
  TypeOK /\ OneCall /\ LedgersInv /\ QueuesInv /\ AllFresh /\ [Next]_vars
    => AllFresh'
<1> SUFFICES ASSUME TypeOK, OneCall, LedgersInv, QueuesInv, AllFresh,
                    [Next]_vars, NEW q \in Procs
             PROVE  FreshInv(q)'
  BY DEF AllFresh
<1>0. FreshInv(q)
  BY DEF AllFresh
<1>1. ASSUME NEW g \in Goroutines, refDec(g)
      PROVE  FreshInv(q)'
  <2>1. PICK p \in Procs :
          /\ todo[g] = <<Dec(p)>>
          /\ todo' = [todo EXCEPT ![g] = IF DecWrap(refcnt[p]) = 0
                                           THEN <<Send(p)>> ELSE << >>]
    BY <1>1, DecStep
  <2>2. UNCHANGED <<born, color, removing>>
    BY <1>1 DEF refDec, gcVars
  <2>3. p = q => q \in born
    BY <2>1, DecCounted
  <2>4. p # q => Pending(Send(q))' = Pending(Send(q))
    BY <2>1, SendersDec
  <2>5. QED
    BY <1>0, <2>2, <2>3, <2>4 DEF FreshInv
<1>2. ASSUME NEW g \in Goroutines, gcReceive(g)
      PROVE  FreshInv(q)'
  <2>1. PICK p \in Procs :
          /\ todo[g] = <<Send(p)>>
          /\ todo' = [todo EXCEPT ![g] = << >>]
          /\ color' = [color EXCEPT ![p] = "deletePending"]
    BY <1>2, ReceiveStep
  <2>2. UNCHANGED <<born, removing>>
    BY <1>2 DEF gcReceive
  <2>3. Pending(Send(q))' = Pending(Send(q)) \ {g}
    BY <2>1, PendingLeave
  <2>4. p = q => Pending(Send(q)) # {}
    BY <2>1, AtCall
  <2>5. color' [q] = IF p = q THEN "deletePending" ELSE color[q]
    BY <2>1 DEF TypeOK
  <2>6. QED
    BY <1>0, <2>2, <2>3, <2>4, <2>5 DEF FreshInv
<1>3. ASSUME \A g \in Goroutines : ~refDec(g) /\ ~gcReceive(g)
      PROVE  FreshInv(q)'
  <2>1. Pending(Send(q))' = Pending(Send(q))
    BY <1>3, SendersStep
  <2>2. ASSUME NEW p \in Procs, gcVisit(p)
        PROVE  FreshInv(q)'
    <3>1. color[p] # "inUse"
      BY <2>2 DEF gcVisit, QueuesInv, QueueInv, Queued, TypeOK
    <3>2. born' = born
      BY <2>2 DEF gcVisit
    <3>3. color'[q] # "inUse" <=> color[q] # "inUse"
      BY <2>2, <3>1 DEF gcVisit, TypeOK
    <3>4. q \in removing' => q \in removing \/ q = p
      BY <2>2 DEF gcVisit
    <3>5. QED
      BY <1>0, <2>1, <3>1, <3>2, <3>3, <3>4 DEF FreshInv
  <2>3. CASE UNCHANGED color /\ born \subseteq born' /\ removing' \subseteq removing
    BY <1>0, <2>1, <2>3 DEF FreshInv
  <2>4. QED
    BY <1>3, <2>2, <2>3
    DEF Next, Callers, AddProcess, add, Reference, Release, RefCounting, refInc,
        Collector, gcTick, gcRemove, gcEndWalk, vars, cacheVars, gcVars
<1>4. QED
  BY <1>1, <1>2, <1>3

\* Freshness holds in every state.
LEMMA FreshCorrect == Spec => []AllFresh
<1>1. Init => AllFresh
  BY DEF Init, CacheInit, AllFresh, FreshInv, Pending, Ready
<1>2. QED
  BY <1>1, FreshNext, TypeCorrect, LedgersCorrect, QueuesCorrect, PTL DEF Spec

\* Lapsed is unchanged by a step that changes the status of no process.
LEMMA LapsedSame ==
  ASSUME TypeOK, born' = born,
         \A q \in Procs : (q \in Lapsed') <=> (q \in Lapsed)
  PROVE  Lapsed' = Lapsed
BY DEF Lapsed, TypeOK

\* Steps that neither change a count nor the cache are stutters of the promise,
\* removals are its Expire, and each refInc, refDec and add is its own: the
\* cache with collector, queue and channel implements ProcessCacheAbs.
THEOREM ImplementsAbsCorrect == Spec => ImplementsAbs
<1>1. Init => Abs!AbsInit
  BY DEF Init, CacheInit, Abs!AbsInit, Lapsed
<1>2. TypeOK /\ OneCall /\ LedgersInv /\ QueuesInv /\ AllFresh /\ AllFresh'
        /\ [Next]_vars => [Abs!AbsNext]_(Abs!absVars)
  <2> SUFFICES ASSUME TypeOK, OneCall, LedgersInv, QueuesInv, AllFresh, AllFresh',
                      [Next]_vars
               PROVE  Abs!AbsNext \/ UNCHANGED <<born, cache, refcnt, Lapsed>>
    BY DEF Abs!absVars
  <2> USE DEF Abs!AbsNext
  <2>1. ASSUME NEW g \in Goroutines, NEW p \in Procs, AddProcess(g, p)
        PROVE  Abs!AbsNext
    <3>1. /\ p \notin born /\ born' = born \cup {p}
          /\ refcnt' = [refcnt EXCEPT ![p] = 1]
          /\ cache' \in LruAfterAdd(p)
      BY <2>1 DEF AddProcess, add
    <3>2. \/ cache' = cache \cup {p}
          \/ \E v \in cache : cache' = (cache \ {v}) \cup {p}
      BY <3>1 DEF LruAfterAdd
    <3>3. color' = color /\ todo' = todo
      BY <2>1 DEF AddProcess
    <3>4. Lapsed' = Lapsed
      <4>1. p \notin Lapsed'
        BY <3>1, <3>3 DEF AllFresh, FreshInv, Lapsed, Pending, Ready
      <4>2. QED
        BY <3>1, <3>3, <4>1 DEF Lapsed, Pending, Ready
    <3>5. QED
      BY <3>1, <3>2, <3>4 DEF Abs!Add
  <2>2. ASSUME NEW g \in Goroutines, refInc(g)
        PROVE  Abs!AbsNext
    <3>1. PICK p \in Procs :
            /\ todo[g] = <<Inc(p)>>
            /\ refcnt' = [refcnt EXCEPT ![p] = IncWrap(refcnt[p])]
            /\ todo' = [todo EXCEPT ![g] = << >>]
      BY <2>2, IncStep
    <3>2. IncWrap(refcnt[p]) = refcnt[p] + 1
      BY <3>1, NoWrap
    <3>3. p \in born
      <4>1. g \in Pending(Inc(p))
        BY <3>1, AtCall
      <4>2. Cardinality(Pending(Inc(p))) >= 1
        BY <4>1, PendingCard
      <4>3. Cardinality(Pending(Inc(p))) \in Nat /\ owed[p] \in Nat
        BY PendingFinite DEF TypeOK
      <4>4. QED
        BY <4>2, <4>3 DEF LedgersInv, LedgerInv
    <3>4. born' = born /\ cache' = cache /\ color' = color
      BY <2>2 DEF refInc
    <3>5. ASSUME NEW q \in Procs
          PROVE  Pending(Send(q))' = Pending(Send(q))
      <4>1. Pending(Send(q))' = Pending(Send(q)) \ {g}
        BY <3>1, PendingLeave
      <4>2. g \notin Pending(Send(q))
        BY <3>1, AtCall, CallsDiffer
      <4>3. QED
        BY <4>1, <4>2
    <3>6. Lapsed' = Lapsed
      BY <3>4, <3>5 DEF Lapsed, TypeOK
    <3>7. QED
      BY <3>1, <3>2, <3>3, <3>4, <3>6 DEF Abs!RefInc
  <2>3. ASSUME NEW g \in Goroutines, refDec(g)
        PROVE  Abs!AbsNext
    <3>1. PICK p \in Procs :
            /\ todo[g] = <<Dec(p)>>
            /\ refcnt' = [refcnt EXCEPT ![p] = DecWrap(refcnt[p])]
            /\ todo' = [todo EXCEPT ![g] = IF DecWrap(refcnt[p]) = 0
                                             THEN <<Send(p)>> ELSE << >>]
      BY <2>3, DecStep
    <3>2. p \in born /\ DecWrap(refcnt[p]) = refcnt[p] - 1 /\ refcnt[p] > 0
      BY <3>1, DecCounted
    <3>3. born' = born /\ cache' = cache /\ color' = color
      BY <2>3 DEF refDec
    <3>4. refcnt[p] \in Nat
      BY DEF TypeOK
    <3>5. CASE refcnt[p] = 1
      <4>1. ASSUME NEW q \in Procs, q # p
            PROVE  Pending(Send(q))' = Pending(Send(q))
        BY <3>1, <4>1, SendersDec
      <4>2. Pending(Send(p))' = Pending(Send(p)) \cup {g}
        <5>1. DecWrap(refcnt[p]) = 0
          BY <3>2, <3>5
        <5>2. QED
          BY <3>1, <5>1, SendersDec
      <4>3. Lapsed' = Lapsed \cup {p}
        BY <3>2, <3>3, <4>1, <4>2 DEF Lapsed, TypeOK
      <4>4. QED
        BY <3>1, <3>2, <3>3, <3>5, <4>3 DEF Abs!RefDec
    <3>6. CASE refcnt[p] # 1
      <4>1. ASSUME NEW q \in Procs
            PROVE  Pending(Send(q))' = Pending(Send(q))
        <5>1. DecWrap(refcnt[p]) # 0
          BY <3>2, <3>4, <3>6
        <5>2. QED
          BY <3>1, <5>1, SendersDec
      <4>2. Lapsed' = Lapsed
        BY <3>3, <4>1 DEF Lapsed, TypeOK
      <4>3. QED
        BY <3>1, <3>2, <3>3, <3>6, <4>2 DEF Abs!RefDec
    <3>7. QED
      BY <3>5, <3>6
  <2>4. ASSUME NEW g \in Goroutines, gcReceive(g)
        PROVE  UNCHANGED <<born, cache, refcnt, Lapsed>>
    <3>1. PICK p \in Procs :
            /\ todo[g] = <<Send(p)>>
            /\ todo' = [todo EXCEPT ![g] = << >>]
            /\ color' = [color EXCEPT ![p] = "deletePending"]
      BY <2>4, ReceiveStep
    <3>2. born' = born /\ cache' = cache /\ refcnt' = refcnt
      BY <2>4 DEF gcReceive
    <3>3. g \in Pending(Send(p))
      BY <3>1, AtCall
    <3>4. p \in born
      BY <3>3 DEF AllFresh, FreshInv
    <3>5. color'[p] = "deletePending"
      BY <3>1 DEF TypeOK
    <3>6. p \in Lapsed /\ p \in Lapsed'
      BY <3>2, <3>3, <3>4, <3>5 DEF Lapsed
    <3>7. ASSUME NEW q \in Procs, q # p
          PROVE  q \in Lapsed' <=> q \in Lapsed
      <4>1. Pending(Send(q))' = Pending(Send(q)) \ {g}
        BY <3>1, PendingLeave
      <4>2. g \notin Pending(Send(q))
        BY <3>1, <3>7, AtCall, CallsDiffer
      <4>3. Pending(Send(q))' = Pending(Send(q))
        BY <4>1, <4>2
      <4>4. color'[q] = color[q]
        BY <3>1, <3>7 DEF TypeOK
      <4>5. QED
        BY <3>2, <4>3, <4>4 DEF Lapsed
    <3>8. \A q \in Procs : (q \in Lapsed') <=> (q \in Lapsed)
      BY <3>6, <3>7
    <3>9. QED
      BY <3>2, <3>8, LapsedSame
  <2>5. ASSUME NEW p \in Procs, gcVisit(p)
        PROVE  UNCHANGED <<born, cache, refcnt, Lapsed>>
    <3>1. color[p] # "inUse"
      BY <2>5 DEF gcVisit, QueuesInv, QueueInv, Queued, TypeOK
    <3>2. born' = born /\ cache' = cache /\ refcnt' = refcnt /\ todo' = todo
      BY <2>5 DEF gcVisit
    <3>3. ASSUME NEW q \in Procs
          PROVE  color'[q] # "inUse" <=> color[q] # "inUse"
      BY <2>5, <3>1 DEF gcVisit, TypeOK
    <3>4. Lapsed' = Lapsed
      BY <3>2, <3>3 DEF Lapsed, Pending, Ready, TypeOK
    <3>5. QED
      BY <3>2, <3>4
  <2>6. ASSUME NEW p \in Procs, gcRemove(p)
        PROVE  Abs!AbsNext \/ UNCHANGED <<born, cache, refcnt, Lapsed>>
    <3>1. p \in removing /\ cache' = cache \ {p} /\ born' = born
          /\ refcnt' = refcnt /\ color' = color /\ todo' = todo
      BY <2>6 DEF gcRemove, remove
    <3>2. color[p] # "inUse" /\ p \in born
      BY <3>1 DEF AllFresh, FreshInv
    <3>3. p \in Lapsed
      BY <3>2 DEF Lapsed
    <3>4. Lapsed' = Lapsed
      BY <3>1 DEF Lapsed, Pending, Ready
    <3>5. CASE p \in cache
      BY <3>1, <3>3, <3>4, <3>5 DEF Abs!Expire
    <3>6. CASE p \notin cache
      BY <3>1, <3>4, <3>6
    <3>7. QED
      BY <3>5, <3>6
  <2>7. ASSUME \A g \in Goroutines : ~refDec(g) /\ ~gcReceive(g),
               UNCHANGED <<born, cache, refcnt, color>>
        PROVE  UNCHANGED <<born, cache, refcnt, Lapsed>>
    <3>1. ASSUME NEW q \in Procs
          PROVE  Pending(Send(q))' = Pending(Send(q))
      BY <2>7, SendersStep
    <3>2. Lapsed' = Lapsed
      BY <2>7, <3>1 DEF Lapsed, TypeOK
    <3>3. QED
      BY <2>7, <3>2
  <2>8. QED
    BY <2>1, <2>2, <2>3, <2>4, <2>5, <2>6, <2>7
    DEF Next, Callers, Reference, Release, RefCounting, Collector, gcTick,
        gcEndWalk, vars, cacheVars
<1>3. QED
  BY <1>1, <1>2, TypeCorrect, LedgersCorrect, QueuesCorrect, FreshCorrect, PTL
  DEF Spec, ImplementsAbs, Abs!AbsSpec

=============================================================================
