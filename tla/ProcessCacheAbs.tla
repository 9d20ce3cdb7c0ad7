--------------------------- MODULE ProcessCacheAbs ---------------------------
(***************************************************************************)
(* What the process cache promises its users (pkg/process/cache.go),       *)
(* without the collector: an object stays in the cache until the LRU list  *)
(* drops it for another one or its last reference has been dropped at      *)
(* least once.  From then on it may be removed at any time, even if it is  *)
(* referenced again in between, because the collector reads the count and  *)
(* removes the object in two steps.                                        *)
(***************************************************************************)
EXTENDS Integers, FiniteSets

CONSTANT Procs \* the ProcessInternal objects, one for each exec id

VARIABLES
  born,   \* objects that have been created
  cache,  \* objects found by pc.get
  refcnt, \* references held on each object
  lapsed  \* objects whose last reference was dropped at some time

absVars == <<born, cache, refcnt, lapsed>>

AbsInit ==
  /\ born = {}
  /\ cache = {}
  /\ refcnt = [p \in Procs |-> 0]
  /\ lapsed = {}

\* A new object starts with one reference; at most one other makes room.
Add(p) ==
  /\ p \notin born
  /\ born' = born \cup {p}
  /\ refcnt' = [refcnt EXCEPT ![p] = 1]
  /\ \/ cache' = cache \cup {p}
     \/ \E v \in cache : cache' = (cache \ {v}) \cup {p}
  /\ UNCHANGED lapsed

RefInc(p) ==
  /\ p \in born
  /\ refcnt' = [refcnt EXCEPT ![p] = @ + 1]
  /\ UNCHANGED <<born, cache, lapsed>>

RefDec(p) ==
  /\ p \in born
  /\ refcnt' = [refcnt EXCEPT ![p] = @ - 1]
  /\ lapsed' = IF refcnt[p] = 1 THEN lapsed \cup {p} ELSE lapsed
  /\ UNCHANGED <<born, cache>>

Expire(p) ==
  /\ p \in lapsed \cap cache
  /\ cache' = cache \ {p}
  /\ UNCHANGED <<born, refcnt, lapsed>>

AbsNext ==
  \E p \in Procs : \/ Add(p)
                   \/ RefInc(p)
                   \/ refcnt[p] > 0 /\ RefDec(p)
                   \/ Expire(p)

AbsSpec == AbsInit /\ [][AbsNext]_absVars

=============================================================================
