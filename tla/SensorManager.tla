---------------------------- MODULE SensorManager ----------------------------
(***************************************************************************)
(* The sensor manager (pkg/sensors/handler.go, collection.go, load.go):    *)
(* tracing policies and sensors are added, enabled, disabled and removed   *)
(* by concurrent clients, each on a goroutine of its own.                  *)
(*                                                                         *)
(* Two locks: collections.mu guards the map of collections and their       *)
(* state, and is released while sensors are loaded or unloaded; muLoad     *)
(* serializes loading and unloading.  destroy takes neither of its own.    *)
(* A section of a handler between taking and releasing collections.mu is   *)
(* one step, unless it destroys sensors on the way.                        *)
(*                                                                         *)
(* Abstractions: a collection is a number, which also is its policy id; a  *)
(* sensor is its place in the collection, its programs and maps are        *)
(* attached and detached with it; hooks, modes and statistics are left     *)
(* out; what BPF, the filter or a policy handler refuses is arbitrary.     *)
(***************************************************************************)
EXTENDS Integers, FiniteSets

CONSTANTS
  Goroutines,  \* goroutines that serve clients
  PolicyKeys,  \* collection keys of tracing policies
  ClusterWide, \* collection keys without a namespace: of sensors, and of policies
  NumSensors,  \* sensors the policy handlers make of a policy
  MaxCols,     \* bound: collections made
  MaxRequests  \* bound: requests made

ASSUME SensorsAssumption == NumSensors \in Nat \ {0}
ASSUME BoundsAssumption == MaxCols \in Nat /\ MaxRequests \in Nat

VARIABLES
  table,     \* h.collections.c
  info,      \* state, policyfilterID and number of sensors of a collection
  nextCol,   \* the next collection, and h.nextPolicyID
  loaded,    \* sensors of each collection with Loaded set
  destroyed, \* sensors of each collection with Destroyed set
  pf,        \* policies the policy filter knows
  mu,        \* holder of collections.mu between two steps
  muLoad,    \* holder of muLoad
  run,       \* where each goroutine is
  asked,     \* requests made, for the bound
  abandoned, \* collections replaced, or removed as sensors (history)
  touched    \* collections that were enabled or disabled as sensors (history)

lockVars == <<mu, muLoad>>
sensorVars == <<loaded, destroyed>>
requestVars == <<asked, touched>>
vars == <<table, info, nextCol, sensorVars, pf, lockVars, run, abandoned, requestVars>>

NoCol == 0
NoFilterID == 0
Cols == 1 .. MaxCols
Keys == PolicyKeys \cup ClusterWide
NoKey == "none"
NoOne == "none"

ASSUME NoOneAssumption == NoOne \notin Goroutines

Ops == {"none", "add", "enable", "disable", "delete", "enableSensor",
        "disableSensor", "removeSensor", "removeAll"}
Places == {"idle", "lockLoad", "load", "attach", "unload", "check", "detach",
           "unlockLoad", "relock", "destroy", "destroyDetach", "destroyHook"}
States == {"unknown", "enabled", "disabled", "loadError", "error", "loading",
           "unloading"}

At(g, place) == run[g].at = place
Col(g) == run[g].col
Sensor(g) == run[g].i
Goto(g, place) == run' = [run EXCEPT ![g].at = place]
NextSensor(g, place) == run' = [run EXCEPT ![g].at = place, ![g].i = @ + 1]

\* The loop over the sensors of a collection is over.
AllDone(g) == Sensor(g) > info[Col(g)].num

Begin(g, op, k, c, place) ==
  run' = [run EXCEPT ![g] = [at |-> place, op |-> op, key |-> k, col |-> c,
                             i |-> 1, err |-> FALSE]]

Resting == [at |-> "idle", op |-> "none", key |-> NoKey, col |-> NoCol, i |-> 1,
            err |-> FALSE]
Finish(g) == run' = [run EXCEPT ![g] = Resting]

SetState(c, state) == info' = [info EXCEPT ![c].state = state]

Init ==
  /\ table = [k \in Keys |-> NoCol]
  /\ info = [c \in Cols |-> [state |-> "unknown", filter |-> NoFilterID, num |-> 0]]
  /\ nextCol = 1
  /\ loaded = [c \in Cols |-> {}]
  /\ destroyed = [c \in Cols |-> {}]
  /\ pf = {}
  /\ mu = NoOne /\ muLoad = NoOne
  /\ run = [g \in Goroutines |-> Resting]
  /\ abandoned = {} /\ touched = {} /\ asked = 0

-----------------------------------------------------------------------------
(***************************************************************************)
(* The first section of each request.  A request that is refused changes   *)
(* nothing.                                                                *)
(***************************************************************************)
Ready(g) == At(g, "idle") /\ mu = NoOne
Present(k) == table[k] # NoCol
StateOf(k) == IF Present(k) THEN info[table[k]].state ELSE "absent"

\* A policy whose load failed may be added again over the failed one.
AddPossible(k) ==
  nextCol <= MaxCols /\ StateOf(k) \in {"absent", "loadError"}

\* updatePolicyFilter comes before the policy handlers, and both may fail.
addTracingPolicy(g, k) ==
  /\ Ready(g) /\ AddPossible(k)
  /\ table' = [table EXCEPT ![k] = nextCol]
  /\ nextCol' = nextCol + 1
  /\ abandoned' = abandoned \cup ({table[k]} \ {NoCol})
  /\ \/ /\ SetState(nextCol, "loadError")
        /\ UNCHANGED <<pf, run>>
     \/ \E filter \in {NoFilterID, nextCol} :
          /\ pf' = pf \cup ({filter} \ {NoFilterID})
          /\ \/ /\ info' = [info EXCEPT ![nextCol] =
                     [state |-> "loadError", filter |-> filter, num |-> 0]]
                /\ UNCHANGED run
             \/ /\ info' = [info EXCEPT ![nextCol] =
                     [state |-> "loading", filter |-> filter, num |-> NumSensors]]
                /\ Begin(g, "add", k, nextCol, "lockLoad")
  /\ UNCHANGED <<sensorVars, lockVars, touched>>

\* Mutant: the state is not looked at.
EnableAnyway(k) == Present(k) /\ StateOf(k) # "enabled"
EnablePossible(k) == StateOf(k) = "disabled"

doEnableTracingPolicy(g, k) ==
  /\ Ready(g) /\ EnablePossible(k)
  /\ SetState(table[k], "loading")
  /\ Begin(g, "enable", k, table[k], "lockLoad")
  /\ UNCHANGED <<table, nextCol, sensorVars, pf, lockVars, abandoned, touched>>

doDisableTracingPolicy(g, k) ==
  /\ Ready(g) /\ StateOf(k) = "enabled"
  /\ SetState(table[k], "unloading")
  /\ Begin(g, "disable", k, table[k], "lockLoad")
  /\ UNCHANGED <<table, nextCol, sensorVars, pf, lockVars, abandoned, touched>>

deleteTracingPolicy(g, k) ==
  /\ Ready(g) /\ Present(k)
  /\ table' = [table EXCEPT ![k] = NoCol]
  /\ Begin(g, "delete", k, table[k], "destroy")
  /\ UNCHANGED <<info, nextCol, sensorVars, pf, lockVars, abandoned, touched>>

\* A sensor is a collection of one, with no state and no policy.  These requests
\* are for cluster-wide keys, and go by the key alone: they also take the
\* collection of a tracing policy.
addSensor(g, k) ==
  /\ Ready(g) /\ ~Present(k) /\ nextCol <= MaxCols
  /\ table' = [table EXCEPT ![k] = nextCol]
  /\ info' = [info EXCEPT ![nextCol].num = 1]
  /\ nextCol' = nextCol + 1
  /\ UNCHANGED <<sensorVars, pf, lockVars, run, abandoned, touched>>

\* enableSensor and disableSensor load and unload, and leave the state alone.
enableSensor(g, k) ==
  /\ Ready(g) /\ Present(k)
  /\ Begin(g, "enableSensor", k, table[k], "lockLoad")
  /\ touched' = touched \cup {table[k]}
  /\ UNCHANGED <<table, info, nextCol, sensorVars, pf, lockVars, abandoned>>

disableSensor(g, k) ==
  /\ Ready(g) /\ Present(k)
  /\ Begin(g, "disableSensor", k, table[k], "lockLoad")
  /\ touched' = touched \cup {table[k]}
  /\ UNCHANGED <<table, info, nextCol, sensorVars, pf, lockVars, abandoned>>

\* The removals below keep collections.mu until they are through, and do not
\* tell the policy filter.
removeSensor(g, k) ==
  /\ Ready(g) /\ Present(k)
  /\ mu' = g
  /\ Begin(g, "removeSensor", k, table[k], "destroy")
  /\ UNCHANGED <<table, info, nextCol, sensorVars, pf, muLoad, abandoned, touched>>

removeAllSensors(g) ==
  /\ Ready(g)
  /\ \E k \in Keys : Present(k) /\ Begin(g, "removeAll", k, table[k], "destroy")
  /\ mu' = g
  /\ UNCHANGED <<table, info, nextCol, sensorVars, pf, muLoad, abandoned, touched>>

Request(g) ==
  /\ asked < MaxRequests /\ asked' = asked + 1
  /\ \/ \E k \in PolicyKeys : addTracingPolicy(g, k)
     \/ \E k \in Keys : \/ deleteTracingPolicy(g, k)
                        \/ doEnableTracingPolicy(g, k) \/ doDisableTracingPolicy(g, k)
     \/ \E k \in ClusterWide : \/ addSensor(g, k) \/ removeSensor(g, k)
                               \/ enableSensor(g, k) \/ disableSensor(g, k)
     \/ removeAllSensors(g)

-----------------------------------------------------------------------------
(***************************************************************************)
(* Loading and unloading, under muLoad.                                    *)
(***************************************************************************)
Loads(op) == op \in {"add", "enable", "enableSensor"}

lockLoad(g) ==
  /\ At(g, "lockLoad") /\ muLoad = NoOne
  /\ muLoad' = g
  /\ Goto(g, IF Loads(run[g].op) THEN "load" ELSE "unload")
  /\ UNCHANGED <<table, info, nextCol, sensorVars, pf, mu, abandoned, requestVars>>

\* Mutant: what was loaded before the failure stays.
KeepLoaded(g) == run' = [run EXCEPT ![g].at = "unlockLoad", ![g].err = TRUE]
\* if there was an error, try to unload all the sensors
RollBack(g) ==
  run' = [run EXCEPT ![g].at = "unload", ![g].i = 1, ![g].err = TRUE]

\* collection.load: one sensor, up to the loading of its programs.
load(g) ==
  /\ At(g, "load")
  /\ \/ AllDone(g) /\ Goto(g, "unlockLoad")
     \/ ~AllDone(g) /\ Sensor(g) \in loaded[Col(g)] /\ NextSensor(g, "load")
     \/ /\ ~AllDone(g) /\ Sensor(g) \notin loaded[Col(g)]
        /\ IF Sensor(g) \in destroyed[Col(g)] THEN RollBack(g) ELSE Goto(g, "attach")
  /\ UNCHANGED <<table, info, nextCol, sensorVars, pf, lockVars, abandoned, requestVars>>

\* The end of Sensor.Load, which undoes its own work if it fails.
attach(g) ==
  /\ At(g, "attach")
  /\ \/ /\ loaded' = [loaded EXCEPT ![Col(g)] = @ \cup {Sensor(g)}]
        /\ NextSensor(g, "load")
     \/ RollBack(g) /\ UNCHANGED loaded
  /\ UNCHANGED <<table, info, nextCol, destroyed, pf, lockVars, abandoned, requestVars>>

\* collection.unload: IsLoaded, and then Sensor.Unload, which looks again and
\* clears Loaded when all the programs and maps are unloaded.
unload(g) ==
  /\ At(g, "unload")
  /\ \/ AllDone(g) /\ Goto(g, "unlockLoad")
     \/ ~AllDone(g) /\ Sensor(g) \notin loaded[Col(g)] /\ NextSensor(g, "unload")
     \/ ~AllDone(g) /\ Sensor(g) \in loaded[Col(g)] /\ Goto(g, "check")
  /\ UNCHANGED <<table, info, nextCol, sensorVars, pf, lockVars, abandoned, requestVars>>

check(g) ==
  /\ At(g, "check")
  /\ \/ Sensor(g) \in loaded[Col(g)] /\ Goto(g, "detach")
     \/ /\ Sensor(g) \notin loaded[Col(g)]
        /\ run' = [run EXCEPT ![g].at = "unload", ![g].i = @ + 1, ![g].err = TRUE]
  /\ UNCHANGED <<table, info, nextCol, sensorVars, pf, lockVars, abandoned, requestVars>>

detach(g) ==
  /\ At(g, "detach")
  /\ loaded' = [loaded EXCEPT ![Col(g)] = @ \ {Sensor(g)}]
  /\ NextSensor(g, "unload")
  /\ UNCHANGED <<table, info, nextCol, destroyed, pf, lockVars, abandoned, requestVars>>

\* Mutant: the lock is kept when there was an error.
KeptOnError(g) == IF run[g].err THEN muLoad ELSE NoOne
Unlocked(g) == NoOne

unlockLoad(g) ==
  /\ At(g, "unlockLoad")
  /\ muLoad' = Unlocked(g)
  /\ IF run[g].op \in {"enableSensor", "disableSensor"} THEN Finish(g)
                                                        ELSE Goto(g, "relock")
  /\ UNCHANGED <<table, info, nextCol, sensorVars, pf, mu, abandoned, requestVars>>

Outcome(op, err) ==
  CASE Loads(op) /\ ~err -> "enabled"
    [] Loads(op) /\ err -> "loadError"
    [] ~Loads(op) /\ ~err -> "disabled"
    [] ~Loads(op) /\ err -> "error"

\* The last section of add, enable and disable, on the collection they began
\* with: it may be gone from the map.
relock(g) ==
  /\ At(g, "relock") /\ mu = NoOne
  /\ SetState(Col(g), Outcome(run[g].op, run[g].err))
  /\ Finish(g)
  /\ UNCHANGED <<table, nextCol, sensorVars, pf, lockVars, abandoned, requestVars>>

-----------------------------------------------------------------------------
(***************************************************************************)
(* Destroying, without muLoad.                                             *)
(***************************************************************************)

\* Sensor.Destroy: Sensor.Unload, whose error does not matter, and the hook.
destroy(g) ==
  /\ At(g, "destroy") /\ ~AllDone(g)
  /\ Goto(g, IF Sensor(g) \in loaded[Col(g)] THEN "destroyDetach" ELSE "destroyHook")
  /\ UNCHANGED <<table, info, nextCol, sensorVars, pf, lockVars, abandoned, requestVars>>

destroyDetach(g) ==
  /\ At(g, "destroyDetach")
  /\ loaded' = [loaded EXCEPT ![Col(g)] = @ \ {Sensor(g)}]
  /\ Goto(g, "destroyHook")
  /\ UNCHANGED <<table, info, nextCol, destroyed, pf, lockVars, abandoned, requestVars>>

destroyHook(g) ==
  /\ At(g, "destroyHook")
  /\ destroyed' = [destroyed EXCEPT ![Col(g)] = @ \cup {Sensor(g)}]
  /\ NextSensor(g, "destroy")
  /\ UNCHANGED <<table, info, nextCol, loaded, pf, lockVars, abandoned, requestVars>>

\* Mutant: the policy filter keeps the policy.
FilterKept(c) == pf
DelPolicy(c) == pf \ {info[c].filter}

finishDelete(g) ==
  /\ At(g, "destroy") /\ AllDone(g) /\ run[g].op = "delete"
  /\ pf' = DelPolicy(Col(g))
  /\ Finish(g)
  /\ UNCHANGED <<table, info, nextCol, sensorVars, lockVars, abandoned, requestVars>>

\* delete(collections, ck), and the next one if all are to be removed.
finishRemove(g) ==
  /\ At(g, "destroy") /\ AllDone(g) /\ run[g].op \in {"removeSensor", "removeAll"}
  /\ table' = [table EXCEPT ![run[g].key] = NoCol]
  /\ abandoned' = abandoned \cup {Col(g)}
  /\ LET more == {k \in Keys \ {run[g].key} : run[g].op = "removeAll" /\ Present(k)}
     IN \/ /\ \E k \in more : Begin(g, "removeAll", k, table[k], "destroy")
           /\ UNCHANGED mu
        \/ more = {} /\ Finish(g) /\ mu' = NoOne
  /\ UNCHANGED <<info, nextCol, sensorVars, pf, muLoad, requestVars>>

Step(g) ==
  \/ load(g) \/ attach(g) \/ unload(g) \/ check(g) \/ detach(g)
  \/ unlockLoad(g) \/ destroy(g) \/ destroyDetach(g) \/ destroyHook(g) \/ finishDelete(g) \/ finishRemove(g)

Next == \E g \in Goroutines : Request(g) \/ lockLoad(g) \/ relock(g) \/ Step(g)

Spec == Init /\ [][Next]_vars

\* A goroutine runs on, and a mutex is not withheld from a waiter for ever:
\* sync.Mutex and sync.RWMutex serve a starving one first.
Fairness ==
  \A g \in Goroutines : /\ WF_vars(Step(g))
                        /\ SF_vars(lockLoad(g))
                        /\ SF_vars(relock(g))

FairSpec == Spec /\ Fairness

-----------------------------------------------------------------------------
(***************************************************************************)
(* Properties.                                                             *)
(***************************************************************************)
SensorsOf(c) == 1 .. info[c].num

Run == [at : Places, op : Ops, key : Keys \cup {NoKey}, col : Cols \cup {NoCol},
        i : 1 .. NumSensors + 1, err : BOOLEAN]

\* Every variable keeps its type; only sensors a collection has are loaded.
CoreTypeOK ==
  /\ table \in [Keys -> Cols \cup {NoCol}]
  /\ info \in [Cols -> [state : States, filter : Cols \cup {NoFilterID},
                        num : {0, 1, NumSensors}]]
  /\ nextCol \in 1 .. MaxCols + 1
  /\ loaded \in [Cols -> SUBSET (1 .. NumSensors)]
  /\ destroyed \in [Cols -> SUBSET (1 .. NumSensors)]
  /\ \A c \in Cols : loaded[c] \subseteq SensorsOf(c) /\ destroyed[c] \subseteq SensorsOf(c)
  /\ pf \subseteq Cols /\ abandoned \subseteq Cols /\ touched \subseteq Cols
  /\ mu \in Goroutines \cup {NoOne} /\ muLoad \in Goroutines \cup {NoOne}
  /\ run \in [Goroutines -> Run]

TypeOK == CoreTypeOK /\ asked \in 0 .. MaxRequests

\* What a client is told when it lists the policies is true at that moment:
\* an enabled policy has all its sensors loaded and none destroyed, a disabled
\* or failed one has none loaded, and none is in error, whatever is going on
\* elsewhere.  Only a policy that was enabled or disabled as a sensor is not
\* what its state says: that leaves the state alone.
Listed ==
  mu = NoOne =>
    \A k \in Keys : Present(k) /\ table[k] \notin touched =>
      LET c == table[k] IN
      /\ StateOf(k) = "enabled" => loaded[c] = SensorsOf(c) /\ destroyed[c] = {}
      /\ StateOf(k) \in {"disabled", "loadError"} => loaded[c] = {}
      /\ StateOf(k) # "error"

Working(c) == {g \in Goroutines : /\ Col(g) = c
                                  /\ run[g].op \in {"add", "enable", "disable"}}

\* A collection is loading or unloading exactly while one goroutine is at it:
\* no two clients load it, and it is not left in that state.
OneWorker ==
  \A c \in Cols :
    Cardinality(Working(c)) =
      (IF info[c].state \in {"loading", "unloading"} THEN 1 ELSE 0)

Deleting(c) == \E g \in Goroutines : Col(g) = c /\ run[g].op = "delete"
Listing(c) == \E k \in Keys : table[k] = c
Known(c) == Listing(c) \/ Deleting(c) \/ c \in abandoned

\* The policy filter and the manager agree: a policy with a filter is known to
\* the filter until it has been deleted, and the filter knows no other, except
\* those that were added again after a failure, removed as sensors, or left
\* behind at shutdown.
FilterAgrees ==
  /\ \A c \in Cols :
       (info[c].filter # NoFilterID /\ Known(c)) => c \in pf
  /\ \A c \in pf : Known(c)

\* Every request comes to an end: the two locks do not block each other.
Completes == \A g \in Goroutines : (At(g, "lockLoad") \/ At(g, "destroy")) ~> At(g, "idle")

\* manager.go:29-31 serializes "loading and unloading of sensors as requested
\* from different goroutines (e.g., different GRPC clients)".  So between
\* requests, what is loaded belongs to a collection that is listed: a policy
\* that was deleted leaves no programs behind.
NothingLeftLoaded ==
  (\A g \in Goroutines : At(g, "idle")) =>
    \A c \in Cols : loaded[c] # {} => Listing(c)

\* handler.go:208-209: unloading a policy fails only if it is not loaded,
\* "which should be impossible".
UnloadSucceeds == \A c \in Cols : info[c].state # "error"

=============================================================================
