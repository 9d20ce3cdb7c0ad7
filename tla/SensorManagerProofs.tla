------------------------- MODULE SensorManagerProofs -------------------------
(***************************************************************************)
(* Proofs about SensorManager, for every set of goroutines and of keys and *)
(* every number of sensors, of collections and of requests.                *)
(***************************************************************************)
EXTENDS SensorManager, FiniteSetTheorems, TLAPS

-----------------------------------------------------------------------------
(***************************************************************************)
(* The inductive invariant.                                                *)
(***************************************************************************)
Workers == {"add", "enable", "disable"}
SensorRequests == {"enableSensor", "disableSensor"}
Removers == {"removeSensor", "removeAll"}

Loading == {"lockLoad", "load", "attach", "unload", "check", "detach", "unlockLoad", "relock"}
Destroying == {"destroy", "destroyDetach", "destroyHook"}
OnSensor == {"attach", "check", "detach", "destroyDetach", "destroyHook"}

\* Where a goroutine may be with its request, and on which sensor.
PlaceOK(g) ==
  LET r == run[g] IN
  /\ r.at = "idle" <=> r.op = "none"
  /\ r.at \in Loading <=> r.op \in Workers \cup {"enableSensor", "disableSensor"}
  /\ r.at \in Destroying <=> r.op \in Removers \cup {"delete"}
  /\ r.at \in {"load", "attach"} => Loads(r.op)
  /\ r.at = "relock" => r.op \in Workers
  /\ r.op # "none" => r.col \in Cols /\ r.col < nextCol
  /\ r.at \in OnSensor => r.i <= info[r.col].num

\* A removal holds collections.mu, so that the table stays as it found it.  The
\* collection of a request for a sensor is marked.
RequestOK(g) ==
  /\ run[g].op \in Removers => /\ mu = g /\ run[g].key \in Keys
                               /\ table[run[g].key] = Col(g)
  /\ run[g].op \in SensorRequests => Col(g) \in touched

\* No collection has two keys, and none that is still to be made leaves a trace.
TableOK ==
  /\ \A k, l \in Keys : table[k] = table[l] /\ table[k] # NoCol => k = l
  /\ \A k \in Keys : table[k] < nextCol
  /\ \A c \in Cols : c >= nextCol =>
       /\ info[c] = [state |-> "unknown", filter |-> NoFilterID, num |-> 0]
       /\ c \notin pf /\ c \notin abandoned

Works(g, c) == Col(g) = c /\ run[g].op \in Workers

\* A collection is loading or unloading exactly while someone works on it, and
\* no one else does; the state says which.
WorkerOK(c) ==
  /\ \A g, h \in Goroutines : Works(g, c) /\ Works(h, c) => g = h
  /\ info[c].state \in {"loading", "unloading"} <=> \E g \in Goroutines : Works(g, c)
  /\ \A g \in Goroutines : Works(g, c) =>
       (info[c].state = "loading" <=> Loads(run[g].op))

Deletes(g, c) == Col(g) = c /\ run[g].op = "delete"

\* A collection is listed, or being deleted by one goroutine, or abandoned, or
\* gone.
DeleteOK(c) ==
  /\ \A g, h \in Goroutines : Deletes(g, c) /\ Deletes(h, c) => g = h
  /\ Deleting(c) => ~Listing(c) /\ c \notin abandoned
  /\ c \in abandoned => ~Listing(c)

\* The filter's id of a policy is its collection.
FilterOK(c) ==
  /\ info[c].filter \in {NoFilterID, c}
  /\ info[c].filter = c /\ Known(c) => c \in pf
  /\ c \in pf => info[c].filter = c /\ Known(c)

\* What a worker has loaded, L of the sensors S, when it is at a place.
ProgressAt(op, at, i, err, L, S) ==
  /\ at = "lockLoad" => i = 1 /\ L = (IF Loads(op) THEN {} ELSE S)
  /\ at \in {"lockLoad", "load", "attach"} => ~err
  /\ at \in {"load", "attach"} => L = 1 .. i - 1
  /\ at \in {"unload", "check", "detach"} => (\A j \in L : j >= i) /\ (err <=> Loads(op))
  /\ at \in {"check", "detach"} => i \in L
  /\ at \in {"unlockLoad", "relock"} =>
       /\ ~Loads(op) => ~err
       /\ L = (IF Loads(op) /\ ~err THEN S ELSE {})

Progress(g, c) ==
  ProgressAt(run[g].op, run[g].at, run[g].i, run[g].err, loaded[c], SensorsOf(c))

\* A collection that no one removes is what its state and its worker say.
Quiet(c) ==
  /\ destroyed[c] = {}
  /\ info[c].state \in States \ {"error"}
  /\ info[c].state = "enabled" => loaded[c] = SensorsOf(c)
  /\ info[c].state \in {"disabled", "loadError"} => loaded[c] = {}
  /\ \A g \in Goroutines : Works(g, c) => Progress(g, c)

Removing(c) == \E g \in Goroutines : Col(g) = c /\ run[g].op \in Removers
Managed(c) == Listing(c) /\ c \notin touched

ListedOK(c) == Managed(c) /\ ~Removing(c) => Quiet(c)

ColOK(c) == WorkerOK(c) /\ DeleteOK(c) /\ FilterOK(c) /\ ListedOK(c)

IInv ==
  /\ CoreTypeOK /\ TableOK
  /\ \A g \in Goroutines : PlaceOK(g) /\ RequestOK(g)
  /\ \A c \in Cols : ColOK(c)

-----------------------------------------------------------------------------
(***************************************************************************)
(* What the steps have in common.                                          *)
(***************************************************************************)

\* The requests that the invariant of a collection is about, besides removals.
Concerns(r, c) == r.col = c /\ r.op \in Workers \cup {"delete"}

\* A collection that a step leaves alone keeps its invariant.
LEMMA ColFrame ==
  ASSUME NEW c \in Cols, NEW g \in Goroutines, ColOK(c),
         \A h \in Goroutines \ {g} : run'[h] = run[h],
         ~Concerns(run[g], c), ~Concerns(run'[g], c),
         info'[c] = info[c], loaded'[c] = loaded[c], destroyed'[c] = destroyed[c],
         c \in pf' <=> c \in pf, c \in abandoned' <=> c \in abandoned,
         Listing(c)' <=> Listing(c), Managed(c)' => Managed(c),
         Removing(c) => Removing(c)'
  PROVE  ColOK(c)'
<1>1. \A h \in Goroutines : /\ Works(h, c)' <=> Works(h, c)
                            /\ Deletes(h, c)' <=> Deletes(h, c)
                            /\ Works(h, c) => run'[h] = run[h]
  BY DEF Works, Deletes, Concerns, Col, Workers
<1>2. WorkerOK(c)'
  BY <1>1 DEF ColOK, WorkerOK
<1>3. Deleting(c)' <=> Deleting(c)
  BY <1>1 DEF Deleting, Deletes
<1>4. DeleteOK(c)'
  BY <1>1, <1>3 DEF ColOK, DeleteOK
<1>5. FilterOK(c)'
  BY <1>3 DEF ColOK, FilterOK, Known
<1>6. ASSUME Managed(c)', ~Removing(c)' PROVE Quiet(c)'
  <2>1. Quiet(c)
    BY <1>6 DEF ColOK, ListedOK
  <2>2. ASSUME NEW h \in Goroutines, Works(h, c)' PROVE Progress(h, c)'
    <3>1. run'[h] = run[h] /\ Progress(h, c)
      BY <1>1, <2>1, <2>2 DEF Quiet
    <3> QED BY <3>1 DEF Progress, SensorsOf
  <2> QED BY <2>1, <2>2 DEF Quiet, SensorsOf
<1> QED BY <1>2, <1>4, <1>5, <1>6 DEF ColOK, ListedOK

\* The same for the place of a goroutine.
LEMMA PlaceFrame ==
  ASSUME NEW h \in Goroutines, PlaceOK(h), run'[h] = run[h],
         nextCol \in Int, nextCol' \in Int, nextCol <= nextCol',
         \A c \in Cols : c < nextCol => info'[c].num = info[c].num
  PROVE  PlaceOK(h)'
<1>1. run[h].op # "none" => run[h].col \in Cols /\ run[h].col < nextCol
  BY DEF PlaceOK
<1>2. run[h].at \in OnSensor => run[h].op # "none"
  BY DEF PlaceOK, OnSensor
<1>3. run[h].col \in Int /\ run[h].col < nextCol => run[h].col < nextCol'
  OBVIOUS
<1>4. run[h].at \in OnSensor => run[h].i <= info'[run[h].col].num
  BY <1>1, <1>2 DEF PlaceOK
<1>5. run[h].op # "none" => run[h].col < nextCol'
  BY <1>1, <1>3 DEF Cols
<1> QED BY <1>4, <1>5 DEF PlaceOK

\* A step within a request, which changes only where the goroutine is and what is
\* loaded or destroyed of its collection.
LEMMA LocalStep ==
  ASSUME IInv, NEW g \in Goroutines, NEW r \in Run, NEW col \in Cols, col = Col(g),
         run' = [run EXCEPT ![g] = r],
         r.op = run[g].op, r.key = run[g].key, r.col = run[g].col, r.op # "none",
         table' = table, info' = info, nextCol' = nextCol, pf' = pf, mu' = mu,
         abandoned' = abandoned, touched' = touched, CoreTypeOK', PlaceOK(g)',
         \A c \in Cols \ {col} : loaded'[c] = loaded[c] /\ destroyed'[c] = destroyed[c],
         run[g].op \in Workers /\ Quiet(col) => destroyed'[col] = {} /\ Progress(g, col)'
  PROVE  IInv'
<1>t. run \in [Goroutines -> Run] /\ nextCol \in Int
  BY DEF IInv, CoreTypeOK
<1>r. run'[g] = r /\ \A h \in Goroutines \ {g} : run'[h] = run[h]
  BY <1>t
<1>1. TableOK'
  BY DEF IInv, TableOK
<1>2. ASSUME NEW h \in Goroutines PROVE PlaceOK(h)' /\ RequestOK(h)'
  <2>1. RequestOK(h)'
    BY <1>r DEF IInv, RequestOK, Col
  <2>2. CASE h = g
    BY <2>1, <2>2
  <2>3. CASE h # g
    BY <1>t, <1>r, <2>1, <2>3, PlaceFrame DEF IInv
  <2> QED BY <2>2, <2>3
<1>3. ASSUME NEW c \in Cols PROVE ColOK(c)'
  <2>0. ColOK(c)
    BY DEF IInv
  <2>1. \A h \in Goroutines : /\ Works(h, c)' <=> Works(h, c)
                              /\ Deletes(h, c)' <=> Deletes(h, c)
                              /\ run'[h].op = run[h].op /\ run'[h].col = run[h].col
    BY <1>r DEF Works, Deletes, Col
  <2>2. WorkerOK(c)'
    BY <2>0, <2>1 DEF ColOK, WorkerOK
  <2>3. Deleting(c)' <=> Deleting(c)
    BY <2>1 DEF Deleting, Deletes
  <2>4. DeleteOK(c)' /\ FilterOK(c)'
    BY <2>0, <2>1, <2>3 DEF ColOK, DeleteOK, FilterOK, Known, Listing
  <2>5. ASSUME Managed(c)', ~Removing(c)' PROVE Quiet(c)'
    <3>1. Managed(c) /\ ~Removing(c)
      BY <2>1, <2>5 DEF Managed, Listing, Removing, Col
    <3>2. Quiet(c)
      BY <2>0, <3>1 DEF ColOK, ListedOK
    <3>3. CASE c # Col(g)
      <4>1. loaded'[c] = loaded[c] /\ destroyed'[c] = destroyed[c]
        BY <3>3
      <4>2. ASSUME NEW h \in Goroutines, Works(h, c)' PROVE Progress(h, c)'
        <5>1. Works(h, c) /\ run'[h] = run[h]
          BY <1>r, <2>1, <3>3, <4>2 DEF Works, Col
        <5>2. Progress(h, c)
          BY <3>2, <5>1 DEF Quiet
        <5> QED BY <4>1, <5>1, <5>2 DEF Progress, SensorsOf
      <4> QED BY <3>2, <4>1, <4>2 DEF Quiet, SensorsOf
    <3>4. CASE c = Col(g)
      <4>1. run[g].op \in Workers
        <5>1. run[g].op \notin Removers
          BY <3>1, <3>4 DEF Removing
        <5>2. run[g].op # "delete"
          BY <2>0, <3>1, <3>4 DEF ColOK, DeleteOK, Deleting, Listing, Managed, Keys
        <5>3. run[g].op \notin SensorRequests
          BY <3>1, <3>4 DEF IInv, RequestOK, Managed
        <5>4. run[g].op \in Ops
          BY <1>t DEF Run
        <5> QED BY <5>1, <5>2, <5>3, <5>4 DEF Ops, Workers, Removers, SensorRequests
      <4>2. Works(g, c) /\ info[c].state \in {"loading", "unloading"}
        BY <2>0, <3>4, <4>1 DEF Works, ColOK, WorkerOK
      <4>3. ASSUME NEW h \in Goroutines, Works(h, c)' PROVE h = g
        BY <2>0, <2>1, <4>2, <4>3 DEF ColOK, WorkerOK
      <4>4. destroyed'[c] = {} /\ Progress(g, c)'
        BY <3>2, <3>4, <4>1
      <4> QED BY <4>2, <4>3, <4>4 DEF Quiet, States
    <3> QED BY <3>3, <3>4
  <2> QED BY <2>2, <2>4, <2>5 DEF ColOK, ListedOK
<1> QED BY <1>1, <1>2, <1>3 DEF IInv

-----------------------------------------------------------------------------
(***************************************************************************)
(* The steps within a request.                                             *)
(***************************************************************************)

\* What is known of a goroutine that has begun a request.
LEMMA Begun ==
  ASSUME IInv, NEW g \in Goroutines, run[g].op # "none"
  PROVE  /\ run \in [Goroutines -> Run] /\ run[g] \in Run
         /\ Col(g) \in Cols /\ Sensor(g) \in 1 .. NumSensors + 1
         /\ info[Col(g)].num \in 0 .. NumSensors /\ info[Col(g)].num \in Int
         /\ loaded[Col(g)] \subseteq SensorsOf(Col(g))
         /\ PlaceOK(g)
<1>1. run \in [Goroutines -> Run] /\ run[g] \in Run /\ PlaceOK(g)
  BY DEF IInv, CoreTypeOK
<1>2. Col(g) \in Cols
  BY <1>1 DEF PlaceOK, Col
<1>3. info[Col(g)].num \in {0, 1, NumSensors} /\ loaded[Col(g)] \subseteq SensorsOf(Col(g))
  BY <1>2 DEF IInv, CoreTypeOK
<1>4. info[Col(g)].num \in 0 .. NumSensors /\ info[Col(g)].num \in Int
  BY <1>3, SensorsAssumption
<1> QED BY <1>1, <1>2, <1>3, <1>4 DEF Run, Sensor

\* The goroutine goes to a place, and its collection has L loaded and D destroyed.
Moves(g, c, at, i, err, L, D) ==
  /\ run' = [run EXCEPT ![g] = [run[g] EXCEPT !.at = at, !.i = i, !.err = err]]
  /\ loaded' = [loaded EXCEPT ![c] = L] /\ destroyed' = [destroyed EXCEPT ![c] = D]
  /\ muLoad' \in Goroutines \cup {NoOne}
  /\ UNCHANGED <<table, info, nextCol, pf, mu, abandoned, touched>>

\* It may be there with its request, and has made the progress it should.
Fits(g, c, at, i, err, L, D) ==
  /\ at \in Places /\ i \in 1 .. NumSensors + 1 /\ err \in BOOLEAN
  /\ L \subseteq SensorsOf(c) /\ D \subseteq SensorsOf(c)
  /\ at \in Loading <=> run[g].at \in Loading
  /\ at \in Destroying <=> run[g].at \in Destroying
  /\ at # "idle" /\ (at \in {"load", "attach"} => Loads(run[g].op))
  /\ at = "relock" => run[g].op \in Workers
  /\ at \in OnSensor => i <= info[c].num
  /\ run[g].op \in Workers /\ Quiet(c)
       => D = {} /\ ProgressAt(run[g].op, at, i, err, L, SensorsOf(c))

\* LocalStep, with what the step does to the goroutine and to its collection.
LEMMA Within ==
  ASSUME IInv, NEW g \in Goroutines, NEW c \in Cols, c = Col(g), run[g].op # "none",
         NEW at, NEW i, NEW err, NEW L, NEW D,
         Moves(g, c, at, i, err, L, D), Fits(g, c, at, i, err, L, D)
  PROVE  IInv'
<1>m. /\ run' = [run EXCEPT ![g] = [run[g] EXCEPT !.at = at, !.i = i, !.err = err]]
      /\ loaded' = [loaded EXCEPT ![c] = L] /\ destroyed' = [destroyed EXCEPT ![c] = D]
      /\ table' = table /\ info' = info /\ nextCol' = nextCol /\ pf' = pf /\ mu' = mu
      /\ abandoned' = abandoned /\ touched' = touched /\ muLoad' \in Goroutines \cup {NoOne}
  BY DEF Moves
<1>f. /\ at \in Places /\ i \in 1 .. NumSensors + 1 /\ err \in BOOLEAN
      /\ L \subseteq SensorsOf(c) /\ D \subseteq SensorsOf(c)
      /\ at \in Loading <=> run[g].at \in Loading
      /\ at \in Destroying <=> run[g].at \in Destroying
      /\ at # "idle" /\ (at \in {"load", "attach"} => Loads(run[g].op))
      /\ at = "relock" => run[g].op \in Workers
      /\ at \in OnSensor => i <= info[c].num
      /\ run[g].op \in Workers /\ Quiet(c)
           => D = {} /\ ProgressAt(run[g].op, at, i, err, L, SensorsOf(c))
  BY DEF Fits
<1> DEFINE q == [run[g] EXCEPT !.at = at, !.i = i, !.err = err]
<1>t. /\ run \in [Goroutines -> Run] /\ run[g] \in Run /\ PlaceOK(g)
      /\ loaded \in [Cols -> SUBSET (1 .. NumSensors)]
      /\ destroyed \in [Cols -> SUBSET (1 .. NumSensors)]
      /\ info[c].num \in 0 .. NumSensors /\ info[c].num \in Int
  BY Begun DEF IInv, CoreTypeOK
<1>1. /\ q \in Run /\ q.at = at /\ q.i = i /\ q.err = err
      /\ q.op = run[g].op /\ q.key = run[g].key /\ q.col = run[g].col
  BY <1>t, <1>f DEF Run
<1>2. PICK r \in Run : r = q
  BY <1>1
<1>3. run' = [run EXCEPT ![g] = r] /\ run'[g] = r
  BY <1>t, <1>m, <1>2
<1>4. /\ r.at = at /\ r.i = i /\ r.err = err
      /\ r.op = run[g].op /\ r.key = run[g].key /\ r.col = run[g].col
  BY <1>1, <1>2
<1> HIDE DEF q
<1>5. loaded'[c] = L /\ destroyed'[c] = D
      /\ \A d \in Cols \ {c} : loaded'[d] = loaded[d] /\ destroyed'[d] = destroyed[d]
  BY <1>t, <1>m
<1>6. CoreTypeOK'
  <2>1. SensorsOf(c) \subseteq 1 .. NumSensors
    BY <1>t, SensorsAssumption DEF SensorsOf
  <2>2. L \in SUBSET (1 .. NumSensors) /\ D \in SUBSET (1 .. NumSensors)
    BY <1>f, <2>1
  <2>3. loaded' \in [Cols -> SUBSET (1 .. NumSensors)]
        /\ destroyed' \in [Cols -> SUBSET (1 .. NumSensors)]
    BY <1>t, <1>m, <2>2
  <2>4. \A d \in Cols : loaded'[d] \subseteq SensorsOf(d) /\ destroyed'[d] \subseteq SensorsOf(d)
    BY <1>f, <1>m, <1>5 DEF IInv, CoreTypeOK, SensorsOf
  <2>5. run' \in [Goroutines -> Run]
    BY <1>t, <1>3
  <2> QED BY <1>m, <2>3, <2>4, <2>5 DEF IInv, CoreTypeOK, SensorsOf
<1>7. PlaceOK(g)'
  BY <1>t, <1>m, <1>f, <1>3, <1>4 DEF PlaceOK, Col, Workers, Removers
<1>8. run[g].op \in Workers /\ Quiet(c) => destroyed'[c] = {} /\ Progress(g, c)'
  BY <1>m, <1>f, <1>3, <1>4, <1>5 DEF Progress, SensorsOf
<1>9. /\ table' = table /\ info' = info /\ nextCol' = nextCol /\ pf' = pf /\ mu' = mu
      /\ abandoned' = abandoned /\ touched' = touched
  BY <1>m
<1> QED BY <1>2, <1>3, <1>4, <1>5, <1>6, <1>7, <1>8, <1>9, LocalStep

\* What is known of a worker's collection that no one removes.
LEMMA QuietWorker ==
  ASSUME IInv, NEW g \in Goroutines, NEW c \in Cols, c = Col(g),
         run[g].op \in Workers, Quiet(c)
  PROVE  /\ destroyed[c] = {} /\ Progress(g, c)
         /\ loaded[c] \subseteq SensorsOf(c) /\ SensorsOf(c) = 1 .. info[c].num
         /\ info[c].num \in Nat
<1>1. run[g].op # "none"
  BY DEF Workers
<1> QED BY <1>1, Begun DEF Quiet, Works, SensorsOf

\* What lies around a step within a request.
LEMMA Entry ==
  ASSUME IInv, NEW g \in Goroutines, run[g].at # "idle"
  PROVE  /\ run[g].op # "none" /\ run[g].op \in Ops /\ PlaceOK(g) /\ Col(g) \in Cols
         /\ run \in [Goroutines -> Run]
         /\ run[g].i \in 1 .. NumSensors + 1 /\ run[g].err \in BOOLEAN
         /\ info[Col(g)].num \in 0 .. NumSensors
         /\ loaded[Col(g)] \subseteq SensorsOf(Col(g))
         /\ destroyed[Col(g)] \subseteq SensorsOf(Col(g))
         /\ loaded = [loaded EXCEPT ![Col(g)] = loaded[Col(g)]]
         /\ destroyed = [destroyed EXCEPT ![Col(g)] = destroyed[Col(g)]]
         /\ muLoad \in Goroutines \cup {NoOne}
<1>1. run[g].op # "none"
  BY DEF IInv, PlaceOK
<1>2. Col(g) \in Cols /\ PlaceOK(g) /\ run[g] \in Run /\ info[Col(g)].num \in 0 .. NumSensors
  BY <1>1, Begun
<1> QED BY <1>1, <1>2 DEF IInv, CoreTypeOK, Run

LEMMA lockLoadIInv ==
  ASSUME IInv, NEW g \in Goroutines, lockLoad(g)
  PROVE  IInv'
<1>1. run[g].at = "lockLoad"
  BY DEF lockLoad, At
<1>2. PICK c \in Cols : c = Col(g)
  BY <1>1, Entry
<1>3. PICK at : at = IF Loads(run[g].op) THEN "load" ELSE "unload"
  OBVIOUS
<1>4. Moves(g, c, at, run[g].i, run[g].err, loaded[c], destroyed[c])
  BY <1>1, <1>2, <1>3, Entry DEF Moves, lockLoad, Goto, sensorVars, requestVars
<1>5. run[g].op \in Workers /\ Quiet(c) =>
        /\ destroyed[c] = {}
        /\ ProgressAt(run[g].op, at, run[g].i, run[g].err, loaded[c], SensorsOf(c))
  BY <1>1, <1>2, <1>3, QuietWorker DEF Progress, ProgressAt
<1>6. Fits(g, c, at, run[g].i, run[g].err, loaded[c], destroyed[c])
  BY <1>1, <1>2, <1>3, <1>5, Entry DEF Fits, Places, Loading, Destroying, OnSensor
<1> QED BY <1>1, <1>2, <1>4, <1>6, Entry, Within


\* The step to a place, in the terms of Within, for a step that loads nothing.
LEMMA Going ==
  ASSUME IInv, NEW g \in Goroutines, NEW c \in Cols, c = Col(g), run[g].at # "idle",
         NEW at, NEW i, NEW err,
         run' = [run EXCEPT ![g] = [run[g] EXCEPT !.at = at, !.i = i, !.err = err]],
         UNCHANGED <<table, info, nextCol, sensorVars, pf, lockVars, abandoned, touched>>,
         Fits(g, c, at, i, err, loaded[c], destroyed[c])
  PROVE  IInv'
<1>1. Moves(g, c, at, i, err, loaded[c], destroyed[c])
  BY Entry DEF Moves, sensorVars, lockVars, requestVars
<1> QED BY <1>1, Entry, Within

LEMMA loadIInv ==
  ASSUME IInv, NEW g \in Goroutines, load(g)
  PROVE  IInv'
<1>1. run[g].at = "load" /\ Loads(run[g].op)
  BY DEF load, At, IInv, PlaceOK
<1>2. PICK c \in Cols : c = Col(g)
  BY <1>1, Entry
<1>3. UNCHANGED <<table, info, nextCol, sensorVars, pf, lockVars, abandoned, touched>>
  BY DEF load, requestVars
<1>q. run[g].op \in Workers /\ Quiet(c) =>
        /\ destroyed[c] = {} /\ ~run[g].err /\ loaded[c] = 1 .. run[g].i - 1
        /\ loaded[c] \subseteq SensorsOf(c) /\ SensorsOf(c) = 1 .. info[c].num
  BY <1>1, <1>2, QuietWorker DEF Progress, ProgressAt
<1>i. run[g].i \in 1 .. NumSensors + 1 /\ info[c].num \in 0 .. NumSensors /\ NumSensors \in Int
  BY <1>1, <1>2, Entry, SensorsAssumption
<1>4. CASE AllDone(g) /\ Goto(g, "unlockLoad")
  <2>1. run[g].i > info[c].num
    BY <1>2, <1>4 DEF AllDone, Sensor
  <2>2. run[g].op \in Workers /\ Quiet(c) => loaded[c] = SensorsOf(c)
    <3>1. ASSUME run[g].op \in Workers, Quiet(c) PROVE info[c].num = run[g].i - 1
      <4>1. run[g].i - 1 >= 1 => run[g].i - 1 \in loaded[c]
        BY <1>q, <1>i, <3>1
      <4>2. run[g].i - 1 >= 1 => run[g].i - 1 <= info[c].num
        BY <1>q, <1>i, <3>1, <4>1
      <4> QED BY <1>i, <2>1, <4>2
    <3> QED BY <1>q, <3>1
  <2>3. Fits(g, c, "unlockLoad", run[g].i, run[g].err, loaded[c], destroyed[c])
    BY <1>1, <1>2, <1>q, <2>2, Entry
    DEF Fits, ProgressAt, Places, Loading, Destroying, OnSensor
  <2>4. run' = [run EXCEPT ![g] = [run[g] EXCEPT !.at = "unlockLoad", !.i = run[g].i,
                                                 !.err = run[g].err]]
    BY <1>1, <1>4, Entry DEF Goto, Run
  <2> QED BY <1>1, <1>2, <1>3, <2>3, <2>4, Going
<1>5. CASE ~AllDone(g) /\ Sensor(g) \in loaded[Col(g)] /\ NextSensor(g, "load")
  <2>1. run[g].i <= info[c].num /\ run[g].i \in loaded[c]
    BY <1>2, <1>5, <1>i DEF AllDone, Sensor
  <2>2. ~(run[g].op \in Workers /\ Quiet(c))
    BY <1>q, <1>i, <2>1
  <2>3. run[g].i + 1 \in 1 .. NumSensors + 1
    BY <1>1, <1>i, <2>1, Entry
  <2>4. Fits(g, c, "load", run[g].i + 1, run[g].err, loaded[c], destroyed[c])
    BY <1>1, <1>2, <2>2, <2>3, Entry
    DEF Fits, ProgressAt, Places, Loading, Destroying, OnSensor
  <2>5. run' = [run EXCEPT ![g] = [run[g] EXCEPT !.at = "load", !.i = run[g].i + 1,
                                                 !.err = run[g].err]]
    BY <1>1, <1>5, Entry DEF NextSensor, Run
  <2> QED BY <1>1, <1>2, <1>3, <2>4, <2>5, Going
<1>6. CASE ~AllDone(g) /\ Sensor(g) \in destroyed[Col(g)] /\ RollBack(g)
  <2>1. ~(run[g].op \in Workers /\ Quiet(c))
    BY <1>2, <1>q, <1>6
  <2>2. Fits(g, c, "unload", 1, TRUE, loaded[c], destroyed[c])
    BY <1>1, <1>2, <1>i, <2>1, Entry
    DEF Fits, ProgressAt, Places, Loading, Destroying, OnSensor
  <2>3. run' = [run EXCEPT ![g] = [run[g] EXCEPT !.at = "unload", !.i = 1, !.err = TRUE]]
    BY <1>1, <1>6, Entry DEF RollBack, Run
  <2> QED BY <1>1, <1>2, <1>3, <2>2, <2>3, Going
<1>7. CASE ~AllDone(g) /\ Goto(g, "attach")
  <2>1. run[g].i <= info[c].num
    BY <1>2, <1>7, <1>i DEF AllDone, Sensor
  <2>2. Fits(g, c, "attach", run[g].i, run[g].err, loaded[c], destroyed[c])
    BY <1>1, <1>2, <1>q, <2>1, Entry
    DEF Fits, ProgressAt, Places, Loading, Destroying, OnSensor
  <2>3. run' = [run EXCEPT ![g] = [run[g] EXCEPT !.at = "attach", !.i = run[g].i,
                                                 !.err = run[g].err]]
    BY <1>1, <1>7, Entry DEF Goto, Run
  <2> QED BY <1>1, <1>2, <1>3, <2>2, <2>3, Going
<1> QED BY <1>4, <1>5, <1>6, <1>7 DEF load

LEMMA attachIInv ==
  ASSUME IInv, NEW g \in Goroutines, attach(g)
  PROVE  IInv'
<1>1. run[g].at = "attach" /\ Loads(run[g].op)
  BY DEF attach, At, IInv, PlaceOK
<1>2. PICK c \in Cols : c = Col(g)
  BY <1>1, Entry
<1>q. run[g].op \in Workers /\ Quiet(c) =>
        destroyed[c] = {} /\ ~run[g].err /\ loaded[c] = 1 .. run[g].i - 1
  BY <1>1, <1>2, QuietWorker DEF Progress, ProgressAt
<1>i. run[g].i \in 1 .. NumSensors + 1 /\ info[c].num \in 0 .. NumSensors /\ NumSensors \in Int
      /\ run[g].i <= info[c].num /\ run[g].i \in SensorsOf(c)
  BY <1>1, <1>2, Entry, SensorsAssumption DEF PlaceOK, Col, OnSensor, SensorsOf
<1>3. CASE loaded' = [loaded EXCEPT ![Col(g)] = @ \cup {Sensor(g)}] /\ NextSensor(g, "load")
  <2>1. PICK L : L = loaded[c] \cup {run[g].i}
    OBVIOUS
  <2>2. Moves(g, c, "load", run[g].i + 1, run[g].err, L, destroyed[c])
    BY <1>1, <1>2, <1>3, <2>1, Entry DEF Moves, attach, NextSensor, Sensor, Run, lockVars, requestVars
  <2>3. run[g].op \in Workers /\ Quiet(c) => L = 1 .. (run[g].i + 1) - 1
    BY <1>q, <1>i, <2>1
  <2>4. Fits(g, c, "load", run[g].i + 1, run[g].err, L, destroyed[c])
    <3>1. L \subseteq SensorsOf(c) /\ run[g].i + 1 \in 1 .. NumSensors + 1
      BY <1>1, <1>2, <1>i, <2>1, Entry
    <3> QED BY <1>1, <1>2, <1>q, <2>3, <3>1, Entry
            DEF Fits, ProgressAt, Places, Loading, Destroying, OnSensor
  <2> QED BY <1>1, <1>2, <2>2, <2>4, Entry, Within
<1>4. CASE RollBack(g) /\ UNCHANGED loaded
  <2>1. UNCHANGED <<table, info, nextCol, sensorVars, pf, lockVars, abandoned, touched>>
    BY <1>4 DEF attach, sensorVars, requestVars
  <2>2. run[g].op \in Workers /\ Quiet(c) => \A j \in loaded[c] : j >= 1
    BY <1>q, <1>i
  <2>3. Fits(g, c, "unload", 1, TRUE, loaded[c], destroyed[c])
    BY <1>1, <1>2, <1>q, <1>i, <2>2, Entry
    DEF Fits, ProgressAt, Places, Loading, Destroying, OnSensor
  <2>4. run' = [run EXCEPT ![g] = [run[g] EXCEPT !.at = "unload", !.i = 1, !.err = TRUE]]
    BY <1>1, <1>4, Entry DEF RollBack, Run
  <2> QED BY <1>1, <1>2, <2>1, <2>3, <2>4, Going
<1> QED BY <1>3, <1>4 DEF attach

LEMMA unloadIInv ==
  ASSUME IInv, NEW g \in Goroutines, unload(g)
  PROVE  IInv'
<1>1. run[g].at = "unload"
  BY DEF unload, At
<1>2. PICK c \in Cols : c = Col(g)
  BY <1>1, Entry
<1>3. UNCHANGED <<table, info, nextCol, sensorVars, pf, lockVars, abandoned, touched>>
  BY DEF unload, requestVars
<1>q. run[g].op \in Workers /\ Quiet(c) =>
        /\ destroyed[c] = {} /\ (run[g].err <=> Loads(run[g].op))
        /\ \A j \in loaded[c] : j >= run[g].i
        /\ loaded[c] \subseteq SensorsOf(c) /\ SensorsOf(c) = 1 .. info[c].num
  BY <1>1, <1>2, QuietWorker DEF Progress, ProgressAt
<1>i. run[g].i \in 1 .. NumSensors + 1 /\ info[c].num \in 0 .. NumSensors /\ NumSensors \in Int
  BY <1>1, <1>2, Entry, SensorsAssumption
<1>4. CASE AllDone(g) /\ Goto(g, "unlockLoad")
  <2>1. run[g].i > info[c].num
    BY <1>2, <1>4 DEF AllDone, Sensor
  <2>2. run[g].op \in Workers /\ Quiet(c) => loaded[c] = {}
    BY <1>q, <1>i, <2>1
  <2>3. Fits(g, c, "unlockLoad", run[g].i, run[g].err, loaded[c], destroyed[c])
    BY <1>1, <1>2, <1>q, <2>2, Entry
    DEF Fits, ProgressAt, Places, Loading, Destroying, OnSensor
  <2>4. run' = [run EXCEPT ![g] = [run[g] EXCEPT !.at = "unlockLoad", !.i = run[g].i,
                                                 !.err = run[g].err]]
    BY <1>1, <1>4, Entry DEF Goto, Run
  <2> QED BY <1>1, <1>2, <1>3, <2>3, <2>4, Going
<1>5. CASE ~AllDone(g) /\ Sensor(g) \notin loaded[Col(g)] /\ NextSensor(g, "unload")
  <2>1. run[g].i <= info[c].num /\ run[g].i \notin loaded[c]
    BY <1>2, <1>5, <1>i DEF AllDone, Sensor
  <2>2. run[g].op \in Workers /\ Quiet(c) => \A j \in loaded[c] : j >= run[g].i + 1
    BY <1>q, <1>i, <2>1
  <2>3. run[g].i + 1 \in 1 .. NumSensors + 1
    BY <1>1, <1>i, <2>1, Entry
  <2>4. Fits(g, c, "unload", run[g].i + 1, run[g].err, loaded[c], destroyed[c])
    BY <1>1, <1>2, <1>q, <2>2, <2>3, Entry
    DEF Fits, ProgressAt, Places, Loading, Destroying, OnSensor
  <2>5. run' = [run EXCEPT ![g] = [run[g] EXCEPT !.at = "unload", !.i = run[g].i + 1,
                                                 !.err = run[g].err]]
    BY <1>1, <1>5, Entry DEF NextSensor, Run
  <2> QED BY <1>1, <1>2, <1>3, <2>4, <2>5, Going
<1>6. CASE ~AllDone(g) /\ Sensor(g) \in loaded[Col(g)] /\ Goto(g, "check")
  <2>1. run[g].i <= info[c].num /\ run[g].i \in loaded[c]
    BY <1>2, <1>6, <1>i DEF AllDone, Sensor
  <2>2. Fits(g, c, "check", run[g].i, run[g].err, loaded[c], destroyed[c])
    BY <1>1, <1>2, <1>q, <2>1, Entry
    DEF Fits, ProgressAt, Places, Loading, Destroying, OnSensor
  <2>3. run' = [run EXCEPT ![g] = [run[g] EXCEPT !.at = "check", !.i = run[g].i,
                                                 !.err = run[g].err]]
    BY <1>1, <1>6, Entry DEF Goto, Run
  <2> QED BY <1>1, <1>2, <1>3, <2>2, <2>3, Going
<1> QED BY <1>4, <1>5, <1>6 DEF unload

LEMMA checkIInv ==
  ASSUME IInv, NEW g \in Goroutines, check(g)
  PROVE  IInv'
<1>1. run[g].at = "check"
  BY DEF check, At
<1>2. PICK c \in Cols : c = Col(g)
  BY <1>1, Entry
<1>3. UNCHANGED <<table, info, nextCol, sensorVars, pf, lockVars, abandoned, touched>>
  BY DEF check, requestVars
<1>q. run[g].op \in Workers /\ Quiet(c) =>
        /\ destroyed[c] = {} /\ (run[g].err <=> Loads(run[g].op))
        /\ (\A j \in loaded[c] : j >= run[g].i) /\ run[g].i \in loaded[c]
  BY <1>1, <1>2, QuietWorker DEF Progress, ProgressAt
<1>i. run[g].i \in 1 .. NumSensors + 1 /\ info[c].num \in 0 .. NumSensors /\ NumSensors \in Int
      /\ run[g].i <= info[c].num
  BY <1>1, <1>2, Entry, SensorsAssumption DEF PlaceOK, Col, OnSensor
<1>4. CASE Goto(g, "detach")
  <2>1. Fits(g, c, "detach", run[g].i, run[g].err, loaded[c], destroyed[c])
    BY <1>1, <1>2, <1>q, <1>i, Entry
    DEF Fits, ProgressAt, Places, Loading, Destroying, OnSensor
  <2>2. run' = [run EXCEPT ![g] = [run[g] EXCEPT !.at = "detach", !.i = run[g].i,
                                                 !.err = run[g].err]]
    BY <1>1, <1>4, Entry DEF Goto, Run
  <2> QED BY <1>1, <1>2, <1>3, <2>1, <2>2, Going
<1>5. CASE /\ Sensor(g) \notin loaded[Col(g)]
           /\ run' = [run EXCEPT ![g].at = "unload", ![g].i = @ + 1, ![g].err = TRUE]
  <2>1. ~(run[g].op \in Workers /\ Quiet(c))
    BY <1>2, <1>q, <1>5 DEF Sensor
  <2>2. run[g].i + 1 \in 1 .. NumSensors + 1
    BY <1>1, <1>i, Entry
  <2>3. Fits(g, c, "unload", run[g].i + 1, TRUE, loaded[c], destroyed[c])
    BY <1>1, <1>2, <2>1, <2>2, Entry
    DEF Fits, ProgressAt, Places, Loading, Destroying, OnSensor
  <2>4. run' = [run EXCEPT ![g] = [run[g] EXCEPT !.at = "unload", !.i = run[g].i + 1,
                                                 !.err = TRUE]]
    BY <1>1, <1>5, Entry DEF Run
  <2> QED BY <1>1, <1>2, <1>3, <2>3, <2>4, Going
<1> QED BY <1>4, <1>5 DEF check

LEMMA detachIInv ==
  ASSUME IInv, NEW g \in Goroutines, detach(g)
  PROVE  IInv'
<1>1. run[g].at = "detach"
  BY DEF detach, At
<1>2. PICK c \in Cols : c = Col(g)
  BY <1>1, Entry
<1>q. run[g].op \in Workers /\ Quiet(c) =>
        /\ destroyed[c] = {} /\ (run[g].err <=> Loads(run[g].op))
        /\ (\A j \in loaded[c] : j >= run[g].i)
        /\ loaded[c] \subseteq SensorsOf(c) /\ SensorsOf(c) = 1 .. info[c].num
  BY <1>1, <1>2, QuietWorker DEF Progress, ProgressAt
<1>i. run[g].i \in 1 .. NumSensors + 1 /\ info[c].num \in 0 .. NumSensors /\ NumSensors \in Int
      /\ run[g].i <= info[c].num
  BY <1>1, <1>2, Entry, SensorsAssumption DEF PlaceOK, Col, OnSensor
<1>3. PICK L : L = loaded[c] \ {run[g].i}
  OBVIOUS
<1>4. Moves(g, c, "unload", run[g].i + 1, run[g].err, L, destroyed[c])
  BY <1>1, <1>2, <1>3, Entry DEF Moves, detach, NextSensor, Sensor, Run, lockVars, requestVars
<1>5. run[g].op \in Workers /\ Quiet(c) => \A j \in L : j >= run[g].i + 1
  BY <1>q, <1>i, <1>3
<1>6. Fits(g, c, "unload", run[g].i + 1, run[g].err, L, destroyed[c])
  <2>1. L \subseteq SensorsOf(c) /\ run[g].i + 1 \in 1 .. NumSensors + 1
    BY <1>1, <1>2, <1>i, <1>3, Entry
  <2> QED BY <1>1, <1>2, <1>q, <1>5, <2>1, Entry
          DEF Fits, ProgressAt, Places, Loading, Destroying, OnSensor
<1> QED BY <1>1, <1>2, <1>4, <1>6, Entry, Within

LEMMA destroyIInv ==
  ASSUME IInv, NEW g \in Goroutines, destroy(g)
  PROVE  IInv'
<1>1. run[g].at = "destroy" /\ run[g].op \notin Workers
  BY DEF destroy, At, IInv, PlaceOK, Destroying, Loading
<1>2. PICK c \in Cols : c = Col(g)
  BY <1>1, Entry
<1>3. UNCHANGED <<table, info, nextCol, sensorVars, pf, lockVars, abandoned, touched>>
  BY DEF destroy, requestVars
<1>4. run[g].i <= info[c].num
  BY <1>1, <1>2, Entry, SensorsAssumption DEF destroy, AllDone, Sensor
<1>5. PICK at : at = IF Sensor(g) \in loaded[Col(g)] THEN "destroyDetach" ELSE "destroyHook"
  OBVIOUS
<1>6. Fits(g, c, at, run[g].i, run[g].err, loaded[c], destroyed[c])
  BY <1>1, <1>2, <1>4, <1>5, Entry DEF Fits, Places, Loading, Destroying, OnSensor
<1>7. run' = [run EXCEPT ![g] = [run[g] EXCEPT !.at = at, !.i = run[g].i, !.err = run[g].err]]
  BY <1>1, <1>5, Entry DEF destroy, Goto, Run
<1> QED BY <1>1, <1>2, <1>3, <1>6, <1>7, Going

LEMMA destroyDetachIInv ==
  ASSUME IInv, NEW g \in Goroutines, destroyDetach(g)
  PROVE  IInv'
<1>1. run[g].at = "destroyDetach" /\ run[g].op \notin Workers
  BY DEF destroyDetach, At, IInv, PlaceOK, Destroying, Loading
<1>2. PICK c \in Cols : c = Col(g)
  BY <1>1, Entry
<1>3. PICK L : L = loaded[c] \ {run[g].i}
  OBVIOUS
<1>4. Moves(g, c, "destroyHook", run[g].i, run[g].err, L, destroyed[c])
  BY <1>1, <1>2, <1>3, Entry DEF Moves, destroyDetach, Goto, Sensor, Run, lockVars, requestVars
<1>5. L \subseteq SensorsOf(c) /\ run[g].i <= info[c].num
  BY <1>1, <1>2, <1>3, Entry DEF PlaceOK, Col, OnSensor
<1>6. Fits(g, c, "destroyHook", run[g].i, run[g].err, L, destroyed[c])
  BY <1>1, <1>2, <1>5, Entry DEF Fits, Places, Loading, Destroying, OnSensor
<1> QED BY <1>1, <1>2, <1>4, <1>6, Entry, Within

LEMMA destroyHookIInv ==
  ASSUME IInv, NEW g \in Goroutines, destroyHook(g)
  PROVE  IInv'
<1>1. run[g].at = "destroyHook" /\ run[g].op \notin Workers
  BY DEF destroyHook, At, IInv, PlaceOK, Destroying, Loading
<1>2. PICK c \in Cols : c = Col(g)
  BY <1>1, Entry
<1>3. PICK D : D = destroyed[c] \cup {run[g].i}
  OBVIOUS
<1>4. Moves(g, c, "destroy", run[g].i + 1, run[g].err, loaded[c], D)
  BY <1>1, <1>2, <1>3, Entry DEF Moves, destroyHook, NextSensor, Sensor, Run, lockVars, requestVars
<1>5. run[g].i \in SensorsOf(c) /\ run[g].i + 1 \in 1 .. NumSensors + 1
  BY <1>1, <1>2, Entry, SensorsAssumption DEF PlaceOK, Col, OnSensor, SensorsOf
<1>6. D \subseteq SensorsOf(c)
  BY <1>1, <1>2, <1>3, <1>5, Entry
<1>7. Fits(g, c, "destroy", run[g].i + 1, run[g].err, loaded[c], D)
  BY <1>1, <1>2, <1>5, <1>6, Entry DEF Fits, Places, Loading, Destroying, OnSensor
<1> QED BY <1>1, <1>2, <1>4, <1>7, Entry, Within

-----------------------------------------------------------------------------
(***************************************************************************)
(* The steps that end a request.                                           *)
(***************************************************************************)

\* What a step does that puts goroutine g where r says.
LEMMA Put ==
  ASSUME IInv, NEW g \in Goroutines, NEW r \in Run, run' = [run EXCEPT ![g] = r]
  PROVE  /\ run' \in [Goroutines -> Run] /\ run'[g] = r
         /\ \A h \in Goroutines \ {g} : run'[h] = run[h]
BY DEF IInv, CoreTypeOK

LEMMA Rests ==
  ASSUME IInv, NEW g \in Goroutines, Finish(g)
  PROVE  /\ run' \in [Goroutines -> Run] /\ run'[g].op = "none"
         /\ \A h \in Goroutines \ {g} : run'[h] = run[h]
         /\ PlaceOK(g)' /\ RequestOK(g)'
         /\ \A c \in Cols : ~Concerns(run'[g], c)
<1>1. Resting \in Run
  BY SensorsAssumption DEF Resting, Run, Places, Ops, Keys
<1>2. PICK r \in Run : r = Resting
  BY <1>1
<1>3. r.at = "idle" /\ r.op = "none"
  BY <1>2 DEF Resting
<1>4. run' = [run EXCEPT ![g] = r]
  BY <1>2 DEF Finish
<1>5. /\ run' \in [Goroutines -> Run] /\ run'[g] = r
      /\ \A h \in Goroutines \ {g} : run'[h] = run[h]
  BY <1>4, Put
<1>6. PlaceOK(g)'
  BY <1>3, <1>5 DEF PlaceOK, Loading, Destroying, OnSensor, Workers, Removers
<1>7. RequestOK(g)'
  BY <1>3, <1>5 DEF RequestOK, Removers, SensorRequests
<1> QED BY <1>3, <1>5, <1>6, <1>7 DEF Concerns, Workers

\* Another goroutine than the one that takes the step.
LEMMA Others ==
  ASSUME IInv, NEW h \in Goroutines, run'[h] = run[h],
         run[h].op \notin Removers \/ (mu' = mu /\ table' = table),
         touched \subseteq touched', nextCol' \in Int, nextCol <= nextCol',
         \A c \in Cols : c < nextCol => info'[c].num = info[c].num
  PROVE  PlaceOK(h)' /\ RequestOK(h)'
<1>1. PlaceOK(h) /\ RequestOK(h) /\ nextCol \in Int
  BY DEF IInv, CoreTypeOK
<1>2. PlaceOK(h)'
  BY <1>1, PlaceFrame
<1>3. RequestOK(h)'
  BY <1>1 DEF RequestOK, Col
<1> QED BY <1>2, <1>3

\* A collection that is taken off the list and abandoned.
LEMMA Abandons ==
  ASSUME NEW c \in Cols, NEW g \in Goroutines, ColOK(c),
         \A h \in Goroutines \ {g} : run'[h] = run[h],
         ~Concerns(run[g], c), ~Concerns(run'[g], c),
         info'[c] = info[c], c \in pf' <=> c \in pf, c \in abandoned',
         Listing(c), ~Listing(c)'
  PROVE  ColOK(c)'
<1>1. \A h \in Goroutines : /\ Works(h, c)' <=> Works(h, c)
                            /\ Deletes(h, c)' <=> Deletes(h, c)
                            /\ Works(h, c) => run'[h] = run[h]
  BY DEF Works, Deletes, Concerns, Col, Workers
<1>2. WorkerOK(c)'
  BY <1>1 DEF ColOK, WorkerOK
<1>3. Deleting(c)' <=> Deleting(c)
  BY <1>1 DEF Deleting, Deletes
<1>4. DeleteOK(c)'
  BY <1>1, <1>3 DEF ColOK, DeleteOK
<1>5. FilterOK(c)'
  BY <1>3 DEF ColOK, FilterOK, Known
<1>6. ~Managed(c)'
  BY DEF Managed, Listing, Keys
<1> QED BY <1>2, <1>4, <1>5, <1>6 DEF ColOK, ListedOK

LEMMA unlockLoadIInv ==
  ASSUME IInv, NEW g \in Goroutines, unlockLoad(g)
  PROVE  IInv'
<1>1. run[g].at = "unlockLoad"
  BY DEF unlockLoad, At
<1>2. PICK c \in Cols : c = Col(g)
  BY <1>1, Entry
<1>3. muLoad' = NoOne /\ table' = table /\ info' = info /\ nextCol' = nextCol /\ pf' = pf
      /\ mu' = mu /\ abandoned' = abandoned /\ touched' = touched /\ loaded' = loaded /\ destroyed' = destroyed
  BY DEF unlockLoad, Unlocked, sensorVars, requestVars
<1>4. CASE run[g].op \notin {"enableSensor", "disableSensor"}
  <2>1. Moves(g, c, "relock", run[g].i, run[g].err, loaded[c], destroyed[c])
    BY <1>1, <1>2, <1>3, <1>4, Entry DEF Moves, unlockLoad, Goto, Run
  <2>2. run[g].op \in Workers
    BY <1>1, <1>4, Entry DEF PlaceOK, Loading
  <2>3. run[g].op \in Workers /\ Quiet(c) =>
          /\ destroyed[c] = {}
          /\ ProgressAt(run[g].op, "relock", run[g].i, run[g].err, loaded[c], SensorsOf(c))
    BY <1>1, <1>2, QuietWorker DEF Progress, ProgressAt
  <2>4. Fits(g, c, "relock", run[g].i, run[g].err, loaded[c], destroyed[c])
    BY <1>1, <1>2, <2>2, <2>3, Entry DEF Fits, Places, Loading, Destroying, OnSensor
  <2> QED BY <1>1, <1>2, <2>1, <2>4, Entry, Within
<1>5. CASE run[g].op \in {"enableSensor", "disableSensor"}
  <2>1. Finish(g)
    BY <1>5 DEF unlockLoad
  <2>2. CoreTypeOK' /\ TableOK'
    BY <1>3, <2>1, Rests DEF IInv, CoreTypeOK, TableOK, SensorsOf
  <2>3. ASSUME NEW h \in Goroutines PROVE PlaceOK(h)' /\ RequestOK(h)'
    <3>1. CASE h = g
      BY <2>1, <3>1, Rests
    <3>2. CASE h # g
      <4>1. run'[h] = run[h] /\ nextCol' \in Int /\ nextCol <= nextCol'
        BY <1>3, <2>1, <3>2, Rests DEF IInv, CoreTypeOK
      <4> QED BY <1>3, <4>1, Others
    <3> QED BY <3>1, <3>2
  <2>4. ASSUME NEW d \in Cols PROVE ColOK(d)'
    <3>1. ~Concerns(run[g], d) /\ ~Concerns(run'[g], d)
      BY <1>5, <2>1, Rests DEF Concerns, Workers
    <3>2. \A h \in Goroutines \ {g} : run'[h] = run[h]
      BY <2>1, Rests
    <3>3. Removing(d) => Removing(d)'
      BY <1>5, <3>2 DEF Removing, Removers, Col
    <3>4. Listing(d)' <=> Listing(d)
      BY <1>3 DEF Listing
    <3>5. Managed(d)' => Managed(d)
      BY <1>3 DEF Managed, Listing
    <3> QED BY <1>3, <3>1, <3>2, <3>3, <3>4, <3>5, ColFrame DEF IInv
  <2> QED BY <2>2, <2>3, <2>4 DEF IInv
<1> QED BY <1>4, <1>5

LEMMA relockIInv ==
  ASSUME IInv, NEW g \in Goroutines, relock(g)
  PROVE  IInv'
<1>1. run[g].at = "relock" /\ run[g].op \in Workers /\ Finish(g)
  BY DEF relock, At, IInv, PlaceOK
<1>2. PICK c \in Cols : c = Col(g)
  BY <1>1, Entry
<1>3. table' = table /\ nextCol' = nextCol /\ pf' = pf /\ mu' = mu /\ muLoad' = muLoad
      /\ abandoned' = abandoned /\ touched' = touched /\ loaded' = loaded /\ destroyed' = destroyed
  BY DEF relock, sensorVars, lockVars, requestVars
<1>4. PICK s : s = Outcome(run[g].op, run[g].err)
  OBVIOUS
<1>5. info' = [info EXCEPT ![c].state = s]
  BY <1>2, <1>4 DEF relock, SetState
<1>6. run[g].err \in BOOLEAN
  BY <1>1, Entry
<1>7. s \in {"enabled", "loadError", "disabled", "error"}
  BY <1>4, <1>6 DEF Outcome
<1>8. info \in [Cols -> [state : States, filter : Cols \cup {NoFilterID},
                         num : {0, 1, NumSensors}]]
  BY DEF IInv, CoreTypeOK
<1>9. /\ info'[c].state = s /\ info'[c].filter = info[c].filter /\ info'[c].num = info[c].num
      /\ \A d \in Cols \ {c} : info'[d] = info[d]
      /\ \A d \in Cols : info'[d].num = info[d].num
  BY <1>5, <1>8
<1>10. CoreTypeOK'
  <2>1. info' \in [Cols -> [state : States, filter : Cols \cup {NoFilterID},
                            num : {0, 1, NumSensors}]]
    BY <1>5, <1>7, <1>8 DEF States
  <2>2. \A d \in Cols : SensorsOf(d)' = SensorsOf(d)
    BY <1>9 DEF SensorsOf
  <2> QED BY <1>1, <1>3, <2>1, <2>2, Rests DEF IInv, CoreTypeOK
<1>11. TableOK'
  <2>1. c < nextCol /\ nextCol \in Int
    BY <1>1, <1>2, Entry DEF PlaceOK, Col, IInv, CoreTypeOK
  <2>2. \A d \in Cols : d >= nextCol => info'[d] = info[d]
    BY <1>9, <2>1 DEF Cols
  <2> QED BY <1>3, <2>2 DEF IInv, TableOK
<1>12. ASSUME NEW h \in Goroutines PROVE PlaceOK(h)' /\ RequestOK(h)'
  <2>1. CASE h = g
    BY <1>1, <2>1, Rests
  <2>2. CASE h # g
    <3>1. run'[h] = run[h] /\ nextCol' \in Int /\ nextCol <= nextCol'
      BY <1>1, <1>3, <2>2, Rests DEF IInv, CoreTypeOK
    <3> QED BY <1>3, <1>9, <3>1, Others
  <2> QED BY <2>1, <2>2
<1>13. ASSUME NEW d \in Cols PROVE ColOK(d)'
  <2>1. \A h \in Goroutines \ {g} : run'[h] = run[h]
    BY <1>1, Rests
  <2>2. run'[g].op = "none" /\ ~Concerns(run'[g], d)
    BY <1>1, Rests
  <2>3. Removing(d)' <=> Removing(d)
    BY <1>1, <2>1, <2>2 DEF Removing, Removers, Workers, Col
  <2>4. (Listing(d)' <=> Listing(d)) /\ (Managed(d)' <=> Managed(d))
    BY <1>3 DEF Listing, Managed
  <2>5. ColOK(d)
    BY DEF IInv
  <2>6. CASE d # c
    <3>1. ~Concerns(run[g], d)
      BY <1>2, <2>6 DEF Concerns, Col
    <3> QED BY <1>3, <1>9, <2>1, <2>2, <2>3, <2>4, <2>5, <2>6, <3>1, ColFrame
  <2>7. CASE d = c
    <3>1. Works(g, c) /\ \A h \in Goroutines : ~Works(h, c)'
      <4>1. Works(g, c)
        BY <1>1, <1>2 DEF Works
      <4>2. ASSUME NEW h \in Goroutines, Works(h, c)' PROVE FALSE
        <5>1. h # g
          BY <2>2, <4>2 DEF Works, Workers
        <5>2. Works(h, c)
          BY <2>1, <4>2, <5>1 DEF Works, Col
        <5> QED BY <2>5, <2>7, <4>1, <5>1, <5>2 DEF ColOK, WorkerOK
      <4> QED BY <4>1, <4>2
    <3>2. WorkerOK(c)'
      BY <1>7, <1>9, <3>1 DEF WorkerOK
    <3>3. \A h \in Goroutines : Deletes(h, c)' <=> Deletes(h, c)
      BY <1>1, <2>1, <2>2 DEF Deletes, Workers, Col
    <3>4. Deleting(c)' <=> Deleting(c)
      BY <3>3 DEF Deleting, Deletes
    <3>5. DeleteOK(c)' /\ FilterOK(c)'
      BY <1>3, <1>9, <2>4, <2>5, <2>7, <3>3, <3>4 DEF ColOK, DeleteOK, FilterOK, Known
    <3>6. ASSUME Managed(c)', ~Removing(c)' PROVE Quiet(c)'
      <4>1. Quiet(c)
        BY <2>3, <2>4, <2>5, <2>7, <3>6 DEF ColOK, ListedOK
      <4>2. /\ destroyed[c] = {} /\ (~Loads(run[g].op) => ~run[g].err)
            /\ loaded[c] = (IF Loads(run[g].op) /\ ~run[g].err THEN SensorsOf(c) ELSE {})
        BY <1>1, <1>2, <4>1, QuietWorker DEF Progress, ProgressAt
      <4>3. /\ s = "enabled" => Loads(run[g].op) /\ ~run[g].err
            /\ s \in {"disabled", "loadError"} => ~(Loads(run[g].op) /\ ~run[g].err)
            /\ s # "error"
        BY <1>4, <1>6, <4>2 DEF Outcome
      <4>4. SensorsOf(c)' = SensorsOf(c)
        BY <1>9 DEF SensorsOf
      <4> QED BY <1>3, <1>7, <1>9, <3>1, <4>2, <4>3, <4>4 DEF Quiet, States
    <3> QED BY <2>7, <3>2, <3>5, <3>6 DEF ColOK, ListedOK
  <2> QED BY <2>6, <2>7
<1> QED BY <1>10, <1>11, <1>12, <1>13 DEF IInv

LEMMA finishDeleteIInv ==
  ASSUME IInv, NEW g \in Goroutines, finishDelete(g)
  PROVE  IInv'
<1>1. run[g].at = "destroy" /\ run[g].op = "delete" /\ Finish(g)
  BY DEF finishDelete, At
<1>2. PICK c \in Cols : c = Col(g)
  BY <1>1, Entry
<1>3. table' = table /\ info' = info /\ nextCol' = nextCol /\ mu' = mu /\ muLoad' = muLoad
      /\ abandoned' = abandoned /\ touched' = touched /\ loaded' = loaded /\ destroyed' = destroyed
      /\ pf' = pf \ {info[c].filter}
  BY <1>2 DEF finishDelete, sensorVars, lockVars, DelPolicy, requestVars
<1>4. info[c].filter \in {NoFilterID, c}
  BY DEF IInv, ColOK, FilterOK
<1>5. CoreTypeOK' /\ TableOK'
  BY <1>1, <1>3, Rests DEF IInv, CoreTypeOK, TableOK, SensorsOf
<1>6. ASSUME NEW h \in Goroutines PROVE PlaceOK(h)' /\ RequestOK(h)'
  <2>1. CASE h = g
    BY <1>1, <2>1, Rests
  <2>2. CASE h # g
    <3>1. run'[h] = run[h] /\ nextCol' \in Int /\ nextCol <= nextCol'
      BY <1>1, <1>3, <2>2, Rests DEF IInv, CoreTypeOK
    <3> QED BY <1>3, <3>1, Others
  <2> QED BY <2>1, <2>2
<1>7. ASSUME NEW d \in Cols PROVE ColOK(d)'
  <2>1. \A h \in Goroutines \ {g} : run'[h] = run[h]
    BY <1>1, Rests
  <2>2. run'[g].op = "none" /\ ~Concerns(run'[g], d)
    BY <1>1, Rests
  <2>3. Removing(d)' <=> Removing(d)
    BY <1>1, <2>1, <2>2 DEF Removing, Removers, Col
  <2>4. (Listing(d)' <=> Listing(d)) /\ (Managed(d)' <=> Managed(d))
    BY <1>3 DEF Listing, Managed
  <2>5. ColOK(d)
    BY DEF IInv
  <2>6. CASE d # c
    <3>1. ~Concerns(run[g], d)
      BY <1>2, <2>6 DEF Concerns, Col
    <3>2. d \in pf' <=> d \in pf
      BY <1>3, <1>4, <2>6 DEF Cols, NoFilterID
    <3> QED BY <1>3, <2>1, <2>2, <2>3, <2>4, <2>5, <3>1, <3>2, ColFrame
  <2>7. CASE d = c
    <3>1. Deletes(g, c) /\ Deleting(c)
      BY <1>1, <1>2 DEF Deletes, Deleting
    <3>2. ASSUME NEW h \in Goroutines, Deletes(h, c)' PROVE FALSE
      <4>1. h # g
        BY <2>2, <3>2 DEF Deletes
      <4>2. Deletes(h, c)
        BY <2>1, <3>2, <4>1 DEF Deletes, Col
      <4> QED BY <2>5, <2>7, <3>1, <4>1, <4>2 DEF ColOK, DeleteOK
    <3>3. \A h \in Goroutines : /\ Works(h, c)' <=> Works(h, c)
                                /\ Works(h, c) => run'[h] = run[h]
      BY <1>1, <2>1, <2>2 DEF Works, Workers, Col
    <3>4. WorkerOK(c)'
      BY <1>3, <2>5, <2>7, <3>3 DEF ColOK, WorkerOK
    <3>5. ~Deleting(c)' /\ ~Listing(c)' /\ c \notin abandoned'
      BY <1>3, <2>4, <2>5, <2>7, <3>1, <3>2 DEF ColOK, DeleteOK, Deleting, Deletes
    <3>6. DeleteOK(c)'
      BY <3>2, <3>5 DEF DeleteOK
    <3>7. FilterOK(c)'
      BY <1>3, <2>5, <2>7, <3>5 DEF ColOK, FilterOK, Known
    <3>8. ~Managed(c)'
      BY <3>5 DEF Managed, Listing, Keys
    <3> QED BY <2>7, <3>4, <3>6, <3>7, <3>8 DEF ColOK, ListedOK
  <2> QED BY <2>6, <2>7
<1> QED BY <1>5, <1>6, <1>7 DEF IInv

\* A request that may begin at the place.
BeginsAt(op, place) ==
  /\ op \in Ops \ {"none"} /\ place \in {"lockLoad", "destroy"}
  /\ place = "lockLoad" <=> op \in Workers \cup {"enableSensor", "disableSensor"}

\* The place of a goroutine whose request has just begun, on collection c.
LEMMA Begins ==
  ASSUME IInv, NEW g \in Goroutines, NEW op, NEW k \in Keys, NEW c \in Cols, NEW place,
         Begin(g, op, k, c, place), BeginsAt(op, place), c < nextCol'
  PROVE  /\ run' \in [Goroutines -> Run]
         /\ \A h \in Goroutines \ {g} : run'[h] = run[h]
         /\ run'[g].at = place /\ run'[g].op = op /\ run'[g].key = k /\ run'[g].col = c
         /\ run'[g].i = 1 /\ ~run'[g].err
         /\ PlaceOK(g)'
<1>0. /\ op \in Ops \ {"none"} /\ place \in {"lockLoad", "destroy"}
      /\ place = "lockLoad" <=> op \in Workers \cup {"enableSensor", "disableSensor"}
  BY DEF BeginsAt
<1> DEFINE q == [at |-> place, op |-> op, key |-> k, col |-> c, i |-> 1, err |-> FALSE]
<1>1. q \in Run
  BY <1>0, SensorsAssumption DEF Run, Places
<1>2. PICK r \in Run : r = q
  BY <1>1
<1>3. r.at = place /\ r.op = op /\ r.key = k /\ r.col = c /\ r.i = 1 /\ r.err = FALSE
  BY <1>2
<1>4. run' = [run EXCEPT ![g] = r]
  BY <1>2 DEF Begin
<1>5. /\ run' \in [Goroutines -> Run] /\ run'[g] = r
      /\ \A h \in Goroutines \ {g} : run'[h] = run[h]
  BY <1>4, Put
<1> HIDE DEF q
<1>6. PlaceOK(g)'
  BY <1>0, <1>3, <1>5 DEF PlaceOK, Loading, Destroying, OnSensor, Workers, Removers, Ops
<1> QED BY <1>3, <1>5, <1>6

\* A removal excludes every other one.
LEMMA OneRemover ==
  ASSUME IInv, NEW g \in Goroutines, NEW h \in Goroutines, h # g,
         mu \in {g, NoOne}
  PROVE  run[h].op \notin Removers
BY NoOneAssumption DEF IInv, RequestOK

LEMMA finishRemoveIInv ==
  ASSUME IInv, NEW g \in Goroutines, finishRemove(g)
  PROVE  IInv'
<1>1. run[g].at = "destroy" /\ run[g].op \in Removers /\ run[g].op \in Ops
  BY Entry DEF finishRemove, At, Removers
<1>2. PICK c \in Cols : c = Col(g)
  BY <1>1, Entry
<1>3. PICK key \in Keys : key = run[g].key
  BY <1>1 DEF IInv, RequestOK
<1>4. info' = info /\ nextCol' = nextCol /\ muLoad' = muLoad /\ pf' = pf
      /\ loaded' = loaded /\ destroyed' = destroyed
      /\ abandoned' = abandoned \cup {c} /\ table' = [table EXCEPT ![key] = NoCol]
      /\ touched' = touched
  BY <1>2, <1>3 DEF finishRemove, sensorVars, requestVars
<1>5. mu = g /\ table[key] = c
  BY <1>1, <1>2, <1>3 DEF IInv, RequestOK
<1>6. /\ table \in [Keys -> Cols \cup {NoCol}] /\ nextCol \in Int
      /\ \A k \in Keys : table[k] < nextCol
      /\ \A k, l \in Keys : table[k] = table[l] /\ table[k] # NoCol => k = l
  BY DEF IInv, CoreTypeOK, TableOK
<1>c. c # NoCol
  BY DEF Cols, NoCol
<1>7. table'[key] = NoCol /\ \A k \in Keys \ {key} : table'[k] = table[k] /\ table[k] # c
  BY <1>4, <1>5, <1>6, <1>c
<1>8. /\ run' \in [Goroutines -> Run] /\ \A h \in Goroutines \ {g} : run'[h] = run[h]
      /\ PlaceOK(g)' /\ RequestOK(g)' /\ mu' \in Goroutines \cup {NoOne}
      /\ run'[g].op \in {"none", "removeAll"}
  <2>1. CASE \E k \in Keys \ {key} : /\ Present(k) /\ Begin(g, "removeAll", k, table[k], "destroy")
                                     /\ mu' = mu
    <3>1. PICK k \in Keys \ {key} : /\ Present(k) /\ Begin(g, "removeAll", k, table[k], "destroy")
                                    /\ mu' = mu
      BY <2>1
    <3>2. PICK d \in Cols : d = table[k]
      BY <1>6, <3>1 DEF Present
    <3>3. d < nextCol' /\ Begin(g, "removeAll", k, d, "destroy")
      BY <1>4, <1>6, <3>1, <3>2
    <3>4. /\ run' \in [Goroutines -> Run] /\ \A h \in Goroutines \ {g} : run'[h] = run[h]
          /\ run'[g].op = "removeAll" /\ run'[g].key = k /\ run'[g].col = d /\ PlaceOK(g)'
      <4>1. BeginsAt("removeAll", "destroy")
        BY DEF BeginsAt, Ops, Workers
      <4> QED BY <3>3, <4>1, Begins
    <3>5. RequestOK(g)'
      BY <1>5, <1>7, <3>1, <3>2, <3>4 DEF RequestOK, Removers, SensorRequests, Col
    <3> QED BY <1>5, <3>1, <3>4, <3>5
  <2>2. CASE Finish(g) /\ mu' = NoOne
    BY <2>2, Rests
  <2> QED BY <1>3, <2>1, <2>2 DEF finishRemove
<1>9. CoreTypeOK'
  <2>1. table' \in [Keys -> Cols \cup {NoCol}]
    BY <1>4, <1>6
  <2> QED BY <1>4, <1>8, <2>1 DEF IInv, CoreTypeOK, SensorsOf
<1>10. TableOK'
  <2>1. c < nextCol
    BY <1>5, <1>6
  <2>2. \A k, l \in Keys : table'[k] = table'[l] /\ table'[k] # NoCol => k = l
    BY <1>6, <1>7
  <2>3. \A k \in Keys : table'[k] < nextCol
    BY <1>2, <1>6, <1>7, <2>1 DEF NoCol, Cols
  <2>4. \A d \in Cols : d >= nextCol => d # c
    BY <1>6, <2>1 DEF Cols
  <2> QED BY <1>4, <2>2, <2>3, <2>4 DEF IInv, TableOK
<1>11. ASSUME NEW h \in Goroutines PROVE PlaceOK(h)' /\ RequestOK(h)'
  <2>1. CASE h = g
    BY <1>8, <2>1
  <2>2. CASE h # g
    <3>1. run[h].op \notin Removers
      BY <1>5, <2>2, OneRemover
    <3>2. run'[h] = run[h] /\ nextCol' \in Int /\ nextCol <= nextCol'
      BY <1>4, <1>6, <1>8, <2>2
    <3> QED BY <1>4, <3>1, <3>2, Others
  <2> QED BY <2>1, <2>2
<1>12. ASSUME NEW d \in Cols PROVE ColOK(d)'
  <2>1. ColOK(d) /\ d # NoCol
    BY DEF IInv, Cols, NoCol
  <2>2. ~Concerns(run[g], d) /\ ~Concerns(run'[g], d)
    BY <1>1, <1>8 DEF Concerns, Workers, Removers
  <2>3. CASE d # c
    <3>1. Listing(d)' <=> Listing(d)
      BY <1>5, <1>7, <2>1, <2>3 DEF Listing
    <3>2. Managed(d)' => Managed(d)
      BY <1>4, <1>7, <2>1 DEF Managed, Listing
    <3>3. Removing(d) => Removing(d)'
      BY <1>2, <1>8, <2>3 DEF Removing, Col
    <3>4. d \in abandoned' <=> d \in abandoned
      BY <1>4, <2>3
    <3> QED BY <1>4, <1>8, <2>1, <2>2, <3>1, <3>2, <3>3, <3>4, ColFrame
  <2>4. CASE d = c
    <3>1. Listing(c) /\ ~Listing(c)'
      BY <1>5, <1>7, <1>c DEF Listing
    <3> QED BY <1>4, <1>8, <2>1, <2>2, <2>4, <3>1, Abandons
  <2> QED BY <2>3, <2>4
<1> QED BY <1>9, <1>10, <1>11, <1>12 DEF IInv

-----------------------------------------------------------------------------
(***************************************************************************)
(* The requests.                                                           *)
(***************************************************************************)

\* Who may begin a request does nothing yet, and nobody removes anything.
LEMMA Free ==
  ASSUME IInv, NEW g \in Goroutines, Ready(g)
  PROVE  /\ run[g].op = "none" /\ mu = NoOne
         /\ \A h \in Goroutines : run[h].op \notin Removers
         /\ \A c \in Cols : ~Removing(c) /\ ~Concerns(run[g], c)
         /\ table \in [Keys -> Cols \cup {NoCol}] /\ nextCol \in Int
         /\ \A k \in Keys : table[k] < nextCol
         /\ \A k, l \in Keys : table[k] = table[l] /\ table[k] # NoCol => k = l
         /\ NoCol \notin Cols
<1>1. run[g].op = "none" /\ mu = NoOne
  BY DEF Ready, At, IInv, PlaceOK
<1>2. \A h \in Goroutines : run[h].op \notin Removers
  BY <1>1, NoOneAssumption DEF IInv, RequestOK
<1>3. \A c \in Cols : ~Removing(c) /\ ~Concerns(run[g], c)
  BY <1>1, <1>2 DEF Removing, Concerns, Workers
<1>4. NoCol \notin Cols
  BY DEF NoCol, Cols
<1> QED BY <1>1, <1>2, <1>3, <1>4 DEF IInv, CoreTypeOK, TableOK

\* A request for a sensor, or the removal of all, changes no collection at first;
\* one that loads or unloads marks it.
LEMMA SensorRequest ==
  ASSUME IInv, NEW g \in Goroutines, Ready(g), NEW k \in Keys, NEW c \in Cols, table[k] = c,
         NEW op \in SensorRequests \cup Removers,
         NEW place, BeginsAt(op, place), Begin(g, op, k, c, place),
         mu' \in {g, NoOne}, op \in Removers => mu' = g,
         touched' \in {touched, touched \cup {c}}, op \in SensorRequests => c \in touched',
         UNCHANGED <<table, info, nextCol, sensorVars, pf, muLoad, abandoned>>
  PROVE  IInv'
<1>1. /\ run[g].op = "none" /\ \A h \in Goroutines : run[h].op \notin Removers
      /\ \A d \in Cols : ~Removing(d) /\ ~Concerns(run[g], d)
      /\ nextCol \in Int /\ c < nextCol
      /\ \A l \in Keys : table[l] = c => l = k
  BY Free
<1>2. table' = table /\ info' = info /\ nextCol' = nextCol /\ pf' = pf /\ muLoad' = muLoad
      /\ abandoned' = abandoned /\ loaded' = loaded /\ destroyed' = destroyed
  BY DEF requestVars, sensorVars, requestVars
<1>3. BeginsAt(op, place) /\ c < nextCol'
  BY <1>1, <1>2
<1>4. /\ run' \in [Goroutines -> Run] /\ \A h \in Goroutines \ {g} : run'[h] = run[h]
      /\ run'[g].op = op /\ run'[g].key = k /\ run'[g].col = c /\ PlaceOK(g)'
  <2>1. run' \in [Goroutines -> Run] /\ \A h \in Goroutines \ {g} : run'[h] = run[h]
    BY <1>3, Begins
  <2>2. run'[g].op = op /\ run'[g].key = k /\ run'[g].col = c
    BY <1>1, <1>2, <1>3, Begins
  <2>3. PlaceOK(g)'
    BY <1>3, Begins
  <2> QED BY <2>1, <2>2, <2>3
<1>5. RequestOK(g)'
  BY <1>2, <1>4 DEF RequestOK, Col
<1>6. CoreTypeOK' /\ TableOK'
  BY <1>2, <1>4 DEF IInv, CoreTypeOK, TableOK, SensorsOf
<1>7. ASSUME NEW h \in Goroutines PROVE PlaceOK(h)' /\ RequestOK(h)'
  <2>1. CASE h = g
    BY <1>4, <1>5, <2>1
  <2>2. CASE h # g
    <3>1. run'[h] = run[h] /\ nextCol' \in Int /\ nextCol <= nextCol'
      BY <1>1, <1>2, <1>4, <2>2
    <3> QED BY <1>1, <1>2, <3>1, Others
  <2> QED BY <2>1, <2>2
<1>8. ASSUME NEW d \in Cols PROVE ColOK(d)'
  <2>1. ~Concerns(run'[g], d)
    BY <1>4 DEF Concerns, Workers, SensorRequests, Removers
  <2>2. (Listing(d)' <=> Listing(d)) /\ (Managed(d)' => Managed(d))
    BY <1>2 DEF Listing, Managed
  <2> QED BY <1>1, <1>2, <1>4, <2>1, <2>2, ColFrame DEF IInv
<1> QED BY <1>6, <1>7, <1>8 DEF IInv

LEMMA enableSensorIInv ==
  ASSUME IInv, NEW g \in Goroutines, NEW k \in ClusterWide, enableSensor(g, k)
  PROVE  IInv'
<1>1. Ready(g) /\ Present(k) /\ k \in Keys
  BY DEF enableSensor, Keys
<1>2. PICK c \in Cols : c = table[k]
  BY <1>1, Free DEF Present
<1>3. /\ "enableSensor" \in SensorRequests \cup Removers
      /\ BeginsAt("enableSensor", "lockLoad")
      /\ "enableSensor" \notin Removers
  BY DEF SensorRequests, Removers, BeginsAt, Ops, Workers
<1>4. /\ Begin(g, "enableSensor", k, c, "lockLoad") /\ mu' \in {g, NoOne}
      /\ UNCHANGED <<table, info, nextCol, sensorVars, pf, muLoad, abandoned>>
      /\ touched' = touched \cup {c}
  BY <1>1, <1>2, Free DEF enableSensor, lockVars, requestVars
<1> QED BY <1>1, <1>2, <1>3, <1>4, SensorRequest

LEMMA disableSensorIInv ==
  ASSUME IInv, NEW g \in Goroutines, NEW k \in ClusterWide, disableSensor(g, k)
  PROVE  IInv'
<1>1. Ready(g) /\ Present(k) /\ k \in Keys
  BY DEF disableSensor, Keys
<1>2. PICK c \in Cols : c = table[k]
  BY <1>1, Free DEF Present
<1>3. /\ "disableSensor" \in SensorRequests \cup Removers
      /\ BeginsAt("disableSensor", "lockLoad")
      /\ "disableSensor" \notin Removers
  BY DEF SensorRequests, Removers, BeginsAt, Ops, Workers
<1>4. /\ Begin(g, "disableSensor", k, c, "lockLoad") /\ mu' \in {g, NoOne}
      /\ UNCHANGED <<table, info, nextCol, sensorVars, pf, muLoad, abandoned>>
      /\ touched' = touched \cup {c}
  BY <1>1, <1>2, Free DEF disableSensor, lockVars, requestVars
<1> QED BY <1>1, <1>2, <1>3, <1>4, SensorRequest

LEMMA removeSensorIInv ==
  ASSUME IInv, NEW g \in Goroutines, NEW k \in ClusterWide, removeSensor(g, k)
  PROVE  IInv'
<1>1. Ready(g) /\ Present(k) /\ k \in Keys
  BY DEF removeSensor, Keys
<1>2. PICK c \in Cols : c = table[k]
  BY <1>1, Free DEF Present
<1>3. /\ "removeSensor" \in SensorRequests \cup Removers
      /\ "removeSensor" \notin SensorRequests /\ BeginsAt("removeSensor", "destroy")
  BY DEF SensorRequests, Removers, BeginsAt, Ops, Workers
<1>4. /\ Begin(g, "removeSensor", k, c, "destroy") /\ mu' = g
      /\ UNCHANGED <<table, info, nextCol, sensorVars, pf, muLoad, abandoned>> /\ touched' = touched
  BY <1>2 DEF removeSensor
<1> QED BY <1>1, <1>2, <1>3, <1>4, SensorRequest

LEMMA removeAllSensorsIInv ==
  ASSUME IInv, NEW g \in Goroutines, removeAllSensors(g)
  PROVE  IInv'
<1>1. PICK k \in Keys : Present(k) /\ Begin(g, "removeAll", k, table[k], "destroy")
  BY DEF removeAllSensors
<1>2. Ready(g)
  BY DEF removeAllSensors
<1>3. PICK c \in Cols : c = table[k]
  BY <1>1, <1>2, Free DEF Present
<1>4. /\ "removeAll" \in SensorRequests \cup Removers /\ "removeAll" \notin SensorRequests
      /\ BeginsAt("removeAll", "destroy")
  BY DEF SensorRequests, Removers, BeginsAt, Ops, Workers
<1>5. /\ Begin(g, "removeAll", k, c, "destroy") /\ mu' = g
      /\ UNCHANGED <<table, info, nextCol, sensorVars, pf, muLoad, abandoned>> /\ touched' = touched
  BY <1>1, <1>3 DEF removeAllSensors
<1> QED BY <1>2, <1>3, <1>4, <1>5, SensorRequest

\* Enabling and disabling: the collection has a worker and the state that says so.
LEMMA Works1 ==
  ASSUME IInv, NEW g \in Goroutines, Ready(g), NEW k \in Keys, NEW c \in Cols, table[k] = c,
         NEW op \in {"enable", "disable"}, NEW s \in {"loading", "unloading"},
         s = "loading" <=> Loads(op), info[c].state \notin {"loading", "unloading"},
         Quiet(c) => loaded[c] = (IF Loads(op) THEN {} ELSE SensorsOf(c)),
         info' = [info EXCEPT ![c].state = s], Begin(g, op, k, c, "lockLoad"),
         UNCHANGED <<table, nextCol, sensorVars, pf, lockVars, abandoned, touched>>
  PROVE  IInv'
<1>1. /\ run[g].op = "none" /\ \A h \in Goroutines : run[h].op \notin Removers
      /\ \A d \in Cols : ~Removing(d) /\ ~Concerns(run[g], d)
      /\ nextCol \in Int /\ c < nextCol
  BY Free
<1>2. table' = table /\ nextCol' = nextCol /\ pf' = pf /\ mu' = mu /\ muLoad' = muLoad
      /\ abandoned' = abandoned /\ touched' = touched /\ loaded' = loaded /\ destroyed' = destroyed
  BY DEF requestVars, sensorVars, lockVars, requestVars
<1>3. BeginsAt(op, "lockLoad") /\ c < nextCol'
  BY <1>1, <1>2 DEF BeginsAt, Ops, Workers
<1>4. /\ run' \in [Goroutines -> Run] /\ \A h \in Goroutines \ {g} : run'[h] = run[h]
      /\ PlaceOK(g)'
  BY <1>1, <1>2, <1>3, Begins
<1>5. run'[g].at = "lockLoad" /\ run'[g].op = op /\ run'[g].col = c /\ run'[g].i = 1 /\ ~run'[g].err
  BY <1>1, <1>2, <1>3, Begins
<1>6. info \in [Cols -> [state : States, filter : Cols \cup {NoFilterID},
                         num : {0, 1, NumSensors}]]
  BY DEF IInv, CoreTypeOK
<1>7. /\ info'[c].state = s /\ info'[c].filter = info[c].filter /\ info'[c].num = info[c].num
      /\ \A d \in Cols \ {c} : info'[d] = info[d]
      /\ \A d \in Cols : info'[d].num = info[d].num
  BY <1>6
<1>8. CoreTypeOK'
  <2>1. info' \in [Cols -> [state : States, filter : Cols \cup {NoFilterID},
                            num : {0, 1, NumSensors}]]
    BY <1>6 DEF States
  <2>2. \A d \in Cols : SensorsOf(d)' = SensorsOf(d)
    BY <1>7 DEF SensorsOf
  <2> QED BY <1>2, <1>4, <2>1, <2>2 DEF IInv, CoreTypeOK
<1>9. TableOK'
  <2>1. \A d \in Cols : d >= nextCol => info'[d] = info[d]
    BY <1>1, <1>7 DEF Cols
  <2> QED BY <1>2, <2>1 DEF IInv, TableOK
<1>10. ASSUME NEW h \in Goroutines PROVE PlaceOK(h)' /\ RequestOK(h)'
  <2>1. CASE h = g
    BY <1>4, <1>5, <2>1 DEF RequestOK, Removers, SensorRequests
  <2>2. CASE h # g
    <3>1. run'[h] = run[h] /\ nextCol' \in Int /\ nextCol <= nextCol'
      BY <1>1, <1>2, <1>4, <2>2
    <3> QED BY <1>1, <1>2, <1>7, <3>1, Others
  <2> QED BY <2>1, <2>2
<1>11. ASSUME NEW d \in Cols PROVE ColOK(d)'
  <2>1. (Listing(d)' <=> Listing(d)) /\ (Managed(d)' <=> Managed(d))
    BY <1>2 DEF Listing, Managed
  <2>2. ColOK(d)
    BY DEF IInv
  <2>3. CASE d # c
    <3>1. ~Concerns(run'[g], d)
      BY <1>5, <2>3 DEF Concerns
    <3> QED BY <1>1, <1>2, <1>4, <1>7, <2>1, <2>2, <2>3, <3>1, ColFrame
  <2>4. CASE d = c
    <3>1. \A h \in Goroutines : Works(h, c)' <=> h = g
      <4>1. \A h \in Goroutines : ~Works(h, c)
        BY <2>2, <2>4 DEF ColOK, WorkerOK
      <4> QED BY <1>4, <1>5, <4>1 DEF Works, Col, Workers
    <3>2. WorkerOK(c)'
      BY <1>5, <1>7, <3>1 DEF WorkerOK
    <3>3. \A h \in Goroutines : Deletes(h, c)' <=> Deletes(h, c)
      BY <1>1, <1>4, <1>5 DEF Deletes, Col
    <3>4. Deleting(c)' <=> Deleting(c)
      BY <3>3 DEF Deleting, Deletes
    <3>5. DeleteOK(c)' /\ FilterOK(c)'
      BY <1>2, <1>7, <2>1, <2>2, <2>4, <3>3, <3>4 DEF ColOK, DeleteOK, FilterOK, Known
    <3>6. ASSUME Managed(c)', ~Removing(c)' PROVE Quiet(c)'
      <4>1. Quiet(c)
        BY <1>1, <2>1, <2>2, <2>4, <3>6 DEF ColOK, ListedOK
      <4>2. SensorsOf(c)' = SensorsOf(c)
        BY <1>7 DEF SensorsOf
      <4>3. Progress(g, c)'
        BY <1>2, <1>5, <4>1, <4>2 DEF Progress, ProgressAt
      <4>4. \A h \in Goroutines : Works(h, c)' => Progress(h, c)'
        BY <3>1, <4>3
      <4> QED BY <1>2, <1>7, <4>1, <4>4 DEF Quiet, States
    <3> QED BY <2>4, <3>2, <3>5, <3>6 DEF ColOK, ListedOK
  <2> QED BY <2>3, <2>4
<1> QED BY <1>8, <1>9, <1>10, <1>11 DEF IInv

LEMMA doEnableTracingPolicyIInv ==
  ASSUME IInv, NEW g \in Goroutines, NEW k \in Keys, doEnableTracingPolicy(g, k)
  PROVE  IInv'
<1>1. Ready(g) /\ Present(k) /\ info[table[k]].state = "disabled"
  BY DEF doEnableTracingPolicy, EnablePossible, StateOf
<1>2. PICK c \in Cols : table[k] = c
  BY <1>1, Free DEF Present
<1>3. /\ info' = [info EXCEPT ![c].state = "loading"] /\ Begin(g, "enable", k, c, "lockLoad")
      /\ UNCHANGED <<table, nextCol, sensorVars, pf, lockVars, abandoned, touched>>
  BY <1>2 DEF doEnableTracingPolicy, SetState
<1>4. Quiet(c) => loaded[c] = (IF Loads("enable") THEN {} ELSE SensorsOf(c))
  BY <1>1, <1>2 DEF Quiet, Loads
<1>5. Loads("enable")
  BY DEF Loads
<1> QED BY <1>1, <1>2, <1>3, <1>4, <1>5, Works1

LEMMA doDisableTracingPolicyIInv ==
  ASSUME IInv, NEW g \in Goroutines, NEW k \in Keys, doDisableTracingPolicy(g, k)
  PROVE  IInv'
<1>1. Ready(g) /\ Present(k) /\ info[table[k]].state = "enabled"
  BY DEF doDisableTracingPolicy, StateOf
<1>2. PICK c \in Cols : table[k] = c
  BY <1>1, Free DEF Present
<1>3. /\ info' = [info EXCEPT ![c].state = "unloading"] /\ Begin(g, "disable", k, c, "lockLoad")
      /\ UNCHANGED <<table, nextCol, sensorVars, pf, lockVars, abandoned, touched>>
  BY <1>2 DEF doDisableTracingPolicy, SetState
<1>4. Quiet(c) => loaded[c] = (IF Loads("disable") THEN {} ELSE SensorsOf(c))
  BY <1>1, <1>2 DEF Quiet, Loads
<1>5. ~Loads("disable")
  BY DEF Loads
<1> QED BY <1>1, <1>2, <1>3, <1>4, <1>5, Works1

LEMMA deleteTracingPolicyIInv ==
  ASSUME IInv, NEW g \in Goroutines, NEW k \in Keys, deleteTracingPolicy(g, k)
  PROVE  IInv'
<1>1. Ready(g) /\ Present(k)
  BY DEF deleteTracingPolicy
<1>f. /\ run[g].op = "none" /\ \A h \in Goroutines : run[h].op \notin Removers
      /\ \A d \in Cols : ~Removing(d) /\ ~Concerns(run[g], d)
      /\ table \in [Keys -> Cols \cup {NoCol}] /\ nextCol \in Int
      /\ \A l \in Keys : table[l] < nextCol
      /\ \A l, m \in Keys : table[l] = table[m] /\ table[l] # NoCol => l = m
      /\ NoCol \notin Cols
  BY <1>1, Free
<1>2. PICK c \in Cols : table[k] = c
  BY <1>1, <1>f DEF Present
<1>3. info' = info /\ nextCol' = nextCol /\ pf' = pf /\ mu' = mu /\ muLoad' = muLoad
      /\ abandoned' = abandoned /\ touched' = touched /\ loaded' = loaded /\ destroyed' = destroyed
      /\ table' = [table EXCEPT ![k] = NoCol] /\ Begin(g, "delete", k, c, "destroy")
  BY <1>2 DEF deleteTracingPolicy, sensorVars, lockVars, requestVars
<1>4. table'[k] = NoCol /\ \A l \in Keys \ {k} : table'[l] = table[l] /\ table[l] # c
  BY <1>2, <1>3, <1>f
<1>5. BeginsAt("delete", "destroy") /\ c < nextCol'
  BY <1>2, <1>3, <1>f DEF BeginsAt, Ops, Workers
<1>6. /\ run' \in [Goroutines -> Run] /\ \A h \in Goroutines \ {g} : run'[h] = run[h]
      /\ PlaceOK(g)' /\ run'[g].op = "delete" /\ run'[g].col = c
  BY <1>3, <1>5, Begins
<1>7. CoreTypeOK'
  <2>1. table' \in [Keys -> Cols \cup {NoCol}]
    BY <1>3, <1>f
  <2> QED BY <1>3, <1>6, <2>1 DEF IInv, CoreTypeOK, SensorsOf
<1>8. TableOK'
  <2>1. \A l, m \in Keys : table'[l] = table'[m] /\ table'[l] # NoCol => l = m
    BY <1>4, <1>f
  <2>2. \A l \in Keys : table'[l] < nextCol
    BY <1>2, <1>4, <1>f DEF NoCol, Cols
  <2> QED BY <1>3, <2>1, <2>2 DEF IInv, TableOK
<1>9. ASSUME NEW h \in Goroutines PROVE PlaceOK(h)' /\ RequestOK(h)'
  <2>1. CASE h = g
    BY <1>6, <2>1 DEF RequestOK, Removers, SensorRequests
  <2>2. CASE h # g
    <3>1. run'[h] = run[h] /\ nextCol' \in Int /\ nextCol <= nextCol'
      BY <1>3, <1>6, <1>f, <2>2
    <3> QED BY <1>3, <1>f, <3>1, Others
  <2> QED BY <2>1, <2>2
<1>10. ASSUME NEW d \in Cols PROVE ColOK(d)'
  <2>1. ColOK(d) /\ d # NoCol
    BY <1>f DEF IInv
  <2>2. Managed(d)' => Managed(d)
    BY <1>3, <1>4, <2>1 DEF Managed, Listing
  <2>3. CASE d # c
    <3>1. Listing(d)' <=> Listing(d)
      BY <1>2, <1>4, <2>1, <2>3 DEF Listing
    <3>2. ~Concerns(run'[g], d)
      BY <1>6, <2>3 DEF Concerns
    <3> QED BY <1>3, <1>6, <1>f, <2>1, <2>2, <3>1, <3>2, ColFrame
  <2>4. CASE d = c
    <3>1. Listing(c) /\ ~Listing(c)'
      BY <1>2, <1>4, <2>1, <2>4 DEF Listing
    <3>2. ~Deleting(c) /\ c \notin abandoned
      BY <2>1, <2>4, <3>1 DEF ColOK, DeleteOK
    <3>3. \A h \in Goroutines : Deletes(h, c)' <=> h = g
      BY <1>6, <3>2 DEF Deletes, Deleting, Col
    <3>4. Deleting(c)'
      BY <3>3 DEF Deleting, Deletes
    <3>5. \A h \in Goroutines : /\ Works(h, c)' <=> Works(h, c)
                                /\ Works(h, c) => run'[h] = run[h]
      BY <1>6, <1>f DEF Works, Workers, Col
    <3>6. WorkerOK(c)'
      BY <1>3, <2>1, <2>4, <3>5 DEF ColOK, WorkerOK
    <3>7. DeleteOK(c)' /\ FilterOK(c)'
      BY <1>3, <2>1, <2>4, <3>1, <3>2, <3>3, <3>4 DEF ColOK, DeleteOK, FilterOK, Known
    <3>8. ~Managed(c)'
      BY <3>1 DEF Managed, Listing, Keys
    <3> QED BY <2>4, <3>6, <3>7, <3>8 DEF ColOK, ListedOK
  <2> QED BY <2>3, <2>4
<1> QED BY <1>7, <1>8, <1>9, <1>10 DEF IInv

\* A collection that is still to be made is known to no one.
LEMMA Fresh ==
  ASSUME IInv, NEW n \in Cols, n = nextCol
  PROVE  /\ info[n] = [state |-> "unknown", filter |-> NoFilterID, num |-> 0]
         /\ loaded[n] = {} /\ destroyed[n] = {} /\ n \notin pf /\ n \notin abandoned
         /\ ~Listing(n) /\ \A h \in Goroutines : ~Works(h, n) /\ ~Deletes(h, n)
<1>1. n \in Int /\ n >= nextCol
  BY DEF Cols
<1>2. info[n] = [state |-> "unknown", filter |-> NoFilterID, num |-> 0]
      /\ n \notin pf /\ n \notin abandoned
  BY <1>1 DEF IInv, TableOK
<1>3. SensorsOf(n) = {}
  BY <1>2 DEF SensorsOf
<1>4. loaded[n] = {} /\ destroyed[n] = {}
  BY <1>3 DEF IInv, CoreTypeOK
<1>5. ~Listing(n)
  BY <1>1 DEF IInv, TableOK, Listing
<1>6. ASSUME NEW h \in Goroutines PROVE ~Works(h, n) /\ ~Deletes(h, n)
  BY <1>1 DEF IInv, PlaceOK, Works, Deletes, Workers, Col
<1> QED BY <1>2, <1>4, <1>5, <1>6

\* A collection is made, and replaces one that is abandoned.
LEMMA Made ==
  ASSUME IInv, NEW g \in Goroutines, Ready(g), NEW k \in Keys, NEW n \in Cols, n = nextCol,
         NEW r \in [state : {"unknown", "loadError", "loading"}, filter : {NoFilterID, n},
                    num : {0, 1, NumSensors}],
         table' = [table EXCEPT ![k] = n], nextCol' = nextCol + 1,
         abandoned' = abandoned \cup ({table[k]} \ {NoCol}),
         info' = [info EXCEPT ![n] = r], pf' = pf \cup ({r.filter} \ {NoFilterID}),
         \/ r.state = "loading" /\ Begin(g, "add", k, n, "lockLoad")
         \/ r.state # "loading" /\ run' = run,
         UNCHANGED <<sensorVars, lockVars, touched>>
  PROVE  IInv'
<1>f. /\ run[g].op = "none" /\ \A h \in Goroutines : run[h].op \notin Removers
      /\ \A d \in Cols : ~Removing(d) /\ ~Concerns(run[g], d)
      /\ table \in [Keys -> Cols \cup {NoCol}] /\ nextCol \in Int
      /\ \A l \in Keys : table[l] < nextCol
      /\ \A l, m \in Keys : table[l] = table[m] /\ table[l] # NoCol => l = m
      /\ NoCol \notin Cols
  BY Free
<1>1. mu' = mu /\ muLoad' = muLoad /\ loaded' = loaded /\ destroyed' = destroyed
      /\ touched' = touched
  BY DEF requestVars, sensorVars, lockVars, requestVars
<1>2. table'[k] = n /\ \A l \in Keys \ {k} : table'[l] = table[l]
  BY <1>f
<1>3. info \in [Cols -> [state : States, filter : Cols \cup {NoFilterID},
                         num : {0, 1, NumSensors}]]
  BY DEF IInv, CoreTypeOK
<1>4. info'[n] = r /\ \A d \in Cols \ {n} : info'[d] = info[d]
  BY <1>3
<1>5. n < nextCol' /\ nextCol' \in Int /\ nextCol <= nextCol'
  BY <1>f
<1>6. \A d \in Cols : d < nextCol => info'[d].num = info[d].num
  BY <1>4, <1>f DEF Cols
<1>7. /\ run' \in [Goroutines -> Run] /\ \A h \in Goroutines \ {g} : run'[h] = run[h]
      /\ PlaceOK(g)' /\ run'[g].op = (IF r.state = "loading" THEN "add" ELSE "none")
      /\ r.state = "loading" => /\ run'[g].col = n /\ run'[g].at = "lockLoad"
                                /\ run'[g].i = 1 /\ ~run'[g].err
  <2>1. CASE r.state = "loading" /\ Begin(g, "add", k, n, "lockLoad")
    <3>1. BeginsAt("add", "lockLoad")
      BY DEF BeginsAt, Ops, Workers
    <3>2. /\ run' \in [Goroutines -> Run] /\ \A h \in Goroutines \ {g} : run'[h] = run[h]
          /\ PlaceOK(g)'
      BY <1>5, <2>1, <3>1, Begins
    <3>3. /\ run'[g].op = "add" /\ run'[g].col = n /\ run'[g].at = "lockLoad"
          /\ run'[g].i = 1 /\ ~run'[g].err
      BY <1>5, <2>1, <3>1, Begins
    <3> QED BY <2>1, <3>2, <3>3
  <2>2. CASE r.state # "loading" /\ run' = run
    <3>1. PlaceOK(g)'
      BY <1>5, <1>6, <1>f, <2>2, PlaceFrame DEF IInv
    <3> QED BY <1>f, <2>2, <3>1 DEF IInv, CoreTypeOK
  <2> QED BY <2>1, <2>2
<1>8. CoreTypeOK'
  <2>1. table' \in [Keys -> Cols \cup {NoCol}]
    BY <1>f
  <2>2. r \in [state : States, filter : Cols \cup {NoFilterID}, num : {0, 1, NumSensors}]
    BY DEF States
  <2>3. info' \in [Cols -> [state : States, filter : Cols \cup {NoFilterID},
                            num : {0, 1, NumSensors}]]
    BY <1>3, <2>2
  <2>4. \A d \in Cols : loaded'[d] \subseteq SensorsOf(d)' /\ destroyed'[d] \subseteq SensorsOf(d)'
    <3>1. ASSUME NEW d \in Cols, d # n PROVE SensorsOf(d)' = SensorsOf(d)
      BY <1>4, <3>1 DEF SensorsOf
    <3> QED BY <1>1, <3>1, Fresh DEF IInv, CoreTypeOK
  <2>5. pf' \subseteq Cols /\ abandoned' \subseteq Cols
    BY <1>f DEF IInv, CoreTypeOK
  <2>6. nextCol' \in 1 .. MaxCols + 1
    BY BoundsAssumption DEF Cols
  <2> QED BY <1>1, <1>7, <2>1, <2>3, <2>4, <2>5, <2>6 DEF IInv, CoreTypeOK
<1>9. TableOK'
  <2>1. \A l, m \in Keys : table'[l] = table'[m] /\ table'[l] # NoCol => l = m
    <3>1. \A l \in Keys : table[l] # n
      BY <1>f DEF NoCol, Cols
    <3> QED BY <1>2, <1>f, <3>1
  <2>2. \A l \in Keys : table'[l] < nextCol'
    BY <1>2, <1>5, <1>f DEF NoCol, Cols
  <2>3. ASSUME NEW d \in Cols, d >= nextCol'
        PROVE  /\ info'[d] = [state |-> "unknown", filter |-> NoFilterID, num |-> 0]
               /\ d \notin pf' /\ d \notin abandoned'
    <3>1. d >= nextCol /\ d # n /\ d # table[k]
      BY <1>f, <2>3 DEF Cols, NoCol
    <3> QED BY <1>4, <3>1 DEF IInv, TableOK
  <2> QED BY <2>1, <2>2, <2>3 DEF TableOK
<1>10. ASSUME NEW h \in Goroutines PROVE PlaceOK(h)' /\ RequestOK(h)'
  <2>1. CASE h = g
    BY <1>7, <2>1 DEF RequestOK, Removers, SensorRequests
  <2>2. CASE h # g
    <3>1. run'[h] = run[h]
      BY <1>7, <2>2
    <3> QED BY <1>1, <1>5, <1>6, <1>f, <3>1, Others
  <2> QED BY <2>1, <2>2
<1>11. ASSUME NEW d \in Cols PROVE ColOK(d)'
  <2>1. ColOK(d) /\ d # NoCol
    BY <1>f DEF IInv
  <2>2. CASE d = n
    <3>1. \A h \in Goroutines : /\ ~Deletes(h, n)'
                                /\ Works(h, n)' <=> h = g /\ r.state = "loading"
      BY <1>7, Fresh DEF Deletes, Works, Workers, Col
    <3>2. WorkerOK(n)'
      <4>1. r.state = "loading" => Loads(run'[g].op)
        BY <1>7 DEF Loads
      <4> QED BY <1>4, <3>1, <4>1 DEF WorkerOK
    <3>3. ~Deleting(n)' /\ n \notin abandoned' /\ Listing(n)'
      <4>1. n # table[k]
        BY <1>f
      <4> QED BY <1>2, <3>1, <4>1, Fresh DEF Deleting, Deletes, Listing
    <3>4. DeleteOK(n)'
      BY <3>1, <3>3 DEF DeleteOK
    <3>5. FilterOK(n)'
      BY <1>4, <1>f, <3>3, Fresh DEF FilterOK, Known, NoFilterID, NoCol
    <3>6. ASSUME Managed(n)' PROVE Quiet(n)'
      <4>2. loaded'[n] = {} /\ destroyed'[n] = {}
        BY <1>1, Fresh
      <4>3. r.state = "loading" => Progress(g, n)'
        BY <1>7, <4>2 DEF Progress, ProgressAt, Loads
      <4>4. \A h \in Goroutines : Works(h, n)' => Progress(h, n)'
        BY <3>1, <4>3
      <4> QED BY <1>4, <4>2, <4>4 DEF Quiet, States
    <3> QED BY <2>2, <3>2, <3>4, <3>5, <3>6 DEF ColOK, ListedOK
  <2>3. CASE d # n /\ d # table[k]
    <3>1. Listing(d)' <=> Listing(d)
      BY <1>2, <2>3 DEF Listing
    <3>2. Managed(d)' => Managed(d)
      BY <1>1, <1>2, <2>3 DEF Managed, Listing
    <3>3. ~Concerns(run'[g], d)
      BY <1>7, <2>3 DEF Concerns, Workers
    <3>4. (d \in pf' <=> d \in pf) /\ (d \in abandoned' <=> d \in abandoned)
      BY <2>1, <2>3
    <3> QED BY <1>1, <1>4, <1>7, <1>f, <2>1, <2>3, <3>1, <3>2, <3>3, <3>4, ColFrame
  <2>4. CASE d # n /\ d = table[k]
    <3>1. Listing(d) /\ ~Listing(d)'
      BY <1>2, <1>f, <2>1, <2>4 DEF Listing
    <3>2. ~Concerns(run'[g], d)
      BY <1>7, <2>4 DEF Concerns, Workers
    <3>3. (d \in pf' <=> d \in pf) /\ d \in abandoned'
      BY <2>1, <2>4
    <3> QED BY <1>4, <1>7, <1>f, <2>1, <2>4, <3>1, <3>2, <3>3, Abandons
  <2> QED BY <2>2, <2>3, <2>4
<1> QED BY <1>8, <1>9, <1>10, <1>11 DEF IInv

LEMMA addSensorIInv ==
  ASSUME IInv, NEW g \in Goroutines, NEW k \in ClusterWide, addSensor(g, k)
  PROVE  IInv'
<1>1. Ready(g) /\ table[k] = NoCol /\ k \in Keys
  BY DEF addSensor, Present, Keys
<1>2. PICK n \in Cols : n = nextCol
  BY BoundsAssumption DEF addSensor, Cols, IInv, CoreTypeOK
<1>3. PICK r \in [state : {"unknown", "loadError", "loading"}, filter : {NoFilterID, n},
                  num : {0, 1, NumSensors}] :
        r = [state |-> "unknown", filter |-> NoFilterID, num |-> 1]
  OBVIOUS
<1>4. r.state = "unknown" /\ r.filter = NoFilterID
  BY <1>3
<1>5. info' = [info EXCEPT ![n] = r]
  <2>1. info[n] = [state |-> "unknown", filter |-> NoFilterID, num |-> 0]
    BY <1>2, Fresh
  <2>2. [info[n] EXCEPT !.num = 1] = r
    BY <1>3, <2>1
  <2>3. info' = [info EXCEPT ![n] = [info[n] EXCEPT !.num = 1]]
    BY <1>2 DEF addSensor
  <2> QED BY <2>2, <2>3
<1>6. /\ table' = [table EXCEPT ![k] = n] /\ nextCol' = nextCol + 1
      /\ abandoned' = abandoned \cup ({table[k]} \ {NoCol})
      /\ pf' = pf \cup ({r.filter} \ {NoFilterID})
      /\ run' = run /\ UNCHANGED <<sensorVars, lockVars, touched>>
  BY <1>1, <1>2, <1>4 DEF addSensor
<1> QED BY <1>1, <1>2, <1>4, <1>5, <1>6, Made

LEMMA addTracingPolicyIInv ==
  ASSUME IInv, NEW g \in Goroutines, NEW k \in PolicyKeys, addTracingPolicy(g, k)
  PROVE  IInv'
<1>1. Ready(g) /\ k \in Keys
  BY DEF addTracingPolicy, Keys
<1>2. PICK n \in Cols : n = nextCol
  BY BoundsAssumption DEF addTracingPolicy, AddPossible, Cols, IInv, CoreTypeOK
<1>3. /\ table' = [table EXCEPT ![k] = n] /\ nextCol' = nextCol + 1
      /\ abandoned' = abandoned \cup ({table[k]} \ {NoCol})
      /\ UNCHANGED <<sensorVars, lockVars, touched>>
  BY <1>2 DEF addTracingPolicy
<1>4. CASE SetState(n, "loadError") /\ UNCHANGED <<pf, run>>
  <2>1. PICK r \in [state : {"unknown", "loadError", "loading"}, filter : {NoFilterID, n},
                    num : {0, 1, NumSensors}] :
          r = [state |-> "loadError", filter |-> NoFilterID, num |-> 0]
    OBVIOUS
  <2>2. r.state = "loadError" /\ r.filter = NoFilterID
    BY <2>1
  <2>3. info' = [info EXCEPT ![n] = r]
    <3>1. info[n] = [state |-> "unknown", filter |-> NoFilterID, num |-> 0]
      BY <1>2, Fresh
    <3>2. [info[n] EXCEPT !.state = "loadError"] = r
      BY <2>1, <3>1
    <3>3. info' = [info EXCEPT ![n] = [info[n] EXCEPT !.state = "loadError"]]
      BY <1>4 DEF SetState
    <3> QED BY <3>2, <3>3
  <2>4. pf' = pf \cup ({r.filter} \ {NoFilterID}) /\ run' = run
    BY <1>4, <2>2
  <2> QED BY <1>1, <1>2, <1>3, <2>2, <2>3, <2>4, Made
<1>5. ASSUME NEW filter \in {NoFilterID, n}, pf' = pf \cup ({filter} \ {NoFilterID}),
             info' = [info EXCEPT ![n] =
                        [state |-> "loadError", filter |-> filter, num |-> 0]],
             UNCHANGED run
      PROVE  IInv'
  <2>1. PICK r \in [state : {"unknown", "loadError", "loading"}, filter : {NoFilterID, n},
                    num : {0, 1, NumSensors}] :
          r = [state |-> "loadError", filter |-> filter, num |-> 0]
    OBVIOUS
  <2>2. r.state = "loadError" /\ r.filter = filter
    BY <2>1
  <2>3. info' = [info EXCEPT ![n] = r] /\ run' = run
    BY <1>5, <2>1
  <2>4. pf' = pf \cup ({r.filter} \ {NoFilterID})
    BY <1>5, <2>2
  <2> QED BY <1>1, <1>2, <1>3, <2>2, <2>3, <2>4, Made
<1>6. ASSUME NEW filter \in {NoFilterID, n}, pf' = pf \cup ({filter} \ {NoFilterID}),
             info' = [info EXCEPT ![n] =
                        [state |-> "loading", filter |-> filter, num |-> NumSensors]],
             Begin(g, "add", k, n, "lockLoad")
      PROVE  IInv'
  <2>1. PICK r \in [state : {"unknown", "loadError", "loading"}, filter : {NoFilterID, n},
                    num : {0, 1, NumSensors}] :
          r = [state |-> "loading", filter |-> filter, num |-> NumSensors]
    OBVIOUS
  <2>2. r.state = "loading" /\ r.filter = filter
    BY <2>1
  <2>3. info' = [info EXCEPT ![n] = r]
    BY <1>6, <2>1
  <2>4. pf' = pf \cup ({r.filter} \ {NoFilterID})
    BY <1>6, <2>2
  <2> QED BY <1>1, <1>2, <1>3, <1>6, <2>2, <2>3, <2>4, Made
<1> QED BY <1>2, <1>4, <1>5, <1>6 DEF addTracingPolicy

-----------------------------------------------------------------------------
(***************************************************************************)
(* The invariant, and what it says.                                        *)
(***************************************************************************)
LEMMA InitIInv ==
  ASSUME Init
  PROVE  IInv
<1>1. Resting \in Run /\ Resting.at = "idle" /\ Resting.op = "none" /\ Resting.col = NoCol
  BY SensorsAssumption DEF Resting, Run, Places, Ops, Keys
<1>2. \A g \in Goroutines : run[g] = Resting
  BY DEF Init
<1>3. \A c \in Cols : c # NoCol
  BY DEF Cols, NoCol
<1>4. CoreTypeOK
  BY <1>1, BoundsAssumption, SensorsAssumption
  DEF Init, CoreTypeOK, SensorsOf, States, NoCol, NoFilterID
<1>5. TableOK
  BY DEF Init, TableOK, NoCol
<1>6. ASSUME NEW g \in Goroutines PROVE PlaceOK(g) /\ RequestOK(g)
  BY <1>1, <1>2 DEF PlaceOK, RequestOK, Loading, Destroying, OnSensor, Workers, Removers,
                    SensorRequests
<1>7. ASSUME NEW c \in Cols PROVE ColOK(c)
  <2>1. \A g \in Goroutines : ~Works(g, c) /\ ~Deletes(g, c)
    BY <1>1, <1>2 DEF Works, Deletes, Workers
  <2>2. ~Listing(c) /\ ~Managed(c) /\ ~Deleting(c)
    BY <1>3, <2>1 DEF Init, Listing, Managed, Deleting, Deletes, Keys
  <2>3. info[c].state = "unknown" /\ info[c].filter = NoFilterID
    BY DEF Init
  <2>4. WorkerOK(c)
    BY <2>1, <2>3 DEF WorkerOK
  <2>5. DeleteOK(c) /\ FilterOK(c)
    BY <2>1, <2>2, <2>3, <1>3 DEF Init, DeleteOK, FilterOK, Known, NoFilterID, NoCol
  <2> QED BY <2>2, <2>4, <2>5 DEF ColOK, ListedOK
<1> QED BY <1>4, <1>5, <1>6, <1>7 DEF IInv

LEMMA NextIInv ==
  ASSUME IInv, [Next]_vars
  PROVE  IInv'
<1>1. CASE UNCHANGED vars
  <2>1. /\ table' = table /\ info' = info /\ nextCol' = nextCol /\ pf' = pf /\ mu' = mu
        /\ muLoad' = muLoad /\ abandoned' = abandoned /\ touched' = touched /\ loaded' = loaded
        /\ destroyed' = destroyed /\ run' = run
    BY <1>1 DEF vars, sensorVars, lockVars, requestVars, requestVars
  <2> QED BY <2>1
          DEF IInv, CoreTypeOK, TableOK, PlaceOK, RequestOK, ColOK, WorkerOK, DeleteOK, FilterOK,
              ListedOK, Quiet, Progress, Works, Deletes, Deleting, Listing, Known, Managed,
              Removing, SensorsOf, Col
<1>2. CASE Next
  <2>1. PICK g \in Goroutines : Request(g) \/ lockLoad(g) \/ relock(g) \/ Step(g)
    BY <1>2 DEF Next
  <2>2. CASE Request(g)
    BY <2>2, addTracingPolicyIInv, doEnableTracingPolicyIInv, doDisableTracingPolicyIInv,
       deleteTracingPolicyIInv, addSensorIInv, enableSensorIInv, disableSensorIInv,
       removeSensorIInv, removeAllSensorsIInv DEF Request
  <2>3. CASE Step(g)
    BY <2>3, loadIInv, attachIInv, unloadIInv, checkIInv, detachIInv, unlockLoadIInv,
       destroyIInv, destroyDetachIInv, destroyHookIInv, finishDeleteIInv, finishRemoveIInv
    DEF Step
  <2> QED BY <2>1, <2>2, <2>3, lockLoadIInv, relockIInv
<1> QED BY <1>1, <1>2

LEMMA Invariance == Spec => []IInv
BY InitIInv, NextIInv, PTL DEF Spec

\* Every variable keeps its type, and only sensors that a collection has are
\* loaded or destroyed, whatever the clients ask for.
THEOREM SensorTypeCorrect == Spec => []TypeOK
<1> DEFINE Asked == asked \in 0 .. MaxRequests
<1>1. Init => Asked
  BY BoundsAssumption DEF Init
<1>2. ASSUME Asked, [Next]_vars PROVE Asked'
  <2>1. CASE asked' = asked
    BY <1>2, <2>1
  <2>2. CASE asked < MaxRequests /\ asked' = asked + 1
    BY <1>2, <2>2, BoundsAssumption
  <2>3. asked' = asked \/ \E g \in Goroutines : Request(g)
    BY <1>2 DEF Next, vars, requestVars, Step, lockLoad, relock, load, attach, unload, check,
                detach, unlockLoad, destroy, destroyDetach, destroyHook, finishDelete,
                finishRemove
  <2> QED BY <2>1, <2>2, <2>3 DEF Request
<1>3. Spec => []Asked
  BY <1>1, <1>2, PTL DEF Spec
<1>4. IInv /\ Asked => TypeOK
  BY DEF IInv, TypeOK
<1> QED BY <1>3, <1>4, Invariance, PTL

\* A collection is loading or unloading exactly while one goroutine works on it:
\* the state that doEnable, doDisable and addTracingPolicy set under
\* collections.mu keeps every other client out until the last section.
THEOREM OneWorkerCorrect == Spec => []OneWorker
<1>1. ASSUME IInv PROVE OneWorker
  <2>1. SUFFICES ASSUME NEW c \in Cols
                 PROVE  Cardinality(Working(c)) =
                          (IF info[c].state \in {"loading", "unloading"} THEN 1 ELSE 0)
    BY DEF OneWorker
  <2>2. WorkerOK(c) /\ Working(c) = {g \in Goroutines : Works(g, c)}
    BY <1>1 DEF IInv, ColOK, Working, Works, Workers
  <2>3. CASE info[c].state \in {"loading", "unloading"}
    <3>1. PICK g \in Goroutines : Works(g, c)
      BY <2>2, <2>3 DEF WorkerOK
    <3>2. Working(c) = {g}
      BY <2>2, <3>1 DEF WorkerOK
    <3> QED BY <2>3, <3>2, FS_Singleton
  <2>4. CASE info[c].state \notin {"loading", "unloading"}
    <3>1. Working(c) = {}
      BY <2>2, <2>4 DEF WorkerOK
    <3> QED BY <2>4, <3>1, FS_EmptySet
  <2> QED BY <2>3, <2>4
<1> QED BY <1>1, Invariance, PTL

\* What ListTracingPolicies says of a policy is true at that moment, although
\* collections.mu is not held while its sensors are loaded and unloaded, unless it
\* was once enabled or disabled as a sensor.
THEOREM ListedCorrect == Spec => []Listed
<1>1. ASSUME IInv PROVE Listed
  <2>1. SUFFICES ASSUME mu = NoOne, NEW k \in Keys, Present(k), table[k] \notin touched
                 PROVE  LET c == table[k] IN
                        /\ StateOf(k) = "enabled" => loaded[c] = SensorsOf(c) /\ destroyed[c] = {}
                        /\ StateOf(k) \in {"disabled", "loadError"} => loaded[c] = {}
                        /\ StateOf(k) # "error"
    BY DEF Listed
  <2>2. PICK c \in Cols : c = table[k]
    BY <1>1, <2>1 DEF IInv, CoreTypeOK, Keys, Present
  <2>3. ~Removing(c)
    BY <1>1, <2>1, NoOneAssumption DEF Removing, IInv, RequestOK
  <2>4. Quiet(c)
    BY <1>1, <2>1, <2>2, <2>3 DEF IInv, ColOK, ListedOK, Managed, Listing
  <2> QED BY <2>1, <2>2, <2>4 DEF StateOf, Quiet
<1> QED BY <1>1, Invariance, PTL

\* The policy filter knows the policies the manager has, those being deleted
\* and those left behind, and no others: AddPolicy and DelPolicy are called once
\* each for a policy with a filter.
THEOREM FilterAgreesCorrect == Spec => []FilterAgrees
<1>1. ASSUME IInv PROVE FilterAgrees
  <2>1. \A c \in Cols : FilterOK(c) /\ pf \subseteq Cols
    BY <1>1 DEF IInv, ColOK, CoreTypeOK
  <2>2. ASSUME NEW c \in Cols, info[c].filter # NoFilterID, Known(c) PROVE c \in pf
    BY <2>1, <2>2 DEF FilterOK
  <2>3. ASSUME NEW c \in pf PROVE Known(c)
    <3>1. c \in Cols
      BY <1>1 DEF IInv, CoreTypeOK
    <3> QED BY <2>1, <3>1 DEF FilterOK
  <2> QED BY <2>2, <2>3 DEF FilterAgrees
<1> QED BY <1>1, Invariance, PTL
=============================================================================
