------------------------------ MODULE CgroupRate ------------------------------
(***************************************************************************)
(* Cgroup rate limiting: the BPF function cgroup_rate, which counts the    *)
(* base sensor events of a cgroup on each cpu and pauses a cpu that        *)
(* crosses the limit (bpf/process/bpf_rate.h), and the goroutine of the    *)
(* agent that watches paused cgroups and resumes them                      *)
(* (pkg/cgrouprate/cgrouprate.go).                                         *)
(*                                                                         *)
(* The two share cgroup_rate_map, without a lock: the goroutine looks the  *)
(* values of a cgroup up, decides, and puts the same values back.  A call  *)
(* of cgroup_rate is one step, as is a system call of the goroutine.       *)
(*                                                                         *)
(* A point in time is kept as its age, so that time goes on for ever in    *)
(* finitely many states: the window start val->time as now - val->time,    *)
(* val->throttled likewise.  Ages beyond every limit are all AgeCap, and   *)
(* that of a value the map has zeroed is AgeCap too.                       *)
(*                                                                         *)
(* Abstractions: one unit of time stands for what the limits are measured  *)
(* in; a throttle message is the cgroup it names; the name of the cgroup   *)
(* and the counters of the metrics are left out.                           *)
(***************************************************************************)
EXTENDS Integers, FiniteSets, FiniteSetsExt

CONSTANTS
  Cgroups,    \* cgroups that have processes
  Cpus,
  Events,     \* opts.Events, the limit
  Interval,   \* opts.Interval
  Alive,      \* aliveCnt seconds
  Inactive,   \* cleanupInactiveTime, and cleanupInterval
  Skew,       \* by how much CLOCK_BOOTTIME is ahead of CLOCK_MONOTONIC
  MapSize,    \* max_entries of cgroup_rate_map
  Word,       \* 2^64: one more than the greatest __u64
  MaxCount,   \* bound: events counted in a window
  MaxMsgs,    \* bound: throttle messages of a cgroup on their way
  MaxLag      \* bound: time that may pass within one run of the timer

ASSUME LimitAssumption == Events \in Nat \ {0} /\ Interval \in Nat \ {0}
ASSUME TimeAssumption ==
  Alive \in Nat /\ Inactive \in Nat /\ Skew \in Nat /\ MaxLag \in Nat
ASSUME SizeAssumption ==
  MapSize \in Nat /\ Word \in Nat \ {0} /\ MaxCount \in Nat \ {0} /\ MaxMsgs \in Nat
\* With the interval in nanoseconds a cpu posts less than 2^64 / interval
\* events in one: the product and the sum of the estimate fit into a __u64.
\* Nothing checks the option: of an interval of a second that is 18 billions
\* of events, of one of an hour five millions.
ASSUME WordAssumption ==
  Interval < Word /\ Interval * MaxCount < Word /\ 2 * MaxCount < Word

VARIABLES
  rateMap,  \* cgroup_rate_map
  removed,  \* cgroups that were removed
  phase,    \* the time modulo Interval
  msgs,     \* throttle messages of each cgroup on their way to the agent
  watched,  \* r.cgroups
  loop,     \* where the goroutine is, on which cgroup, with which values
  cleanup,  \* age of r.cleanup
  lost      \* cgroups that a throttle message was lost of since they were last
            \* looked after (history)

vars == <<rateMap, removed, phase, msgs, watched, loop, cleanup, lost>>

AgeCap == Max({2 * Interval, Alive + Skew, Inactive + Skew}) + MaxLag + 1
Off == -1 \* val->throttled = 0, and r.cleanup = 0
Ages == 0 .. AgeCap
Older(age) == IF age = Off THEN Off ELSE Min({age + 1, AgeCap})

Value == [curr : Nat, prev : Nat, age : Ages, rate : Nat, held : Ages \cup {Off}]
Zero == [curr |-> 0, prev |-> 0, age |-> AgeCap, rate |-> 0, held |-> Off]
Absent == [cpu \in {} |-> Zero]
Entries == [Cpus -> Value] \cup {Absent}

Present(c) == rateMap[c] # Absent
NoRoom == Cardinality({c \in Cgroups : Present(c)}) >= MapSize
Held(c, cpu) == Present(c) /\ rateMap[c][cpu].held # Off

Resting == [at |-> "select", todo |-> {}, values |-> Absent, lag |-> 0]
At(place) == loop.at = place

Init ==
  /\ rateMap = [c \in Cgroups |-> Absent]
  /\ removed = {}
  /\ phase \in 0 .. Interval - 1
  /\ msgs = [c \in Cgroups |-> 0]
  /\ watched = {}
  /\ loop = Resting
  /\ cleanup = Off
  /\ lost = {}

-----------------------------------------------------------------------------
(***************************************************************************)
(* bpf_rate.h                                                              *)
(***************************************************************************)

\* Mutant: after a long pause the window only moves on by one interval.
SlowWindow(v) ==
  IF v.age > Interval
  THEN [v EXCEPT !.prev = v.curr, !.age = @ - Interval, !.curr = 0]
  ELSE v
\* delta > interval: the window moves on, and after a long pause starts anew
\* at a multiple of the interval.
Window(v) ==
  CASE v.age > 2 * Interval -> [v EXCEPT !.prev = 0, !.age = phase, !.curr = 0]
    [] v.age > Interval /\ v.age <= 2 * Interval ->
         [v EXCEPT !.prev = v.curr, !.age = @ - Interval, !.curr = 0]
    [] v.age <= Interval -> v

\* The share of the previous window that still counts, and the present one,
\* in unsigned arithmetic.
Rate(v) ==
  LET slide == (Interval - v.age) % Word
  IN (((slide * v.prev) % Word) \div Interval + v.curr) % Word

Counted(v) ==
  LET w == [Window(v) EXCEPT !.curr = @ + 1]
  IN [w EXCEPT !.rate = Rate(w)]

Crosses(v) == v.held = Off /\ v.rate >= Events

\* send_throttle: event_output reaches the agent, or the buffer is full.
send_throttle(c) ==
  \/ msgs[c] < MaxMsgs /\ msgs' = [msgs EXCEPT ![c] = @ + 1] /\ UNCHANGED lost
  \/ lost' = lost \cup {c} /\ UNCHANGED msgs

\* The first event of a cgroup, on any cpu, makes its entry, if there is room.
cgroup_rate_new(c, cpu) ==
  /\ c \notin removed /\ ~Present(c)
  /\ rateMap' =
       IF NoRoom THEN rateMap
       ELSE [rateMap EXCEPT ![c] =
               [k \in Cpus |-> IF k = cpu THEN [Zero EXCEPT !.curr = 1, !.age = phase]
                                          ELSE Zero]]
  /\ UNCHANGED <<removed, phase, msgs, watched, loop, cleanup, lost>>

\* The event is posted unless the cpu is, or just now gets, paused.
cgroup_rate(c, cpu) ==
  /\ c \notin removed /\ Present(c)
  /\ LET v == Counted(rateMap[c][cpu])
         held == IF Crosses(v) THEN 0 ELSE v.held
     IN /\ v.curr <= MaxCount
        /\ rateMap' = [rateMap EXCEPT ![c][cpu] = [v EXCEPT !.held = held]]
        /\ IF Crosses(v) THEN send_throttle(c) ELSE UNCHANGED <<msgs, lost>>
  /\ UNCHANGED <<removed, phase, watched, loop, cleanup>>

\* tg_cgroup_rmdir, once the last process of the cgroup is gone.
cgroup_rate_del(c) ==
  /\ c \notin removed
  /\ removed' = removed \cup {c}
  /\ rateMap' = [rateMap EXCEPT ![c] = Absent]
  /\ lost' = lost \ {c}
  /\ UNCHANGED <<phase, msgs, watched, loop, cleanup>>

-----------------------------------------------------------------------------
(***************************************************************************)
(* cgrouprate.go: the goroutine, CgroupRate.process.                       *)
(***************************************************************************)

\* handleThrottleEvent hands the message over in Check, once the goroutine is
\* back at its select.
updateCgroups(c) ==
  /\ At("select") /\ msgs[c] > 0
  /\ msgs' = [msgs EXCEPT ![c] = @ - 1]
  /\ watched' = watched \cup {c}
  /\ lost' = lost \ {c}
  /\ UNCHANGED <<rateMap, removed, phase, loop, cleanup>>

\* The timer: last := ktime.Monotonic().
processCgroups ==
  /\ At("select")
  /\ loop' = [Resting EXCEPT !.at = "lookup", !.todo = watched]
  /\ UNCHANGED <<rateMap, removed, phase, msgs, watched, cleanup, lost>>

\* last - t for a time t of the given age: last was taken lag ago, and by a
\* clock that is behind that of the BPF programs.
SinceLast(age) == age - loop.lag - Skew

Silent(v) == SinceLast(v.age) > Alive
\* Mutant: the pause is not timed.
NotHeld(v) == v.held = Off
Paused(v) == v.held = Off \/ SinceLast(v.held) > Alive
Calm(v) == Silent(v) \/ (v.rate < Events /\ Paused(v))

\* processCgroup, up to the decision; a cgroup that is gone is forgotten.
processCgroup(c) ==
  /\ At("lookup") /\ c \in loop.todo
  /\ LET stop == Present(c) /\ \A cpu \in Cpus : Calm(rateMap[c][cpu])
     IN IF stop
        THEN loop' = [loop EXCEPT !.at = "put", !.values = [k \in {c} |-> rateMap[c]]]
        ELSE loop' = [loop EXCEPT !.todo = @ \ {c}]
  /\ watched' = IF Present(c) THEN watched ELSE watched \ {c}
  /\ UNCHANGED <<rateMap, removed, phase, msgs, cleanup, lost>>

\* Mutant: throttled is not cleared.
StillHeld(values) == values
Resumed(values) == [cpu \in Cpus |-> [values[cpu] EXCEPT !.held = Off]]

\* hash.Put of the values looked up before, and the stop event.
putValues(c) ==
  /\ At("put") /\ c \in DOMAIN loop.values
  /\ rateMap' = IF ~Present(c) /\ NoRoom THEN rateMap
                ELSE [rateMap EXCEPT ![c] = Resumed(loop.values[c])]
  /\ watched' = watched \ {c}
  /\ loop' = [loop EXCEPT !.at = "lookup", !.todo = @ \ {c}, !.values = Absent]
  /\ lost' = lost \ {c}
  /\ UNCHANGED <<removed, phase, msgs, cleanup>>

\* cleanupCgroups: nothing, the first time and before cleanupInterval.
cleanupCgroups ==
  /\ At("lookup") /\ loop.todo = {}
  /\ IF cleanup # Off /\ cleanup - loop.lag >= Inactive
     THEN /\ loop' = [loop EXCEPT !.at = "iterate",
                                  !.todo = {c \in Cgroups : Present(c)}]
          /\ cleanup' = loop.lag
     ELSE /\ loop' = Resting
          /\ cleanup' = IF cleanup = Off THEN loop.lag ELSE cleanup
  /\ UNCHANGED <<rateMap, removed, phase, msgs, watched, lost>>

InactiveFor(v) == SinceLast(v.age) >= Inactive

\* entries.Next, which passes over an entry that is gone ...
iterate(c) ==
  /\ At("iterate") /\ c \in loop.todo
  /\ IF Present(c) /\ \A cpu \in Cpus : InactiveFor(rateMap[c][cpu])
     THEN loop' = [loop EXCEPT !.at = "delete", !.values = [k \in {c} |-> Absent]]
     ELSE loop' = [loop EXCEPT !.todo = @ \ {c}]
  /\ UNCHANGED <<rateMap, removed, phase, msgs, watched, cleanup, lost>>

\* ... and hash.Delete.
deleteEntry(c) ==
  /\ At("delete") /\ c \in DOMAIN loop.values
  /\ rateMap' = [rateMap EXCEPT ![c] = Absent]
  /\ loop' = [loop EXCEPT !.at = "iterate", !.todo = @ \ {c}, !.values = Absent]
  /\ lost' = lost \ {c}
  /\ UNCHANGED <<removed, phase, msgs, watched, cleanup>>

endCleanup ==
  /\ At("iterate") /\ loop.todo = {}
  /\ loop' = Resting
  /\ UNCHANGED <<rateMap, removed, phase, msgs, watched, cleanup, lost>>

Loop ==
  \/ \E c \in Cgroups : processCgroup(c) \/ putValues(c) \/ iterate(c) \/ deleteEntry(c)
  \/ cleanupCgroups \/ endCleanup

-----------------------------------------------------------------------------
OlderValue(v) == [v EXCEPT !.age = Older(@), !.held = Older(@)]
OlderEntry(e) == [cpu \in DOMAIN e |-> OlderValue(e[cpu])]

\* Time goes on.
Clock ==
  /\ ~At("select") => loop.lag < MaxLag
  /\ phase' = (phase + 1) % Interval
  /\ rateMap' = [c \in Cgroups |-> OlderEntry(rateMap[c])]
  /\ loop' = IF At("select") THEN loop
             ELSE [loop EXCEPT !.lag = @ + 1,
                               !.values = [c \in DOMAIN @ |-> OlderEntry(@[c])]]
  /\ cleanup' = Older(cleanup)
  /\ UNCHANGED <<removed, msgs, watched, lost>>

Kernel == \E c \in Cgroups : \/ \E cpu \in Cpus : \/ cgroup_rate_new(c, cpu)
                                                  \/ cgroup_rate(c, cpu)
                             \/ cgroup_rate_del(c)

Receive == \E c \in Cgroups : updateCgroups(c)

Next == Kernel \/ Receive \/ processCgroups \/ Loop \/ Clock

Spec == Init /\ [][Next]_vars

\* Time goes on, and the goroutine runs: it is scheduled, its timer fires,
\* and its select prefers neither of two ready channels for ever.
FairSpec == /\ Spec
            /\ SF_vars(Clock) /\ WF_vars(Loop)
            /\ SF_vars(processCgroups) /\ SF_vars(Receive)

-----------------------------------------------------------------------------
(***************************************************************************)
(* Properties.                                                             *)
(***************************************************************************)

\* Every variable keeps its type.
TypeOK ==
  /\ rateMap \in [Cgroups -> Entries]
  /\ removed \subseteq Cgroups /\ lost \subseteq Cgroups
  /\ phase \in 0 .. Interval - 1
  /\ msgs \in [Cgroups -> 0 .. MaxMsgs]
  /\ watched \subseteq Cgroups
  /\ DOMAIN loop = {"at", "todo", "values", "lag"}
  /\ loop.at \in {"select", "lookup", "put", "iterate", "delete"}
  /\ loop.todo \subseteq Cgroups /\ loop.lag \in 0 .. MaxLag
  /\ DOMAIN loop.values \subseteq Cgroups
  /\ \A c \in DOMAIN loop.values : loop.values[c] \in Entries
  /\ cleanup \in Ages \cup {Off}

\* The rate estimate of cgroup_rate is between the count of the present window
\* and that of both windows: the subtraction and the product stay in range,
\* whatever is put back in between.
RateInRange ==
  \A c \in Cgroups : Present(c) =>
    \A cpu \in Cpus : LET v == rateMap[c][cpu]
                      IN (v.rate # 0 => v.rate >= v.curr) /\ v.rate <= v.curr + v.prev

\* A paused cpu is known to the goroutine, or about to be, or its throttle
\* message was lost: it is never otherwise paused with nobody to resume it, in
\* spite of the messages updateCgroups ignores and the values Put overwrites.
Monitored ==
  \A c \in Cgroups : (\E cpu \in Cpus : Held(c, cpu)) =>
    c \in watched \cup lost \/ msgs[c] > 0

\* The traffic of c is under the limit, or there is none.
Stable(c) ==
  Present(c) => \A cpu \in Cpus : LET v == rateMap[c][cpu]
                                  IN v.rate < Events \/ v.age = AgeCap

\* docs/content/en/docs/concepts/cgroup-rate.md:14-16: "The throttled cgroup is
\* monitored and if its traffic gets stable under the limit again, it stops
\* the cgroup throttling": so it does, unless the message is lost.
Resumes ==
  \A c \in Cgroups, cpu \in Cpus :
    <>[](Stable(c) /\ c \notin lost) => []<>(~Held(c, cpu))

\* The same without the exception.
ResumesAlways ==
  \A c \in Cgroups, cpu \in Cpus : <>[]Stable(c) => []<>(~Held(c, cpu))

=============================================================================
