------------------------- MODULE GenericKprobeProofs -------------------------
(***************************************************************************)
(* Proofs about GenericKprobe, for every set of cpus, threads and hooked   *)
(* functions, every policy and any nesting of calls: the first selector    *)
(* that matches decides whether a call is posted, which actions it         *)
(* executes and whether its return is marked, and a return finds the entry *)
(* of its own call.                                                        *)
(***************************************************************************)
EXTENDS GenericKprobe, FiniteSetTheorems, TLAPS

(***************************************************************************)
(* The inductive invariant.                                                *)
(***************************************************************************)

EarlyPlaces == {"filter", "setup"}
EntryPlaces == {"filter", "setup", "process", "args", "actions", "send", "override"}
ReturnPlaces == {"rargs", "ractions", "rsend"}

\* A cpu without a chain is idle, and a thread is on one cpu.
RunOK ==
    /\ \A c \in Cpus : run[c].at = "idle" <=> run[c].t = "none"
    /\ \A c, d \in Cpus : run[c].t = run[d].t /\ run[c].t # "none" => c = d

\* Calls have numbers of their own, and a thread is the same process in all
\* the calls it is inside of.
StackOK ==
    /\ \A t \in Threads : \A i \in DOMAIN stack[t] :
          /\ stack[t][i].t = t /\ stack[t][i].n \in 1..calls
          /\ \A j \in DOMAIN stack[t] : stack[t][i].who = stack[t][j].who
    /\ \A t, u \in Threads : \A i \in DOMAIN stack[t], j \in DOMAIN stack[u] :
          stack[t][i].n = stack[u][j].n => t = u /\ i = j

Posted(n) == \E i \in DOMAIN events : events[i].n = n /\ ~events[i].return
Overrides(list) == \E i \in DOMAIN list : list[i] = "Override"
HasEntry(call) == Key(call) \in DOMAIN retprobe_map /\ retprobe_map[Key(call)] = call.n

\* Events are about calls that were made.
PostedOK == \A i \in DOMAIN events : ~events[i].return => events[i].n <= calls

\* What FirstMatch, ListExecuted and Marked say of one call.
Settled(call) ==
    /\ Posted(call.n) <=> Accepted(call) /\ Posts(Wanted(call))
    /\ acts[call.n] = Wanted(call)
    /\ call.n \in overridden <=> Overrides(Wanted(call))
    /\ call.n \notin lost => (Accepted(call) <=> HasEntry(call))

\* The selectors, counted from 0, whose process filters let the call pass, and
\* whether its entry chain gets as far as retprobe_map_set.
ActiveFor(call) ==
    {i \in 0..MAX_SELECTORS : i < Selectors(call.f) /\ call.who \in sels[call.f][i + 1].procs}
Filtered(call) ==
    call.who \in InPolicy /\ (Selectors(call.f) = 0 \/ ActiveFor(call) # {})

\* The thread's newest call has not come to retprobe_map_set yet.
Early(t) == \E c \in Cpus : run[c].t = t /\ run[c].at \in EarlyPlaces
Reach(t) == IF Early(t) THEN Len(stack[t]) - 1 ELSE Len(stack[t])

\* Of the calls of f that t is inside of, the last one to reach the map is the
\* one whose entry is there, if one is.
Owns(t, f, i) ==
    /\ i \in DOMAIN stack[t] /\ i <= Reach(t)
    /\ stack[t][i].f = f /\ retprobe_map[<<f, t>>] = stack[t][i].n
    /\ Filtered(stack[t][i])
    /\ \A j \in DOMAIN stack[t] : stack[t][j].f = f /\ j <= Reach(t) => j <= i
EntryOK(t) ==
    \A f \in Funcs : <<f, t>> \in DOMAIN retprobe_map =>
        \E i \in DOMAIN stack[t] : Owns(t, f, i)

\* A call whose filters are still being walked has done nothing.
Untouched(call) ==
    /\ ~Posted(call.n) /\ acts[call.n] = <<>> /\ call.n \notin overridden
    /\ call.t \notin override_tasks

MarkedNow(call) == call.n \in lost \/ HasEntry(call)

\* The slot of the cpu as the entry chain of `call' relies on it.
FilterOK(h, call) ==
    /\ h.curr <= Selectors(call.f) /\ h.sel = 0
    /\ h.active = {i \in ActiveFor(call) : i < h.curr}
SelectedOK(h, call) == Filtered(call) /\ h.active = ActiveFor(call)
ArgsOK(h, call) ==
    /\ Readable(call.arg) /\ h.val = call.arg
    /\ h.sel = 0 \/ h.sel \in h.active
    /\ \A j \in h.active : j < h.sel => call.arg \notin sels[call.f][j + 1].args
ActionsOK(h, call) ==
    /\ Accepted(call) /\ Matching(call) # {}
    /\ h.pass + 1 = Min(Matching(call))
RequestOK(call) == call.t \in override_tasks <=> Overrides(Wanted(call))
SendOK(call) ==
    /\ Accepted(call) /\ Posts(Wanted(call)) /\ acts[call.n] = Wanted(call)
    /\ ~Posted(call.n) /\ call.n \notin overridden /\ RequestOK(call)
OverrideOK(call) ==
    /\ Posted(call.n) <=> Accepted(call) /\ Posts(Wanted(call))
    /\ acts[call.n] = Wanted(call)
    /\ call.n \notin overridden /\ RequestOK(call)
    /\ call.n \notin lost => (Accepted(call) <=> HasEntry(call))

\* The chain at place `at' with slot h, for the call on top of the stack.
ChainOK(at, h, call) ==
    /\ at # "override" => h.call = call /\ call.who \in InPolicy
    /\ at \in {"filter", "setup", "process", "args", "actions"} => Untouched(call)
    /\ at = "filter" => FilterOK(h, call)
    /\ at \in {"setup", "process", "args"} => SelectedOK(h, call)
    /\ at \in {"setup", "process"} => h.sel = 0
    /\ at \in {"process", "args", "actions", "send"} => MarkedNow(call)
    /\ at = "args" => ArgsOK(h, call)
    /\ at = "actions" => ActionsOK(h, call)
    /\ at = "send" => SendOK(call)
    /\ at = "override" => OverrideOK(call)

\* A thread: the calls below the running entry chain are settled.
ThreadOK(t) ==
    /\ \A i \in DOMAIN stack[t] :
          (InEntry(t) => i < Len(stack[t])) => Settled(stack[t][i])
    /\ EntryOK(t)
    /\ t \in override_tasks => InEntry(t)
    /\ \A c \in Cpus : run[c].t = t =>
          /\ run[c].at \in EntryPlaces =>
                stack[t] # <<>> /\ ChainOK(run[c].at, heap[c], Top(t))
          /\ run[c].at \in ReturnPlaces =>
                heap[c].call.t = t /\ Key(heap[c].call) \notin DOMAIN retprobe_map

\* The inductive invariant.
IInv == TypeOK /\ RunOK /\ StackOK /\ PostedOK /\ \A t \in Threads : ThreadOK(t)

(***************************************************************************)
(* Operators.                                                              *)
(***************************************************************************)

\* Min of a set of small numbers.
LEMMA MinOfSmall ==
  ASSUME NEW S \in SUBSET (0..6), S # {}
  PROVE  Min(S) \in S /\ \A x \in S : Min(S) <= x
<1>1. \E m \in S : \A n \in S : m <= n
  <2>1. CASE 0 \in S
    BY <2>1
  <2>2. CASE 0 \notin S /\ 1 \in S
    BY <2>2
  <2>3. CASE 0 \notin S /\ 1 \notin S /\ 2 \in S
    BY <2>3
  <2>4. CASE 0 \notin S /\ 1 \notin S /\ 2 \notin S /\ 3 \in S
    BY <2>4
  <2>5. CASE 0 \notin S /\ 1 \notin S /\ 2 \notin S /\ 3 \notin S /\ 4 \in S
    BY <2>5
  <2>6. CASE 0 \notin S /\ 1 \notin S /\ 2 \notin S /\ 3 \notin S /\ 4 \notin S
    <3>1. \A n \in S : n \in {5, 6}
      BY <2>6
    <3>2. CASE 5 \in S
      BY <3>1, <3>2
    <3>3. CASE 5 \notin S
      <4>1. S = {6}
        BY <3>1, <3>3
      <4> QED
        BY <4>1
    <3> QED
      BY <3>2, <3>3
  <2> QED
    BY <2>1, <2>2, <2>3, <2>4, <2>5, <2>6
<1> DEFINE Least(m) == m \in S /\ \A n \in S : m <= n
<1>2. Least(CHOOSE m : Least(m))
  BY <1>1
<1>3. Min(S) = CHOOSE m : Least(m)
  BY DEF Min
<1> QED
  BY <1>2, <1>3

\* The policies are lists of selectors with lists of at most three actions.
LEMMA PolicyTypes ==
  ASSUME sels \in Policies, NEW f \in Funcs
  PROVE  /\ sels[f] \in Seq(Selector)
         /\ Len(sels[f]) \in 0..6 /\ Selectors(f) = Len(sels[f])
         /\ DOMAIN sels[f] = 1..Len(sels[f])
         /\ \A i \in DOMAIN sels[f] :
              /\ sels[f][i] \in Selector
              /\ sels[f][i].acts \in Seq(STRING) /\ Len(sels[f][i].acts) <= 3
<1>1. sels[f] \in Seq(Selector)
  BY PolicyAssumption
<1>2. Len(sels[f]) <= 6 /\ \A i \in DOMAIN sels[f] : Len(sels[f][i].acts) <= 3
  BY PolicyAssumption DEF MAX_SELECTORS, MAX_ACTIONS
<1>3. Len(sels[f]) \in Nat /\ DOMAIN sels[f] = 1..Len(sels[f])
  BY <1>1
<1>4. \A i \in DOMAIN sels[f] : sels[f][i] \in Selector
  BY <1>1, <1>3
<1>5. \A i \in DOMAIN sels[f] : sels[f][i].acts \in Seq(STRING)
  BY <1>4 DEF Selector
<1>6. Len(sels[f]) \in 0..6
  <2>1. PICK n \in Nat : n = Len(sels[f])
    BY <1>3
  <2>2. n <= 6
    BY PolicyAssumption, <2>1 DEF MAX_SELECTORS
  <2>3. n \in 0..6
    BY <2>2
  <2> QED
    BY <2>1, <2>3
<1> QED
  BY <1>1, <1>2, <1>3, <1>4, <1>5, <1>6 DEF Selectors

\* No policy has an action that fails: UnfollowFD finds its fd, or is not used.
NoFailures ==
    \A policy \in Policies : \A f \in Funcs : \A i \in DOMAIN policy[f] :
        \A j \in DOMAIN policy[f][i].acts : ~Fails(policy[f][i].acts[j])

\* A list of at most three actions is executed from first to last, if none
\* fails.
LEMMA AllActionsDone ==
  ASSUME NEW list \in Seq(STRING), Len(list) <= 3,
         \A i \in DOMAIN list : ~Fails(list[i])
  PROVE  do_actions(list) = list
<1>1. \A i \in DOMAIN list : ~Fails(list[i])
  OBVIOUS
<1>2. PICK n \in 0..3 : n = Len(list)
  <2>1. PICK n \in Nat : n = Len(list)
    OBVIOUS
  <2> QED
    BY <2>1
<1>3. DOMAIN list = 1..n /\ list = [i \in 1..n |-> list[i]]
  BY <1>2
<1>4. /\ n = 0 => Index(list) = <<>>
      /\ n = 1 => Index(list) = <<1>>
      /\ n = 2 => Index(list) = <<1, 2>>
      /\ n = 3 => Index(list) = <<1, 2, 3>>
  <2>1. n = 0 <=> list = <<>>
    BY <1>2
  <2>2. Index(list) = IF list = <<>> THEN <<>>
                      ELSE IF 2 > n THEN <<1>>
                      ELSE IF 3 > n THEN <<1, 2>>
                      ELSE <<1, 2, 3>>
    <3>1. CASE n = 0
      BY <2>1, <3>1 DEF Index
    <3>2. CASE n > 0
      <4>1. ~Fails(list[1]) /\ (2 <= n => ~Fails(list[2]))
        <5>1. 1 \in 1..n /\ (2 <= n => 2 \in 1..n)
          BY <3>2
        <5> QED
          BY <1>1, <1>3, <5>1
      <4> QED
        BY <1>2, <2>1, <3>2, <4>1 DEF Index
    <3> QED
      BY <3>1, <3>2
  <2> QED
    BY <2>1, <2>2
<1>5. DOMAIN Index(list) = 1..n /\ \A i \in 1..n : Index(list)[i] = i
  <2>1. CASE n = 0
    BY <1>4, <2>1
  <2>2. CASE n = 1
    BY <1>4, <2>2
  <2>3. CASE n = 2
    BY <1>4, <2>3
  <2>4. CASE n = 3
    BY <1>4, <2>4
  <2> QED
    BY <2>1, <2>2, <2>3, <2>4
<1>6. do_actions(list) = [i \in 1..n |-> list[i]]
  BY <1>5 DEF do_actions
<1> QED
  BY <1>3, <1>6

\* What the policy and the mode say of a call is the same before and after.
LEMMA Rigid ==
  ASSUME UNCHANGED <<sels, mode>>, NEW call
  PROVE  /\ Accepted(call)' = Accepted(call)
         /\ Wanted(call)' = Wanted(call)
         /\ Matching(call)' = Matching(call)
         /\ Filtered(call)' = Filtered(call)
         /\ ActiveFor(call)' = ActiveFor(call)
         /\ Selectors(call.f)' = Selectors(call.f)
<1>1. /\ Matching(call)' = Matching(call) /\ Selectors(call.f)' = Selectors(call.f)
      /\ ActiveFor(call)' = ActiveFor(call)
  BY DEF Matching, Selectors, ActiveFor
<1>2. Accepted(call)' = Accepted(call) /\ Filtered(call)' = Filtered(call)
  BY <1>1 DEF Accepted, Filtered, Readable
<1>3. Wanted(call)' = Wanted(call)
  BY <1>1, <1>2 DEF Wanted
<1> QED
  BY <1>1, <1>2, <1>3

\* The selectors that match are those active for the process that match the
\* argument.
LEMMA MatchingActive ==
  ASSUME sels \in Policies, NEW call \in Call
  PROVE  /\ Matching(call) \subseteq 1..6
         /\ \A i \in 1..6 : i \in Matching(call) <=>
              i - 1 \in ActiveFor(call) /\ call.arg \in sels[call.f][i].args
         /\ ActiveFor(call) \subseteq 0..5
         /\ ActiveFor(call) # {} => Selectors(call.f) > 0
         /\ \A i \in ActiveFor(call) : i < Len(sels[call.f])
<1>1. call.f \in Funcs
  BY DEF Call
<1>2. /\ Len(sels[call.f]) \in 0..6 /\ Selectors(call.f) = Len(sels[call.f])
      /\ DOMAIN sels[call.f] = 1..Len(sels[call.f])
  BY <1>1, PolicyTypes
<1> QED
  BY <1>2 DEF Matching, ActiveFor, MAX_SELECTORS

\* A call that is accepted gets past the filters.
LEMMA AcceptedFiltered ==
  ASSUME sels \in Policies, NEW call \in Call, Accepted(call)
  PROVE  Filtered(call)
<1>1. CASE Matching(call) # {}
  <2>1. PICK i \in 1..6 : i \in Matching(call)
    BY <1>1, MatchingActive
  <2>2. i - 1 \in ActiveFor(call)
    BY <2>1, MatchingActive
  <2> QED
    BY <2>2 DEF Accepted, Filtered
<1> QED
  BY <1>1 DEF Accepted, Filtered

\* The filters look at the function and the process only.
LEMMA FilteredSame ==
  ASSUME NEW a, NEW b, a.f = b.f, a.who = b.who
  PROVE  Filtered(a) <=> Filtered(b)
<1>1. ActiveFor(a) = ActiveFor(b)
  BY DEF ActiveFor
<1> QED
  BY <1>1 DEF Filtered

(***************************************************************************)
(* Frames: what a step leaves alone stays true.                            *)
(***************************************************************************)

SameKey(k) ==
    /\ k \in DOMAIN retprobe_map' <=> k \in DOMAIN retprobe_map
    /\ k \in DOMAIN retprobe_map => retprobe_map'[k] = retprobe_map[k]

\* A step leaves alone what is recorded of a call ...
Kept(call) ==
    /\ Posted(call.n)' <=> Posted(call.n)
    /\ acts'[call.n] = acts[call.n]
    /\ call.n \in overridden' <=> call.n \in overridden
    /\ call.n \in lost' <=> call.n \in lost
    /\ SameKey(Key(call))

LEMMA EntryOfKept ==
  ASSUME NEW call, Kept(call)
  PROVE  HasEntry(call)' <=> HasEntry(call)
BY DEF Kept, SameKey, HasEntry, Key

LEMMA SettledKept ==
  ASSUME UNCHANGED <<sels, mode>>, NEW call, Kept(call), Settled(call)
  PROVE  Settled(call)'
<1>1. Accepted(call)' = Accepted(call) /\ Wanted(call)' = Wanted(call)
  BY Rigid
<1>2. HasEntry(call)' <=> HasEntry(call)
  BY EntryOfKept
<1> QED
  BY <1>1, <1>2 DEF Settled, Kept, Posts, Overrides

LEMMA ChainKept ==
  ASSUME UNCHANGED <<sels, mode>>, NEW at, NEW h, NEW call, Kept(call),
         call.t \in override_tasks' <=> call.t \in override_tasks,
         ChainOK(at, h, call)
  PROVE  ChainOK(at, h, call)'
<1>1. /\ Accepted(call)' = Accepted(call) /\ Wanted(call)' = Wanted(call)
      /\ Matching(call)' = Matching(call) /\ Filtered(call)' = Filtered(call)
      /\ ActiveFor(call)' = ActiveFor(call)
      /\ Selectors(call.f)' = Selectors(call.f)
  BY Rigid
<1>2. HasEntry(call)' <=> HasEntry(call)
  BY EntryOfKept
<1>3. /\ Untouched(call) => Untouched(call)'
      /\ MarkedNow(call) => MarkedNow(call)'
      /\ RequestOK(call) => RequestOK(call)'
  BY <1>1, <1>2 DEF Untouched, MarkedNow, RequestOK, Overrides, Kept
<1>4. /\ FilterOK(h, call) => FilterOK(h, call)'
      /\ SelectedOK(h, call) => SelectedOK(h, call)'
      /\ ArgsOK(h, call) => ArgsOK(h, call)'
      /\ ActionsOK(h, call) => ActionsOK(h, call)'
  BY <1>1 DEF FilterOK, SelectedOK, ArgsOK, ActionsOK, Readable
<1>5. /\ SendOK(call) => SendOK(call)'
      /\ OverrideOK(call) => OverrideOK(call)'
  BY <1>1, <1>2, <1>3 DEF SendOK, OverrideOK, Posts, Kept
<1> QED
  BY <1>3, <1>4, <1>5 DEF ChainOK

\* ... and with it what holds of a thread none of whose calls it touches.
Stays(u) ==
    /\ stack'[u] = stack[u]
    /\ u \in override_tasks' <=> u \in override_tasks
    /\ \A c \in Cpus : run[c].t = u \/ run'[c].t = u =>
          run'[c] = run[c] /\ heap'[c] = heap[c]
    /\ \A i \in DOMAIN stack[u] : Kept(stack[u][i])
    /\ \A f \in Funcs : SameKey(<<f, u>>)

\* The entries of a thread whose newest call is where it was.
LEMMA EntriesKept ==
  ASSUME UNCHANGED <<sels, mode>>, NEW t \in Threads, EntryOK(t),
         stack'[t] = stack[t], Early(t)' <=> Early(t),
         \A f \in Funcs : SameKey(<<f, t>>)
  PROVE  EntryOK(t)'
<1>1. Reach(t)' = Reach(t)
  BY DEF Reach
<1> SUFFICES ASSUME NEW f \in Funcs, <<f, t>> \in DOMAIN retprobe_map'
             PROVE  \E i \in DOMAIN stack'[t] : Owns(t, f, i)'
  BY DEF EntryOK
<1>2. <<f, t>> \in DOMAIN retprobe_map /\ retprobe_map'[<<f, t>>] = retprobe_map[<<f, t>>]
  BY DEF SameKey
<1>3. PICK i \in DOMAIN stack[t] : Owns(t, f, i)
  BY <1>2 DEF EntryOK
<1>4. PICK call : call = stack[t][i]
  OBVIOUS
<1>5. Filtered(call)' = Filtered(call)
  BY Rigid
<1>6. Filtered(stack[t][i])'
  BY <1>3, <1>4, <1>5 DEF Owns
<1>7. Owns(t, f, i)'
  BY <1>1, <1>2, <1>3, <1>6 DEF Owns
<1> QED
  BY <1>3, <1>7

LEMMA ThreadStays ==
  ASSUME IInv, UNCHANGED <<sels, mode>>, NEW u \in Threads, Stays(u)
  PROVE  ThreadOK(u)'
<1>1. ThreadOK(u)
  BY DEF IInv
<1>2. (InEntry(u)' <=> InEntry(u)) /\ (Early(u)' <=> Early(u))
  BY DEF Stays, InEntry, Early
<1>3. ASSUME NEW i \in DOMAIN stack'[u], (InEntry(u) => i < Len(stack[u]))
      PROVE  Settled(stack[u][i])'
  <2>1. PICK call : call = stack[u][i]
    OBVIOUS
  <2>2. Settled(call) /\ Kept(call) /\ call = stack'[u][i]
    BY <1>1, <1>3, <2>1 DEF ThreadOK, Stays
  <2>3. Settled(call)'
    BY <2>2, SettledKept
  <2> QED
    BY <2>2, <2>3
<1>4. EntryOK(u)'
  BY <1>1, <1>2, EntriesKept DEF ThreadOK, Stays
<1>5. ASSUME NEW c \in Cpus, run'[c].t = u, run'[c].at \in EntryPlaces
      PROVE  stack'[u] # <<>> /\ ChainOK(run[c].at, heap[c], Top(u))'
  <2>1. run'[c] = run[c] /\ heap'[c] = heap[c]
    BY <1>5 DEF Stays
  <2>2. stack[u] # <<>> /\ ChainOK(run[c].at, heap[c], Top(u)) /\ stack[u] \in Seq(Call)
    BY <1>1, <1>5, <2>1 DEF ThreadOK, IInv, TypeOK
  <2>3. PICK call : call = Top(u)
    OBVIOUS
  <2>4. Len(stack[u]) \in DOMAIN stack[u]
    BY <2>2
  <2>5. call = stack[u][Len(stack[u])] /\ Kept(call) /\ call.t = u /\ call = Top(u)'
    BY <2>3, <2>4 DEF Stays, Top, IInv, StackOK
  <2>6. PICK at : at = run[c].at
    OBVIOUS
  <2>7. PICK h : h = heap[c]
    OBVIOUS
  <2>8. ChainOK(at, h, call)'
    BY <2>2, <2>3, <2>5, <2>6, <2>7, ChainKept DEF Stays
  <2>9. at = run'[c].at /\ h = heap'[c]
    BY <2>1, <2>6, <2>7
  <2> QED
    BY <2>2, <2>5, <2>8, <2>9 DEF Stays
<1>6. ASSUME NEW c \in Cpus, run'[c].t = u, run'[c].at \in ReturnPlaces
      PROVE  heap'[c].call.t = u /\ (Key(heap[c].call) \notin DOMAIN retprobe_map)'
  <2>1. run'[c] = run[c] /\ heap'[c] = heap[c]
    BY <1>6 DEF Stays
  <2>2. heap[c].call.t = u /\ Key(heap[c].call) \notin DOMAIN retprobe_map
    BY <1>1, <1>6, <2>1 DEF ThreadOK
  <2>3. heap[c].call.f \in Funcs
    BY DEF IInv, TypeOK, Slot, Call
  <2>4. <<heap[c].call.f, u>> \notin DOMAIN retprobe_map'
    BY <2>2, <2>3 DEF Stays, SameKey, Key
  <2> QED
    BY <2>1, <2>2, <2>4 DEF Key
<1>7. u \in override_tasks' => InEntry(u)'
  BY <1>1, <1>2 DEF ThreadOK, Stays
<1>8. stack'[u] = stack[u]
  BY DEF Stays
<1> QED
  BY <1>2, <1>3, <1>4, <1>5, <1>6, <1>7, <1>8 DEF ThreadOK

\* The calls on a stack.
LEMMA CallTypes ==
  ASSUME IInv, NEW u \in Threads, NEW i \in DOMAIN stack[u]
  PROVE  /\ stack[u][i] \in Call /\ stack[u][i].n \in Nat /\ stack[u][i].f \in Funcs
         /\ stack[u][i].t = u /\ Key(stack[u][i]) = <<stack[u][i].f, u>>
<1>1. stack[u] \in Seq(Call)
  BY DEF IInv, TypeOK
<1>2. stack[u][i] \in Call
  BY <1>1
<1>3. stack[u][i].t = u
  BY DEF IInv, StackOK
<1> QED
  BY <1>2, <1>3 DEF Call, Key

\* Cpu c runs the entry chain of thread t for `call'.
Runs(c, t, call) ==
    c \in Cpus /\ run[c].at \in EntryPlaces /\ t = run[c].t /\ call = Top(t)

\* Steps that post nothing.
LEMMA PostedSame ==
  ASSUME IInv, UNCHANGED <<events, calls>>
  PROVE  PostedOK'
BY DEF IInv, PostedOK

\* What the invariant says of a cpu with an entry chain.
LEMMA ChainFacts ==
  ASSUME IInv, NEW c, NEW t, NEW call, Runs(c, t, call)
  PROVE  /\ t \in Threads /\ stack[t] # <<>> /\ stack[t] \in Seq(Call)
         /\ Len(stack[t]) \in DOMAIN stack[t] /\ call = stack[t][Len(stack[t])]
         /\ call \in Call /\ call.t = t /\ call.n \in 1..calls
         /\ \A d \in Cpus : run[d].t = t => d = c
         /\ InEntry(t)
         /\ \A i \in DOMAIN stack[t] : i < Len(stack[t]) =>
              Settled(stack[t][i]) /\ stack[t][i].n # call.n
         /\ EntryOK(t)
         /\ ChainOK(run[c].at, heap[c], call)
<1>1. run[c].at # "idle" /\ run[c].at \notin {"rargs", "ractions", "rsend"}
  BY DEF EntryPlaces, Runs
<1> USE DEF Runs
<1>2. t \in Threads /\ t # "none"
  BY <1>1, KprobeAssumption DEF IInv, TypeOK, RunOK
<1>3. ThreadOK(t)
  BY <1>2 DEF IInv
<1>4. stack[t] # <<>> /\ stack[t] \in Seq(Call)
  BY <1>2, <1>3 DEF ThreadOK, IInv, TypeOK
<1>5. Len(stack[t]) \in DOMAIN stack[t] /\ call = stack[t][Len(stack[t])]
  BY <1>4 DEF Top
<1>6. call \in Call
  BY <1>4, <1>5
<1>7. call.t = t /\ call.n \in 1..calls
  BY <1>2, <1>5 DEF IInv, StackOK
<1>8. \A d \in Cpus : run[d].t = t => d = c
  BY <1>2 DEF IInv, RunOK
<1>9. InEntry(t)
  BY <1>1 DEF InEntry
<1>10. \A i \in DOMAIN stack[t] : i < Len(stack[t]) =>
         Settled(stack[t][i]) /\ stack[t][i].n # call.n
  <2>1. ASSUME NEW i \in DOMAIN stack[t], i < Len(stack[t])
        PROVE  stack[t][i].n # call.n
    <3>1. i # Len(stack[t])
      BY <1>4, <2>1
    <3> QED
      BY <1>2, <1>5, <3>1 DEF IInv, StackOK
  <2> QED
    BY <1>3, <2>1 DEF ThreadOK
<1>11. EntryOK(t) /\ ChainOK(run[c].at, heap[c], call)
  BY <1>3 DEF ThreadOK
<1> QED
  BY <1>2, <1>4, <1>5, <1>6, <1>7, <1>8, <1>9, <1>10, <1>11

\* A thread that a step of t leaves alone: what it needs of the step.
Leaves(t, u) ==
    /\ stack'[u] = stack[u]
    /\ u \in override_tasks' <=> u \in override_tasks
    /\ \A i \in DOMAIN stack[u] :
          LET n == stack[u][i].n
          IN /\ Posted(n)' <=> Posted(n)
             /\ acts'[n] = acts[n]
             /\ n \in overridden' <=> n \in overridden
             /\ n \in lost' <=> n \in lost
    /\ \A f \in Funcs : SameKey(<<f, u>>)

\* Only cpu c moves, from or to thread t.
OnlyCpu(t, c) ==
    /\ \A d \in Cpus \ {c} : run'[d] = run[d] /\ heap'[d] = heap[d]
    /\ run[c].t \in {t, "none"} /\ run'[c].t \in {t, "none"}

LEMMA OthersStay ==
  ASSUME IInv, UNCHANGED <<sels, mode>>, NEW t, NEW c \in Cpus, OnlyCpu(t, c),
         NEW u \in Threads, u # t, Leaves(t, u)
  PROVE  ThreadOK(u)'
<1>1. \A i \in DOMAIN stack[u] : Key(stack[u][i]) = <<stack[u][i].f, u>> /\ stack[u][i].f \in Funcs
  BY CallTypes
<1>2. \A i \in DOMAIN stack[u] : Kept(stack[u][i])
  BY <1>1 DEF Kept, Leaves
<1>3. \A d \in Cpus : run[d].t = u \/ run'[d].t = u => run'[d] = run[d] /\ heap'[d] = heap[d]
  <2>1. u # "none"
    BY KprobeAssumption
  <2> QED
    BY <2>1 DEF OnlyCpu
<1>4. Stays(u)
  BY <1>2, <1>3 DEF Stays, Leaves
<1> QED
  BY <1>4, ThreadStays

\* A step of the entry chain of t on c that stays in the chain.
Advances(t, c, at, h) ==
    /\ run' = [run EXCEPT ![c].at = at] /\ heap' = [heap EXCEPT ![c] = h]
    /\ UNCHANGED <<sels, mode, stack, calls, overridden>>
    /\ \A u \in Threads \ {t} : Leaves(t, u)
    /\ \A i \in DOMAIN stack[t] : i < Len(stack[t]) =>
          Kept(stack[t][i]) \/ Settled(stack[t][i])'

LEMMA ChainStep ==
  ASSUME IInv, NEW c \in Cpus, run[c].at \in EntryPlaces,
         NEW t \in Threads, t = run[c].t,
         NEW at \in EntryPlaces, NEW h, Advances(t, c, at, h),
         TypeOK', PostedOK', EntryOK(t)', ChainOK(at, h, Top(t))'
  PROVE  IInv'
<1>1. /\ stack[t] # <<>> /\ stack[t] \in Seq(Call)
      /\ \A d \in Cpus : run[d].t = t => d = c
      /\ \A i \in DOMAIN stack[t] : i < Len(stack[t]) => Settled(stack[t][i])
  <2>1. PICK call : Runs(c, t, call)
    BY DEF Runs
  <2> QED
    BY <2>1, ChainFacts
<1>2. /\ run'[c].t = t /\ run'[c].at = at /\ heap'[c] = h
      /\ \A d \in Cpus \ {c} : run'[d] = run[d] /\ heap'[d] = heap[d]
      /\ stack' = stack /\ calls' = calls
  BY DEF Advances, IInv, TypeOK
<1>3. at # "idle" /\ at \notin {"rargs", "ractions", "rsend"} /\ at \notin ReturnPlaces
      /\ run[c].at # "idle"
  BY DEF EntryPlaces, ReturnPlaces
<1>4. RunOK'
  <2>1. \A d \in Cpus : run'[d].t = run[d].t
    BY <1>2
  <2>2. \A d \in Cpus : run'[d].at = "idle" <=> run[d].at = "idle"
    BY <1>2, <1>3
  <2>3. RunOK
    BY DEF IInv
  <2> QED
    BY <2>1, <2>2, <2>3 DEF RunOK
<1>5. StackOK'
  BY <1>2 DEF IInv, StackOK
<1>6. ASSUME NEW u \in Threads, u # t PROVE ThreadOK(u)'
  BY <1>2, <1>6, OthersStay DEF Advances, OnlyCpu
<1>7. ThreadOK(t)'
  <2>1. InEntry(t)'
    BY <1>2, <1>3 DEF InEntry
  <2>2. ASSUME NEW i \in DOMAIN stack'[t], i < Len(stack'[t])
        PROVE  Settled(stack[t][i])'
    <3>1. PICK call : call = stack[t][i]
      OBVIOUS
    <3>2. Settled(call) /\ (Kept(call) \/ Settled(stack[t][i])') /\ call = stack'[t][i]
      BY <1>1, <1>2, <2>2, <3>1 DEF Advances
    <3>3. CASE Kept(call)
      <4>1. Settled(call)'
        BY <3>2, <3>3, SettledKept DEF Advances
      <4> QED
        BY <3>2, <4>1
    <3> QED
      BY <3>2, <3>3
  <2>3. \A d \in Cpus : run'[d].t = t => d = c
    BY <1>1, <1>2
  <2>4. stack'[t] # <<>> /\ ChainOK(run[c].at, heap[c], Top(t))'
    BY <1>1, <1>2
  <2> QED
    BY <1>2, <1>3, <2>1, <2>2, <2>3, <2>4 DEF ThreadOK
<1> QED
  BY <1>4, <1>5, <1>6, <1>7 DEF IInv

\* A step of the chain that touches neither the returns nor another call's
\* record, and does not pass by retprobe_map_set.
Plain(t, c, at, h) ==
    /\ run' = [run EXCEPT ![c].at = at] /\ heap' = [heap EXCEPT ![c] = h]
    /\ h \in Slot
    /\ UNCHANGED <<sels, mode, stack, calls, overridden, lost, retprobe_map>>
    /\ override_tasks' \in {override_tasks, override_tasks \cup {t}}
    /\ \A n \in Nat \ {Top(t).n} : (Posted(n)' <=> Posted(n)) /\ acts'[n] = acts[n]
    /\ acts' \in Seq(Outcomes') /\ Len(acts') = calls
    /\ events' \in Seq([n : Nat, f : Funcs, who : Whos, val : Values,
                        return : BOOLEAN])

LEMMA PlainStep ==
  ASSUME IInv, NEW c \in Cpus, run[c].at \in EntryPlaces,
         NEW t \in Threads, t = run[c].t,
         NEW at \in EntryPlaces, NEW h, Plain(t, c, at, h),
         at \in EarlyPlaces <=> run[c].at \in EarlyPlaces,
         ChainOK(at, h, Top(t))'
  PROVE  IInv'
<1>1. /\ stack[t] # <<>> /\ stack[t] \in Seq(Call)
      /\ Len(stack[t]) \in DOMAIN stack[t] /\ Top(t) = stack[t][Len(stack[t])]
      /\ \A d \in Cpus : run[d].t = t => d = c
      /\ \A i \in DOMAIN stack[t] : i < Len(stack[t]) => stack[t][i].n # Top(t).n
      /\ EntryOK(t)
  <2>1. PICK call : call = Top(t)
    OBVIOUS
  <2>2. Runs(c, t, call)
    BY <2>1 DEF Runs
  <2> QED
    BY <2>1, <2>2, ChainFacts
<1>2. \A u \in Threads : \A i \in DOMAIN stack[u] : stack[u][i].n \in Nat
  BY CallTypes
<1>3. \A k : SameKey(k)
  BY DEF SameKey, Plain
<1>4. ASSUME NEW u \in Threads \ {t} PROVE Leaves(t, u)
  <2>1. \A i \in DOMAIN stack[u] : stack[u][i].n # Top(t).n
    BY <1>1, <1>4 DEF IInv, StackOK
  <2> QED
    BY <1>2, <1>3, <1>4, <2>1 DEF Leaves, Plain
<1>5. \A i \in DOMAIN stack[t] : i < Len(stack[t]) => Kept(stack[t][i])
  BY <1>1, <1>2, <1>3 DEF Kept, Plain
<1>6. Advances(t, c, at, h)
  BY <1>4, <1>5 DEF Advances, Plain
<1>7. TypeOK'
  <2>1. at \in Places
    BY DEF EntryPlaces, Places
  <2>2. run' \in [Cpus -> [t : Threads \cup {"none"}, at : Places]]
    BY <2>1 DEF IInv, TypeOK, Plain
  <2>3. heap' \in [Cpus -> Slot]
    BY DEF IInv, TypeOK, Plain
  <2> QED
    BY <2>2, <2>3 DEF IInv, TypeOK, Plain
<1>8. EntryOK(t)'
  <2>1. Early(t)' <=> Early(t)
    BY <1>1 DEF Early, Plain, IInv, TypeOK
  <2> QED
    BY <1>1, <1>3, <2>1, EntriesKept DEF Plain
<1>9. PostedOK'
  <2>1. SUFFICES ASSUME NEW i \in DOMAIN events', ~events'[i].return
                 PROVE  events'[i].n <= calls'
    BY DEF PostedOK
  <2>2. PICK m : m = events'[i].n
    OBVIOUS
  <2>3. m \in Nat /\ Posted(m)'
    <3>1. events' \in Seq([n : Nat, f : Funcs, who : Whos, val : Values,
                            return : BOOLEAN])
      BY DEF Plain
    <3>2. PICK es, Events : es = events' /\
            Events = [n : Nat, f : Funcs, who : Whos, val : Values, return : BOOLEAN]
      OBVIOUS
    <3>3. m \in Nat
      <4>1. es[i] \in Events
        <5>1. es \in Seq(Events) /\ i \in DOMAIN es
          BY <2>1, <3>1, <3>2
        <5> QED
          BY <5>1
      <4> QED
        BY <2>2, <3>2, <4>1
    <3> QED
      BY <2>1, <2>2, <3>3 DEF Posted
  <2>4. Top(t).n \in 1..calls /\ calls \in Nat
    BY <1>1 DEF IInv, TypeOK, StackOK
  <2>5. CASE m # Top(t).n
    <3>1. Posted(m)
      BY <2>3, <2>5 DEF Plain
    <3> QED
      BY <2>2, <3>1 DEF Posted, PostedOK, IInv, Plain
  <2> QED
    BY <2>2, <2>4, <2>5 DEF Plain
<1> QED
  BY <1>6, <1>7, <1>8, <1>9, ChainStep

(***************************************************************************)
(* The programs of the entry chain.                                        *)
(***************************************************************************)

LEMMA OutcomesSame ==
  ASSUME UNCHANGED <<sels, mode>>
  PROVE  Outcomes' = Outcomes
BY DEF Outcomes

\* A program that writes its slot and goes on, and nothing else.
Quietly(c, at, h) ==
    /\ run' = [run EXCEPT ![c].at = at] /\ heap' = [heap EXCEPT ![c] = h]
    /\ h \in Slot
    /\ UNCHANGED <<sels, mode, stack, calls, retprobe_map, override_tasks,
                   events, acts, overridden, lost>>

LEMMA QuietStep ==
  ASSUME IInv, NEW c, NEW t, NEW call, Runs(c, t, call),
         NEW at \in EntryPlaces, NEW h, Quietly(c, at, h),
         at \in EarlyPlaces <=> run[c].at \in EarlyPlaces,
         ChainOK(at, h, call)
  PROVE  IInv'
<1>1. c \in Cpus /\ t \in Threads /\ t = run[c].t /\ run[c].at \in EntryPlaces
      /\ call = Top(t)
  BY ChainFacts DEF Runs
<1>2. Plain(t, c, at, h)
  <2>1. acts' \in Seq(Outcomes') /\ Len(acts') = calls
    BY OutcomesSame DEF Quietly, IInv, TypeOK
  <2>2. \A n : (Posted(n)' <=> Posted(n)) /\ acts'[n] = acts[n]
    BY DEF Quietly, Posted
  <2> QED
    BY <2>1, <2>2 DEF Quietly, Plain, IInv, TypeOK
<1>3. Kept(call)
  BY DEF Quietly, Kept, Posted, SameKey
<1>4. ChainOK(at, h, call)'
  BY <1>3, ChainKept DEF Quietly
<1>5. call = Top(t)'
  BY <1>1 DEF Top, Quietly
<1>6. ChainOK(at, h, Top(t))'
  BY <1>4, <1>5
<1> QED
  BY <1>1, <1>2, <1>6, PlainStep

\* The owner of an entry is not the call whose chain is early.
LEMMA EarlyNoEntry ==
  ASSUME IInv, NEW c, NEW t, NEW call, Runs(c, t, call), run[c].at \in EarlyPlaces
  PROVE  ~HasEntry(call)
<1>1. SUFFICES ASSUME HasEntry(call) PROVE FALSE
  OBVIOUS
<1>2. /\ call \in Call /\ call.t = t /\ stack[t] \in Seq(Call) /\ EntryOK(t)
      /\ Len(stack[t]) \in DOMAIN stack[t]
      /\ \A i \in DOMAIN stack[t] : i < Len(stack[t]) => stack[t][i].n # call.n
  BY ChainFacts
<1>3. Early(t) /\ Reach(t) = Len(stack[t]) - 1
  BY DEF Early, Reach, Runs
<1>4. call.f \in Funcs /\ Key(call) = <<call.f, t>>
  BY <1>2 DEF Call, Key
<1>5. PICK i \in DOMAIN stack[t] : Owns(t, call.f, i)
  BY <1>1, <1>2, <1>4 DEF HasEntry, EntryOK
<1>6. i <= Len(stack[t]) - 1 /\ stack[t][i].n = call.n
  BY <1>1, <1>3, <1>4, <1>5 DEF Owns, HasEntry
<1>7. i < Len(stack[t])
  BY <1>2, <1>6
<1> QED
  BY <1>2, <1>6, <1>7

\* A call that the process filters drop leaves an entry of an outer call of
\* the same function alone: there is none, the filters dropped that one too.
LEMMA DroppedEntries ==
  ASSUME IInv, NEW c, NEW t, NEW call, Runs(c, t, call), run[c].at \in EarlyPlaces,
         ~Filtered(call), UNCHANGED <<sels, mode, stack, retprobe_map>>, ~Early(t)'
  PROVE  EntryOK(t)'
<1>1. /\ t \in Threads /\ call \in Call /\ call.t = t /\ stack[t] \in Seq(Call) /\ EntryOK(t)
      /\ Len(stack[t]) \in DOMAIN stack[t] /\ call = stack[t][Len(stack[t])]
  BY ChainFacts
<1>2. Early(t) /\ Reach(t) = Len(stack[t]) - 1 /\ Reach(t)' = Len(stack[t])
  BY DEF Early, Reach, Runs
<1> SUFFICES ASSUME NEW f \in Funcs, <<f, t>> \in DOMAIN retprobe_map'
             PROVE  \E i \in DOMAIN stack'[t] : Owns(t, f, i)'
  BY DEF EntryOK
<1>3. PICK i \in DOMAIN stack[t] : Owns(t, f, i)
  BY <1>1 DEF EntryOK
<1>4. PICK own : own = stack[t][i]
  OBVIOUS
<1>5. own.f = f /\ Filtered(own) /\ own.who = call.who
  BY <1>1, <1>3, <1>4 DEF Owns, IInv, StackOK
<1>6. f # call.f
  BY <1>5, FilteredSame
<1>7. Filtered(own)'
  BY <1>5, Rigid
<1>8. \A j \in DOMAIN stack[t] : stack[t][j].f = f /\ j <= Len(stack[t]) => j <= i
  <2>1. SUFFICES ASSUME NEW j \in DOMAIN stack[t], stack[t][j].f = f PROVE j <= i
    OBVIOUS
  <2>2. j # Len(stack[t]) /\ j \in 1..Len(stack[t])
    BY <1>1, <1>6, <2>1
  <2>3. j <= Reach(t)
    BY <1>1, <1>2, <2>2
  <2> QED
    BY <1>3, <2>1, <2>3 DEF Owns
<1>9. Filtered(stack[t][i])'
  BY <1>4, <1>7
<1>10. i <= Len(stack[t])
  BY <1>1
<1>11. Owns(t, f, i)'
  BY <1>2, <1>3, <1>8, <1>9, <1>10 DEF Owns
<1> QED
  BY <1>3, <1>11

\* generic_kprobe_process_filter, one more selector.
LEMMA FilterNext ==
  ASSUME IInv, NEW c, NEW t, NEW call, Runs(c, t, call), run[c].at = "filter",
         ~FilterDone(heap[c]), generic_kprobe_process_filter(c)
  PROVE  IInv'
<1>1. /\ c \in Cpus /\ t \in Threads /\ call \in Call /\ ChainOK("filter", heap[c], call)
  BY ChainFacts DEF Runs
<1>2. PICK h : h = heap[c]
  OBVIOUS
<1>3. h \in Slot /\ h.call = call /\ call.f \in Funcs /\ sels \in Policies
  BY <1>1, <1>2 DEF IInv, TypeOK, ChainOK, Call
<1>4. PICK n \in 0..6 : n = Selectors(call.f) /\ n = Len(sels[call.f])
  BY <1>3, PolicyTypes
<1>5. h.curr \in 0..6 /\ h.curr <= 5 /\ h.curr < n
  BY <1>2, <1>3, <1>4 DEF FilterDone, MAX_SELECTORS, Slot
<1>6. PICK a : a = IF selector_process_filter(sels[call.f][h.curr + 1], call.who)
                   THEN h.active \cup {h.curr} ELSE h.active
  OBVIOUS
<1>7. PICK h2 : h2 = [h EXCEPT !.curr = h.curr + 1, !.active = a]
  OBVIOUS
<1>8. FilterStep(h) = h2
  BY <1>2, <1>3, <1>4, <1>5, <1>6, <1>7 DEF FilterStep, MAX_SELECTORS, Slot
<1>9. a \in SUBSET (0..5) /\ h.curr + 1 \in 0..6
  BY <1>3, <1>5, <1>6 DEF Slot, MAX_SELECTORS
<1>10. /\ h2 \in Slot /\ h2.call = h.call /\ h2.curr = h.curr + 1 /\ h2.active = a
       /\ h2.sel = h.sel
  <2>1. PICK m : m = h.curr + 1
    OBVIOUS
  <2>2. h2 = [h EXCEPT !.curr = m, !.active = a]
    BY <1>7, <2>1
  <2>3. m \in 0..MAX_SELECTORS + 1 /\ a \in SUBSET (0..MAX_SELECTORS)
    BY <1>9, <2>1 DEF MAX_SELECTORS
  <2> QED
    BY <1>3, <2>1, <2>2, <2>3 DEF Slot
<1>11. FilterOK(h, call)
  BY <1>1, <1>2 DEF ChainOK
<1>12. h2.active = {i \in ActiveFor(call) : i < h2.curr}
  <2>1. \A i \in 0..5 : i < h.curr + 1 <=> i < h.curr \/ i = h.curr
    BY <1>5
  <2>2. h.curr \in ActiveFor(call) <=> selector_process_filter(sels[call.f][h.curr + 1], call.who)
    BY <1>4, <1>5 DEF ActiveFor, selector_process_filter, MAX_SELECTORS
  <2>3. ActiveFor(call) \subseteq 0..5
    BY DEF ActiveFor, MAX_SELECTORS
  <2>4. h.active = {i \in ActiveFor(call) : i < h.curr}
    BY <1>11 DEF FilterOK
  <2> QED
    BY <1>5, <1>6, <1>10, <2>1, <2>2, <2>3, <2>4
<1>13. FilterOK(h2, call)
  BY <1>4, <1>5, <1>10, <1>11, <1>12 DEF FilterOK
<1>14. ChainOK("filter", h2, call)
  BY <1>1, <1>2, <1>10, <1>13 DEF ChainOK
<1>15. Quietly(c, "filter", h2)
  <2>1. run' = run /\ heap' = [heap EXCEPT ![c] = h2]
    BY <1>2, <1>8 DEF generic_kprobe_process_filter
  <2>2. run = [run EXCEPT ![c].at = "filter"]
    BY <1>1 DEF IInv, TypeOK
  <2> QED
    BY <1>10, <2>1, <2>2 DEF Quietly, generic_kprobe_process_filter
<1> QED
  BY <1>14, <1>15, QuietStep DEF EntryPlaces

\* Once the walk is over, the active selectors are those of the call.
LEMMA FilterWalked ==
  ASSUME IInv, NEW c, NEW t, NEW call, Runs(c, t, call), run[c].at = "filter",
         FilterDone(heap[c])
  PROVE  /\ heap[c].active = ActiveFor(call) /\ heap[c].sel = 0
         /\ heap[c].call = call /\ FilterStep(heap[c]) = heap[c]
<1>1. /\ c \in Cpus /\ t \in Threads /\ call \in Call /\ ChainOK("filter", heap[c], call)
  BY ChainFacts DEF Runs
<1>2. PICK h : h = heap[c]
  OBVIOUS
<1>3. h \in Slot /\ h.call = call /\ call.f \in Funcs /\ sels \in Policies
  BY <1>1, <1>2 DEF IInv, TypeOK, ChainOK, Call
<1>4. PICK n \in 0..6 : n = Selectors(call.f)
  BY <1>3, PolicyTypes
<1>5. FilterOK(h, call)
  BY <1>1, <1>2 DEF ChainOK
<1>6. \A i \in ActiveFor(call) : i < h.curr
  BY <1>2, <1>3, <1>4 DEF ActiveFor, FilterDone, MAX_SELECTORS, Slot
<1> QED
  BY <1>2, <1>3, <1>5, <1>6 DEF FilterOK, FilterStep, FilterDone

LEMMA FilterPass ==
  ASSUME IInv, NEW c, NEW t, NEW call, Runs(c, t, call), run[c].at = "filter",
         FilterDone(heap[c]),
         Selectors(heap[c].call.f) = 0 \/ heap[c].active # {}, Jump(c, "setup"),
         generic_kprobe_process_filter(c)
  PROVE  IInv'
<1>1. /\ c \in Cpus /\ t \in Threads /\ call \in Call /\ ChainOK("filter", heap[c], call)
  BY ChainFacts DEF Runs
<1>2. /\ heap[c].active = ActiveFor(call) /\ heap[c].sel = 0
      /\ heap[c].call = call /\ FilterStep(heap[c]) = heap[c]
  BY FilterWalked
<1>3. PICK h : h = heap[c]
  OBVIOUS
<1>4. SelectedOK(h, call) /\ h.sel = 0 /\ h.call = call
  BY <1>1, <1>2, <1>3 DEF SelectedOK, Filtered, ChainOK
<1>5. ChainOK("setup", h, call)
  BY <1>1, <1>3, <1>4 DEF ChainOK
<1>6. Quietly(c, "setup", h)
  BY <1>1, <1>2, <1>3 DEF Quietly, generic_kprobe_process_filter, Jump, IInv, TypeOK
<1> QED
  BY <1>5, <1>6, QuietStep DEF EntryPlaces, EarlyPlaces

\* A call that is not accepted has nothing to do.
LEMMA NotAccepted ==
  ASSUME NEW call, ~Accepted(call)
  PROVE  Wanted(call) = <<>> /\ ~Overrides(Wanted(call))
<1>1. Wanted(call) = <<>>
  BY DEF Wanted
<1> QED
  BY <1>1 DEF Overrides

LEMMA FilterDrop ==
  ASSUME IInv, NEW c, NEW t, NEW call, Runs(c, t, call), run[c].at = "filter",
         FilterDone(heap[c]),
         Selectors(heap[c].call.f) > 0 /\ heap[c].active = {}, EntryEnd(c),
         generic_kprobe_process_filter(c)
  PROVE  IInv'
<1>1. /\ c \in Cpus /\ t \in Threads /\ call \in Call /\ ChainOK("filter", heap[c], call)
      /\ call.t = t /\ t = run[c].t /\ call = Top(t)
      /\ \A d \in Cpus : run[d].t = t => d = c
  BY ChainFacts DEF Runs
<1>2. /\ heap[c].active = ActiveFor(call) /\ heap[c].call = call
      /\ FilterStep(heap[c]) = heap[c]
  BY FilterWalked
<1>3. /\ run' = [run EXCEPT ![c].at = "override"]
      /\ heap' = heap
      /\ UNCHANGED <<sels, mode, stack, calls, retprobe_map, override_tasks,
                     events, acts, overridden, lost>>
  BY <1>1, <1>2 DEF generic_kprobe_process_filter, EntryEnd, Jump, IInv, TypeOK
<1>4. ~Filtered(call)
  <2>1. Selectors(call.f) # 0
    <3>1. PICK n \in 0..6 : n = Selectors(call.f)
      BY <1>1, PolicyTypes DEF IInv, TypeOK, Call
    <3> QED
      BY <1>2, <3>1
  <2> QED
    BY <1>2, <2>1 DEF Filtered
<1>5. ~Accepted(call)
  BY <1>1, <1>4, AcceptedFiltered DEF IInv, TypeOK
<1>6. Wanted(call) = <<>> /\ ~Overrides(Wanted(call))
  BY <1>5, NotAccepted
<1>7. ~HasEntry(call)
  BY EarlyNoEntry DEF EarlyPlaces
<1>8. PICK h : h = heap[c]
  OBVIOUS
<1>9. OverrideOK(call)
  BY <1>1, <1>5, <1>6, <1>7 DEF OverrideOK, ChainOK, Untouched, RequestOK
<1>10. ChainOK("override", h, call)
  BY <1>9 DEF ChainOK
<1>11. Kept(call)
  BY <1>3 DEF Kept, Posted, SameKey
<1>12. ChainOK("override", h, call)'
  BY <1>3, <1>10, <1>11, ChainKept
<1>13. call = Top(t)'
  BY <1>1, <1>3 DEF Top
<1>14. ChainOK("override", h, Top(t))'
  BY <1>12, <1>13
<1>15. ~Early(t)'
  <2>1. \A d \in Cpus : run'[d].t = run[d].t
    BY <1>3 DEF IInv, TypeOK
  <2>2. run'[c].at = "override"
    BY <1>1, <1>3 DEF IInv, TypeOK
  <2> QED
    BY <1>1, <2>1, <2>2 DEF Early, EarlyPlaces
<1>16. EntryOK(t)'
  BY <1>3, <1>4, <1>15, DroppedEntries DEF EarlyPlaces
<1>17. TypeOK'
  <2>1. run' \in [Cpus -> [t : Threads \cup {"none"}, at : Places]]
    BY <1>3 DEF IInv, TypeOK, Places
  <2> QED
    BY <1>3, <2>1, OutcomesSame DEF IInv, TypeOK
<1>18. Advances(t, c, "override", h)
  <2>1. heap' = [heap EXCEPT ![c] = h]
    BY <1>1, <1>3, <1>8 DEF IInv, TypeOK
  <2>2. \A n : Posted(n)' <=> Posted(n)
    BY <1>3 DEF Posted
  <2>3. \A k : SameKey(k)
    BY <1>3 DEF SameKey
  <2> QED
    BY <1>3, <2>1, <2>2, <2>3 DEF Advances, Leaves, Kept
<1>19. "override" \in EntryPlaces /\ run[c].at \in EntryPlaces
  BY DEF EntryPlaces
<1> QED
  BY <1>1, <1>3, <1>14, <1>16, <1>17, <1>18, <1>19, PostedSame, ChainStep

LEMMA FilterProgram ==
  ASSUME IInv, NEW c \in Cpus, generic_kprobe_process_filter(c)
  PROVE  IInv'
<1>1. PICK t : t = run[c].t
  OBVIOUS
<1>2. PICK call : call = Top(t)
  OBVIOUS
<1>3. run[c].at = "filter"
  BY DEF generic_kprobe_process_filter
<1>4. Runs(c, t, call)
  BY <1>1, <1>2, <1>3 DEF Runs, EntryPlaces
<1>5. CASE ~FilterDone(heap[c])
  BY <1>3, <1>4, <1>5, FilterNext
<1>6. CASE FilterDone(heap[c]) /\ (Selectors(heap[c].call.f) = 0 \/ heap[c].active # {})
           /\ Jump(c, "setup")
  BY <1>3, <1>4, <1>6, FilterPass
<1>7. CASE FilterDone(heap[c]) /\ Selectors(heap[c].call.f) > 0 /\ heap[c].active = {}
           /\ EntryEnd(c)
  BY <1>3, <1>4, <1>7, FilterDrop
<1> QED
  BY <1>5, <1>6, <1>7 DEF generic_kprobe_process_filter

\* The entry of the newest call, past retprobe_map_set, is its own.
LEMMA OwnEntry ==
  ASSUME IInv, NEW c, NEW t, NEW call, Runs(c, t, call),
         run[c].at \notin EarlyPlaces, Key(call) \in DOMAIN retprobe_map
  PROVE  retprobe_map[Key(call)] = call.n
<1>1. /\ t \in Threads /\ call \in Call /\ call.t = t /\ stack[t] \in Seq(Call) /\ EntryOK(t)
      /\ Len(stack[t]) \in DOMAIN stack[t] /\ call = stack[t][Len(stack[t])]
      /\ \A d \in Cpus : run[d].t = t => d = c
  BY ChainFacts
<1>2. ~Early(t) /\ Reach(t) = Len(stack[t])
  BY <1>1 DEF Early, Reach, Runs
<1>3. call.f \in Funcs /\ Key(call) = <<call.f, t>>
  BY <1>1 DEF Call, Key
<1>4. PICK i \in DOMAIN stack[t] : Owns(t, call.f, i)
  BY <1>1, <1>3 DEF EntryOK
<1>5. Len(stack[t]) <= i
  BY <1>1, <1>2, <1>4 DEF Owns
<1>6. i = Len(stack[t])
  BY <1>1, <1>5
<1> QED
  BY <1>1, <1>3, <1>4, <1>6 DEF Owns

\* generic_kprobe_setup_event: the call's own entry, at the expense of that of
\* an outer call of the same function.
LEMMA SetupProgram ==
  ASSUME IInv, NEW c \in Cpus, generic_kprobe_setup_event(c)
  PROVE  IInv'
<1>1. PICK t : t = run[c].t
  OBVIOUS
<1>2. PICK call : call = Top(t)
  OBVIOUS
<1>3. run[c].at = "setup"
  BY DEF generic_kprobe_setup_event
<1>4. Runs(c, t, call)
  BY <1>1, <1>2, <1>3 DEF Runs, EntryPlaces
<1>5. /\ t \in Threads /\ stack[t] \in Seq(Call)
      /\ Len(stack[t]) \in DOMAIN stack[t] /\ call = stack[t][Len(stack[t])]
      /\ call \in Call /\ call.t = t
      /\ \A d \in Cpus : run[d].t = t => d = c
      /\ EntryOK(t)
      /\ ChainOK("setup", heap[c], call)
  BY <1>3, <1>4, ChainFacts
<1>6. \A i \in DOMAIN stack[t] : i < Len(stack[t]) =>
        Settled(stack[t][i]) /\ stack[t][i].n # call.n
  BY <1>4, ChainFacts
<1>7. PICK h : h = heap[c]
  OBVIOUS
<1>8. /\ h.call = call /\ SelectedOK(h, call) /\ Untouched(call) /\ h.sel = 0
      /\ call.who \in InPolicy
  BY <1>5, <1>7 DEF ChainOK
<1>9. /\ retprobe_map' = IF HasRoom(call) THEN WithEntry(call) ELSE retprobe_map
      /\ lost' = lost \cup Loses(call)
      /\ run' = [run EXCEPT ![c].at = "process"]
      /\ UNCHANGED <<sels, mode, stack, calls, heap, override_tasks, events,
                     acts, overridden>>
  BY <1>7, <1>8 DEF generic_kprobe_setup_event, retprobe_map_set, Jump
<1>10. call.f \in Funcs /\ Key(call) = <<call.f, t>> /\ call.n \in Nat
  BY <1>5 DEF Call, Key
<1>11. /\ HasRoom(call) =>
            /\ DOMAIN retprobe_map' = DOMAIN retprobe_map \cup {Key(call)}
            /\ retprobe_map'[Key(call)] = call.n
            /\ \A k \in DOMAIN retprobe_map : k # Key(call) =>
                 retprobe_map'[k] = retprobe_map[k]
       /\ ~HasRoom(call) => retprobe_map' = retprobe_map /\ Key(call) \notin DOMAIN retprobe_map
  BY <1>9 DEF HasRoom, WithEntry
<1>12. \A k : k # Key(call) => SameKey(k)
  BY <1>11 DEF SameKey
<1>13. /\ Key(call) \in DOMAIN retprobe_map => Loses(call) = {retprobe_map[Key(call)]}
       /\ Key(call) \notin DOMAIN retprobe_map => Loses(call) \subseteq {call.n}
       /\ ~HasRoom(call) => Loses(call) = {call.n}
  BY DEF Loses, HasRoom
<1>14. Early(t) /\ Reach(t) = Len(stack[t]) - 1
  BY <1>1, <1>3 DEF Early, Reach, EarlyPlaces
<1>15. ~Early(t)' /\ Reach(t)' = Len(stack[t])
  <2>1. \A d \in Cpus : run'[d].t = run[d].t
    BY <1>9 DEF IInv, TypeOK
  <2>2. run'[c].at = "process"
    BY <1>9 DEF IInv, TypeOK
  <2>3. ~Early(t)'
    BY <1>5, <2>1, <2>2 DEF Early, EarlyPlaces
  <2> QED
    BY <1>9, <2>3 DEF Reach
\* Whoever loses an entry is a call of t and of the same function.
<1>16. \A n \in Loses(call) : n = call.n \/
         \E i \in DOMAIN stack[t] : i < Len(stack[t]) /\ stack[t][i].n = n
                                    /\ stack[t][i].f = call.f
  <2>1. CASE Key(call) \in DOMAIN retprobe_map
    <3>1. PICK i \in DOMAIN stack[t] : Owns(t, call.f, i)
      BY <1>5, <1>10, <2>1 DEF EntryOK
    <3>2. i < Len(stack[t]) /\ stack[t][i].n = retprobe_map[Key(call)] /\ stack[t][i].f = call.f
      BY <1>5, <1>10, <1>14, <3>1 DEF Owns
    <3> QED
      BY <1>13, <2>1, <3>2
  <2>2. CASE Key(call) \notin DOMAIN retprobe_map
    BY <1>13, <2>2
  <2> QED
    BY <2>1, <2>2
<1>17. \A n : Posted(n)' <=> Posted(n)
  BY <1>9 DEF Posted
<1>18. ASSUME NEW u \in Threads \ {t} PROVE Leaves(t, u)
  <2>1. \A i \in DOMAIN stack[u] : stack[u][i].n \notin Loses(call)
    BY <1>5, <1>16, <1>18 DEF IInv, StackOK
  <2>2. \A f \in Funcs : SameKey(<<f, u>>)
    BY <1>10, <1>12, <1>18
  <2> QED
    BY <1>9, <1>17, <2>1, <2>2 DEF Leaves
<1>19. ASSUME NEW i \in DOMAIN stack[t], i < Len(stack[t])
       PROVE  Kept(stack[t][i]) \/ Settled(stack[t][i])'
  <2>1. PICK low : low = stack[t][i]
    OBVIOUS
  <2>2. /\ Settled(low) /\ low.n # call.n /\ Key(low) = <<low.f, t>>
        /\ low = stack'[t][i]
    BY <1>6, <1>5, <1>9, <1>19, <2>1, CallTypes
  <2>3. CASE low.f # call.f
    <3>1. low.n \notin Loses(call)
      <4>1. \A j \in DOMAIN stack[t] : stack[t][j].n = low.n => j = i
        BY <1>5, <1>19, <2>1 DEF IInv, StackOK
      <4> QED
        BY <1>16, <2>1, <2>2, <2>3, <4>1
    <3>2. SameKey(Key(low))
      BY <1>10, <1>12, <2>2, <2>3
    <3> QED
      BY <1>9, <1>17, <2>1, <3>1, <3>2 DEF Kept
  <2>4. CASE low.f = call.f
    <3>1. Key(low) = Key(call)
      BY <1>10, <2>2, <2>4
    <3>2. ~HasEntry(low)'
      BY <1>11, <2>2, <3>1 DEF HasEntry, Key
    <3>3. HasEntry(low) => low.n \in lost'
      BY <1>9, <1>13, <3>1 DEF HasEntry
    <3>4. low.n \in lost => low.n \in lost'
      BY <1>9
    <3>5. Accepted(low)' = Accepted(low) /\ Wanted(low)' = Wanted(low)
      BY <1>9, Rigid
    <3>6. Settled(low)'
      BY <1>9, <1>17, <2>2, <3>2, <3>3, <3>4, <3>5 DEF Settled, Posts, Overrides
    <3> QED
      BY <2>2, <3>6
  <2> QED
    BY <2>3, <2>4
<1>20. Advances(t, c, "process", h)
  <2>1. heap' = [heap EXCEPT ![c] = h]
    BY <1>7, <1>9 DEF IInv, TypeOK
  <2> QED
    BY <1>9, <1>18, <1>19, <2>1 DEF Advances
<1>21. EntryOK(t)'
  <2> SUFFICES ASSUME NEW f \in Funcs, <<f, t>> \in DOMAIN retprobe_map'
               PROVE  \E i \in DOMAIN stack'[t] : Owns(t, f, i)'
    BY DEF EntryOK
  <2>1. CASE f = call.f
    <3>1. retprobe_map'[<<f, t>>] = call.n
      BY <1>10, <1>11, <2>1
    <3>2. Filtered(call)'
      BY <1>8, <1>9, Rigid DEF SelectedOK
    <3>3. PICK i \in DOMAIN stack'[t] : i = Len(stack[t])
      BY <1>5, <1>9
    <3>4. call = stack'[t][i] /\ stack'[t] = stack[t]
      BY <1>5, <1>9, <3>3
    <3>5. Filtered(stack[t][i])'
      BY <3>2, <3>4
    <3>6. Owns(t, f, i)'
      BY <1>5, <1>15, <2>1, <3>1, <3>3, <3>4, <3>5 DEF Owns
    <3> QED
      BY <3>6
  <2>2. CASE f # call.f
    <3>1. <<f, t>> \in DOMAIN retprobe_map /\ retprobe_map'[<<f, t>>] = retprobe_map[<<f, t>>]
      BY <1>10, <1>12, <2>2 DEF SameKey
    <3>2. PICK i \in DOMAIN stack[t] : Owns(t, f, i)
      BY <1>5, <3>1 DEF EntryOK
    <3>3. PICK own : own = stack[t][i]
      OBVIOUS
    <3>4. Filtered(own)' /\ own = stack'[t][i]
      BY <1>9, <3>2, <3>3, Rigid DEF Owns
    <3>5. Filtered(stack[t][i])'
      BY <3>4
    <3>6. \A j \in DOMAIN stack[t] : stack[t][j].f = f => j <= i
      <4>1. SUFFICES ASSUME NEW j \in DOMAIN stack[t], stack[t][j].f = f PROVE j <= i
        OBVIOUS
      <4>2. j # Len(stack[t]) /\ j \in 1..Len(stack[t])
        BY <1>5, <2>2, <4>1
      <4>3. j <= Reach(t)
        BY <1>5, <1>14, <4>2
      <4> QED
        BY <3>2, <4>1, <4>3 DEF Owns
    <3>7. i <= Len(stack[t])
      BY <1>5
    <3>8. Owns(t, f, i)'
      BY <1>9, <1>15, <3>1, <3>2, <3>5, <3>6, <3>7 DEF Owns
    <3> QED
      BY <1>9, <3>8
  <2> QED
    BY <2>1, <2>2
<1>22. TypeOK'
  <2>1. run' \in [Cpus -> [t : Threads \cup {"none"}, at : Places]]
    BY <1>9 DEF IInv, TypeOK, Places
  <2>2. DOMAIN retprobe_map' \subseteq Funcs \X Threads
    BY <1>5, <1>10, <1>11 DEF IInv, TypeOK
  <2>3. IsFiniteSet(DOMAIN retprobe_map) /\ Cardinality(DOMAIN retprobe_map) <= RetprobeMax
    BY DEF IInv, TypeOK
  <2>4. IsFiniteSet(DOMAIN retprobe_map') /\ Cardinality(DOMAIN retprobe_map') <= RetprobeMax
    <3>1. CASE ~HasRoom(call)
      BY <1>11, <2>3, <3>1
    <3>2. CASE Key(call) \in DOMAIN retprobe_map
      <4>1. DOMAIN retprobe_map' = DOMAIN retprobe_map
        BY <1>11, <3>2 DEF HasRoom
      <4> QED
        BY <2>3, <4>1
    <3>3. CASE Key(call) \notin DOMAIN retprobe_map /\ HasRoom(call)
      <4>1. Cardinality(DOMAIN retprobe_map) < RetprobeMax
        BY <3>3 DEF HasRoom
      <4>2. DOMAIN retprobe_map' = DOMAIN retprobe_map \cup {Key(call)}
        BY <1>11, <3>3
      <4>3. /\ IsFiniteSet(DOMAIN retprobe_map')
            /\ Cardinality(DOMAIN retprobe_map') = Cardinality(DOMAIN retprobe_map) + 1
        BY <2>3, <3>3, <4>2, FS_AddElement
      <4>4. Cardinality(DOMAIN retprobe_map) \in Nat /\ RetprobeMax \in Nat
        BY <2>3, FS_CardinalityType, KprobeAssumption
      <4> QED
        BY <4>1, <4>3, <4>4
    <3> QED
      BY <3>1, <3>2, <3>3
  <2>5. lost' \subseteq Nat
    <3>1. \A i \in DOMAIN stack[t] : stack[t][i].n \in Nat
      BY <1>5, CallTypes
    <3>2. Loses(call) \subseteq Nat
      BY <1>10, <1>16, <3>1
    <3>3. lost \subseteq Nat
      BY DEF IInv, TypeOK
    <3> QED
      BY <1>9, <3>2, <3>3
  <2> QED
    BY <1>9, <2>1, <2>2, <2>4, <2>5, OutcomesSame DEF IInv, TypeOK
<1>23. ChainOK("process", h, call)'
  <2>1. Filtered(call)' /\ ActiveFor(call)' = ActiveFor(call)
    BY <1>8, <1>9, Rigid DEF SelectedOK
  <2>2. SelectedOK(h, call)'
    BY <1>8, <2>1 DEF SelectedOK
  <2>3. Untouched(call)'
    BY <1>8, <1>9, <1>17 DEF Untouched
  <2>4. MarkedNow(call)'
    BY <1>9, <1>11, <1>13 DEF MarkedNow, HasEntry, Key
  <2> QED
    BY <1>8, <2>2, <2>3, <2>4 DEF ChainOK
<1>24. call = Top(t)'
  BY <1>2, <1>9 DEF Top
<1>25. ChainOK("process", h, Top(t))'
  BY <1>23, <1>24
<1>26. "process" \in EntryPlaces /\ run[c].at \in EntryPlaces
  BY <1>3 DEF EntryPlaces
<1> QED
  BY <1>1, <1>5, <1>9, <1>20, <1>21, <1>22, <1>25, <1>26, PostedSame, ChainStep

\* The rejection of a call past retprobe_map_set, whose argument cannot be read
\* or matches no selector: retprobe_map_clear removes the call's own entry.
Rejects(c, call) ==
    /\ retprobe_map' = Cleared(call)
    /\ run' = [run EXCEPT ![c].at = "override"]
    /\ UNCHANGED <<sels, mode, stack, calls, heap, override_tasks, events,
                   acts, overridden, lost>>

\* Taking an entry away.
LEMMA ClearedKeys ==
  ASSUME NEW call, retprobe_map' = Cleared(call)
  PROVE  /\ DOMAIN retprobe_map' = DOMAIN retprobe_map \ {Key(call)}
         /\ \A k : k # Key(call) => SameKey(k)
BY DEF Cleared, Restrict, SameKey

LEMMA ClearedType ==
  ASSUME TypeOK, NEW call, retprobe_map' = Cleared(call)
  PROVE  /\ DOMAIN retprobe_map' \subseteq Funcs \X Threads
         /\ IsFiniteSet(DOMAIN retprobe_map')
         /\ Cardinality(DOMAIN retprobe_map') <= RetprobeMax
<1>1. DOMAIN retprobe_map' = DOMAIN retprobe_map \ {Key(call)}
  BY ClearedKeys
<1>2. /\ IsFiniteSet(DOMAIN retprobe_map)
      /\ Cardinality(DOMAIN retprobe_map) <= RetprobeMax
  BY DEF TypeOK
<1>3. DOMAIN retprobe_map' \subseteq DOMAIN retprobe_map
  BY <1>1
<1>4. /\ IsFiniteSet(DOMAIN retprobe_map')
      /\ Cardinality(DOMAIN retprobe_map') <= Cardinality(DOMAIN retprobe_map)
  BY <1>2, <1>3, FS_Subset
<1>5. /\ Cardinality(DOMAIN retprobe_map') \in Nat /\ RetprobeMax \in Nat
      /\ Cardinality(DOMAIN retprobe_map) \in Nat
  BY <1>2, <1>4, FS_CardinalityType, KprobeAssumption
<1> QED
  BY <1>2, <1>3, <1>4, <1>5 DEF TypeOK

LEMMA RejectStep ==
  ASSUME IInv, NEW c, NEW t, NEW call, Runs(c, t, call),
         run[c].at \in {"process", "args"}, ~Accepted(call), Rejects(c, call)
  PROVE  IInv'
<1>1. /\ t \in Threads /\ stack[t] \in Seq(Call)
      /\ Len(stack[t]) \in DOMAIN stack[t] /\ call = stack[t][Len(stack[t])]
      /\ call \in Call /\ call.t = t
      /\ \A d \in Cpus : run[d].t = t => d = c
      /\ EntryOK(t)
      /\ ChainOK(run[c].at, heap[c], call)
  BY ChainFacts
<1>2. \A i \in DOMAIN stack[t] : i < Len(stack[t]) =>
        Settled(stack[t][i]) /\ stack[t][i].n # call.n
  BY ChainFacts
<1>3. c \in Cpus /\ t = run[c].t /\ call = Top(t)
  BY DEF Runs
<1>4. run[c].at \notin EarlyPlaces
  BY DEF EarlyPlaces
<1>5. /\ retprobe_map' = Cleared(call)
      /\ run' = [run EXCEPT ![c].at = "override"]
      /\ UNCHANGED <<sels, mode, stack, calls, heap, override_tasks, events,
                     acts, overridden, lost>>
  BY DEF Rejects
<1>6. call.f \in Funcs /\ Key(call) = <<call.f, t>> /\ call.n \in Nat
  BY <1>1 DEF Call, Key
<1>7. /\ DOMAIN retprobe_map' = DOMAIN retprobe_map \ {Key(call)}
      /\ \A k : k # Key(call) => SameKey(k)
  BY <1>5, ClearedKeys
<1>8. \A n : Posted(n)' <=> Posted(n)
  BY <1>5 DEF Posted
<1>9. ASSUME NEW u \in Threads \ {t} PROVE Leaves(t, u)
  <2>1. \A f \in Funcs : SameKey(<<f, u>>)
    BY <1>6, <1>7, <1>9
  <2> QED
    BY <1>5, <1>8, <2>1 DEF Leaves
<1>10. ASSUME NEW i \in DOMAIN stack[t], i < Len(stack[t])
       PROVE  Kept(stack[t][i]) \/ Settled(stack[t][i])'
  <2>1. PICK low : low = stack[t][i]
    OBVIOUS
  <2>2. /\ Settled(low) /\ low.n # call.n /\ Key(low) = <<low.f, t>>
        /\ low = stack'[t][i]
    BY <1>1, <1>2, <1>5, <1>10, <2>1, CallTypes
  <2>3. CASE low.f # call.f
    <3>1. SameKey(Key(low))
      BY <1>6, <1>7, <2>2, <2>3
    <3> QED
      BY <1>5, <1>8, <2>1, <3>1 DEF Kept
  <2>4. CASE low.f = call.f
    <3>1. Key(low) = Key(call)
      BY <1>6, <2>2, <2>4
    <3>2. ~HasEntry(low)
      BY <1>4, <2>2, <3>1, OwnEntry DEF HasEntry
    <3>3. ~HasEntry(low)'
      BY <1>7, <3>1 DEF HasEntry, Key
    <3>4. Accepted(low)' = Accepted(low) /\ Wanted(low)' = Wanted(low)
      BY <1>5, Rigid
    <3>5. Settled(low)'
      BY <1>5, <1>8, <2>2, <3>2, <3>3, <3>4 DEF Settled, Posts, Overrides
    <3> QED
      BY <2>2, <3>5
  <2> QED
    BY <2>3, <2>4
<1>11. PICK h : h = heap[c]
  OBVIOUS
<1>12. Advances(t, c, "override", h)
  <2>1. heap' = [heap EXCEPT ![c] = h]
    BY <1>3, <1>5, <1>11 DEF IInv, TypeOK
  <2> QED
    BY <1>5, <1>9, <1>10, <2>1 DEF Advances
<1>13. Early(t)' <=> Early(t)
  <2>1. \A d \in Cpus : run'[d].t = run[d].t
    BY <1>5 DEF IInv, TypeOK
  <2>2. run'[c].at = "override"
    BY <1>3, <1>5 DEF IInv, TypeOK
  <2> QED
    BY <1>1, <1>4, <2>1, <2>2 DEF Early, EarlyPlaces
<1>14. EntryOK(t)'
  <2>1. Reach(t)' = Reach(t)
    BY <1>5, <1>13 DEF Reach
  <2> SUFFICES ASSUME NEW f \in Funcs, <<f, t>> \in DOMAIN retprobe_map'
               PROVE  \E i \in DOMAIN stack'[t] : Owns(t, f, i)'
    BY DEF EntryOK
  <2>2. /\ <<f, t>> \in DOMAIN retprobe_map
        /\ retprobe_map'[<<f, t>>] = retprobe_map[<<f, t>>]
    BY <1>6, <1>7 DEF SameKey
  <2>3. PICK i \in DOMAIN stack[t] : Owns(t, f, i)
    BY <1>1, <2>2 DEF EntryOK
  <2>4. PICK own : own = stack[t][i]
    OBVIOUS
  <2>5. Filtered(own)' /\ own = stack'[t][i]
    BY <1>5, <2>3, <2>4, Rigid DEF Owns
  <2>6. Filtered(stack[t][i])'
    BY <2>5
  <2>7. Owns(t, f, i)'
    BY <1>5, <2>1, <2>2, <2>3, <2>6 DEF Owns
  <2> QED
    BY <1>5, <2>7
<1>15. TypeOK'
  <2>1. run' \in [Cpus -> [t : Threads \cup {"none"}, at : Places]]
    BY <1>5 DEF IInv, TypeOK, Places
  <2>2. /\ DOMAIN retprobe_map' \subseteq Funcs \X Threads
        /\ IsFiniteSet(DOMAIN retprobe_map')
        /\ Cardinality(DOMAIN retprobe_map') <= RetprobeMax
    BY <1>5, ClearedType DEF IInv
  <2> QED
    BY <1>5, <2>1, <2>2, OutcomesSame DEF IInv, TypeOK
<1>16. ChainOK("override", h, call)'
  <2>1. Accepted(call)' = Accepted(call) /\ Wanted(call)' = Wanted(call)
    BY <1>5, Rigid
  <2>2. Wanted(call) = <<>> /\ ~Overrides(Wanted(call))
    BY NotAccepted
  <2>3. Untouched(call)
    BY <1>1 DEF ChainOK
  <2>4. ~HasEntry(call)'
    BY <1>7 DEF HasEntry, Key
  <2>5. OverrideOK(call)'
    BY <1>5, <1>8, <2>1, <2>2, <2>3, <2>4 DEF OverrideOK, RequestOK, Untouched, Overrides
  <2> QED
    BY <2>5 DEF ChainOK
<1>17. call = Top(t)'
  BY <1>3, <1>5 DEF Top
<1>18. ChainOK("override", h, Top(t))'
  BY <1>16, <1>17
<1>19. "override" \in EntryPlaces /\ run[c].at \in EntryPlaces
  BY DEF EntryPlaces
<1> QED
  BY <1>1, <1>3, <1>5, <1>12, <1>14, <1>15, <1>18, <1>19, PostedSame, ChainStep

LEMMA ProcessProgram ==
  ASSUME IInv, NEW c \in Cpus, generic_kprobe_process_event(c)
  PROVE  IInv'
<1>1. PICK t : t = run[c].t
  OBVIOUS
<1>2. PICK call : call = Top(t)
  OBVIOUS
<1>3. run[c].at = "process"
  BY DEF generic_kprobe_process_event
<1>4. Runs(c, t, call)
  BY <1>1, <1>2, <1>3 DEF Runs, EntryPlaces
<1>5. /\ call \in Call /\ ChainOK("process", heap[c], call)
  BY <1>3, <1>4, ChainFacts
<1>6. PICK h : h = heap[c]
  OBVIOUS
<1>7. h.call = call /\ h \in Slot
  BY <1>5, <1>6 DEF ChainOK, IInv, TypeOK
<1>8. CASE Readable(call.arg)
  <2>1. PICK h2 : h2 = [h EXCEPT !.val = call.arg]
    OBVIOUS
  <2>2. /\ h2 \in Slot /\ h2.call = h.call /\ h2.active = h.active /\ h2.sel = h.sel
        /\ h2.val = call.arg
    BY <1>5, <1>7, <2>1 DEF Slot, Call
  <2>3. Quietly(c, "args", h2)
    <3>1. /\ run' = [run EXCEPT ![c].at = "args"]
          /\ heap' = [heap EXCEPT ![c].val = call.arg]
          /\ UNCHANGED <<sels, mode, stack, calls, retprobe_map, override_tasks,
                         events, acts, overridden, lost>>
      BY <1>6, <1>7, <1>8 DEF generic_kprobe_process_event, Jump
    <3>2. heap' = [heap EXCEPT ![c] = h2]
      BY <1>6, <2>1, <3>1
    <3> QED
      BY <2>2, <3>1, <3>2 DEF Quietly
  <2>4. ChainOK("args", h2, call)
    <3>1. SelectedOK(h2, call) /\ Untouched(call) /\ MarkedNow(call) /\ h2.sel = 0
      BY <1>5, <1>6, <2>2 DEF ChainOK, SelectedOK
    <3>2. \A j \in h2.active : ~(j < h2.sel)
      BY <2>2, <3>1 DEF Slot, MAX_SELECTORS
    <3>3. ArgsOK(h2, call)
      BY <1>8, <2>2, <3>1, <3>2 DEF ArgsOK
    <3> QED
      BY <1>5, <1>7, <2>2, <3>1, <3>3 DEF ChainOK
  <2> QED
    BY <1>3, <1>4, <2>3, <2>4, QuietStep DEF EntryPlaces, EarlyPlaces
<1>9. CASE ~Readable(call.arg)
  <2>1. ~Accepted(call)
    BY <1>9 DEF Accepted
  <2>2. Rejects(c, call)
    BY <1>6, <1>7, <1>9 DEF generic_kprobe_process_event, EntryEnd, Jump, Rejects
  <2> QED
    BY <1>3, <1>4, <2>1, <2>2, RejectStep
<1> QED
  BY <1>8, <1>9

\* The verdict of filter_args in the entry chain.
LEMMA EntryVerdict ==
  ASSUME IInv, NEW c, NEW t, NEW call, Runs(c, t, call), run[c].at = "args",
         NEW h, h = heap[c]
  PROVE  /\ h.active = {} => filter_args(h, h.sel, TRUE) = {"accept"}
         /\ h.active # {} =>
              filter_args(h, h.sel, TRUE) =
                {IF h.sel \in h.active /\ call.arg \in sels[call.f][h.sel + 1].args
                 THEN "actions" ELSE "next"}
<1>1. call \in Call /\ ChainOK("args", h, call) /\ sels \in Policies
  BY ChainFacts DEF IInv, TypeOK
<1>2. /\ h.call = call /\ h.active = ActiveFor(call) /\ h.val = call.arg
      /\ h.sel = 0 \/ h.sel \in h.active
  BY <1>1 DEF ChainOK, SelectedOK, ArgsOK
<1>3. CASE h.active = {}
  BY <1>3 DEF filter_args
<1>4. CASE h.active # {}
  <2>1. PICK n \in 0..6 : n = Len(sels[call.f]) /\ n = Selectors(call.f)
    BY <1>1, PolicyTypes DEF Call
  <2>2. h.sel \in 0..5 /\ h.sel < n
    <3>1. /\ ActiveFor(call) \subseteq 0..5 /\ n > 0
          /\ \A i \in ActiveFor(call) : i < n
      BY <1>1, <1>2, <1>4, <2>1, MatchingActive
    <3> QED
      BY <1>2, <2>1, <3>1
  <2>3. ~(h.sel >= Len(sels[h.call.f]))
    BY <1>2, <2>1, <2>2
  <2>4. selector_arg_offset(h, h.sel, TRUE) = {call.arg \in sels[call.f][h.sel + 1].args}
    BY <1>2, <2>3 DEF selector_arg_offset
  <2>5. filter_args(h, h.sel, TRUE) =
          {IF h.sel \in h.active /\ matches THEN "actions" ELSE "next" :
             matches \in {call.arg \in sels[call.f][h.sel + 1].args}}
    BY <1>4, <2>4 DEF filter_args
  <2>6. {IF h.sel \in h.active /\ matches THEN "actions" ELSE "next" :
           matches \in {call.arg \in sels[call.f][h.sel + 1].args}} =
        {IF h.sel \in h.active /\ call.arg \in sels[call.f][h.sel + 1].args
         THEN "actions" ELSE "next"}
    BY Zenon
  <2> QED
    BY <1>4, <2>5, <2>6
<1> QED
  BY <1>3, <1>4

\* Selectors before the index do not match: the index is the first match, or
\* the next active one is no further than the first match.
LEMMA FirstMatching ==
  ASSUME sels \in Policies, NEW call \in Call, NEW h, ArgsOK(h, call),
         h.active = ActiveFor(call), h.sel \in h.active,
         call.arg \in sels[call.f][h.sel + 1].args
  PROVE  Matching(call) # {} /\ h.sel + 1 = Min(Matching(call))
<1>1. PICK s \in 0..5 : s = h.sel
  BY MatchingActive
<1>2. s + 1 \in Matching(call) /\ Matching(call) \subseteq 1..6
  <2>1. s + 1 \in 1..6 /\ (s + 1) - 1 = s
    BY <1>1
  <2> QED
    BY <1>1, <2>1, MatchingActive
<1>3. ASSUME NEW j \in Matching(call) PROVE s + 1 <= j
  <2>1. j \in 1..6 /\ j - 1 \in ActiveFor(call) /\ call.arg \in sels[call.f][j].args
    BY <1>2, <1>3, MatchingActive
  <2>2. PICK k \in 0..5 : k = j - 1 /\ k + 1 = j
    BY <2>1
  <2>3. ~(k < s)
    BY <1>1, <2>1, <2>2 DEF ArgsOK
  <2> QED
    BY <1>1, <2>1, <2>2, <2>3
<1>4. Matching(call) \in SUBSET (0..6)
  BY <1>2
<1>5. Min(Matching(call)) \in Matching(call) /\ Min(Matching(call)) <= s + 1
  BY <1>2, <1>4, MinOfSmall
<1>6. s + 1 <= Min(Matching(call)) /\ Min(Matching(call)) \in 1..6
  BY <1>2, <1>3, <1>5
<1> QED
  BY <1>1, <1>2, <1>5, <1>6

LEMMA NextSelector ==
  ASSUME sels \in Policies, NEW call \in Call, NEW h \in Slot, ArgsOK(h, call),
         h.active = ActiveFor(call), h.active # {},
         ~(h.sel \in h.active /\ call.arg \in sels[call.f][h.sel + 1].args),
         NEW next, next = next_selidx(h.active, h.sel)
  PROVE  /\ next <= MAX_SELECTORS =>
              /\ next \in h.active
              /\ \A j \in h.active : j < next => call.arg \notin sels[call.f][j + 1].args
         /\ ~(next <= MAX_SELECTORS) => ~Accepted(call)
         /\ next \in 0..6
<1>1. h.sel \in 0..5 /\ h.active \subseteq 0..5
  BY DEF Slot, MAX_SELECTORS
<1>2. PICK later : later = {j \in h.active : j > h.sel}
  OBVIOUS
<1>3. next = IF later = {} THEN 6 ELSE Min(later)
  BY <1>2 DEF next_selidx, MAX_SELECTORS
<1>4. later \in SUBSET (0..6)
  BY <1>1, <1>2
<1>5. \A j \in h.active : j <= h.sel => call.arg \notin sels[call.f][j + 1].args
  BY <1>1 DEF ArgsOK
<1>6. CASE later # {}
  <2>1. next \in later /\ \A x \in later : next <= x
    <3>1. Min(later) \in later /\ \A x \in later : Min(later) <= x
      BY <1>4, <1>6, MinOfSmall
    <3>2. next = Min(later)
      BY <1>3, <1>6
    <3> QED
      BY <3>1, <3>2
  <2>2. next \in h.active /\ next \in 0..5
    BY <1>1, <1>2, <2>1
  <2>3. ASSUME NEW j \in h.active, j < next PROVE call.arg \notin sels[call.f][j + 1].args
    <3>1. j \notin later
      BY <1>1, <2>1, <2>2, <2>3
    <3>2. j <= h.sel
      BY <1>1, <1>2, <3>1
    <3> QED
      BY <1>5, <3>2
  <2> QED
    BY <2>2, <2>3 DEF MAX_SELECTORS
<1>7. CASE later = {}
  <2>1. next = 6
    BY <1>3, <1>7
  <2>2. \A j \in h.active : call.arg \notin sels[call.f][j + 1].args
    <3>1. \A j \in h.active : j <= h.sel
      BY <1>1, <1>2, <1>7
    <3> QED
      BY <1>5, <3>1
  <2>3. Matching(call) = {}
    <3>1. SUFFICES ASSUME NEW i \in Matching(call) PROVE FALSE
      OBVIOUS
    <3>2. i \in 1..6 /\ i - 1 \in ActiveFor(call) /\ call.arg \in sels[call.f][i].args
      BY <3>1, MatchingActive
    <3>3. PICK j \in h.active : j + 1 = i
      BY <3>2
    <3> QED
      BY <2>2, <3>2, <3>3
  <2>4. Selectors(call.f) # 0
    <3>1. PICK n \in 0..6 : n = Selectors(call.f)
      BY PolicyTypes DEF Call
    <3> QED
      BY <3>1, MatchingActive
  <2> QED
    BY <2>1, <2>3, <2>4 DEF MAX_SELECTORS, Accepted
<1> QED
  BY <1>6, <1>7

LEMMA ArgsProgram ==
  ASSUME IInv, NEW c \in Cpus, generic_kprobe_filter_arg(c)
  PROVE  IInv'
<1>1. PICK t : t = run[c].t
  OBVIOUS
<1>2. PICK call : call = Top(t)
  OBVIOUS
<1>3. run[c].at = "args"
  BY DEF generic_kprobe_filter_arg, generic_filter_arg
<1>4. Runs(c, t, call)
  BY <1>1, <1>2, <1>3 DEF Runs, EntryPlaces
<1>5. call \in Call /\ ChainOK("args", heap[c], call) /\ sels \in Policies
  BY <1>3, <1>4, ChainFacts DEF IInv, TypeOK
<1>6. PICK h : h = heap[c]
  OBVIOUS
<1>7. /\ h.call = call /\ h \in Slot /\ SelectedOK(h, call) /\ ArgsOK(h, call)
      /\ Untouched(call) /\ MarkedNow(call) /\ call.who \in InPolicy
      /\ h.active = ActiveFor(call) /\ Filtered(call)
  BY <1>5, <1>6 DEF ChainOK, IInv, TypeOK, SelectedOK
<1>8. PICK next : next = next_selidx(h.active, h.sel)
  OBVIOUS
<1>9. PICK verdict \in filter_args(h, h.sel, TRUE) :
        \/ /\ verdict = "next" /\ next <= MAX_SELECTORS
           /\ heap' = [heap EXCEPT ![c].sel = next]
           /\ UNCHANGED <<run, retprobe_map>>
        \/ /\ verdict = "next" /\ next > MAX_SELECTORS
           /\ retprobe_map' = Cleared(call)
           /\ EntryEnd(c)
           /\ UNCHANGED heap
        \/ /\ verdict = "actions"
           /\ heap' = [heap EXCEPT ![c].pass = h.sel]
           /\ Jump(c, "actions")
           /\ UNCHANGED retprobe_map
        \/ /\ verdict = "accept"
           /\ Jump(c, "send")
           /\ UNCHANGED <<heap, retprobe_map>>
  BY <1>6, <1>7, <1>8 DEF generic_kprobe_filter_arg, generic_filter_arg
<1>10. UNCHANGED <<sels, mode, stack, calls, override_tasks, events, acts,
                   overridden, lost>>
  BY DEF generic_kprobe_filter_arg, generic_filter_arg
<1>11. /\ h.active = {} => verdict = "accept"
       /\ h.active # {} =>
            verdict = IF h.sel \in h.active /\ call.arg \in sels[call.f][h.sel + 1].args
                      THEN "actions" ELSE "next"
  BY <1>3, <1>4, <1>6, <1>9, EntryVerdict
<1>12. next \in 0..6 \/ verdict # "next"
  BY <1>5, <1>7, <1>8, <1>11, NextSelector
<1>13. CASE verdict = "next" /\ next <= MAX_SELECTORS
  <2>1. /\ heap' = [heap EXCEPT ![c].sel = next] /\ run' = run
        /\ UNCHANGED retprobe_map
    BY <1>9, <1>12, <1>13 DEF MAX_SELECTORS
  <2>2. /\ next \in h.active
        /\ \A j \in h.active : j < next => call.arg \notin sels[call.f][j + 1].args
    BY <1>5, <1>7, <1>8, <1>11, <1>13, NextSelector
  <2>3. PICK h2 : h2 = [h EXCEPT !.sel = next]
    OBVIOUS
  <2>4. /\ h2 \in Slot /\ h2.call = h.call /\ h2.active = h.active /\ h2.sel = next
        /\ h2.val = h.val
    BY <1>7, <2>2, <2>3 DEF Slot
  <2>5. ArgsOK(h2, call) /\ SelectedOK(h2, call)
    BY <1>7, <2>2, <2>4 DEF ArgsOK, SelectedOK
  <2>6. ChainOK("args", h2, call)
    BY <1>7, <2>4, <2>5 DEF ChainOK
  <2>7. Quietly(c, "args", h2)
    <3>1. heap' = [heap EXCEPT ![c] = h2]
      BY <1>6, <2>1, <2>3
    <3>2. run' = [run EXCEPT ![c].at = "args"]
      BY <1>3, <2>1 DEF IInv, TypeOK
    <3> QED
      BY <1>10, <2>1, <2>4, <3>1, <3>2 DEF Quietly
  <2> QED
    BY <1>3, <1>4, <2>6, <2>7, QuietStep DEF EntryPlaces
<1>14. CASE verdict = "next" /\ ~(next <= MAX_SELECTORS)
  <2>1. ~Accepted(call)
    BY <1>5, <1>7, <1>8, <1>11, <1>14, NextSelector
  <2>2. Rejects(c, call)
    BY <1>9, <1>10, <1>12, <1>14 DEF Rejects, EntryEnd, Jump, MAX_SELECTORS
  <2> QED
    BY <1>3, <1>4, <2>1, <2>2, RejectStep
<1>15. CASE verdict = "actions"
  <2>1. /\ heap' = [heap EXCEPT ![c].pass = h.sel]
        /\ run' = [run EXCEPT ![c].at = "actions"] /\ UNCHANGED retprobe_map
    BY <1>9, <1>15 DEF Jump
  <2>2. h.sel \in h.active /\ call.arg \in sels[call.f][h.sel + 1].args
    BY <1>11, <1>15
  <2>3. Matching(call) # {} /\ h.sel + 1 = Min(Matching(call))
    BY <1>5, <1>7, <2>2, FirstMatching
  <2>4. PICK h2 : h2 = [h EXCEPT !.pass = h.sel]
    OBVIOUS
  <2>5. h2 \in Slot /\ h2.call = h.call /\ h2.pass = h.sel
    BY <1>7, <2>4 DEF Slot
  <2>6. ActionsOK(h2, call)
    BY <1>7, <2>3, <2>5 DEF ActionsOK, Accepted, ArgsOK
  <2>7. ChainOK("actions", h2, call)
    BY <1>7, <2>5, <2>6 DEF ChainOK
  <2>8. Quietly(c, "actions", h2)
    <3>1. heap' = [heap EXCEPT ![c] = h2]
      BY <1>6, <2>1, <2>4
    <3> QED
      BY <1>10, <2>1, <2>5, <3>1 DEF Quietly
  <2> QED
    BY <1>3, <1>4, <2>7, <2>8, QuietStep DEF EntryPlaces, EarlyPlaces
<1>16. CASE verdict = "accept"
  <2>1. /\ heap' = heap /\ run' = [run EXCEPT ![c].at = "send"] /\ UNCHANGED retprobe_map
    BY <1>9, <1>16 DEF Jump
  <2>2. h.active = {}
    BY <1>11, <1>16
  <2>3. Matching(call) = {} /\ Selectors(call.f) = 0
    BY <1>5, <1>7, <2>2, MatchingActive DEF Filtered
  <2>4. Accepted(call) /\ Wanted(call) = <<>>
    BY <1>7, <2>3 DEF Accepted, Wanted, ArgsOK
  <2>5. Posts(Wanted(call)) /\ ~Overrides(Wanted(call))
    BY <2>4 DEF Posts, Overrides
  <2>6. SendOK(call)
    BY <1>7, <2>4, <2>5 DEF SendOK, Untouched, RequestOK, ArgsOK
  <2>7. ChainOK("send", h, call)
    BY <1>7, <2>6 DEF ChainOK
  <2>8. Quietly(c, "send", h)
    <3>1. heap' = [heap EXCEPT ![c] = h]
      BY <1>6, <2>1 DEF IInv, TypeOK
    <3> QED
      BY <1>7, <1>10, <2>1, <3>1 DEF Quietly
  <2> QED
    BY <1>3, <1>4, <2>7, <2>8, QuietStep DEF EntryPlaces, EarlyPlaces
<1> QED
  BY <1>9, <1>13, <1>14, <1>15, <1>16

\* generic_kprobe_actions: the list of the first matching selector.
LEMMA ActionsProgram ==
  ASSUME IInv, NoFailures, NEW c \in Cpus, generic_kprobe_actions(c)
  PROVE  IInv'
<1>1. PICK t : t = run[c].t
  OBVIOUS
<1>2. PICK call : call = Top(t)
  OBVIOUS
<1>3. run[c].at = "actions"
  BY DEF generic_kprobe_actions
<1>4. Runs(c, t, call)
  BY <1>1, <1>2, <1>3 DEF Runs, EntryPlaces
<1>5. /\ t \in Threads /\ call \in Call /\ call.t = t /\ call.n \in 1..calls
      /\ ChainOK("actions", heap[c], call) /\ sels \in Policies
  BY <1>3, <1>4, ChainFacts DEF IInv, TypeOK
<1>6. PICK h : h = heap[c]
  OBVIOUS
<1>7. /\ h.call = call /\ h \in Slot /\ Untouched(call) /\ MarkedNow(call)
      /\ call.who \in InPolicy /\ ActionsOK(h, call)
  BY <1>5, <1>6 DEF ChainOK, IInv, TypeOK
<1>8. PICK list : list = Done(do_actions(sels[call.f][h.pass + 1].acts), mode)
  OBVIOUS
<1>9. /\ acts' = [acts EXCEPT ![call.n] = list]
      /\ override_tasks' = IF Overrides(list) THEN override_tasks \cup {t}
                                              ELSE override_tasks
      /\ IF Posts(list) THEN Jump(c, "send") ELSE EntryEnd(c)
      /\ UNCHANGED <<sels, mode, stack, calls, heap, retprobe_map, events,
                     overridden, lost>>
  BY <1>5, <1>6, <1>7, <1>8 DEF generic_kprobe_actions, Overrides
<1>10. PICK m \in Matching(call) : m = h.pass + 1 /\ m = Min(Matching(call))
  <2>1. Matching(call) \in SUBSET (0..6)
    BY <1>5, MatchingActive
  <2>2. Min(Matching(call)) \in Matching(call)
    BY <1>7, <2>1, MinOfSmall DEF ActionsOK
  <2> QED
    BY <1>7, <2>2 DEF ActionsOK
<1>11. m \in DOMAIN sels[call.f] /\ call.f \in Funcs
  BY <1>5, <1>10 DEF Matching, Call
<1>12. PICK l : l = sels[call.f][m].acts
  OBVIOUS
<1>13. l \in Seq(STRING) /\ Len(l) <= 3
  BY <1>5, <1>11, <1>12, PolicyTypes
<1>14. do_actions(l) = l
  <2>1. \A i \in DOMAIN l : ~Fails(l[i])
    BY <1>5, <1>11, <1>12 DEF NoFailures
  <2> QED
    BY <1>13, <2>1, AllActionsDone
<1>15. list = Done(l, mode)
  BY <1>8, <1>10, <1>12, <1>14
<1>16. list = Wanted(call)
  BY <1>7, <1>10, <1>12, <1>15 DEF Wanted, ActionsOK
<1>17. list \in Outcomes
  BY <1>8, <1>10, <1>11 DEF Outcomes
<1>18. PICK at : at = IF Posts(list) THEN "send" ELSE "override"
  OBVIOUS
<1>19. at \in EntryPlaces /\ at \notin EarlyPlaces /\ run[c].at \notin EarlyPlaces
       /\ run[c].at \in EntryPlaces
  BY <1>3, <1>18 DEF EntryPlaces, EarlyPlaces
<1>20. acts \in Seq(Outcomes) /\ Len(acts) = calls /\ calls \in Nat
  BY DEF IInv, TypeOK
<1>21. acts' \in Seq(Outcomes') /\ Len(acts') = calls /\ acts'[call.n] = list
       /\ \A n : n # call.n => acts'[n] = acts[n]
  BY <1>5, <1>9, <1>17, <1>20, OutcomesSame
<1>22. \A n : Posted(n)' <=> Posted(n)
  BY <1>9 DEF Posted
<1>23. Plain(t, c, at, h)
  <2>1. run' = [run EXCEPT ![c].at = at]
    BY <1>9, <1>18 DEF Jump, EntryEnd
  <2>2. heap' = [heap EXCEPT ![c] = h]
    BY <1>6, <1>9 DEF IInv, TypeOK
  <2>3. events' \in Seq([n : Nat, f : Funcs, who : Whos, val : Values, return : BOOLEAN])
    BY <1>9 DEF IInv, TypeOK
  <2> QED
    BY <1>2, <1>7, <1>9, <1>21, <1>22, <2>1, <2>2, <2>3 DEF Plain
<1>24. ChainOK(at, h, call)'
  <2>1. Accepted(call)' = Accepted(call) /\ Wanted(call)' = Wanted(call)
    BY <1>9, Rigid
  <2>2. HasEntry(call)' = HasEntry(call)
    BY <1>9 DEF HasEntry, Key
  <2>3. MarkedNow(call)'
    BY <1>7, <1>9, <2>2 DEF MarkedNow
  <2>4. RequestOK(call)'
    BY <1>5, <1>7, <1>9, <1>16, <2>1 DEF RequestOK, Untouched, Overrides
  <2>5. Accepted(call)
    BY <1>7 DEF ActionsOK
  <2>6. CASE at = "send"
    <3>1. Posts(list) /\ at # "override"
      BY <1>18, <2>6
    <3> QED
      BY <1>7, <1>9, <1>16, <1>21, <1>22, <2>1, <2>3, <2>4, <2>5, <2>6, <3>1
      DEF ChainOK, SendOK, Untouched, Posts
  <2>7. CASE at = "override"
    <3>1. ~Posts(list)
      BY <1>18, <2>7
    <3>2. OverrideOK(call)'
      BY <1>7, <1>9, <1>16, <1>21, <1>22, <2>1, <2>3, <2>4, <2>5, <3>1
      DEF OverrideOK, Untouched, Posts, MarkedNow
    <3> QED
      BY <2>7, <3>2 DEF ChainOK
  <2> QED
    BY <1>18, <2>6, <2>7
<1>25. call = Top(t)'
  BY <1>2, <1>9 DEF Top
<1>26. ChainOK(at, h, Top(t))'
  BY <1>24, <1>25
<1> QED
  BY <1>1, <1>5, <1>19, <1>23, <1>26, PlainStep

\* generic_kprobe_output: the call's event is posted.
LEMMA OutputProgram ==
  ASSUME IInv, NEW c \in Cpus, generic_kprobe_output(c)
  PROVE  IInv'
<1>1. PICK t : t = run[c].t
  OBVIOUS
<1>2. PICK call : call = Top(t)
  OBVIOUS
<1>3. run[c].at = "send"
  BY DEF generic_kprobe_output
<1>4. Runs(c, t, call)
  BY <1>1, <1>2, <1>3 DEF Runs, EntryPlaces
<1>5. /\ t \in Threads /\ call \in Call /\ call.t = t
      /\ ChainOK("send", heap[c], call)
  BY <1>3, <1>4, ChainFacts
<1>6. PICK h : h = heap[c]
  OBVIOUS
<1>7. h.call = call /\ h \in Slot /\ MarkedNow(call) /\ SendOK(call)
  BY <1>5, <1>6 DEF ChainOK, IInv, TypeOK
<1>8. PICK event : event = [n |-> call.n, f |-> call.f, who |-> call.who,
                            val |-> h.val, return |-> FALSE]
  OBVIOUS
<1>9. /\ events' = Append(events, event)
      /\ run' = [run EXCEPT ![c].at = "override"]
      /\ UNCHANGED <<sels, mode, stack, calls, heap, retprobe_map,
                     override_tasks, acts, overridden, lost>>
  BY <1>6, <1>7, <1>8 DEF generic_kprobe_output, Post, EntryEnd, Jump
<1>10. event \in [n : Nat, f : Funcs, who : Whos, val : Values, return : BOOLEAN]
       /\ event.n = call.n /\ event.return = FALSE
  BY <1>5, <1>7, <1>8 DEF Call, Slot
<1>11. events \in Seq([n : Nat, f : Funcs, who : Whos, val : Values, return : BOOLEAN])
  BY DEF IInv, TypeOK
<1>12. /\ events' \in Seq([n : Nat, f : Funcs, who : Whos, val : Values, return : BOOLEAN])
       /\ DOMAIN events' = DOMAIN events \cup {Len(events) + 1}
       /\ \A i \in DOMAIN events : events'[i] = events[i]
       /\ events'[Len(events) + 1] = event
  BY <1>9, <1>10, <1>11
<1>13. Posted(call.n)' /\ \A n : n # call.n => (Posted(n)' <=> Posted(n))
  BY <1>10, <1>12 DEF Posted
<1>14. Plain(t, c, "override", h)
  <2>1. heap' = [heap EXCEPT ![c] = h]
    BY <1>6, <1>9 DEF IInv, TypeOK
  <2>2. acts' \in Seq(Outcomes') /\ Len(acts') = calls
    BY <1>9, OutcomesSame DEF IInv, TypeOK
  <2> QED
    BY <1>2, <1>7, <1>9, <1>12, <1>13, <2>1, <2>2 DEF Plain
<1>15. ChainOK("override", h, call)'
  <2>1. Accepted(call)' = Accepted(call) /\ Wanted(call)' = Wanted(call)
    BY <1>9, Rigid
  <2>2. HasEntry(call)' = HasEntry(call)
    BY <1>9 DEF HasEntry, Key
  <2>3. OverrideOK(call)'
    BY <1>7, <1>9, <1>13, <2>1, <2>2
    DEF OverrideOK, SendOK, MarkedNow, RequestOK, Posts, Overrides
  <2> QED
    BY <2>3 DEF ChainOK
<1>16. call = Top(t)'
  BY <1>2, <1>9 DEF Top
<1>17. ChainOK("override", h, Top(t))'
  BY <1>15, <1>16
<1>18. /\ "override" \in EntryPlaces /\ "override" \notin EarlyPlaces
       /\ run[c].at \notin EarlyPlaces /\ run[c].at \in EntryPlaces
  BY <1>3 DEF EntryPlaces, EarlyPlaces
<1> QED
  BY <1>1, <1>5, <1>14, <1>17, <1>18, PlainStep

-----------------------------------------------------------------------------
(***************************************************************************)
(* Chains that end: the override program, and the programs of a return.    *)
(***************************************************************************)

\* The chain of t on c ends, or moves on within a return.
Ends(t, c, r) ==
    /\ run' = [run EXCEPT ![c] = r]
    /\ r = Idle \/ (r.t = t /\ r.at \in ReturnPlaces /\ DOMAIN r = {"t", "at"})
    /\ r \in [t : Threads \cup {"none"}, at : Places]

LEMMA RunEnds ==
  ASSUME IInv, NEW c \in Cpus, NEW t \in Threads, t = run[c].t \/ run[c] = Idle,
         \A d \in Cpus : run[d].t = t => d = c,
         NEW r, Ends(t, c, r)
  PROVE  /\ RunOK' /\ run' \in [Cpus -> [t : Threads \cup {"none"}, at : Places]]
         /\ ~InEntry(t)' /\ ~Early(t)'
         /\ run'[c] = r /\ \A d \in Cpus \ {c} : run'[d] = run[d]
         /\ run[c].t \in {t, "none"} /\ run'[c].t \in {t, "none"}
         /\ \A d \in Cpus : run'[d].t = t => d = c
<1>1. run \in [Cpus -> [t : Threads \cup {"none"}, at : Places]] /\ RunOK
  BY DEF IInv, TypeOK
<1>2. run' = [run EXCEPT ![c] = r] /\ r \in [t : Threads \cup {"none"}, at : Places]
  BY DEF Ends
<1>3. /\ run'[c] = r /\ \A d \in Cpus \ {c} : run'[d] = run[d]
      /\ run' \in [Cpus -> [t : Threads \cup {"none"}, at : Places]]
  BY <1>1, <1>2
<1>4. /\ r.t \in {t, "none"} /\ t # "none" /\ run[c].t \in {t, "none"}
      /\ r.at = "idle" <=> r.t = "none"
      /\ r.t = t => r.at \in {"rargs", "ractions", "rsend"} /\ r.at \notin EarlyPlaces
  BY KprobeAssumption DEF Ends, Idle, ReturnPlaces, EarlyPlaces
<1>5. \A d \in Cpus : run'[d].t = t => d = c
  BY <1>3
<1>6. RunOK'
  <2>1. \A d \in Cpus : run'[d].at = "idle" <=> run'[d].t = "none"
    BY <1>1, <1>3, <1>4 DEF RunOK
  <2>2. \A d, e \in Cpus : run'[d].t = run'[e].t /\ run'[d].t # "none" => d = e
    BY <1>1, <1>3, <1>4, <1>5 DEF RunOK
  <2> QED
    BY <2>1, <2>2 DEF RunOK
<1>7. ~InEntry(t)' /\ ~Early(t)'
  BY <1>3, <1>4, <1>5 DEF InEntry, Early
<1> QED
  BY <1>3, <1>4, <1>5, <1>6, <1>7

\* generic_kprobe_override: the entry chain is over, its call is settled.
LEMMA OverrideProgram ==
  ASSUME IInv, NEW c \in Cpus, generic_kprobe_override(c)
  PROVE  IInv'
<1>1. PICK t : t = run[c].t
  OBVIOUS
<1>2. PICK call : call = Top(t)
  OBVIOUS
<1>3. run[c].at = "override"
  BY DEF generic_kprobe_override
<1>4. Runs(c, t, call)
  BY <1>1, <1>2, <1>3 DEF Runs, EntryPlaces
<1>5. /\ t \in Threads /\ call \in Call /\ call.t = t /\ call.n \in 1..calls
      /\ stack[t] \in Seq(Call)
      /\ Len(stack[t]) \in DOMAIN stack[t] /\ call = stack[t][Len(stack[t])]
      /\ \A d \in Cpus : run[d].t = t => d = c
      /\ OverrideOK(call) /\ EntryOK(t)
  BY <1>3, <1>4, ChainFacts DEF ChainOK
<1>6. \A i \in DOMAIN stack[t] : i < Len(stack[t]) =>
        Settled(stack[t][i]) /\ stack[t][i].n # call.n
  BY <1>4, ChainFacts
<1>7. /\ run' = [run EXCEPT ![c] = Idle]
      /\ override_tasks' = override_tasks \ {t}
      /\ overridden' = IF t \in override_tasks THEN overridden \cup {call.n}
                                               ELSE overridden
      /\ UNCHANGED <<sels, mode, stack, calls, heap, retprobe_map, events, acts,
                     lost>>
  BY <1>1, <1>2 DEF generic_kprobe_override
<1>8. Ends(t, c, Idle)
  BY <1>7 DEF Ends, Idle, Places
<1>9. /\ RunOK' /\ run' \in [Cpus -> [t : Threads \cup {"none"}, at : Places]]
      /\ ~InEntry(t)' /\ ~Early(t)'
      /\ run'[c] = Idle /\ \A d \in Cpus \ {c} : run'[d] = run[d]
      /\ run[c].t \in {t, "none"} /\ run'[c].t \in {t, "none"}
      /\ \A d \in Cpus : run'[d].t = t => d = c
  BY <1>1, <1>5, <1>8, RunEnds
<1>10. StackOK'
  BY <1>7 DEF IInv, StackOK
<1>11. TypeOK'
  BY <1>5, <1>7, <1>9, OutcomesSame DEF IInv, TypeOK
<1>12. \A n : Posted(n)' <=> Posted(n)
  BY <1>7 DEF Posted
<1>13. \A k : SameKey(k)
  BY <1>7 DEF SameKey
<1>14. ASSUME NEW u \in Threads, u # t PROVE ThreadOK(u)'
  <2>1. \A i \in DOMAIN stack[u] : stack[u][i].n # call.n
    BY <1>5, <1>14 DEF IInv, StackOK
  <2>2. Leaves(t, u)
    BY <1>7, <1>12, <1>13, <1>14, <2>1 DEF Leaves
  <2>3. OnlyCpu(t, c)
    BY <1>7, <1>9 DEF OnlyCpu
  <2> QED
    BY <1>7, <1>14, <2>2, <2>3, OthersStay
<1>15. ThreadOK(t)'
  <2>1. Settled(call)'
    <3>1. Accepted(call)' = Accepted(call) /\ Wanted(call)' = Wanted(call)
      BY <1>7, Rigid
    <3>2. HasEntry(call)' = HasEntry(call)
      BY <1>7 DEF HasEntry, Key
    <3> QED
      BY <1>5, <1>7, <1>12, <3>1, <3>2
      DEF OverrideOK, Settled, RequestOK, Posts, Overrides
  <2>2. ASSUME NEW i \in DOMAIN stack'[t] PROVE Settled(stack[t][i])'
    <3>1. PICK low : low = stack[t][i]
      OBVIOUS
    <3>2. low = stack'[t][i] /\ i \in DOMAIN stack[t]
      BY <1>7, <2>2, <3>1
    <3>3. CASE i = Len(stack[t])
      BY <1>5, <2>1, <3>1, <3>2, <3>3
    <3>4. CASE i # Len(stack[t])
      <4>1. i < Len(stack[t])
        BY <1>5, <3>2, <3>4
      <4>2. Settled(low) /\ low.n # call.n
        BY <1>6, <3>1, <3>2, <4>1
      <4>3. Kept(low)
        BY <1>7, <1>12, <1>13, <4>2 DEF Kept
      <4>4. Settled(low)'
        BY <1>7, <4>2, <4>3, SettledKept
      <4> QED
        BY <3>2, <4>4
    <3> QED
      BY <3>3, <3>4
  <2>3. ~Early(t)
    BY <1>3, <1>5 DEF Early, EarlyPlaces
  <2>4. EntryOK(t)'
    BY <1>5, <1>7, <1>9, <1>13, <2>3, EntriesKept
  <2>5. \A d \in Cpus : run'[d].t # t
    BY <1>5, <1>9, KprobeAssumption DEF Idle
  <2> QED
    BY <1>7, <1>9, <2>2, <2>4, <2>5 DEF ThreadOK
<1> QED
  BY <1>7, <1>9, <1>10, <1>11, <1>14, <1>15, PostedSame DEF IInv

\* The programs of a return.
Returns(t, c, r, h) ==
    /\ Ends(t, c, r) /\ heap' = [heap EXCEPT ![c] = h]
    /\ h \in Slot /\ h.call = heap[c].call
    /\ UNCHANGED <<sels, mode, stack, calls, override_tasks, acts, overridden, lost>>
    /\ events' \in Seq([n : Nat, f : Funcs, who : Whos, val : Values,
                        return : BOOLEAN])
    /\ \A n : Posted(n)' <=> Posted(n)
    /\ retprobe_map' \in {retprobe_map, Cleared(heap[c].call)}

LEMMA ReturnStep ==
  ASSUME IInv, NEW c \in Cpus, run[c].at \in ReturnPlaces,
         NEW t, t = run[c].t, NEW r, NEW h, Returns(t, c, r, h)
  PROVE  IInv'
<1>1. t \in Threads /\ t # "none"
  BY DEF IInv, TypeOK, RunOK, ReturnPlaces
<1>2. \A d \in Cpus : run[d].t = t => d = c
  BY <1>1 DEF IInv, RunOK
<1>3. /\ ThreadOK(t) /\ ~InEntry(t) /\ ~Early(t)
  BY <1>1, <1>2 DEF IInv, InEntry, Early, ReturnPlaces, EarlyPlaces
<1>4. heap[c].call.t = t /\ Key(heap[c].call) \notin DOMAIN retprobe_map
  BY <1>3 DEF ThreadOK
<1>5. \A k : SameKey(k)
  BY <1>4 DEF Returns, Cleared, Restrict, SameKey
<1>6. /\ RunOK' /\ run' \in [Cpus -> [t : Threads \cup {"none"}, at : Places]]
      /\ ~InEntry(t)' /\ ~Early(t)'
      /\ run'[c] = r /\ \A d \in Cpus \ {c} : run'[d] = run[d]
      /\ run[c].t \in {t, "none"} /\ run'[c].t \in {t, "none"}
      /\ \A d \in Cpus : run'[d].t = t => d = c
  BY <1>1, <1>2, RunEnds DEF Returns
<1>7. /\ heap' \in [Cpus -> Slot] /\ heap'[c].call = heap[c].call
      /\ \A d \in Cpus \ {c} : heap'[d] = heap[d]
  BY DEF Returns, IInv, TypeOK
<1>8. TypeOK'
  <2>1. /\ DOMAIN retprobe_map' \subseteq Funcs \X Threads
        /\ IsFiniteSet(DOMAIN retprobe_map')
        /\ Cardinality(DOMAIN retprobe_map') <= RetprobeMax
    BY ClearedType DEF IInv, TypeOK, Returns
  <2> QED
    BY <1>6, <1>7, <2>1, OutcomesSame DEF IInv, TypeOK, Returns
<1>9. StackOK'
  BY DEF IInv, StackOK, Returns
<1>10. PostedOK'
  <2>1. SUFFICES ASSUME NEW i \in DOMAIN events', ~events'[i].return
                 PROVE  events'[i].n <= calls'
    BY DEF PostedOK
  <2>2. PICK m : m = events'[i].n
    OBVIOUS
  <2>3. Posted(m)'
    BY <2>1, <2>2 DEF Posted
  <2>4. Posted(m)
    BY <2>3 DEF Returns
  <2> QED
    BY <2>2, <2>4 DEF Posted, PostedOK, IInv, Returns
<1>11. ASSUME NEW u \in Threads, u # t PROVE ThreadOK(u)'
  <2>1. Leaves(t, u)
    BY <1>5 DEF Leaves, Returns
  <2>2. OnlyCpu(t, c)
    BY <1>6, <1>7 DEF OnlyCpu
  <2> QED
    BY <1>11, <2>1, <2>2, OthersStay DEF Returns
<1>12. ThreadOK(t)'
  <2>1. ASSUME NEW i \in DOMAIN stack'[t] PROVE Settled(stack[t][i])'
    <3>1. PICK low : low = stack[t][i]
      OBVIOUS
    <3>2. low = stack'[t][i] /\ i \in DOMAIN stack[t]
      BY <2>1, <3>1 DEF Returns
    <3>3. Settled(low)
      BY <1>3, <3>1, <3>2 DEF ThreadOK
    <3>4. Kept(low)
      BY <1>5 DEF Kept, Returns
    <3>5. Settled(low)'
      BY <3>3, <3>4, SettledKept DEF Returns
    <3> QED
      BY <3>2, <3>5
  <2>2. EntryOK(t)'
    BY <1>1, <1>3, <1>5, <1>6, EntriesKept DEF ThreadOK, Returns
  <2>3. t \notin override_tasks'
    BY <1>3 DEF ThreadOK, Returns
  <2>4. \A d \in Cpus : run'[d].t = t => run'[d].at \notin EntryPlaces
    <3>1. r.t = t => r.at \in ReturnPlaces
      BY <1>1 DEF Returns, Ends, Idle
    <3>2. r.at \in ReturnPlaces => r.at \notin EntryPlaces
      BY DEF ReturnPlaces, EntryPlaces
    <3> QED
      BY <1>6, <3>1, <3>2
  <2>5. \A d \in Cpus : run'[d].t = t =>
          heap'[d].call.t = t /\ (Key(heap[d].call) \notin DOMAIN retprobe_map)'
    BY <1>4, <1>5, <1>6, <1>7 DEF SameKey, Key
  <2> QED
    BY <1>6, <2>1, <2>2, <2>3, <2>4, <2>5 DEF ThreadOK
<1> QED
  BY <1>6, <1>8, <1>9, <1>10, <1>11, <1>12 DEF IInv

\* The next selector of any slot.
LEMMA NextType ==
  ASSUME NEW h \in Slot, NEW next, next = next_selidx(h.active, h.sel),
         next <= MAX_SELECTORS
  PROVE  next \in 0..MAX_SELECTORS
<1>1. h.sel \in 0..5 /\ h.active \subseteq 0..5
  BY DEF Slot, MAX_SELECTORS
<1>2. PICK later : later = {j \in h.active : j > h.sel}
  OBVIOUS
<1>3. next = IF later = {} THEN 6 ELSE Min(later)
  BY <1>2 DEF next_selidx, MAX_SELECTORS
<1>4. later \in SUBSET (0..6) /\ later \subseteq 0..5
  BY <1>1, <1>2
<1>5. CASE later # {}
  <2>1. Min(later) \in later
    BY <1>4, <1>5, MinOfSmall
  <2> QED
    BY <1>3, <1>4, <1>5, <2>1 DEF MAX_SELECTORS
<1>6. CASE later = {}
  BY <1>3, <1>6 DEF MAX_SELECTORS
<1> QED
  BY <1>5, <1>6

LEMMA ReturnArgsProgram ==
  ASSUME IInv, NEW c \in Cpus, generic_retkprobe_filter_arg(c)
  PROVE  IInv'
<1>1. PICK t : t = run[c].t
  OBVIOUS
<1>2. run[c].at = "rargs" /\ run[c].at \in ReturnPlaces
  BY DEF generic_retkprobe_filter_arg, generic_filter_arg, ReturnPlaces
<1>3. PICK h : h = heap[c]
  OBVIOUS
<1>4. h \in Slot /\ run[c] \in [t : Threads \cup {"none"}, at : Places]
  BY <1>3 DEF IInv, TypeOK
<1>5. PICK next : next = next_selidx(h.active, h.sel)
  OBVIOUS
<1>6. PICK verdict \in filter_args(h, h.sel, FALSE) :
        \/ /\ verdict = "next" /\ next <= MAX_SELECTORS
           /\ heap' = [heap EXCEPT ![c].sel = next]
           /\ UNCHANGED <<run, retprobe_map>>
        \/ /\ verdict = "next" /\ next > MAX_SELECTORS
           /\ retprobe_map' = Cleared(h.call)
           /\ run' = [run EXCEPT ![c] = Idle]
           /\ UNCHANGED heap
        \/ /\ verdict = "actions"
           /\ heap' = [heap EXCEPT ![c].pass = h.sel]
           /\ run' = [run EXCEPT ![c].at = "ractions"]
           /\ UNCHANGED retprobe_map
        \/ /\ verdict = "accept"
           /\ run' = [run EXCEPT ![c].at = "rsend"]
           /\ UNCHANGED <<heap, retprobe_map>>
  BY <1>3, <1>5 DEF generic_retkprobe_filter_arg, generic_filter_arg, Jump
<1>7. UNCHANGED <<sels, mode, stack, calls, override_tasks, events, acts,
                  overridden, lost>>
  BY DEF generic_retkprobe_filter_arg, generic_filter_arg
<1>8. /\ \A n : Posted(n)' <=> Posted(n)
      /\ events' \in Seq([n : Nat, f : Funcs, who : Whos, val : Values, return : BOOLEAN])
  BY <1>7 DEF Posted, IInv, TypeOK
<1>9. PICK next2 : next2 = IF next <= MAX_SELECTORS THEN next ELSE 0
  OBVIOUS
<1>10. next2 \in 0..MAX_SELECTORS
  BY <1>4, <1>5, <1>9, NextType DEF MAX_SELECTORS
<1>11. \E r, h2 : Returns(t, c, r, h2)
  <2>1. CASE /\ next <= MAX_SELECTORS /\ heap' = [heap EXCEPT ![c].sel = next]
             /\ UNCHANGED <<run, retprobe_map>>
    <3>1. PICK h2 : h2 = [h EXCEPT !.sel = next]
      OBVIOUS
    <3>2. h2 \in Slot /\ h2.call = h.call
      BY <1>4, <1>9, <1>10, <2>1, <3>1 DEF Slot
    <3>3. heap' = [heap EXCEPT ![c] = h2]
      BY <1>3, <2>1, <3>1
    <3>4. Ends(t, c, run[c])
      BY <1>1, <1>2, <1>4, <2>1 DEF Ends, IInv, TypeOK
    <3> QED
      BY <1>3, <1>7, <1>8, <2>1, <3>2, <3>3, <3>4 DEF Returns
  <2>2. CASE /\ retprobe_map' = Cleared(h.call) /\ run' = [run EXCEPT ![c] = Idle]
             /\ UNCHANGED heap
    <3>1. heap' = [heap EXCEPT ![c] = h]
      BY <1>3, <2>2 DEF IInv, TypeOK
    <3>2. Ends(t, c, Idle)
      BY <2>2 DEF Ends, Idle, Places
    <3> QED
      BY <1>3, <1>4, <1>7, <1>8, <2>2, <3>1, <3>2 DEF Returns
  <2>3. CASE /\ heap' = [heap EXCEPT ![c].pass = h.sel]
             /\ run' = [run EXCEPT ![c].at = "ractions"] /\ UNCHANGED retprobe_map
    <3>1. PICK h2 : h2 = [h EXCEPT !.pass = h.sel]
      OBVIOUS
    <3>2. h2 \in Slot /\ h2.call = h.call
      BY <1>4, <3>1 DEF Slot
    <3>3. heap' = [heap EXCEPT ![c] = h2]
      BY <1>3, <2>3, <3>1
    <3>4. PICK r : r = [run[c] EXCEPT !.at = "ractions"]
      OBVIOUS
    <3>5. Ends(t, c, r)
      BY <1>1, <1>4, <2>3, <3>4 DEF Ends, Places, ReturnPlaces
    <3> QED
      BY <1>3, <1>7, <1>8, <2>3, <3>2, <3>3, <3>5 DEF Returns
  <2>4. CASE run' = [run EXCEPT ![c].at = "rsend"] /\ UNCHANGED <<heap, retprobe_map>>
    <3>1. heap' = [heap EXCEPT ![c] = h]
      BY <1>3, <2>4 DEF IInv, TypeOK
    <3>2. PICK r : r = [run[c] EXCEPT !.at = "rsend"]
      OBVIOUS
    <3>3. Ends(t, c, r)
      BY <1>1, <1>4, <2>4, <3>2 DEF Ends, Places, ReturnPlaces
    <3> QED
      BY <1>3, <1>4, <1>7, <1>8, <2>4, <3>1, <3>3 DEF Returns
  <2> QED
    BY <1>6, <2>1, <2>2, <2>3, <2>4
<1> QED
  BY <1>1, <1>2, <1>11, ReturnStep

LEMMA ReturnActionsProgram ==
  ASSUME IInv, NEW c \in Cpus, generic_retkprobe_actions(c)
  PROVE  IInv'
<1>1. PICK t : t = run[c].t
  OBVIOUS
<1>2. run[c].at = "ractions" /\ run[c].at \in ReturnPlaces
  BY DEF generic_retkprobe_actions, ReturnPlaces
<1>3. PICK h : h = heap[c]
  OBVIOUS
<1>4. h \in Slot /\ run[c] \in [t : Threads \cup {"none"}, at : Places]
  BY <1>3 DEF IInv, TypeOK
<1>5. /\ UNCHANGED <<sels, mode, stack, calls, heap, retprobe_map, override_tasks,
                     events, acts, overridden, lost>>
      /\ run' = [run EXCEPT ![c].at = "rsend"] \/ run' = [run EXCEPT ![c] = Idle]
  BY DEF generic_retkprobe_actions, Jump
<1>6. PICK r : run' = [run EXCEPT ![c] = r] /\
               r \in {Idle, [run[c] EXCEPT !.at = "rsend"]}
  BY <1>5
<1>7. Ends(t, c, r)
  BY <1>1, <1>4, <1>6 DEF Ends, Places, ReturnPlaces, Idle
<1>8. heap' = [heap EXCEPT ![c] = h]
  BY <1>3, <1>5 DEF IInv, TypeOK
<1>9. /\ \A n : Posted(n)' <=> Posted(n)
      /\ events' \in Seq([n : Nat, f : Funcs, who : Whos, val : Values, return : BOOLEAN])
  BY <1>5 DEF Posted, IInv, TypeOK
<1>10. Returns(t, c, r, h)
  BY <1>3, <1>4, <1>5, <1>7, <1>8, <1>9 DEF Returns
<1> QED
  BY <1>1, <1>2, <1>10, ReturnStep

LEMMA ReturnOutputProgram ==
  ASSUME IInv, NEW c \in Cpus, generic_retkprobe_output(c)
  PROVE  IInv'
<1>1. PICK t : t = run[c].t
  OBVIOUS
<1>2. run[c].at = "rsend" /\ run[c].at \in ReturnPlaces
  BY DEF generic_retkprobe_output, ReturnPlaces
<1>3. PICK h : h = heap[c]
  OBVIOUS
<1>4. h \in Slot /\ h.call \in Call
  BY <1>3 DEF IInv, TypeOK, Slot
<1>5. PICK event : event = [n |-> h.call.n, f |-> h.call.f, who |-> h.call.who,
                            val |-> h.val, return |-> TRUE]
  OBVIOUS
<1>6. /\ events' = Append(events, event) /\ run' = [run EXCEPT ![c] = Idle]
      /\ UNCHANGED <<sels, mode, stack, calls, heap, retprobe_map,
                     override_tasks, acts, overridden, lost>>
  BY <1>3, <1>5 DEF generic_retkprobe_output, Post
<1>7. event \in [n : Nat, f : Funcs, who : Whos, val : Values, return : BOOLEAN]
      /\ event.return = TRUE
  BY <1>4, <1>5 DEF Call, Slot
<1>8. events \in Seq([n : Nat, f : Funcs, who : Whos, val : Values, return : BOOLEAN])
  BY DEF IInv, TypeOK
<1>9. /\ events' \in Seq([n : Nat, f : Funcs, who : Whos, val : Values, return : BOOLEAN])
      /\ DOMAIN events' = DOMAIN events \cup {Len(events) + 1}
      /\ \A i \in DOMAIN events : events'[i] = events[i]
      /\ events'[Len(events) + 1] = event
  BY <1>6, <1>7, <1>8
<1>10. \A n : Posted(n)' <=> Posted(n)
  BY <1>7, <1>9 DEF Posted
<1>11. Ends(t, c, Idle)
  BY <1>6 DEF Ends, Places, Idle
<1>12. heap' = [heap EXCEPT ![c] = h]
  BY <1>3, <1>6 DEF IInv, TypeOK
<1>13. Returns(t, c, Idle, h)
  BY <1>3, <1>4, <1>6, <1>9, <1>10, <1>11, <1>12 DEF Returns
<1> QED
  BY <1>1, <1>2, <1>13, ReturnStep

(***************************************************************************)
(* Entering and leaving a hooked function.                                 *)
(***************************************************************************)

\* A thread on no cpu.
LEMMA OffCpu ==
  ASSUME IInv, NEW t \in Threads, ~OnCpu(t)
  PROVE  /\ ThreadOK(t) /\ ~InEntry(t) /\ ~Early(t) /\ Reach(t) = Len(stack[t])
         /\ \A d \in Cpus : run[d].t # t
         /\ t \notin override_tasks /\ EntryOK(t)
         /\ \A i \in DOMAIN stack[t] : Settled(stack[t][i])
<1>1. ThreadOK(t)
  BY DEF IInv
<1>2. (\A d \in Cpus : run[d].t # t) /\ ~InEntry(t) /\ ~Early(t)
  BY DEF OnCpu, InEntry, Early
<1> QED
  BY <1>1, <1>2 DEF ThreadOK, Reach

\* The stack of a thread that enters a function from k others.
Enters(t, call, k) ==
    /\ k = Len(stack[t]) /\ Len(stack'[t]) = k + 1
    /\ DOMAIN stack[t] = 1..k /\ DOMAIN stack'[t] = 1..(k + 1)
    /\ \A i \in 1..k : stack'[t][i] = stack[t][i]
    /\ stack'[t][k + 1] = call /\ Top(t)' = call
    /\ \A u \in Threads \ {t} : stack'[u] = stack[u]
    /\ stack' \in [Threads -> Seq(Call)]

LEMMA Pushed ==
  ASSUME IInv, NEW t \in Threads, NEW call \in Call,
         stack' = [stack EXCEPT ![t] = Append(@, call)]
  PROVE  \E k \in Nat : Enters(t, call, k)
<1>1. PICK s : s = stack[t]
  OBVIOUS
<1>2. s \in Seq(Call) /\ stack \in [Threads -> Seq(Call)]
  BY <1>1 DEF IInv, TypeOK
<1>3. PICK k \in Nat : k = Len(s)
  BY <1>2
<1>4. PICK s2 : s2 = Append(s, call)
  OBVIOUS
<1>5. /\ s2 \in Seq(Call) /\ Len(s2) = k + 1 /\ DOMAIN s = 1..k /\ DOMAIN s2 = 1..(k + 1)
      /\ \A i \in 1..k : s2[i] = s[i]
      /\ s2[k + 1] = call
  BY <1>2, <1>3, <1>4
<1>6. stack'[t] = s2 /\ (\A u \in Threads \ {t} : stack'[u] = stack[u])
      /\ stack' \in [Threads -> Seq(Call)]
  BY <1>1, <1>2, <1>4, <1>5
<1>7. Top(t)' = call
  BY <1>5, <1>6 DEF Top
<1> QED
  BY <1>1, <1>3, <1>5, <1>6, <1>7 DEF Enters

\* The new call on the stack: its number is new, its process the thread's.
LEMMA PushedStack ==
  ASSUME IInv, NEW t \in Threads, NEW call \in Call,
         stack' = [stack EXCEPT ![t] = Append(@, call)],
         calls' = calls + 1, call.n = calls + 1, call.t = t,
         stack[t] # <<>> => call.who = Top(t).who
  PROVE  StackOK' /\ \A i \in DOMAIN stack[t] : stack[t][i].who = call.who
<1>0. PICK k \in Nat : Enters(t, call, k)
  BY Pushed
<1>1. /\ k = Len(stack[t]) /\ Len(stack'[t]) = k + 1
      /\ DOMAIN stack[t] = 1..k /\ DOMAIN stack'[t] = 1..(k + 1)
      /\ \A i \in 1..k : stack'[t][i] = stack[t][i]
      /\ stack'[t][k + 1] = call
      /\ \A u \in Threads \ {t} : stack'[u] = stack[u]
  BY <1>0 DEF Enters
<1>2. StackOK /\ calls \in Nat
  BY DEF IInv, TypeOK
<1>3. \A i \in 1..k : stack[t][i].who = call.who
  <2>1. SUFFICES ASSUME NEW i \in 1..k PROVE stack[t][i].who = call.who
    OBVIOUS
  <2>2. k \in DOMAIN stack[t] /\ i \in DOMAIN stack[t] /\ Top(t) = stack[t][k]
    BY <1>1, <2>1 DEF Top
  <2>3. stack[t] # <<>>
    BY <2>2
  <2> QED
    BY <1>2, <2>2, <2>3 DEF StackOK
<1>4. \A u \in Threads : \A i \in DOMAIN stack'[u] :
         \/ u = t /\ i = k + 1
         \/ i \in DOMAIN stack[u] /\ stack'[u][i] = stack[u][i]
  <2>1. SUFFICES ASSUME NEW u \in Threads, NEW i \in DOMAIN stack'[u]
                 PROVE  \/ u = t /\ i = k + 1
                        \/ i \in DOMAIN stack[u] /\ stack'[u][i] = stack[u][i]
    OBVIOUS
  <2>2. CASE u = t
    <3>1. i \in 1..(k + 1)
      BY <1>1, <2>1, <2>2
    <3>2. i = k + 1 \/ i \in 1..k
      BY <3>1
    <3> QED
      BY <1>1, <2>2, <3>2
  <2> QED
    BY <1>1, <2>1, <2>2
<1>5. \A u \in Threads : \A i \in DOMAIN stack[u] : stack[u][i].n \in 1..calls
  BY <1>2 DEF StackOK
<1>6. ASSUME NEW u \in Threads, NEW i \in DOMAIN stack'[u]
      PROVE  /\ stack'[u][i].t = u /\ stack'[u][i].n \in 1..calls'
             /\ \A j \in DOMAIN stack'[u] : stack'[u][i].who = stack'[u][j].who
  <2>1. stack'[u][i].t = u
    BY <1>1, <1>2, <1>4, <1>6 DEF StackOK
  <2>2. stack'[u][i].n \in 1..calls'
    BY <1>1, <1>2, <1>4, <1>5, <1>6
  <2>3. ASSUME NEW j \in DOMAIN stack'[u] PROVE stack'[u][i].who = stack'[u][j].who
    <3>1. CASE u = t
      <4>1. \A m \in DOMAIN stack'[t] : stack'[t][m].who = call.who
        BY <1>1, <1>3, <1>4
      <4> QED
        BY <1>6, <2>3, <3>1, <4>1
    <3>2. CASE u # t
      BY <1>1, <1>2, <1>6, <2>3, <3>2 DEF StackOK
    <3> QED
      BY <3>1, <3>2
  <2> QED
    BY <2>1, <2>2, <2>3
<1>7. ASSUME NEW u \in Threads, NEW v \in Threads,
             NEW i \in DOMAIN stack'[u], NEW j \in DOMAIN stack'[v],
             stack'[u][i].n = stack'[v][j].n
      PROVE  u = v /\ i = j
  <2>1. \A w \in Threads : \A m \in DOMAIN stack'[w] :
           stack'[w][m].n = calls + 1 <=> w = t /\ m = k + 1
    <3>1. \A w \in Threads : \A m \in DOMAIN stack[w] : stack[w][m].n # calls + 1
      BY <1>2, <1>5
    <3>2. stack'[t][k + 1].n = calls + 1
      BY <1>1
    <3> QED
      BY <1>4, <3>1, <3>2
  <2>2. CASE stack'[u][i].n = calls + 1
    BY <1>7, <2>1, <2>2
  <2>3. CASE stack'[u][i].n # calls + 1
    <3>1. /\ i \in DOMAIN stack[u] /\ stack'[u][i] = stack[u][i]
          /\ j \in DOMAIN stack[v] /\ stack'[v][j] = stack[v][j]
      BY <1>4, <1>7, <2>1, <2>3
    <3> QED
      BY <1>2, <1>7, <3>1 DEF StackOK
  <2> QED
    BY <2>2, <2>3
<1> QED
  BY <1>1, <1>3, <1>6, <1>7 DEF StackOK
\* generic_kprobe_event: a chain starts for a call that has left no trace yet.
LEMMA EntryEvent ==
  ASSUME IInv, NEW t \in Threads, NEW c \in Cpus, NEW f \in Funcs,
         NEW who \in Whos, NEW arg \in Values,
         generic_kprobe_event(t, c, f, who, arg)
  PROVE  IInv'
<1>1. PICK call : call = [n |-> calls + 1, f |-> f, t |-> t, who |-> who, arg |-> arg]
  OBVIOUS
<1>2. /\ calls < MaxCalls /\ Len(stack[t]) < MaxDepth
      /\ ~OnCpu(t) /\ run[c] = Idle
      /\ stack[t] # <<>> => who = Top(t).who
      /\ calls' = calls + 1
      /\ stack' = [stack EXCEPT ![t] = Append(@, call)]
      /\ acts' = Append(acts, <<>>)
      /\ run' = [run EXCEPT ![c] = [t |-> t, at |-> IF who \in InPolicy
                                                    THEN "filter"
                                                    ELSE "override"]]
      /\ heap' = IF who \in InPolicy
                 THEN [heap EXCEPT ![c] = Started(@, call)]
                 ELSE heap
      /\ UNCHANGED <<sels, mode, retprobe_map, override_tasks, events,
                     overridden, lost>>
  BY <1>1 DEF generic_kprobe_event
<1>3. calls \in Nat /\ MaxCalls \in Nat /\ MaxDepth \in Nat /\ calls' \in 0..MaxCalls
  BY <1>2, KprobeAssumption DEF IInv, TypeOK
<1>4. /\ call \in Call /\ call.n = calls + 1 /\ call.f = f /\ call.t = t
      /\ call.who = who /\ call.arg = arg
  BY <1>1, <1>3 DEF Call
<1>5. /\ ThreadOK(t) /\ ~InEntry(t) /\ ~Early(t) /\ Reach(t) = Len(stack[t])
      /\ \A d \in Cpus : run[d].t # t
      /\ t \notin override_tasks /\ EntryOK(t)
      /\ \A i \in DOMAIN stack[t] : Settled(stack[t][i])
  BY <1>2, OffCpu
<1>6. PICK k \in Nat : Enters(t, call, k)
  BY <1>2, <1>4, Pushed
<1>7. /\ k = Len(stack[t]) /\ Len(stack'[t]) = k + 1
      /\ DOMAIN stack[t] = 1..k /\ DOMAIN stack'[t] = 1..(k + 1)
      /\ \A i \in 1..k : stack'[t][i] = stack[t][i]
      /\ stack'[t][k + 1] = call /\ Top(t)' = call
      /\ \A u \in Threads \ {t} : stack'[u] = stack[u]
      /\ stack' \in [Threads -> Seq(Call)]
  BY <1>6 DEF Enters
<1>8. StackOK' /\ \A i \in DOMAIN stack[t] : stack[t][i].who = call.who
  BY <1>2, <1>4, PushedStack
<1>9. PICK at : at = IF who \in InPolicy THEN "filter" ELSE "override"
  OBVIOUS
<1>10. /\ run'[c].t = t /\ run'[c].at = at
       /\ \A d \in Cpus \ {c} : run'[d] = run[d]
       /\ run' \in [Cpus -> [t : Threads \cup {"none"}, at : Places]]
       /\ at \in Places /\ at \in EntryPlaces /\ at # "idle"
       /\ at \notin {"rargs", "ractions", "rsend"} /\ at \notin ReturnPlaces
       /\ at \in EarlyPlaces <=> who \in InPolicy
       /\ run[c].t = "none" /\ run[c].at = "idle"
  <2>1. /\ at \in Places /\ at \in EntryPlaces /\ at # "idle"
        /\ at \notin {"rargs", "ractions", "rsend"} /\ at \notin ReturnPlaces
        /\ at \in EarlyPlaces <=> who \in InPolicy
    BY <1>9 DEF Places, EntryPlaces, ReturnPlaces, EarlyPlaces
  <2>2. run' = [run EXCEPT ![c] = [t |-> t, at |-> at]]
        /\ run \in [Cpus -> [t : Threads \cup {"none"}, at : Places]]
    BY <1>2, <1>9 DEF IInv, TypeOK
  <2> QED
    BY <1>2, <2>1, <2>2 DEF Idle
<1>11. PICK h : h = IF who \in InPolicy THEN Started(heap[c], call) ELSE heap[c]
  OBVIOUS
<1>12. /\ h \in Slot /\ heap'[c] = h /\ heap' \in [Cpus -> Slot]
       /\ \A d \in Cpus \ {c} : heap'[d] = heap[d]
       /\ who \in InPolicy => h.call = call /\ h.curr = 0 /\ h.active = {} /\ h.sel = 0
  <2>1. PICK old : old = heap[c]
    OBVIOUS
  <2>2. old \in Slot /\ heap \in [Cpus -> Slot]
    BY <2>1 DEF IInv, TypeOK
  <2>3. PICK new : new = Started(old, call)
    OBVIOUS
  <2>4. new \in Slot /\ new.call = call /\ new.curr = 0 /\ new.active = {} /\ new.sel = 0
    <3>1. old = [call |-> old.call, curr |-> old.curr, active |-> old.active,
                 sel |-> old.sel, pass |-> old.pass, val |-> old.val]
          /\ old.pass \in 0..MAX_SELECTORS /\ old.val \in Values
      BY <2>2 DEF Slot
    <3>2. new = [call |-> call, curr |-> 0, active |-> {}, sel |-> 0,
                 pass |-> old.pass, val |-> old.val]
      BY <2>3, <3>1 DEF Started
    <3>3. 0 \in 0..MAX_SELECTORS /\ 0 \in 0..MAX_SELECTORS + 1
          /\ {} \in SUBSET (0..MAX_SELECTORS)
      BY DEF MAX_SELECTORS
    <3> QED
      BY <1>4, <3>1, <3>2, <3>3 DEF Slot
  <2>5. CASE who \in InPolicy
    <3>1. h = new /\ heap' = [heap EXCEPT ![c] = new]
      BY <1>2, <1>11, <2>1, <2>3, <2>5
    <3> QED
      BY <2>2, <2>4, <3>1
  <2>6. CASE who \notin InPolicy
    BY <1>2, <1>11, <2>1, <2>2, <2>6
  <2> QED
    BY <2>5, <2>6
<1>13. /\ acts' \in Seq(Outcomes') /\ Len(acts') = calls'
       /\ \A n \in 1..calls : acts'[n] = acts[n]
       /\ acts'[calls + 1] = <<>>
  <2>1. acts \in Seq(Outcomes) /\ Len(acts) = calls /\ <<>> \in Outcomes
    BY DEF IInv, TypeOK, Outcomes
  <2>2. PICK out : out = Outcomes
    OBVIOUS
  <2>3. PICK none : none = <<>>
    OBVIOUS
  <2>4. /\ Append(acts, none) \in Seq(out) /\ Len(Append(acts, none)) = calls + 1
        /\ \A n \in 1..calls : Append(acts, none)[n] = acts[n]
        /\ Append(acts, none)[calls + 1] = none
    BY <1>3, <2>1, <2>2, <2>3
  <2>5. Outcomes' = out
    BY <1>2, <2>2, OutcomesSame
  <2> QED
    BY <1>2, <2>3, <2>4, <2>5
<1>14. TypeOK'
  <2>1. \A u \in Threads : Len(stack'[u]) <= MaxDepth
    BY <1>2, <1>3, <1>7 DEF IInv, TypeOK
  <2>2. overridden' \subseteq 1..calls'
    BY <1>2, <1>3 DEF IInv, TypeOK
  <2> QED
    BY <1>2, <1>3, <1>7, <1>10, <1>12, <1>13, <2>1, <2>2 DEF IInv, TypeOK
<1>15. RunOK'
  <2>1. RunOK /\ t # "none"
    BY KprobeAssumption DEF IInv
  <2> QED
    BY <1>5, <1>10, <2>1 DEF RunOK
<1>16. PostedOK'
  <2>1. SUFFICES ASSUME NEW i \in DOMAIN events', ~events'[i].return
                 PROVE  events'[i].n <= calls'
    BY DEF PostedOK
  <2>2. PICK es, Events : es = events /\
          Events = [n : Nat, f : Funcs, who : Whos, val : Values, return : BOOLEAN]
    OBVIOUS
  <2>3. es \in Seq(Events) /\ i \in DOMAIN es /\ es = events'
    BY <1>2, <2>1, <2>2 DEF IInv, TypeOK
  <2>4. es[i] \in Events
    BY <2>3
  <2>5. es[i].n \in Nat
    BY <2>2, <2>4
  <2>6. es[i].n <= calls
    BY <2>1, <2>2, <2>3 DEF IInv, PostedOK
  <2> QED
    BY <1>2, <1>3, <2>3, <2>5, <2>6
<1>17. (\A n : Posted(n)' <=> Posted(n)) /\ (\A key : SameKey(key))
  BY <1>2 DEF Posted, SameKey
<1>18. \A u \in Threads : \A i \in DOMAIN stack[u] : stack[u][i].n \in 1..calls
  BY DEF IInv, StackOK
<1>19. ASSUME NEW u \in Threads, u # t PROVE ThreadOK(u)'
  <2>1. Leaves(t, u)
    BY <1>2, <1>7, <1>13, <1>17, <1>18, <1>19 DEF Leaves
  <2>2. OnlyCpu(t, c)
    BY <1>10, <1>12 DEF OnlyCpu
  <2> QED
    BY <1>2, <1>19, <2>1, <2>2, OthersStay
<1>20. ThreadOK(t)'
  <2>1. InEntry(t)'
    BY <1>10 DEF InEntry
  <2>2. ASSUME NEW i \in DOMAIN stack'[t], i < Len(stack'[t])
        PROVE  Settled(stack[t][i])'
    <3>1. PICK low : low = stack[t][i]
      OBVIOUS
    <3>2. i \in 1..k
      BY <1>7, <2>2
    <3>3. low = stack'[t][i] /\ Settled(low) /\ low.n \in 1..calls
      BY <1>5, <1>7, <1>18, <3>1, <3>2
    <3>4. Kept(low)
      BY <1>2, <1>13, <1>17, <3>3 DEF Kept
    <3>5. Settled(low)'
      BY <1>2, <3>3, <3>4, SettledKept
    <3> QED
      BY <3>3, <3>5
  <2>3. who \notin InPolicy => <<f, t>> \notin DOMAIN retprobe_map
    <3>1. SUFFICES ASSUME who \notin InPolicy, <<f, t>> \in DOMAIN retprobe_map
                   PROVE  FALSE
      OBVIOUS
    <3>2. PICK i \in DOMAIN stack[t] : Owns(t, f, i)
      BY <1>5, <3>1 DEF EntryOK
    <3>3. PICK own : own = stack[t][i]
      OBVIOUS
    <3>4. own.who = who /\ Filtered(own)
      BY <1>4, <1>8, <3>2, <3>3 DEF Owns
    <3> QED
      BY <3>1, <3>4 DEF Filtered
  <2>4. Reach(t)' = IF who \in InPolicy THEN k ELSE k + 1
    <3>1. Early(t)' <=> who \in InPolicy
      BY <1>5, <1>10 DEF Early
    <3> QED
      BY <1>7, <3>1 DEF Reach
  <2>5. EntryOK(t)'
    <3> SUFFICES ASSUME NEW g \in Funcs, <<g, t>> \in DOMAIN retprobe_map'
                 PROVE  \E i \in DOMAIN stack'[t] : Owns(t, g, i)'
      BY DEF EntryOK
    <3>1. <<g, t>> \in DOMAIN retprobe_map /\ retprobe_map'[<<g, t>>] = retprobe_map[<<g, t>>]
      BY <1>2
    <3>2. PICK i \in DOMAIN stack[t] : Owns(t, g, i)
      BY <1>5, <3>1 DEF EntryOK
    <3>3. PICK own : own = stack[t][i]
      OBVIOUS
    <3>4. i \in 1..k /\ i \in 1..(k + 1) /\ own = stack'[t][i]
      BY <1>7, <3>2, <3>3
    <3>5. Filtered(own)' /\ own.f = g /\ retprobe_map'[<<g, t>>] = own.n
      BY <1>2, <3>1, <3>2, <3>3, Rigid DEF Owns
    <3>6. Filtered(stack[t][i])'
      BY <3>4, <3>5
    <3>7. ASSUME NEW j \in 1..(k + 1), stack'[t][j].f = g, j <= Reach(t)'
          PROVE  j <= i
      <4>1. CASE j = k + 1
        <5>1. who \notin InPolicy
          BY <2>4, <3>7, <4>1
        <5>2. g = f
          BY <1>4, <1>7, <3>7, <4>1
        <5> QED
          BY <2>3, <3>1, <5>1, <5>2
      <4>2. CASE j # k + 1
        <5>1. j \in 1..k
          BY <4>2
        <5>2. stack[t][j].f = g /\ j <= Reach(t) /\ j \in DOMAIN stack[t]
          BY <1>5, <1>7, <3>7, <5>1
        <5> QED
          BY <3>2, <5>2 DEF Owns
      <4> QED
        BY <4>1, <4>2
    <3>8. i <= Reach(t)'
      BY <2>4, <3>4
    <3>9. Owns(t, g, i)'
      BY <1>7, <3>4, <3>5, <3>6, <3>7, <3>8 DEF Owns
    <3> QED
      BY <1>7, <3>4, <3>9
  <2>6. ChainOK(at, h, call)'
    <3>1. ~Posted(call.n)'
      <4>1. ~Posted(call.n)
        <5>1. SUFFICES ASSUME NEW i \in DOMAIN events, events[i].n = call.n,
                              ~events[i].return
                       PROVE  FALSE
          BY DEF Posted
        <5>2. events[i].n <= calls
          BY <5>1 DEF IInv, PostedOK
        <5> QED
          BY <1>3, <1>4, <5>1, <5>2
      <4> QED
        BY <1>17, <4>1
    <3>2. acts'[call.n] = <<>> /\ call.n \notin overridden'
      BY <1>2, <1>3, <1>4, <1>13 DEF IInv, TypeOK
    <3>3. call.t \notin override_tasks'
      BY <1>2, <1>4, <1>5
    <3>4. CASE who \in InPolicy
      <4>1. at = "filter"
        BY <1>9, <3>4
      <4>2. Untouched(call)'
        BY <3>1, <3>2, <3>3 DEF Untouched
      <4>3. FilterOK(h, call)'
        <5>1. Selectors(call.f)' \in Nat
          <6>1. Len(sels[f]) \in 0..6 /\ Selectors(f) = Len(sels[f])
            BY PolicyTypes DEF IInv, TypeOK
          <6> QED
            BY <1>2, <1>4, <6>1 DEF Selectors
        <5>2. {i \in ActiveFor(call)' : i < 0} = {}
          BY DEF ActiveFor, MAX_SELECTORS
        <5> QED
          BY <1>12, <3>4, <5>1, <5>2 DEF FilterOK
      <4> QED
        BY <1>4, <1>12, <3>4, <4>1, <4>2, <4>3 DEF ChainOK
    <3>5. CASE who \notin InPolicy
      <4>1. at = "override"
        BY <1>9, <3>5
      <4>2. ~Accepted(call)' /\ Wanted(call)' = <<>>
        BY <1>4, <3>5 DEF Accepted, Wanted
      <4>3. ~Overrides(<<>>)
        BY DEF Overrides
      <4>4. ~HasEntry(call)'
        BY <1>2, <1>4, <2>3, <3>5 DEF HasEntry, Key
      <4>5. RequestOK(call)'
        BY <3>3, <4>2, <4>3 DEF RequestOK, Overrides
      <4>6. OverrideOK(call)'
        BY <3>1, <3>2, <4>2, <4>4, <4>5 DEF OverrideOK
      <4> QED
        BY <4>1, <4>6 DEF ChainOK
    <3> QED
      BY <3>4, <3>5
  <2>7. \A d \in Cpus : run'[d].t = t => d = c
    BY <1>5, <1>10
  <2>8. stack'[t] # <<>> /\ ChainOK(run[c].at, heap[c], Top(t))'
    BY <1>7, <1>10, <1>12, <2>6
  <2>9. t \notin override_tasks'
    BY <1>2, <1>5
  <2> QED
    BY <1>10, <2>1, <2>2, <2>5, <2>7, <2>8, <2>9 DEF ThreadOK
<1> QED
  BY <1>8, <1>14, <1>15, <1>16, <1>19, <1>20 DEF IInv
\* The stack of a thread that leaves a function it entered from k others.
Leaving(t, k) ==
    /\ k + 1 = Len(stack[t]) /\ Len(stack'[t]) = k
    /\ DOMAIN stack[t] = 1..(k + 1) /\ DOMAIN stack'[t] = 1..k
    /\ \A i \in 1..k : stack'[t][i] = stack[t][i]
    /\ Top(t) = stack[t][k + 1]
    /\ \A u \in Threads \ {t} : stack'[u] = stack[u]
    /\ stack' \in [Threads -> Seq(Call)]

LEMMA Popped ==
  ASSUME IInv, NEW t \in Threads, stack[t] # <<>>,
         stack' = [stack EXCEPT ![t] = SubSeq(@, 1, Len(@) - 1)]
  PROVE  \E k \in Nat : Leaving(t, k)
<1>1. PICK s : s = stack[t]
  OBVIOUS
<1>2. s \in Seq(Call) /\ stack \in [Threads -> Seq(Call)] /\ s # <<>>
  BY <1>1 DEF IInv, TypeOK
<1>3. PICK m \in Nat : m = Len(s)
  BY <1>2
<1>4. PICK k \in Nat : m = k + 1
  <2>1. m # 0
    BY <1>2, <1>3
  <2>2. m - 1 \in Nat /\ m = (m - 1) + 1
    BY <2>1
  <2> QED
    BY <2>2
<1>5. PICK s2 : s2 = SubSeq(s, 1, k)
  OBVIOUS
<1>6. /\ s2 \in Seq(Call) /\ Len(s2) = k /\ DOMAIN s = 1..(k + 1) /\ DOMAIN s2 = 1..k
      /\ \A i \in 1..k : s2[i] = s[i]
  <2>1. DOMAIN s = 1..(k + 1) /\ \A i \in 1..(k + 1) : s[i] \in Call
    <3>1. DOMAIN s = 1..(k + 1)
      <4>1. DOMAIN s = 1..m
        BY <1>2, <1>3
      <4> QED
        BY <1>4, <4>1
    <3>2. \A i \in DOMAIN s : s[i] \in Call
      BY <1>2
    <3> QED
      BY <3>1, <3>2
  <2>2. s2 = [i \in 1..k |-> s[i]]
    BY <1>2, <1>3, <1>4, <1>5
  <2>3. \A i \in 1..k : i \in 1..(k + 1)
    OBVIOUS
  <2>4. s2 \in [1..k -> Call]
    BY <2>1, <2>2, <2>3
  <2>5. s2 \in Seq(Call) /\ Len(s2) = k
    BY <2>4
  <2> QED
    BY <2>1, <2>2, <2>5
<1>7. Len(s) - 1 = k
  BY <1>3, <1>4
<1>8. stack'[t] = s2 /\ (\A u \in Threads \ {t} : stack'[u] = stack[u])
      /\ stack' \in [Threads -> Seq(Call)]
  BY <1>1, <1>2, <1>5, <1>6, <1>7
<1>9. Top(t) = stack[t][k + 1]
  BY <1>1, <1>3, <1>4 DEF Top
<1> QED
  BY <1>1, <1>3, <1>4, <1>6, <1>8, <1>9 DEF Leaving

\* The entry that a return finds is the one of the call that returns.
LEMMA TopOwns ==
  ASSUME IInv, NEW t \in Threads, ~OnCpu(t), stack[t] # <<>>,
         Key(Top(t)) \in DOMAIN retprobe_map
  PROVE  retprobe_map[Key(Top(t))] = Top(t).n
<1>1. PICK s : s = stack[t]
  OBVIOUS
<1>2. s \in Seq(Call) /\ s # <<>>
  BY <1>1 DEF IInv, TypeOK
<1>3. PICK k \in Nat : k = Len(s) /\ k # 0
  BY <1>2
<1>4. DOMAIN stack[t] = 1..k /\ k \in 1..k /\ Top(t) = stack[t][k]
  BY <1>1, <1>2, <1>3 DEF Top
<1>5. PICK call : call = Top(t)
  OBVIOUS
<1>6. call.f \in Funcs /\ Key(call) = <<call.f, t>>
  BY <1>4, <1>5, CallTypes
<1>7. EntryOK(t) /\ Reach(t) = k
  BY <1>1, <1>3, OffCpu
<1>8. PICK i \in DOMAIN stack[t] : Owns(t, call.f, i)
  BY <1>5, <1>6, <1>7 DEF EntryOK
<1>9. k <= i /\ i <= k /\ i \in 1..k
  BY <1>4, <1>5, <1>7, <1>8 DEF Owns
<1>10. i = k
  BY <1>9
<1> QED
  BY <1>4, <1>5, <1>6, <1>8, <1>10 DEF Owns

\* generic_retkprobe_event: the call leaves the stack and its entry the map.
LEMMA ReturnEvent ==
  ASSUME IInv, NEW t \in Threads, NEW c \in Cpus, NEW ret \in Values,
         generic_retkprobe_event(t, c, ret)
  PROVE  IInv'
<1>1. PICK call : call = Top(t)
  OBVIOUS
<1>2. /\ stack[t] # <<>> /\ ~OnCpu(t) /\ run[c] = Idle
      /\ stack' = [stack EXCEPT ![t] = SubSeq(@, 1, Len(@) - 1)]
      /\ UNCHANGED <<sels, mode, calls, override_tasks, events, acts,
                     overridden, lost>>
  BY DEF generic_retkprobe_event
<1>3. \/ /\ Key(call) \in DOMAIN retprobe_map
         /\ run' = [run EXCEPT ![c] = [t |-> t, at |-> "rargs"]]
         /\ heap' = [heap EXCEPT
               ![c].call = [call EXCEPT !.n = retprobe_map[Key(call)]],
               ![c].val = ret]
         /\ retprobe_map' = Cleared(call)
      \/ /\ Key(call) \notin DOMAIN retprobe_map
         /\ UNCHANGED <<run, heap, retprobe_map>>
  BY <1>1 DEF generic_retkprobe_event
<1>4. /\ ThreadOK(t) /\ ~InEntry(t) /\ ~Early(t) /\ Reach(t) = Len(stack[t])
      /\ \A d \in Cpus : run[d].t # t
      /\ t \notin override_tasks /\ EntryOK(t)
      /\ \A i \in DOMAIN stack[t] : Settled(stack[t][i])
  BY <1>2, OffCpu
<1>5. PICK k \in Nat : Leaving(t, k)
  BY <1>2, Popped
<1>6. /\ k + 1 = Len(stack[t]) /\ Len(stack'[t]) = k
      /\ DOMAIN stack[t] = 1..(k + 1) /\ DOMAIN stack'[t] = 1..k
      /\ \A i \in 1..k : stack'[t][i] = stack[t][i]
      /\ call = stack[t][k + 1]
      /\ \A u \in Threads \ {t} : stack'[u] = stack[u]
      /\ stack' \in [Threads -> Seq(Call)]
      /\ k + 1 \in 1..(k + 1) /\ \A i \in 1..k : i \in 1..(k + 1) /\ i # k + 1
  BY <1>1, <1>5 DEF Leaving
<1>7. call \in Call /\ call.f \in Funcs /\ call.t = t /\ Key(call) = <<call.f, t>>
      /\ call.n \in Nat
  BY <1>6, CallTypes
<1>8. /\ Key(call) \notin DOMAIN retprobe_map'
      /\ \A key : key # Key(call) => SameKey(key)
      /\ Key(call) \in DOMAIN retprobe_map => retprobe_map[Key(call)] = call.n
  <2>1. Key(call) \in DOMAIN retprobe_map => retprobe_map[Key(call)] = call.n
    BY <1>1, <1>2, TopOwns
  <2>2. CASE retprobe_map' = Cleared(call)
    BY <2>1, <2>2, ClearedKeys
  <2>3. CASE Key(call) \notin DOMAIN retprobe_map /\ UNCHANGED retprobe_map
    BY <2>3 DEF SameKey
  <2> QED
    BY <1>3, <2>1, <2>2, <2>3
<1>9. /\ heap' \in [Cpus -> Slot] /\ \A d \in Cpus \ {c} : heap'[d] = heap[d]
      /\ run' \in [Cpus -> [t : Threads \cup {"none"}, at : Places]]
      /\ \A d \in Cpus \ {c} : run'[d] = run[d]
      /\ \/ run'[c] = [t |-> t, at |-> "rargs"] /\ heap'[c].call = call
         \/ run'[c] = Idle
  <2>1. heap \in [Cpus -> Slot] /\ run \in [Cpus -> [t : Threads \cup {"none"}, at : Places]]
    BY DEF IInv, TypeOK
  <2>2. CASE /\ Key(call) \in DOMAIN retprobe_map
             /\ run' = [run EXCEPT ![c] = [t |-> t, at |-> "rargs"]]
             /\ heap' = [heap EXCEPT
                   ![c].call = [call EXCEPT !.n = retprobe_map[Key(call)]],
                   ![c].val = ret]
    <3>1. [call EXCEPT !.n = retprobe_map[Key(call)]] = call
      BY <1>7, <1>8, <2>2 DEF Call
    <3>2. PICK old : old = heap[c]
      OBVIOUS
    <3>3. PICK h : h = [old EXCEPT !.call = call, !.val = ret]
      OBVIOUS
    <3>4. old \in Slot
      BY <2>1, <3>2
    <3>5. h \in Slot /\ h.call = call
      BY <1>7, <3>3, <3>4 DEF Slot
    <3>6. heap' = [heap EXCEPT ![c] = h]
      BY <2>1, <2>2, <3>1, <3>2, <3>3
    <3>7. [t |-> t, at |-> "rargs"] \in [t : Threads \cup {"none"}, at : Places]
      BY DEF Places
    <3>8. /\ heap' \in [Cpus -> Slot] /\ heap'[c] = h
          /\ \A d \in Cpus \ {c} : heap'[d] = heap[d]
      BY <2>1, <3>5, <3>6
    <3>9. PICK r : r = [t |-> t, at |-> "rargs"]
      OBVIOUS
    <3>10. run' = [run EXCEPT ![c] = r] /\ r \in [t : Threads \cup {"none"}, at : Places]
      BY <2>2, <3>7, <3>9
    <3>11. /\ run' \in [Cpus -> [t : Threads \cup {"none"}, at : Places]]
           /\ run'[c] = r /\ \A d \in Cpus \ {c} : run'[d] = run[d]
      BY <2>1, <3>10
    <3> QED
      BY <3>5, <3>8, <3>9, <3>11
  <2>3. CASE UNCHANGED <<run, heap>>
    BY <1>2, <2>1, <2>3
  <2> QED
    BY <1>3, <2>2, <2>3
<1>10. TypeOK'
  <2>1. /\ DOMAIN retprobe_map' \subseteq Funcs \X Threads
        /\ IsFiniteSet(DOMAIN retprobe_map')
        /\ Cardinality(DOMAIN retprobe_map') <= RetprobeMax
    BY <1>3, ClearedType DEF IInv, TypeOK
  <2>2. \A u \in Threads : Len(stack'[u]) <= MaxDepth
    <3>1. k <= MaxDepth
      BY <1>6, KprobeAssumption DEF IInv, TypeOK
    <3> QED
      BY <1>6, <3>1 DEF IInv, TypeOK
  <2> QED
    BY <1>2, <1>6, <1>9, <2>1, <2>2, OutcomesSame DEF IInv, TypeOK
<1>11. RunOK'
  <2>1. RunOK /\ t # "none"
    BY KprobeAssumption DEF IInv
  <2> QED
    <3>1. \/ run'[c].t = t /\ run'[c].at = "rargs"
          \/ run'[c].t = "none" /\ run'[c].at = "idle"
      BY <1>9 DEF Idle
    <3>2. \A d \in Cpus : run'[d].at = "idle" <=> run'[d].t = "none"
      BY <1>9, <2>1, <3>1 DEF RunOK
    <3>3. \A d, e \in Cpus : run'[d].t = run'[e].t /\ run'[d].t # "none" => d = e
      BY <1>4, <1>9, <2>1, <3>1 DEF RunOK
    <3> QED
      BY <3>2, <3>3 DEF RunOK
<1>12. StackOK'
  <2>1. StackOK
    BY DEF IInv
  <2>2. \A u \in Threads : \A i \in DOMAIN stack'[u] :
          i \in DOMAIN stack[u] /\ stack'[u][i] = stack[u][i]
    BY <1>6
  <2> QED
    BY <1>2, <2>1, <2>2 DEF StackOK
<1>13. \A n : Posted(n)' <=> Posted(n)
  BY <1>2 DEF Posted
<1>14. ASSUME NEW u \in Threads, u # t PROVE ThreadOK(u)'
  <2>1. \A g \in Funcs : SameKey(<<g, u>>)
    BY <1>7, <1>8, <1>14
  <2>2. Leaves(t, u)
    BY <1>2, <1>6, <1>13, <1>14, <2>1 DEF Leaves
  <2>3. OnlyCpu(t, c)
    BY <1>2, <1>9 DEF OnlyCpu, Idle
  <2> QED
    BY <1>2, <1>14, <2>2, <2>3, OthersStay
<1>15. ThreadOK(t)'
  <2>1. ~InEntry(t)' /\ ~Early(t)' /\ Reach(t)' = k
    <3>1. \A d \in Cpus : run'[d].t = t => run'[d].at = "rargs"
      BY <1>4, <1>9, KprobeAssumption DEF Idle
    <3> QED
      BY <1>6, <3>1 DEF InEntry, Early, EarlyPlaces, Reach
  <2>2. ASSUME NEW i \in DOMAIN stack'[t] PROVE Settled(stack[t][i])'
    <3>1. PICK low : low = stack[t][i]
      OBVIOUS
    <3>2. low = stack'[t][i] /\ i \in DOMAIN stack[t] /\ Settled(low)
      BY <1>4, <1>6, <2>2, <3>1
    <3>3. low.n # call.n
      <4>1. i # k + 1 /\ k + 1 \in DOMAIN stack[t]
        BY <1>6, <2>2
      <4> QED
        BY <1>6, <3>1, <3>2, <4>1 DEF IInv, StackOK
    <3>4. HasEntry(low)' <=> HasEntry(low)
      <4>1. CASE Key(low) = Key(call)
        BY <1>8, <3>3, <4>1 DEF HasEntry, Key
      <4>2. CASE Key(low) # Key(call)
        BY <1>8, <4>2 DEF HasEntry, SameKey, Key
      <4> QED
        BY <4>1, <4>2
    <3>5. Accepted(low)' = Accepted(low) /\ Wanted(low)' = Wanted(low)
      BY <1>2, Rigid
    <3>6. Settled(low)'
      BY <1>2, <1>13, <3>2, <3>4, <3>5 DEF Settled, Posts, Overrides
    <3> QED
      BY <3>2, <3>6
  <2>3. EntryOK(t)'
    <3> SUFFICES ASSUME NEW g \in Funcs, <<g, t>> \in DOMAIN retprobe_map'
                 PROVE  \E i \in DOMAIN stack'[t] : Owns(t, g, i)'
      BY DEF EntryOK
    <3>1. g # call.f
      BY <1>7, <1>8
    <3>2. <<g, t>> \in DOMAIN retprobe_map /\ retprobe_map'[<<g, t>>] = retprobe_map[<<g, t>>]
      BY <1>7, <1>8, <3>1 DEF SameKey
    <3>3. PICK i \in DOMAIN stack[t] : Owns(t, g, i)
      BY <1>4, <3>2 DEF EntryOK
    <3>4. PICK own : own = stack[t][i]
      OBVIOUS
    <3>5. i \in 1..k
      <4>1. i # k + 1 /\ i \in 1..(k + 1)
        BY <1>6, <3>1, <3>3 DEF Owns
      <4> QED
        BY <4>1
    <3>6. own = stack'[t][i] /\ own.f = g /\ retprobe_map'[<<g, t>>] = own.n
      BY <1>6, <3>2, <3>3, <3>4, <3>5 DEF Owns
    <3>7. Filtered(own)'
      BY <1>2, <3>3, <3>4, Rigid DEF Owns
    <3>8. Filtered(stack[t][i])'
      BY <3>6, <3>7
    <3>9. \A j \in 1..k : stack'[t][j].f = g => j <= i
      <4>1. SUFFICES ASSUME NEW j \in 1..k, stack'[t][j].f = g PROVE j <= i
        OBVIOUS
      <4>2. j \in DOMAIN stack[t] /\ stack[t][j].f = g
        BY <1>6, <4>1
      <4>3. j <= Reach(t)
        BY <1>4, <1>6, <4>1
      <4> QED
        BY <3>3, <4>2, <4>3 DEF Owns
    <3>10. i <= k
      BY <3>5
    <3>11. Owns(t, g, i)'
      BY <1>6, <2>1, <3>5, <3>6, <3>8, <3>9, <3>10 DEF Owns
    <3> QED
      BY <1>6, <3>5, <3>11
  <2>4. t \notin override_tasks'
    BY <1>2, <1>4
  <2>5. ASSUME NEW d \in Cpus, run'[d].t = t
        PROVE  /\ run'[d].at \notin EntryPlaces
               /\ heap'[d].call.t = t /\ (Key(heap[d].call) \notin DOMAIN retprobe_map)'
    <3>1. d = c
      BY <1>4, <1>9, <2>5
    <3>2. run'[c] = [t |-> t, at |-> "rargs"] /\ heap'[c].call = call
      BY <1>9, <2>5, <3>1, KprobeAssumption DEF Idle
    <3>3. run'[c].at \notin EntryPlaces
      BY <3>2 DEF EntryPlaces
    <3> QED
      BY <1>7, <1>8, <3>1, <3>2, <3>3 DEF Key
  <2> QED
    BY <2>1, <2>2, <2>3, <2>4, <2>5 DEF ThreadOK
<1> QED
  BY <1>2, <1>10, <1>11, <1>12, <1>14, <1>15, PostedSame DEF IInv
(***************************************************************************)
(* The invariant.                                                          *)
(***************************************************************************)

\* No call has been made, no map has an entry.
LEMMA InitIInv ==
  ASSUME Init
  PROVE  IInv
<1>1. Empty \in Slot
  <2>1. PICK f : f = CHOOSE g \in Funcs : TRUE
    OBVIOUS
  <2>2. PICK t : t = CHOOSE u \in Threads : TRUE
    OBVIOUS
  <2>3. PICK who : who = CHOOSE w \in Whos : TRUE
    OBVIOUS
  <2>4. f \in Funcs /\ t \in Threads /\ who \in Whos /\ Err \in Values
    BY <2>1, <2>2, <2>3, KprobeAssumption
  <2>5. PICK call : call = [n |-> 0, f |-> f, t |-> t, who |-> who, arg |-> Err]
    OBVIOUS
  <2>6. call \in Call
    BY <2>4, <2>5 DEF Call
  <2>7. Empty = [call |-> call, curr |-> 0, active |-> {}, sel |-> 0, pass |-> 0, val |-> Err]
    BY <2>1, <2>2, <2>3, <2>5 DEF Empty
  <2>8. 0 \in 0..MAX_SELECTORS /\ 0 \in 0..MAX_SELECTORS + 1
        /\ {} \in SUBSET (0..MAX_SELECTORS)
    BY DEF MAX_SELECTORS
  <2> QED
    BY <2>4, <2>6, <2>7, <2>8 DEF Slot
<1>2. /\ sels \in Policies /\ mode \in BOOLEAN /\ calls = 0
      /\ stack = [t \in Threads |-> <<>>] /\ run = [c \in Cpus |-> Idle]
      /\ heap = [c \in Cpus |-> Empty] /\ retprobe_map = <<>>
      /\ override_tasks = {} /\ events = <<>> /\ acts = <<>>
      /\ overridden = {} /\ lost = {}
  BY DEF Init
<1>3. \A c \in Cpus : run[c].t = "none" /\ run[c].at = "idle"
  BY <1>2 DEF Idle
<1>4. DOMAIN retprobe_map = {}
  BY <1>2
<1>5. \A t \in Threads : stack[t] = <<>> /\ Len(stack[t]) = 0 /\ DOMAIN stack[t] = {}
  BY <1>2
<1>6. TypeOK
  <2>1. IsFiniteSet(DOMAIN retprobe_map) /\ Cardinality(DOMAIN retprobe_map) = 0
    BY <1>4, FS_EmptySet
  <2>2. MaxCalls \in Nat /\ MaxDepth \in Nat /\ RetprobeMax \in Nat
    BY KprobeAssumption
  <2>3. stack \in [Threads -> Seq(Call)]
    BY <1>2
  <2>4. Idle \in [t : Threads \cup {"none"}, at : Places]
    BY DEF Idle, Places
  <2>5. run \in [Cpus -> [t : Threads \cup {"none"}, at : Places]]
    BY <1>2, <2>4
  <2>6. heap \in [Cpus -> Slot]
    BY <1>1, <1>2
  <2>7. acts \in Seq(Outcomes) /\ Len(acts) = calls
    BY <1>2
  <2>8. events \in Seq([n : Nat, f : Funcs, who : Whos, val : Values, return : BOOLEAN])
    BY <1>2
  <2>9. calls \in 0..MaxCalls /\ \A t \in Threads : Len(stack[t]) <= MaxDepth
    BY <1>2, <1>5, <2>2
  <2>10. Cardinality(DOMAIN retprobe_map) <= RetprobeMax
         /\ DOMAIN retprobe_map \subseteq Funcs \X Threads
    BY <1>4, <2>1, <2>2
  <2> QED
    BY <1>2, <2>1, <2>3, <2>5, <2>6, <2>7, <2>8, <2>9, <2>10 DEF TypeOK
<1>7. RunOK
  BY <1>3 DEF RunOK
<1>8. StackOK
  BY <1>5 DEF StackOK
<1>9. PostedOK
  BY <1>2 DEF PostedOK
<1>10. ASSUME NEW t \in Threads PROVE ThreadOK(t)
  <2>1. EntryOK(t)
    BY <1>4 DEF EntryOK
  <2>2. \A c \in Cpus : run[c].t # t
    BY <1>3, KprobeAssumption
  <2> QED
    BY <1>2, <1>5, <2>1, <2>2 DEF ThreadOK
<1> QED
  BY <1>6, <1>7, <1>8, <1>9, <1>10 DEF IInv

\* A step that changes nothing.
LEMMA StutterIInv ==
  ASSUME IInv, UNCHANGED vars
  PROVE  IInv'
<1>1. UNCHANGED <<sels, mode, stack, calls, run, heap, retprobe_map, override_tasks,
                  events, acts, overridden, lost>>
  BY DEF vars
<1>2. TypeOK' /\ RunOK' /\ StackOK' /\ PostedOK'
  BY <1>1, OutcomesSame DEF IInv, TypeOK, RunOK, StackOK, PostedOK
<1>3. ASSUME NEW u \in Threads PROVE ThreadOK(u)'
  <2>1. \A n : Posted(n)' <=> Posted(n)
    BY <1>1 DEF Posted
  <2>2. Stays(u)
    BY <1>1, <2>1 DEF Stays, Kept, SameKey
  <2> QED
    BY <1>1, <1>3, <2>2, ThreadStays
<1> QED
  BY <1>2, <1>3 DEF IInv

\* Every step preserves the invariant.
LEMMA StepIInv ==
  ASSUME NoFailures, IInv, [Next]_vars
  PROVE  IInv'
<1>1. ASSUME NEW t \in Threads, NEW c \in Cpus, NEW f \in Funcs, NEW who \in Whos,
             NEW arg \in Values, generic_kprobe_event(t, c, f, who, arg)
      PROVE  IInv'
  BY <1>1, EntryEvent
<1>2. ASSUME NEW t \in Threads, NEW c \in Cpus, NEW ret \in Values,
             generic_retkprobe_event(t, c, ret)
      PROVE  IInv'
  BY <1>2, ReturnEvent
<1>3. ASSUME NEW c \in Cpus, generic_kprobe_process_filter(c) PROVE IInv'
  BY <1>3, FilterProgram
<1>4. ASSUME NEW c \in Cpus, generic_kprobe_setup_event(c) PROVE IInv'
  BY <1>4, SetupProgram
<1>5. ASSUME NEW c \in Cpus, generic_kprobe_process_event(c) PROVE IInv'
  BY <1>5, ProcessProgram
<1>6. ASSUME NEW c \in Cpus, generic_kprobe_filter_arg(c) PROVE IInv'
  BY <1>6, ArgsProgram
<1>7. ASSUME NEW c \in Cpus, generic_kprobe_actions(c) PROVE IInv'
  BY <1>7, ActionsProgram
<1>8. ASSUME NEW c \in Cpus, generic_kprobe_output(c) PROVE IInv'
  BY <1>8, OutputProgram
<1>9. ASSUME NEW c \in Cpus, generic_kprobe_override(c) PROVE IInv'
  BY <1>9, OverrideProgram
<1>10. ASSUME NEW c \in Cpus, generic_retkprobe_filter_arg(c) PROVE IInv'
  BY <1>10, ReturnArgsProgram
<1>11. ASSUME NEW c \in Cpus, generic_retkprobe_actions(c) PROVE IInv'
  BY <1>11, ReturnActionsProgram
<1>12. ASSUME NEW c \in Cpus, generic_retkprobe_output(c) PROVE IInv'
  BY <1>12, ReturnOutputProgram
<1>13. ASSUME UNCHANGED vars PROVE IInv'
  BY <1>13, StutterIInv
<1> QED
  BY <1>1, <1>2, <1>3, <1>4, <1>5, <1>6, <1>7, <1>8, <1>9, <1>10, <1>11, <1>12, <1>13
  DEF Next

\* IInv is an invariant of the specification.
LEMMA InvariantHolds ==
  ASSUME NoFailures
  PROVE  Spec => []IInv
<1>1. Init => IInv
  BY InitIInv
<1>2. IInv /\ [Next]_vars => IInv'
  BY StepIInv
<1> QED
  BY <1>1, <1>2, PTL DEF Spec

(***************************************************************************)
(* The theorems.                                                           *)
(***************************************************************************)

\* A call that a thread is inside of, its entry chain behind it, is settled.
LEMMA InsideSettled ==
  ASSUME IInv, NEW call \in Inside
  PROVE  Settled(call)
<1>1. PICK t \in Threads : call \in {stack[t][i] : i \in DOMAIN stack[t]}
                                      \ (IF InEntry(t) THEN {Top(t)} ELSE {})
  BY DEF Inside
<1>2. PICK i \in DOMAIN stack[t] : call = stack[t][i]
  BY <1>1
<1>3. InEntry(t) => i < Len(stack[t])
  <2>1. SUFFICES ASSUME InEntry(t) PROVE i < Len(stack[t])
    OBVIOUS
  <2>2. call # Top(t)
    BY <1>1, <2>1
  <2>3. i # Len(stack[t])
    BY <1>2, <2>2 DEF Top
  <2>4. stack[t] \in Seq(Call)
    BY DEF IInv, TypeOK
  <2>5. PICK s : s = stack[t]
    OBVIOUS
  <2>6. PICK k \in Nat : k = Len(s) /\ DOMAIN s = 1..k
    BY <2>4, <2>5
  <2>7. i \in 1..k /\ i # k
    BY <1>2, <2>3, <2>5, <2>6
  <2> QED
    BY <2>5, <2>6, <2>7
<1> QED
  BY <1>2, <1>3 DEF IInv, ThreadOK

\* Type correctness: every variable keeps its type and the selector indexes
\* stay within the masks, for every policy that ParseMatchActions takes.
THEOREM KprobeTypeCorrect ==
  ASSUME NoFailures
  PROVE  Spec => []TypeOK
<1>1. IInv => TypeOK
  BY DEF IInv
<1> QED
  BY <1>1, InvariantHolds, PTL

\* The entry event of a call is posted exactly when the first selector that
\* matches it wants it (generic_kprobe_process_filter .. generic_kprobe_output).
THEOREM FirstMatchCorrect ==
  ASSUME NoFailures
  PROVE  Spec => []FirstMatch
<1>1. IInv => FirstMatch
  BY InsideSettled DEF FirstMatch, Settled, Posted
<1> QED
  BY <1>1, InvariantHolds, PTL

\* A call executes the list of its first matching selector, in order and once,
\* and is overridden exactly when that list says so (do_actions, override_tasks).
THEOREM ListExecutedCorrect ==
  ASSUME NoFailures
  PROVE  Spec => []ListExecuted
<1>1. IInv => ListExecuted
  BY InsideSettled DEF ListExecuted, Settled, Overrides
<1> QED
  BY <1>1, InvariantHolds, PTL

\* retprobe_map has the entry of a call that was not lost exactly when the
\* call was accepted (retprobe_map_set, retprobe_map_clear).
THEOREM MarkedCorrect ==
  ASSUME NoFailures
  PROVE  Spec => []Marked
<1>1. IInv => Marked
  BY InsideSettled DEF Marked, Settled, HasEntry
<1> QED
  BY <1>1, InvariantHolds, PTL

\* Paired as a formula about one step.
Pairs ==
    \A t \in Threads, c \in Cpus :
        Len(stack'[t]) < Len(stack[t]) /\ run'[c].t = t
            => heap'[c].call.n = Top(t).n

\* Only a return makes a stack shorter.
LEMMA OnlyReturns ==
  ASSUME IInv, [Next]_vars, NEW t \in Threads, Len(stack'[t]) < Len(stack[t])
  PROVE  \E c \in Cpus, ret \in Values : generic_retkprobe_event(t, c, ret)
<1>1. PICK k \in Nat : k = Len(stack[t])
  <2>1. PICK s : s = stack[t] /\ s \in Seq(Call)
    BY DEF IInv, TypeOK
  <2> QED
    BY <2>1
<1>2. stack'[t] # stack[t]
  BY <1>1
<1>3. ASSUME NEW u \in Threads, NEW c \in Cpus, NEW f \in Funcs, NEW who \in Whos,
             NEW arg \in Values, generic_kprobe_event(u, c, f, who, arg)
      PROVE  FALSE
  <2>1. PICK call : call = [n |-> calls + 1, f |-> f, t |-> u, who |-> who, arg |-> arg]
    OBVIOUS
  <2>2. calls \in Nat /\ stack' = [stack EXCEPT ![u] = Append(@, call)]
    BY <1>3, <2>1 DEF generic_kprobe_event, IInv, TypeOK
  <2>3. call \in Call
    BY <2>1, <2>2 DEF Call
  <2>4. PICK m \in Nat : Enters(u, call, m)
    BY <2>2, <2>3, Pushed
  <2>5. u = t => Len(stack'[t]) = k + 1
    BY <1>1, <2>4 DEF Enters
  <2>6. u # t => stack'[t] = stack[t]
    BY <2>4 DEF Enters
  <2> QED
    BY <1>1, <1>2, <2>5, <2>6
<1>4. ASSUME NEW u \in Threads, NEW c \in Cpus, NEW ret \in Values,
             generic_retkprobe_event(u, c, ret), u # t
      PROVE  FALSE
  <2>1. stack[u] # <<>> /\ stack' = [stack EXCEPT ![u] = SubSeq(@, 1, Len(@) - 1)]
    BY <1>4 DEF generic_retkprobe_event
  <2>2. PICK m \in Nat : Leaving(u, m)
    BY <2>1, Popped
  <2>3. stack'[t] = stack[t]
    BY <1>4, <2>2 DEF Leaving
  <2> QED
    BY <1>2, <2>3
<1>5. ASSUME NEW c \in Cpus,
             \/ generic_kprobe_process_filter(c) \/ generic_kprobe_setup_event(c)
             \/ generic_kprobe_process_event(c) \/ generic_kprobe_filter_arg(c)
             \/ generic_kprobe_actions(c) \/ generic_kprobe_output(c)
             \/ generic_kprobe_override(c) \/ generic_retkprobe_filter_arg(c)
             \/ generic_retkprobe_actions(c) \/ generic_retkprobe_output(c)
      PROVE  FALSE
  <2>1. stack' = stack
    BY <1>5 DEF generic_kprobe_process_filter, generic_kprobe_setup_event,
                generic_kprobe_process_event, generic_kprobe_filter_arg,
                generic_kprobe_actions, generic_kprobe_output,
                generic_kprobe_override, generic_retkprobe_filter_arg,
                generic_retkprobe_actions, generic_retkprobe_output,
                generic_filter_arg
  <2> QED
    BY <1>2, <2>1
<1>6. ~UNCHANGED vars
  BY <1>2 DEF vars
<1> QED
  BY <1>3, <1>4, <1>5, <1>6 DEF Next

\* A return program that finds an entry in retprobe_map finds the one of the
\* call that returns (retprobe_map_get in generic_retprobe).
THEOREM PairedCorrect ==
  ASSUME NoFailures
  PROVE  Spec => Paired
<1>1. IInv /\ [Next]_vars => [Pairs]_vars
  <2>1. SUFFICES ASSUME IInv, [Next]_vars, NEW t \in Threads, NEW c \in Cpus,
                        Len(stack'[t]) < Len(stack[t]), run'[c].t = t
                 PROVE  heap'[c].call.n = Top(t).n
    BY DEF Pairs
  <2>2. PICK d \in Cpus, ret \in Values : generic_retkprobe_event(t, d, ret)
    BY <2>1, OnlyReturns
  <2>3. PICK call : call = Top(t)
    OBVIOUS
  <2>4. stack[t] # <<>> /\ ~OnCpu(t) /\ run[d] = Idle
    BY <2>2 DEF generic_retkprobe_event
  <2>5. run[c].t # t
    BY <2>4 DEF OnCpu
  <2>6. /\ Key(call) \in DOMAIN retprobe_map
        /\ run' = [run EXCEPT ![d] = [t |-> t, at |-> "rargs"]]
        /\ heap' = [heap EXCEPT
              ![d].call = [call EXCEPT !.n = retprobe_map[Key(call)]],
              ![d].val = ret]
    BY <2>1, <2>2, <2>3, <2>5 DEF generic_retkprobe_event
  <2>7. c = d
    BY <2>1, <2>5, <2>6 DEF IInv, TypeOK
  <2>8. retprobe_map[Key(call)] = call.n
    BY <2>1, <2>3, <2>4, <2>6, TopOwns
  <2>9. PICK h : h = heap[d]
    OBVIOUS
  <2>10. h \in Slot /\ heap \in [Cpus -> Slot]
    BY <2>1, <2>9 DEF IInv, TypeOK
  <2>11. call \in Call
    <3>1. PICK s : s = stack[t] /\ s \in Seq(Call) /\ s # <<>>
      BY <2>1, <2>4 DEF IInv, TypeOK
    <3> QED
      BY <2>3, <3>1 DEF Top
  <2>12. PICK named : named = [call EXCEPT !.n = retprobe_map[Key(call)]]
    OBVIOUS
  <2>13. named.n = call.n
    BY <2>8, <2>11, <2>12 DEF Call
  <2>14. heap'[d].call = named
    BY <2>6, <2>9, <2>10, <2>12 DEF Slot
  <2> QED
    BY <2>3, <2>7, <2>13, <2>14
<1>2. Spec => [][Pairs]_vars
  BY <1>1, InvariantHolds, PTL DEF Spec
<1>3. Pairs <=> \A t \in Threads, c \in Cpus :
          Len(stack'[t]) < Len(stack[t]) /\ run'[c].t = t
              => heap'[c].call.n = Top(t).n
  BY DEF Pairs
<1> QED
  BY <1>2, <1>3, PTL DEF Paired
=============================================================================
