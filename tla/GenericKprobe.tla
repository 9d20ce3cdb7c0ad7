---------------------------- MODULE GenericKprobe ----------------------------
(***************************************************************************)
(* The generic kprobe and its return probe, bpf/process/generic_calls.h,   *)
(* bpf_generic_kprobe.c and bpf_generic_retkprobe.c, with retprobe_map.h   *)
(* and the selector walk of pfilter.h and types/basic.h.                   *)
(*                                                                         *)
(* A call of a hooked function runs a chain of BPF programs on the CPU of  *)
(* the calling thread, each started by a tail call of the one before:      *)
(* filter (once per selector), setup, process, args (once per active       *)
(* selector), actions, send.  Then the override program may replace the    *)
(* call, the function runs, and its return runs the return program with a  *)
(* chain of its own.  One program of a chain is one action here.  Chains   *)
(* of different CPUs interleave; the chains of one CPU follow each other   *)
(* and share that CPU's slot of process_call_heap, which is a map of the   *)
(* sensor: entry and return programs of all its functions use it.          *)
(*                                                                         *)
(* Processes, arguments and return values are members of small sets.  A    *)
(* selector says which processes pass its matchPIDs .. matchBinaries       *)
(* sections, which arguments its matchArgs and which return values its     *)
(* matchReturnArgs, and lists its actions.                                 *)
(***************************************************************************)
EXTENDS Integers, Sequences, FiniteSets, Functions, FiniteSetsExt

CONSTANTS
    Cpus, Threads, Funcs,
    Whos,          \* what process filters can tell about a calling process
    InPolicy,      \* the processes that policy_filter_check lets pass
    Values,        \* arguments and return values
    Unread,        \* arguments that read_arg fails on: an fd nobody followed
    Err,           \* the error of the Override action
    Policies,      \* the candidate selector lists: functions on Funcs
    MaxCalls,      \* bound on the calls of a behaviour
    MaxDepth,      \* bound on the hooked functions a thread is inside of
    RetprobeMax,   \* max_entries of retprobe_map
    Followed       \* does UnfollowFD find its fd in fdinstall_map?

ASSUME KprobeAssumption ==
    /\ InPolicy \subseteq Whos /\ Unread \subseteq Values /\ Err \in Values
    /\ {MaxCalls, MaxDepth, RetprobeMax} \subseteq Nat
    /\ Followed \in BOOLEAN
    /\ Funcs # {} /\ Threads # {} /\ Whos # {} /\ "none" \notin Threads

VARIABLES
    sels,          \* filter_map: function -> its list of selectors
    mode,          \* policy_conf: TRUE in enforce mode
    stack,         \* thread -> the hooked calls it is inside of, last on top
    calls,         \* the calls made so far; a call's number is its ktime
    run,           \* cpu -> the chain running there: thread and next program
    heap,          \* cpu -> its slot of process_call_heap
    retprobe_map,  \* (function, thread) -> ktime of the entry
    override_tasks,\* the threads whose call is to be overridden
    events,        \* the ring buffer: events posted, in order
    acts,          \* call number -> actions its entry executed, in order
    overridden,    \* the calls that override_return replaced
    lost           \* history: calls whose entry in retprobe_map was replaced
                   \* by an inner call's, or for which there was no room

vars == <<sels, mode, stack, calls, run, heap, retprobe_map, override_tasks,
          events, acts, overridden, lost>>

MAX_SELECTORS == 5
MAX_ACTIONS == 3

Selector == [procs : SUBSET Whos, args : SUBSET Values, rets : SUBSET Values,
             acts : Seq(STRING), racts : Seq(STRING)]

(* ParseMatchActions takes at most three actions; six selectors are what   *)
(* the indexes 0..MAX_SELECTORS tell apart, the documentation allows five. *)
ASSUME PolicyAssumption ==
    \A policy \in Policies :
        /\ policy \in [Funcs -> Seq(Selector)]
        /\ \A f \in Funcs :
              /\ Len(policy[f]) <= MAX_SELECTORS + 1
              /\ \A i \in DOMAIN policy[f] : Len(policy[f][i].acts) <= MAX_ACTIONS

Call == [n : Nat, f : Funcs, t : Threads, who : Whos, arg : Values]

Idle == [t |-> "none", at |-> "idle"]
OnCpu(t) == \E c \in Cpus : run[c].t = t
Top(t) == stack[t][Len(stack[t])]
Selectors(f) == Len(sels[f])

(***************************************************************************)
(* The entry chain.                                                        *)
(***************************************************************************)

(* Mutant: the selector index of the chain before is not reset.            *)
KeepsIndex(h, call) == [h EXCEPT !.call = call, !.curr = 0, !.active = {}]

(* What generic_start_process_filter leaves in the slot: the call, no      *)
(* selector active, both indexes at zero.  `pass' and `val' keep what the  *)
(* chain before left there.                                                *)
Started(h, call) ==
    [h EXCEPT !.call = call, !.curr = 0, !.active = {}, !.sel = 0]

(* generic_kprobe_event: thread t calls f.  A call made from inside        *)
(* another one is made by the same process.                                *)
generic_kprobe_event(t, c, f, who, arg) ==
    LET call == [n |-> calls + 1, f |-> f, t |-> t, who |-> who, arg |-> arg]
    IN  /\ calls < MaxCalls /\ Len(stack[t]) < MaxDepth
        /\ ~OnCpu(t) /\ run[c] = Idle
        /\ stack[t] # <<>> => /\ who = Top(t).who
                              /\ Top(t).n \notin overridden
        /\ calls' = calls + 1
        /\ stack' = [stack EXCEPT ![t] = Append(@, call)]
        /\ acts' = Append(acts, <<>>)
        /\ run' = [run EXCEPT ![c] = [t |-> t, at |-> IF who \in InPolicy
                                                      THEN "filter"
                                                      ELSE "override"]]
        /\ heap' = IF who \in InPolicy
                   THEN [heap EXCEPT ![c] = Started(@, call)]
                   ELSE heap
        /\ UNCHANGED <<sels, mode, retprobe_map, override_tasks, events,
                       overridden, lost>>

Jump(c, at) == run' = [run EXCEPT ![c].at = at]

(* The end of the entry chain: the override program, attached to the same  *)
(* function, runs next.                                                    *)
EntryEnd(c) == Jump(c, "override")

(* selector_process_filter: all the sections about the process, from       *)
(* matchPIDs to matchBinaries, let it pass.                                *)
selector_process_filter(sel, who) == who \in sel.procs

(* generic_process_filter for selector sel.curr, and what                  *)
(* generic_kprobe_process_filter does with its verdict: the same program   *)
(* again, setup, or drop the event.                                        *)
FilterStep(h) ==
    LET n == Selectors(h.call.f) IN
    IF h.curr > MAX_SELECTORS \/ n <= h.curr THEN h
    ELSE [h EXCEPT !.curr = @ + 1,
                   !.active = IF selector_process_filter(sels[h.call.f][h.curr + 1],
                                                         h.call.who)
                              THEN @ \cup {h.curr} ELSE @]

FilterDone(h) ==
    LET n == Selectors(h.call.f) IN
    h.curr > MAX_SELECTORS \/ n <= h.curr

generic_kprobe_process_filter(c) ==
    /\ run[c].at = "filter"
    /\ heap' = [heap EXCEPT ![c] = FilterStep(@)]
    /\ \/ /\ ~FilterDone(heap[c])
          /\ UNCHANGED run
       \/ /\ FilterDone(heap[c])
          /\ Selectors(heap[c].call.f) = 0 \/ heap[c].active # {}
          /\ Jump(c, "setup")
       \/ /\ FilterDone(heap[c])
          /\ Selectors(heap[c].call.f) > 0 /\ heap[c].active = {}
          /\ EntryEnd(c)
    /\ UNCHANGED <<sels, mode, stack, calls, retprobe_map, override_tasks,
                   events, acts, overridden, lost>>

Key(call) == <<call.f, call.t>>

HasRoom(call) == \/ Key(call) \in DOMAIN retprobe_map
                 \/ Cardinality(DOMAIN retprobe_map) < RetprobeMax

WithEntry(call) == [k \in DOMAIN retprobe_map \cup {Key(call)} |->
                       IF k = Key(call) THEN call.n ELSE retprobe_map[k]]

(* The calls that lose their entry to call, or call itself.                *)
Loses(call) ==
    IF ~HasRoom(call) THEN {call.n}
    ELSE {retprobe_map[k] : k \in DOMAIN retprobe_map \cap {Key(call)}}

(* Mutant: the entry that is there stays (BPF_NOEXIST).                    *)
KeepFirst(call) ==
    /\ retprobe_map' = IF HasRoom(call) /\ Key(call) \notin DOMAIN retprobe_map
                       THEN WithEntry(call) ELSE retprobe_map
    /\ lost' = lost \cup Loses(call)

(* retprobe_map_set: an entry of the same key is replaced, an update that  *)
(* fails because the map is full is only counted.                          *)
retprobe_map_set(call) ==
    /\ retprobe_map' = IF HasRoom(call) THEN WithEntry(call) ELSE retprobe_map
    /\ lost' = lost \cup Loses(call)

(* Mutant: a rejected call keeps its entry.                                *)
NotCleared(call) == retprobe_map

(* retprobe_map_clear, and the delete in retprobe_map_get.                 *)
Cleared(call) == Restrict(retprobe_map, DOMAIN retprobe_map \ {Key(call)})

(* generic_process_event_and_setup: every function here has `return: true',*)
(* so the return is marked before any argument has been read.              *)
generic_kprobe_setup_event(c) ==
    /\ run[c].at = "setup"
    /\ retprobe_map_set(heap[c].call)
    /\ Jump(c, "process")
    /\ UNCHANGED <<sels, mode, stack, calls, heap, override_tasks, events,
                   acts, overridden>>

(* read_arg can tell the argument: of all types only an fd that nobody     *)
(* followed is an error.                                                   *)
Readable(arg) == arg \notin Unread

(* generic_process_event: read the argument; a failure is a rejection.     *)
generic_kprobe_process_event(c) ==
    LET call == heap[c].call IN
    /\ run[c].at = "process"
    /\ \/ /\ Readable(call.arg)
          /\ heap' = [heap EXCEPT ![c].val = call.arg]
          /\ Jump(c, "args")
          /\ UNCHANGED retprobe_map
       \/ /\ ~Readable(call.arg)
          /\ retprobe_map' = Cleared(call)
          /\ EntryEnd(c)
          /\ UNCHANGED heap
    /\ UNCHANGED <<sels, mode, stack, calls, override_tasks, events, acts,
                   overridden, lost>>

(* next_selidx: the next active selector, or one past the last.            *)
next_selidx(active, i) ==
    LET later == {j \in active : j > i} IN
    IF later = {} THEN MAX_SELECTORS + 1 ELSE Min(later)

(* selector_arg_offset: whether selector i matches the value.  On the      *)
(* return side the active set may belong to another function with more     *)
(* selectors: the offsets then read whatever bytes filter_map holds there, *)
(* so both answers are possible.                                           *)
selector_arg_offset(h, i, entry) ==
    LET list == sels[h.call.f]
    IN  IF i >= Len(list) THEN BOOLEAN
        ELSE {h.val \in IF entry THEN list[i + 1].args ELSE list[i + 1].rets}

(* filter_args: "accept" without active selectors, "actions" when selector *)
(* i is active and matches, "next" otherwise.                              *)
filter_args(h, i, entry) ==
    IF h.active = {} THEN {"accept"}
    ELSE {IF i \in h.active /\ matches THEN "actions" ELSE "next" :
             matches \in selector_arg_offset(h, i, entry)}

(* generic_filter_arg, as the entry chain (entry) and the return chain run *)
(* it: next selector, reject, actions of the selector that matched, or     *)
(* send.                                                                   *)
generic_filter_arg(c, entry, at, actions, send) ==
    LET h == heap[c]
        i == h.sel
        next == next_selidx(h.active, i)
    IN  /\ run[c].at = at
        /\ \E verdict \in filter_args(h, i, entry) :
              \/ /\ verdict = "next" /\ next <= MAX_SELECTORS
                 /\ heap' = [heap EXCEPT ![c].sel = next]
                 /\ UNCHANGED <<run, retprobe_map>>
              \/ /\ verdict = "next" /\ next > MAX_SELECTORS
                 /\ retprobe_map' = Cleared(h.call)
                 /\ IF entry THEN EntryEnd(c)
                             ELSE run' = [run EXCEPT ![c] = Idle]
                 /\ UNCHANGED heap
              \/ /\ verdict = "actions"
                 /\ heap' = [heap EXCEPT ![c].pass = i]
                 /\ Jump(c, actions)
                 /\ UNCHANGED retprobe_map
              \/ /\ verdict = "accept"
                 /\ Jump(c, send)
                 /\ UNCHANGED <<heap, retprobe_map>>
        /\ UNCHANGED <<sels, mode, stack, calls, override_tasks, events, acts,
                       overridden, lost>>

generic_kprobe_filter_arg(c) ==
    generic_filter_arg(c, TRUE, "args", "actions", "send")

(* do_action fails only where a map has nothing to delete.                 *)
Fails(action) == action = "UnfollowFD" /\ ~Followed

(* The actions that do_actions executes for a selector's list: at most     *)
(* MAX_ACTIONS, one after the other; do_action answers a failure with 0,   *)
(* which is the index the loop goes on with.                               *)
Index(list) ==
    LET next(i) == IF Fails(list[i]) THEN 1 ELSE i + 1
        second == next(1)
        third == next(second)
    IN  IF list = <<>> THEN <<>>
        ELSE IF second > Len(list) THEN <<1>>
        ELSE IF third > Len(list) THEN <<1, second>>
        ELSE <<1, second, third>>

do_actions(list) == [i \in DOMAIN Index(list) |-> list[Index(list)[i]]]

Enforcement == {"Signal", "Override"}

(* What an executed list comes to: enforcement only in enforce mode.       *)
Done(list, enforce) ==
    SelectSeq(list, LAMBDA a : enforce \/ a \notin Enforcement)

Posts(list) == \A i \in DOMAIN list : list[i] # "NoPost"

(* generic_actions of the entry chain.                                     *)
generic_kprobe_actions(c) ==
    LET h == heap[c]
        list == Done(do_actions(sels[h.call.f][h.pass + 1].acts), mode)
    IN  /\ run[c].at = "actions"
        /\ acts' = [acts EXCEPT ![h.call.n] = list]
        /\ override_tasks' = IF \E i \in DOMAIN list : list[i] = "Override"
                             THEN override_tasks \cup {h.call.t}
                             ELSE override_tasks
        /\ IF Posts(list) THEN Jump(c, "send") ELSE EntryEnd(c)
        /\ UNCHANGED <<sels, mode, stack, calls, heap, retprobe_map, events,
                       overridden, lost>>

Post(h, return) ==
    events' = Append(events, [n |-> h.call.n, f |-> h.call.f, who |-> h.call.who,
                              val |-> h.val, return |-> return])

generic_kprobe_output(c) ==
    /\ run[c].at = "send"
    /\ Post(heap[c], FALSE)
    /\ EntryEnd(c)
    /\ UNCHANGED <<sels, mode, stack, calls, heap, retprobe_map,
                   override_tasks, acts, overridden, lost>>

(* Mutant: the request stays.                                              *)
RequestKept(c) ==
    LET t == run[c].t IN
    /\ run[c].at = "override"
    /\ run' = [run EXCEPT ![c] = Idle]
    /\ overridden' = IF t \in override_tasks THEN overridden \cup {Top(t).n}
                                             ELSE overridden
    /\ UNCHANGED <<sels, mode, stack, calls, heap, retprobe_map,
                   override_tasks, events, acts, lost>>

(* generic_kprobe_override, generic_fmodret_override: replace the call the *)
(* thread is about to make, and forget the request.                        *)
generic_kprobe_override(c) ==
    LET t == run[c].t IN
    /\ run[c].at = "override"
    /\ run' = [run EXCEPT ![c] = Idle]
    /\ override_tasks' = override_tasks \ {t}
    /\ overridden' = IF t \in override_tasks THEN overridden \cup {Top(t).n}
                                             ELSE overridden
    /\ UNCHANGED <<sels, mode, stack, calls, heap, retprobe_map, events, acts,
                   lost>>

(***************************************************************************)
(* The return chain.                                                       *)
(***************************************************************************)

(* generic_retprobe: the return of a call nobody marked ends here.  The    *)
(* slot gets the call and the value, but not a new set of active selectors *)
(* nor a new selector index.  `n' is the ktime found in the map.           *)
generic_retkprobe_event(t, c, ret) ==
    LET call == Top(t)
        marked == Key(call) \in DOMAIN retprobe_map
    IN  /\ stack[t] # <<>> /\ ~OnCpu(t) /\ run[c] = Idle
        /\ call.n \in overridden => ret = Err
        /\ stack' = [stack EXCEPT ![t] = SubSeq(@, 1, Len(@) - 1)]
        /\ IF marked
           THEN /\ run' = [run EXCEPT ![c] = [t |-> t, at |-> "rargs"]]
                /\ heap' = [heap EXCEPT
                      ![c].call = [call EXCEPT !.n = retprobe_map[Key(call)]],
                      ![c].val = ret]
                /\ retprobe_map' = Cleared(call)
           ELSE UNCHANGED <<run, heap, retprobe_map>>
        /\ UNCHANGED <<sels, mode, calls, override_tasks, events, acts,
                       overridden, lost>>

generic_retkprobe_filter_arg(c) ==
    generic_filter_arg(c, FALSE, "rargs", "ractions", "rsend")

(* generic_actions of the return chain, where do_override_action is        *)
(* compiled to nothing.                                                    *)
generic_retkprobe_actions(c) ==
    LET h == heap[c]
        list == sels[h.call.f]
    IN  /\ run[c].at = "ractions"
        /\ \E ran \in IF h.pass < Len(list)
                      THEN {Done(do_actions(list[h.pass + 1].racts), mode)}
                      ELSE {<<>>, <<"NoPost">>} :
              IF Posts(ran) THEN Jump(c, "rsend")
                            ELSE run' = [run EXCEPT ![c] = Idle]
        /\ UNCHANGED <<sels, mode, stack, calls, heap, retprobe_map,
                       override_tasks, events, acts, overridden, lost>>

generic_retkprobe_output(c) ==
    /\ run[c].at = "rsend"
    /\ Post(heap[c], TRUE)
    /\ run' = [run EXCEPT ![c] = Idle]
    /\ UNCHANGED <<sels, mode, stack, calls, heap, retprobe_map,
                   override_tasks, acts, overridden, lost>>

(***************************************************************************)
(* The specification.                                                      *)
(***************************************************************************)

(* A map slot starts zeroed: the first function, value and process stand   *)
(* for the zeros, no program reads them before it has written them.        *)
Empty == [call |-> [n |-> 0, f |-> CHOOSE f \in Funcs : TRUE,
                    t |-> CHOOSE t \in Threads : TRUE,
                    who |-> CHOOSE w \in Whos : TRUE,
                    arg |-> Err],
          curr |-> 0, active |-> {}, sel |-> 0, pass |-> 0, val |-> Err]

Init ==
    /\ sels \in Policies
    /\ mode \in BOOLEAN
    /\ stack = [t \in Threads |-> <<>>]
    /\ calls = 0
    /\ run = [c \in Cpus |-> Idle]
    /\ heap = [c \in Cpus |-> Empty]
    /\ retprobe_map = <<>>
    /\ override_tasks = {}
    /\ events = <<>>
    /\ acts = <<>>
    /\ overridden = {}
    /\ lost = {}

Next ==
    \/ \E t \in Threads, c \in Cpus, f \in Funcs, who \in Whos, arg \in Values :
          generic_kprobe_event(t, c, f, who, arg)
    \/ \E t \in Threads, c \in Cpus, ret \in Values :
          generic_retkprobe_event(t, c, ret)
    \/ \E c \in Cpus :
          \/ generic_kprobe_process_filter(c)
          \/ generic_kprobe_setup_event(c)
          \/ generic_kprobe_process_event(c)
          \/ generic_kprobe_filter_arg(c)
          \/ generic_kprobe_actions(c)
          \/ generic_kprobe_output(c)
          \/ generic_kprobe_override(c)
          \/ generic_retkprobe_filter_arg(c)
          \/ generic_retkprobe_actions(c)
          \/ generic_retkprobe_output(c)

Spec == Init /\ [][Next]_vars

(***************************************************************************)
(* Properties.                                                             *)
(***************************************************************************)

Places == {"idle", "filter", "setup", "process", "args", "actions", "send",
           "override", "rargs", "ractions", "rsend"}
Slot == [call : Call, curr : 0..MAX_SELECTORS + 1,
         active : SUBSET (0..MAX_SELECTORS), sel : 0..MAX_SELECTORS,
         pass : 0..MAX_SELECTORS, val : Values]
(* What the list of a selector may come to.                                *)
Outcomes ==
    {<<>>} \cup UNION {{Done(do_actions(sels[f][i].acts), mode) :
                           i \in DOMAIN sels[f]} : f \in Funcs}

(* Every variable keeps its type, and an index stays within the masks that *)
(* the verifier is shown (sel & MAX_SELECTORS_MASK, active[]).             *)
TypeOK ==
    /\ sels \in Policies /\ mode \in BOOLEAN
    /\ stack \in [Threads -> Seq(Call)]
    /\ \A t \in Threads : Len(stack[t]) <= MaxDepth
    /\ calls \in 0..MaxCalls
    /\ acts \in Seq(Outcomes) /\ Len(acts) = calls
    /\ run \in [Cpus -> [t : Threads \cup {"none"}, at : Places]]
    /\ heap \in [Cpus -> Slot]
    /\ DOMAIN retprobe_map \subseteq Funcs \X Threads
    /\ IsFiniteSet(DOMAIN retprobe_map)
    /\ Cardinality(DOMAIN retprobe_map) <= RetprobeMax
    /\ override_tasks \subseteq Threads
    /\ events \in Seq([n : Nat, f : Funcs, who : Whos, val : Values,
                       return : BOOLEAN])
    /\ overridden \subseteq 1..calls /\ lost \subseteq Nat

(* The documented reading of a selector list: a selector matches a call    *)
(* when all its filters do, and the first one that matches decides.        *)
Matching(call) ==
    {i \in DOMAIN sels[call.f] : /\ call.who \in sels[call.f][i].procs
                                 /\ call.arg \in sels[call.f][i].args}

Accepted(call) ==
    /\ call.who \in InPolicy /\ Readable(call.arg)
    /\ Selectors(call.f) = 0 \/ Matching(call) # {}

Wanted(call) ==
    IF Accepted(call) /\ Matching(call) # {}
    THEN Done(sels[call.f][Min(Matching(call))].acts, mode)
    ELSE <<>>

(* The calls that threads are inside of with their entry chain behind them.*)
InEntry(t) == \E c \in Cpus : run[c].t = t
                            /\ run[c].at \notin {"rargs", "ractions", "rsend"}
Inside ==
    UNION {{stack[t][i] : i \in DOMAIN stack[t]}
              \ (IF InEntry(t) THEN {Top(t)} ELSE {}) : t \in Threads}

(* A call's event is posted exactly when the policy is about the process,  *)
(* the arguments could be read, some selector matches and the first that   *)
(* does has no NoPost: whatever other calls left in the CPU's heap slot    *)
(* and whatever other CPUs did while the tail calls walked the selectors.  *)
FirstMatch ==
    \A call \in Inside :
        (\E i \in DOMAIN events : events[i].n = call.n /\ ~events[i].return)
            <=> Accepted(call) /\ Posts(Wanted(call))

(* A call executes the action list of its first matching selector, from    *)
(* the first action to the last and each once, leaves out enforcement in   *)
(* monitor mode, and is overridden exactly when its own list says so: no   *)
(* request in override_tasks outlives the call it was made for.            *)
ListExecuted ==
    \A call \in Inside :
        /\ acts[call.n] = Wanted(call)
        /\ call.n \in overridden
               <=> \E i \in DOMAIN Wanted(call) : Wanted(call)[i] = "Override"

(* While a thread is inside a hooked function, retprobe_map has the entry  *)
(* of that very call if its filters matched, and none if they did not.     *)
(* Calls are lost in two ways only: the map is full, or the function is    *)
(* entered again from itself and overwrites the outer call's entry.        *)
Marked ==
    \A call \in Inside : call.n \notin lost =>
        (Accepted(call) <=> /\ Key(call) \in DOMAIN retprobe_map
                            /\ retprobe_map[Key(call)] = call.n)

(* A return program that finds an entry in retprobe_map finds the one of   *)
(* the call that is returning, even when the map was full for others or    *)
(* the function was entered again from itself.                             *)
Paired ==
    [][\A t \in Threads, c \in Cpus :
          Len(stack'[t]) < Len(stack[t]) /\ run'[c].t = t
              => heap'[c].call.n = Top(t).n]_vars

(* A return event is posted only if some selector of the function matches  *)
(* the calling process and the value returned (matchReturnArgs).           *)
ReturnMatches ==
    \A i \in DOMAIN events :
        LET e == events[i] IN
        e.return /\ Selectors(e.f) > 0
            => \E j \in DOMAIN sels[e.f] : /\ e.who \in sels[e.f][j].procs
                                           /\ e.val \in sels[e.f][j].rets

(* retprobe_map.h:99-101, the entry is placed "with a unique id, so that   *)
(* the retprobe map can then check if a value exists": no accepted call is *)
(* lost.                                                                   *)
NoneLost == \A call \in Inside : Accepted(call) => call.n \notin lost
=============================================================================
