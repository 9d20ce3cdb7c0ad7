------------------------------- MODULE Enforcer -------------------------------
(***************************************************************************)
(* The enforcer: bpf/process/bpf_enforcer.h and bpf_enforcer.c, with the   *)
(* actions NotifyEnforcer and CleanupEnforcerNotification of do_action.    *)
(*                                                                         *)
(* A hook early in a system call leaves a request, an error and a signal,  *)
(* in enforcer_data under the thread's id.  The enforcer program on the    *)
(* call itself takes it out and carries it out.  A request that a second   *)
(* one replaces, or that a hook at the end of the call cleans up, is       *)
(* counted in enforcer_missed_notifications.  That hook is optional, and   *)
(* without it a request stays for a later call under the same id.          *)
(*                                                                         *)
(* enforcer_data is a preallocated hash map: deleting an entry returns its *)
(* element to the free list at once, and the contents stay until the       *)
(* element is taken again.  Every access to a map is a step of its own.    *)
(***************************************************************************)
EXTENDS Integers, FiniteSets, Functions, FiniteSetsExt

CONSTANTS
    Threads,        \* thread ids
    Elements,       \* the elements of enforcer_data
    Requests,       \* [info, error, signal]: what the hooks may ask for
    MissedMax,      \* entries of enforcer_missed_notifications
    MaxNotes        \* bound: the requests in a behaviour

Nothing == [info |-> 0, error |-> 0, signal |-> 0]

ASSUME EnforcerAssumption ==
    /\ Requests \subseteq [info : Nat \ {0}, error : Int, signal : Int]
    /\ {MissedMax, MaxNotes} \subseteq Nat

None == "none"
Infos == {r.info : r \in Requests}

ASSUME ThreadsAssumption == IsFiniteSet(Threads) /\ None \notin Elements

VARIABLES
    enforcer_data,  \* thread -> its element, or None
    element,        \* what the elements hold
    missed,         \* enforcer_missed_notifications
    pc,             \* thread -> where it is in the call and in a program
    notes,          \* info -> the requests made so far
    want,           \* thread -> its last request that there was room for and that
                    \*           was neither carried out nor cleaned up
    owed,           \* thread -> what it wanted when the enforcer ran in this call
    got,            \* thread -> what the enforcer did to the present call
    done,           \* info -> the requests carried out
    dropped,        \* info -> the requests or counts a full map has dropped
    taken,          \* threads whose element was taken before they read it
    own,            \* threads that have made a request in the present call
    bare            \* threads whose last call ended without a cleanup

calls == <<want, owed, own, bare>>
vars == <<enforcer_data, element, missed, pc, notes, got, done, dropped, taken, calls>>

(* struct enforcer_data: error and signal are cast to 16 bits.             *)
S16(x) == ((x + 32768) % 65536) - 32768
Data(r) == [info |-> r.info, error |-> S16(r.error), signal |-> S16(r.signal)]

At(t, place) == pc[t].at = place
Goto(t, place) == pc' = [pc EXCEPT ![t] = [@ EXCEPT !.at = place]]

(* The elements that map_update_elem may take: also one that a program on  *)
(* another cpu has just deleted and goes on to read.                       *)
Free == {e \in Elements : \A t \in Threads : enforcer_data[t] # e}
Readers(e) == {t \in Threads : At(t, "read") /\ pc[t].elem = e}

(***************************************************************************)
(* enforcer_update_missed_notifications, entered with a key, leaves to     *)
(* pc[t].then.                                                             *)
(***************************************************************************)

Count(t, reason, then) ==
    pc' = [pc EXCEPT ![t] = [@ EXCEPT
        !.at = "lookup", !.then = then,
        !.key = <<element[enforcer_data[t]].info, reason>>]]

Added(key) == [missed EXCEPT ![key] = @ + 1]

(* The counter is there: add to it.                                        *)
MissedLookup(t) ==
    /\ At(t, "lookup")
    /\ IF pc[t].key \in DOMAIN missed
       THEN missed' = Added(pc[t].key) /\ Goto(t, pc[t].then)
       ELSE UNCHANGED missed /\ Goto(t, "create")
    /\ UNCHANGED <<enforcer_data, element, notes, got, done, dropped, taken, calls>>

(* Mutant: no BPF_NOEXIST, the entry of a thread that was faster is lost.  *)
Overwrite(t) ==
    /\ At(t, "create")
    /\ missed' = [k \in DOMAIN missed \cup {pc[t].key} |->
                     IF k = pc[t].key THEN 1 ELSE missed[k]]
    /\ Goto(t, pc[t].then)
    /\ UNCHANGED <<enforcer_data, element, notes, got, done, dropped, taken, calls>>

(* map_update_elem with BPF_NOEXIST fails when another thread was faster   *)
(* or the map is full.                                                     *)
MissedCreate(t) ==
    LET key == pc[t].key IN
    /\ At(t, "create")
    /\ IF key \notin DOMAIN missed /\ Cardinality(DOMAIN missed) < MissedMax
       THEN /\ missed' = [k \in DOMAIN missed \cup {key} |->
                             IF k = key THEN 1 ELSE missed[k]]
            /\ Goto(t, pc[t].then)
       ELSE UNCHANGED missed /\ Goto(t, "retry")
    /\ UNCHANGED <<enforcer_data, element, notes, got, done, dropped, taken, calls>>

(* After the failure: the other thread's counter, if it is there.          *)
MissedRetry(t) ==
    /\ At(t, "retry")
    /\ IF pc[t].key \in DOMAIN missed
       THEN missed' = Added(pc[t].key) /\ UNCHANGED dropped
       ELSE dropped' = [dropped EXCEPT ![pc[t].key[1]] = @ + 1] /\ UNCHANGED missed
    /\ Goto(t, pc[t].then)
    /\ UNCHANGED <<enforcer_data, element, notes, got, done, taken, calls>>

(***************************************************************************)
(* A system call: hooks before it, the call or not, hooks after it.        *)
(***************************************************************************)
Enter(t) ==
    /\ At(t, "user")
    /\ Goto(t, "enter")
    /\ got' = [got EXCEPT ![t] = Nothing] /\ owed' = [owed EXCEPT ![t] = Nothing]
    /\ taken' = taken \ {t} /\ own' = own \ {t}
    /\ UNCHANGED <<enforcer_data, element, missed, notes, done, dropped, want, bare>>

(* do_enforcer_action: a new entry if an element is left, or first count   *)
(* the request that is there and then overwrite it in place.               *)
do_enforcer_action(t, r) ==
    /\ At(t, "enter") /\ SumFunction(notes) < MaxNotes
    /\ notes' = [notes EXCEPT ![r.info] = @ + 1]
    /\ \/ /\ enforcer_data[t] # None
          /\ pc' = [pc EXCEPT ![t] = [@ EXCEPT
                !.at = "lookup", !.then = "store", !.data = Data(r),
                !.key = <<element[enforcer_data[t]].info, "overwritten">>]]
          /\ UNCHANGED <<enforcer_data, element, dropped, taken, calls>>
       \/ \E e \in Free :
          /\ enforcer_data[t] = None
          /\ enforcer_data' = [enforcer_data EXCEPT ![t] = e]
          /\ element' = [element EXCEPT ![e] = Data(r)]
          /\ want' = [want EXCEPT ![t] = Data(r)] /\ own' = own \cup {t}
          /\ taken' = taken \cup Readers(e)
          /\ UNCHANGED <<pc, dropped, owed, bare>>
       \/ /\ enforcer_data[t] = None /\ Free = {}
          /\ dropped' = [dropped EXCEPT ![r.info] = @ + 1]
          /\ UNCHANGED <<enforcer_data, element, pc, taken, calls>>
    /\ UNCHANGED <<missed, got, done>>

Store(t) ==
    /\ At(t, "store")
    /\ element' = [element EXCEPT ![enforcer_data[t]] = pc[t].data]
    /\ want' = [want EXCEPT ![t] = pc[t].data] /\ own' = own \cup {t}
    /\ Goto(t, "enter")
    /\ UNCHANGED <<enforcer_data, missed, notes, got, done, dropped, taken, owed, bare>>

(* Mutant: the entry is not deleted.                                       *)
NotDeleted(t) ==
    LET e == enforcer_data[t] IN
    /\ At(t, "enter")
    /\ want' = [want EXCEPT ![t] = Nothing] /\ owed' = [owed EXCEPT ![t] = want[t]]
    /\ IF e = None
       THEN Goto(t, "exit") /\ UNCHANGED <<got, done>>
       ELSE /\ got' = [got EXCEPT ![t] = [element[e] EXCEPT !.error = 0]]
            /\ pc' = [pc EXCEPT ![t] = [@ EXCEPT !.at = "read", !.elem = e]]
            /\ done' = [done EXCEPT ![element[e].info] = @ + 1]
    /\ UNCHANGED <<enforcer_data, element, missed, notes, dropped, taken, own, bare>>

(* do_enforcer on the call: send the signal and delete the entry ...       *)
do_enforcer(t) ==
    LET e == enforcer_data[t] IN
    /\ At(t, "enter")
    /\ want' = [want EXCEPT ![t] = Nothing] /\ owed' = [owed EXCEPT ![t] = want[t]]
    /\ IF e = None
       THEN Goto(t, "exit") /\ UNCHANGED <<enforcer_data, got, done>>
       ELSE /\ got' = [got EXCEPT ![t] = [element[e] EXCEPT !.error = 0]]
            /\ enforcer_data' = [enforcer_data EXCEPT ![t] = None]
            /\ pc' = [pc EXCEPT ![t] = [@ EXCEPT !.at = "read", !.elem = e]]
            /\ done' = [done EXCEPT ![element[e].info] = @ + 1]
    /\ UNCHANGED <<element, missed, notes, dropped, taken, own, bare>>

(* ... and only then read the error with which the call is overridden.     *)
ReadError(t) ==
    /\ At(t, "read")
    /\ got' = [got EXCEPT ![t].error = element[pc[t].elem].error]
    /\ Goto(t, "exit")
    /\ UNCHANGED <<enforcer_data, element, missed, notes, done, dropped, taken, calls>>

(* The enforced function is not reached.                                   *)
Skip(t) ==
    /\ At(t, "enter")
    /\ Goto(t, "exit")
    /\ UNCHANGED <<enforcer_data, element, missed, notes, got, done, dropped, taken, calls>>

(* No policy has a CleanupEnforcerNotification at the end of the call, or  *)
(* its selectors do not match.                                             *)
Return(t) ==
    /\ At(t, "exit")
    /\ Goto(t, "user")
    /\ bare' = bare \cup {t}
    /\ UNCHANGED <<enforcer_data, element, missed, notes, got, done, dropped, taken, want,
                   owed, own>>

(* do_enforcer_cleanup in a hook at the end of the call.                   *)
do_enforcer_cleanup(t) ==
    /\ At(t, "exit")
    /\ IF enforcer_data[t] = None THEN Goto(t, "user") /\ bare' = bare \ {t}
                                  ELSE Count(t, "noaction", "delete") /\ UNCHANGED bare
    /\ UNCHANGED <<enforcer_data, element, missed, notes, got, done, dropped, taken, want,
                   owed, own>>

Delete(t) ==
    /\ At(t, "delete")
    /\ enforcer_data' = [enforcer_data EXCEPT ![t] = None]
    /\ want' = [want EXCEPT ![t] = Nothing] /\ bare' = bare \ {t}
    /\ Goto(t, "user")
    /\ UNCHANGED <<element, missed, notes, got, done, dropped, taken, owed, own>>

(***************************************************************************)
(* The specification.                                                      *)
(***************************************************************************)
Init ==
    /\ enforcer_data = [t \in Threads |-> None]
    /\ element = [e \in Elements |-> Nothing]
    /\ missed = [k \in {} |-> 0]
    /\ pc = [t \in Threads |-> [at |-> "user", then |-> "user", data |-> Nothing,
                                key |-> <<0, "none">>, elem |-> None]]
    /\ notes = [i \in Infos |-> 0] /\ done = [i \in Infos |-> 0]
    /\ dropped = [i \in Infos |-> 0]
    /\ want = [t \in Threads |-> Nothing] /\ owed = [t \in Threads |-> Nothing]
    /\ got = [t \in Threads |-> Nothing]
    /\ taken = {} /\ own = {} /\ bare = {}

Next ==
    \E t \in Threads :
        \/ Enter(t) \/ Store(t) \/ do_enforcer(t) \/ ReadError(t) \/ Skip(t)
        \/ Return(t) \/ do_enforcer_cleanup(t) \/ Delete(t)
        \/ MissedLookup(t) \/ MissedCreate(t) \/ MissedRetry(t)
        \/ \E r \in Requests : do_enforcer_action(t, r)

Spec == Init /\ [][Next]_vars

(***************************************************************************)
(* Properties.                                                             *)
(***************************************************************************)

Reasons == {"overwritten", "noaction"}
Places == {"user", "enter", "lookup", "create", "retry", "store", "read", "exit",
           "delete"}
Records == {Data(r) : r \in Requests}
Place == [at : Places, then : {"user", "store", "delete"},
          data : Records \cup {Nothing},
          key : (Infos \X Reasons) \cup {<<0, "none">>}, elem : Elements \cup {None}]

(* The variables have their types.                                         *)
TypeOK ==
    /\ enforcer_data \in [Threads -> Elements \cup {None}]
    /\ element \in [Elements -> Records \cup {Nothing}]
    /\ DOMAIN missed \subseteq Infos \X Reasons /\ missed \in [DOMAIN missed -> Nat]
    /\ IsFiniteSet(DOMAIN missed) /\ Cardinality(DOMAIN missed) <= MissedMax
    /\ pc \in [Threads -> Place]
    /\ {notes, done, dropped} \subseteq [Infos -> Nat]
    /\ want \in [Threads -> Records \cup {Nothing}]
    /\ owed \in [Threads -> Records \cup {Nothing}]
    /\ got \in [Threads -> [info : Nat, error : Int, signal : Int]]
    /\ taken \subseteq Threads /\ own \subseteq Threads /\ bare \subseteq Threads

(* At the end of a call the enforcer has done to it what was last asked    *)
(* for under the thread's id, if that was neither carried out nor cleaned  *)
(* up before, and nothing when nothing was: never the same request twice,  *)
(* never one that was overwritten and never another thread's.  Only the    *)
(* error may be another's, when a thread took the element between the      *)
(* deletion and the read.  And the request is one of this call, unless the *)
(* last call ended without the cleanup.                                    *)
OwnRequest ==
    \A t \in Threads : At(t, "exit") =>
        /\ got[t].signal = owed[t].signal
        /\ t \in taken \/ got[t].error = owed[t].error
        /\ owed[t] = Nothing \/ t \in own \cup bare

(* Where a request of a thread is that is neither carried out nor counted. *)
Pending(i) ==
    {t \in Threads : enforcer_data[t] # None /\ ~At(t, "store") /\ ~At(t, "delete")
                     /\ element[enforcer_data[t]].info = i}
Replacing(i) ==
    {t \in Threads : /\ pc[t].at \in {"lookup", "create", "retry", "store"}
                     /\ pc[t].then = "store" /\ pc[t].data.info = i}
Counter(k) == IF k \in DOMAIN missed THEN missed[k] ELSE 0
Missed(i) == Counter(<<i, "overwritten">>) + Counter(<<i, "noaction">>)

(* Each request is carried out, or pending, or counted as missed, or was   *)
(* dropped by a full map, exactly once, whichever threads create the same  *)
(* counter at the same time (the retry after BPF_NOEXIST).                 *)
Accounted ==
    \A i \in Infos : notes[i] = done[i] + dropped[i] + Missed(i)
                               + Cardinality(Pending(i))
                               + Cardinality(Replacing(i))

(* selectors.md, on NotifyEnforcer: "If specified the argError will be     *)
(* passed to bpf_override_return helper to override the syscall return     *)
(* value."                                                                 *)
OwnError ==
    \A t \in Threads : At(t, "exit") => got[t].error = owed[t].error

(* The same page, of its example without a cleanup: "spec for killing      *)
(* /usr/bin/bash program whenever it calls sys_dup or sys_dup2 syscalls",  *)
(* so not at another call.                                                 *)
OwnCall ==
    \A t \in Threads : At(t, "exit") => owed[t] = Nothing \/ t \in own
==============================================================================
