------------------------- MODULE ProcessEventsProofs -------------------------
(***************************************************************************)
(* Proofs about ProcessEvents, for every number of pids, exec ids, lost    *)
(* messages and retries: every exec and exit that the observer takes is    *)
(* reported exactly once; and, while pods are known in time and chains of  *)
(* clones are shorter than the retries in reserve, the reference counts    *)
(* add up, nothing is given up for want of a message that was not lost,    *)
(* and no live process leaves the cache.                                   *)
(***************************************************************************)
EXTENDS ProcessEvents, SequenceTheorems, FiniteSetTheorems, TLAPS

(***************************************************************************)
(* The inductive invariant.                                                *)
(***************************************************************************)

\* The messages that are reported.
Reports == {m \in WireMsg : Notifies(m)}

\* The parent of a live pid lives; keys are handed out once, in order.
TaskOK ==
  /\ \A pid \in Alive : ppid[pid] \in Alive \cup {Root}
  /\ \A pid \in Alive : task[pid].key < nextKey
  /\ \A pid, qid \in Alive : task[pid].key = task[qid].key => pid = qid

\* A key has one message of each type, and none of its exit while it lives.
WireOK ==
  /\ wire \cap received = {}
  /\ \A m \in wire \cup received :
       /\ m.key < nextKey
       /\ m.type = "exit" => \A pid \in Alive : task[pid].key # m.key
       /\ \A n \in wire \cup received : m.type = n.type /\ m.key = n.key => m = n

\* A call that reports m, or hands it to the event cache, which will.
Holds(call, m) ==
  \/ call.op = "notify" /\ call.msg = m
  \/ call.op = "enqueue" /\ call.obj.msg = m

Plain(s) == \A i \in DOMAIN s : \A m \in Reports : ~Holds(s[i], m)
\* Such a call is the last one of a handler or a retry.
LastOnly(s) == \A i \in DOMAIN s : i < Len(s) => \A m \in Reports : ~Holds(s[i], m)
EndsWith(s, m) == s # << >> /\ Holds(s[Len(s)], m)

ProgOK ==
  /\ \A g \in Goroutines : LastOnly(prog[g])
  /\ \A k \in Keys : Plain(prog[k])
  /\ ~walking => walk = << >>

\* Where a message is.
InProg(g, m) == EndsWith(prog[g], m)
InWaiting(i, m) == i \in DOMAIN waiting /\ waiting[i].msg = m
InWalk(i, m) == i \in DOMAIN walk /\ walk[i].msg = m
Somewhere(m) ==
  \/ \E g \in Goroutines : InProg(g, m)
  \/ \E i \in Nat : InWaiting(i, m)
  \/ \E i \in Nat : InWalk(i, m)

\* A message is in one place at most ...
Unique(m) ==
  /\ \A g, h \in Goroutines : InProg(g, m) /\ InProg(h, m) => g = h
  /\ \A i, j \in Nat : InWaiting(i, m) /\ InWaiting(j, m) => i = j
  /\ \A i, j \in Nat : InWalk(i, m) /\ InWalk(j, m) => i = j
  /\ \A g \in Goroutines, i \in Nat : InProg(g, m) => ~InWaiting(i, m) /\ ~InWalk(i, m)
  /\ \A i, j \in Nat : InWaiting(i, m) => ~InWalk(j, m)

\* ... from when it is received until it has been reported.
ReportOK(m) ==
  /\ Unique(m)
  /\ Somewhere(m) => m \in received
  /\ m \in received => notified[<<m.type, m.key>>] = IF Somewhere(m) THEN 0 ELSE 1

\* What was not received has not been reported.
Unheard ==
  \A type \in {"exec", "exit"}, k \in Keys :
    (\A m \in received : ~(m.type = type /\ m.key = k)) => notified[<<type, k>>] = 0

IInv ==
  /\ TypeOK /\ TaskOK /\ WireOK /\ ProgOK /\ Unheard
  /\ \A m \in Reports : ReportOK(m)

-----------------------------------------------------------------------------
(***************************************************************************)
(* Messages, calls and objects.                                            *)
(***************************************************************************)
Msgs == WireMsg \cup [type : {"cleanup"}, key : Procs]

\* The numbers a key and a goroutine can be.
LEMMA KeyFacts ==
  /\ Keys \subseteq Procs /\ Root \in Procs /\ None \notin Procs
  /\ Observer \in Goroutines /\ Loop \in Goroutines /\ Keys \subseteq Goroutines
  /\ \A k \in Keys : k # Observer /\ k # Loop
  /\ Observer # Loop
BY KeysAssumption DEF Keys, Root, None, Observer, Loop, Goroutines

\* The fields of the messages, and the types they have.
LEMMA MsgFields ==
  ASSUME NEW m \in Msgs
  PROVE  /\ m.key \in Procs
         /\ m.type \in {"clone", "exec", "exit", "cleanup"}
         /\ m \in WireMsg => m.key \in Keys /\ m.type # "cleanup"
         /\ m.type # "cleanup" => m \in WireMsg
         /\ m.type = "clone" => m.parent \in Procs
         /\ m.type = "exec" =>
              m.parent \in Procs /\ m.cleanup \in Procs /\ m.clone \in BOOLEAN
         /\ m \in Reports <=> Notifies(m)
BY KeyFacts DEF Msgs, WireMsg, Reports, Notifies

\* A message of the wire is a message.
LEMMA WireIsMsg == WireMsg \subseteq Msgs
BY DEF Msgs

\* The messages the kernel emits.
LEMMA EmittedMsgs ==
  ASSUME NEW k \in Keys, NEW parent \in Procs, NEW old \in Procs, NEW cloned \in BOOLEAN
  PROVE  /\ CloneMsg(k, parent) \in WireMsg
         /\ CloneMsg(k, parent).type = "clone" /\ CloneMsg(k, parent).key = k
         /\ ExecMsg(k, parent, old, cloned) \in WireMsg
         /\ ExecMsg(k, parent, old, cloned).type = "exec"
         /\ ExecMsg(k, parent, old, cloned).key = k
         /\ ExitMsg(k) \in WireMsg
         /\ ExitMsg(k).type = "exit" /\ ExitMsg(k).key = k
BY DEF CloneMsg, ExecMsg, ExitMsg, WireMsg

\* The objects of the event cache.
LEMMA ObjFields ==
  ASSUME NEW o \in CacheObjs
  PROVE  /\ o.msg \in Msgs /\ o.internal \in BOOLEAN
         /\ o.color \in 0 .. NumRetries - 1
         /\ o.parentDone \in BOOLEAN /\ o.procDone \in BOOLEAN
BY DEF CacheObjs, Msgs

LEMMA NewObj ==
  ASSUME NEW m \in Msgs, NEW internal \in BOOLEAN
  PROVE  /\ CacheObj(m, internal) \in CacheObjs
         /\ CacheObj(m, internal).msg = m
BY OptionsAssumption DEF CacheObj, CacheObjs, Msgs

\* The calls, and the messages they hold.
LEMMA CallTypes ==
  /\ \A k, c \in Procs : DoInc(k, c) \in Calls /\ DoDec(k, c) \in Calls
  /\ \A k \in Procs : DoCleanup(k) \in Calls
  /\ \A k \in Keys, f \in Fields : DoAdd(k, f) \in Calls
  /\ \A o \in CacheObjs : DoEnqueue(o) \in Calls
  /\ \A m \in WireMsg : DoNotify(m) \in Calls
  /\ \A k \in Keys, old \in Procs : DoGo(k, old) \in Calls
BY DEF Calls, DoInc, DoDec, DoCleanup, DoAdd, DoEnqueue, DoNotify, DoGo

LEMMA CallHolds ==
  ASSUME NEW m
  PROVE  /\ \A k, c : ~Holds(DoInc(k, c), m) /\ ~Holds(DoDec(k, c), m)
         /\ \A k : ~Holds(DoCleanup(k), m)
         /\ \A k, f : ~Holds(DoAdd(k, f), m)
         /\ \A k, old : ~Holds(DoGo(k, old), m)
         /\ \A o : Holds(DoEnqueue(o), m) <=> o.msg = m
         /\ \A n : Holds(DoNotify(n), m) <=> n = m
BY DEF Holds, DoInc, DoDec, DoCleanup, DoAdd, DoEnqueue, DoNotify, DoGo

\* What a call carries.
LEMMA CallFields ==
  ASSUME NEW c \in Calls
  PROVE  /\ c.op \in {"inc", "dec"} => c.key \in Procs /\ c.by \in Procs
         /\ c.op = "cleanup" => c.key \in Procs
         /\ c.op = "add" => c.key \in Keys /\ c.fields \in Fields
         /\ c.op = "enqueue" => c.obj \in CacheObjs
         /\ c.op = "notify" => c.msg \in WireMsg
         /\ c.op = "go" => c.key \in Keys /\ c.old \in Procs
BY DEF Calls

-----------------------------------------------------------------------------
(***************************************************************************)
(* Sequences of calls.                                                     *)
(***************************************************************************)

\* The empty one, and those of one call.
LEMMA EmptyCalls ==
  /\ << >> \in Seq(Calls) /\ Plain(<< >>) /\ LastOnly(<< >>)
  /\ \A m : ~EndsWith(<< >>, m)
BY DEF Plain, LastOnly, EndsWith

LEMMA OneCall ==
  ASSUME NEW c \in Calls
  PROVE  /\ <<c>> \in Seq(Calls) /\ LastOnly(<<c>>)
         /\ \A m : EndsWith(<<c>>, m) <=> Holds(c, m)
         /\ (\A m \in Reports : ~Holds(c, m)) => Plain(<<c>>)
BY DEF Plain, LastOnly, EndsWith

LEMMA OnePlain ==
  ASSUME NEW c, \A m \in Reports : ~EndsWith(<<c>>, m)
  PROVE  Plain(<<c>>)
BY DEF Plain, EndsWith

\* A plain sequence reports nothing.
LEMMA PlainFacts ==
  ASSUME NEW s \in Seq(Calls), Plain(s)
  PROVE  LastOnly(s) /\ \A m \in Reports : ~EndsWith(s, m)
<1>1. s # << >> => Len(s) \in DOMAIN s
  BY LenProperties
<1> QED BY <1>1 DEF Plain, LastOnly, EndsWith

\* Calls made before others do not change what these hold.
LEMMA Before ==
  ASSUME NEW p \in Seq(Calls), NEW s \in Seq(Calls), Plain(p)
  PROVE  /\ p \o s \in Seq(Calls)
         /\ LastOnly(s) => LastOnly(p \o s)
         /\ Plain(s) => Plain(p \o s)
         /\ \A m \in Reports : EndsWith(p \o s, m) <=> EndsWith(s, m)
<1>1. /\ p \o s \in Seq(Calls)
      /\ Len(p \o s) = Len(p) + Len(s)
      /\ \A i \in 1 .. Len(p) + Len(s) :
           (p \o s)[i] = IF i <= Len(p) THEN p[i] ELSE s[i - Len(p)]
  BY ConcatProperties
<1>2. /\ Len(p) \in Nat /\ Len(s) \in Nat
      /\ DOMAIN p = 1 .. Len(p) /\ DOMAIN s = 1 .. Len(s)
      /\ DOMAIN (p \o s) = 1 .. Len(p) + Len(s)
  BY <1>1, LenProperties
<1>3. LastOnly(s) => LastOnly(p \o s)
  BY <1>1, <1>2 DEF LastOnly, Plain
<1>4. Plain(s) => Plain(p \o s)
  BY <1>1, <1>2 DEF Plain
<1>5. ASSUME NEW m \in Reports
      PROVE  EndsWith(p \o s, m) <=> EndsWith(s, m)
  <2>1. CASE s = << >>
    <3>1. p \o s = p /\ ~EndsWith(s, m)
      BY <2>1, ConcatEmptySeq DEF EndsWith
    <3> QED BY <3>1, PlainFacts
  <2>2. CASE s # << >>
    <3>1. Len(s) > 0
      BY <2>2, <1>2, EmptySeq
    <3>2. (p \o s)[Len(p \o s)] = s[Len(s)] /\ p \o s # << >>
      BY <3>1, <1>1, <1>2
    <3> QED BY <3>2, <2>2 DEF EndsWith
  <2> QED BY <2>1, <2>2
<1> QED BY <1>1, <1>3, <1>4, <1>5

\* Making the first call: one that holds a report is the only one left.
LEMMA After ==
  ASSUME NEW s \in Seq(Calls), s # << >>, LastOnly(s)
  PROVE  /\ Head(s) \in Calls /\ Tail(s) \in Seq(Calls)
         /\ LastOnly(Tail(s))
         /\ Plain(s) => Plain(Tail(s)) /\ \A m \in Reports : ~Holds(Head(s), m)
         /\ \A m \in Reports : Holds(Head(s), m) =>
              /\ EndsWith(s, m)
              /\ \A n : ~EndsWith(Tail(s), n)
              /\ \A n : EndsWith(s, n) <=> Holds(Head(s), n)
         /\ (\A m \in Reports : ~Holds(Head(s), m)) =>
              \A m \in Reports : EndsWith(Tail(s), m) <=> EndsWith(s, m)
<1>1. /\ Head(s) \in Calls /\ Tail(s) \in Seq(Calls)
      /\ Head(s) = s[1] /\ Len(Tail(s)) = Len(s) - 1
      /\ \A i \in 1 .. Len(Tail(s)) : Tail(s)[i] = s[i + 1]
  BY HeadTailProperties
<1>2. /\ Len(s) \in Nat \ {0} /\ DOMAIN s = 1 .. Len(s)
      /\ DOMAIN Tail(s) = 1 .. Len(s) - 1
  BY <1>1, LenProperties, EmptySeq
<1>3. LastOnly(Tail(s))
  BY <1>1, <1>2 DEF LastOnly
<1>4. Plain(s) => Plain(Tail(s)) /\ \A m \in Reports : ~Holds(Head(s), m)
  BY <1>1, <1>2 DEF Plain
<1>5. ASSUME NEW m \in Reports, Holds(Head(s), m)
      PROVE  Len(s) = 1 /\ Tail(s) = << >>
  <2>1. Len(s) = 1
    BY <1>1, <1>2, <1>5 DEF LastOnly
  <2>2. Len(Tail(s)) = 0
    BY <2>1, <1>1
  <2> QED BY <2>1, <2>2, <1>1, EmptySeq
<1>6. ASSUME NEW m \in Reports, Holds(Head(s), m)
      PROVE  /\ EndsWith(s, m)
             /\ \A n : ~EndsWith(Tail(s), n)
             /\ \A n : EndsWith(s, n) <=> Holds(Head(s), n)
  BY <1>1, <1>5, <1>6 DEF EndsWith
<1>7. ASSUME \A m \in Reports : ~Holds(Head(s), m), NEW m \in Reports
      PROVE  EndsWith(Tail(s), m) <=> EndsWith(s, m)
  <2>1. CASE Len(s) = 1
    <3>1. Len(Tail(s)) = 0 /\ s[Len(s)] = Head(s)
      BY <2>1, <1>1
    <3>2. Tail(s) = << >>
      BY <3>1, <1>1, EmptySeq
    <3> QED BY <3>1, <3>2, <1>7 DEF EndsWith
  <2>2. CASE Len(s) # 1
    <3>1. Tail(s)[Len(Tail(s))] = s[Len(s)] /\ Tail(s) # << >>
      BY <2>2, <1>1, <1>2
    <3> QED BY <3>1 DEF EndsWith
  <2> QED BY <2>1, <2>2
<1> QED BY <1>1, <1>3, <1>4, <1>6, <1>7

-----------------------------------------------------------------------------
(***************************************************************************)
(* The calls of the handlers and of the retries.                           *)
(***************************************************************************)

\* Two calls that hold nothing, and a last one that may hold a message.
LEMMA TwoCalls ==
  ASSUME NEW c \in Calls, NEW d \in Calls,
         \A m \in Reports : ~Holds(c, m) /\ ~Holds(d, m)
  PROVE  <<c, d>> \in Seq(Calls) /\ Plain(<<c, d>>)
BY DEF Plain

LEMMA ThreeCalls ==
  ASSUME NEW c \in Calls, NEW d \in Calls, NEW e \in Calls,
         \A m \in Reports : ~Holds(c, m) /\ ~Holds(d, m)
  PROVE  /\ <<c, d, e>> \in Seq(Calls) /\ LastOnly(<<c, d, e>>)
         /\ \A m : EndsWith(<<c, d, e>>, m) <=> Holds(e, m)
BY DEF LastOnly, EndsWith

LEMMA CloneCalls ==
  ASSUME TypeOK, NEW m \in WireMsg, m.type = "clone"
  PROVE  /\ CloneFields(m) \in Fields
         /\ AddCloneEvent(m) \in Seq(Calls) /\ Plain(AddCloneEvent(m))
<1>1. m.parent \in Procs /\ m.key \in Keys /\ m.key \in Procs
  BY MsgFields, WireIsMsg
<1>2. object[m.parent] \in Fields /\ podKnown \in BOOLEAN /\ K8s \in BOOLEAN
  BY <1>1, OptionsAssumption DEF TypeOK
<1>3. CloneFields(m) \in Fields
  BY <1>1, <1>2 DEF CloneFields, Fields
<1>4. DoInc(m.parent, m.key) \in Calls /\ DoAdd(m.key, CloneFields(m)) \in Calls
  BY <1>1, <1>3, CallTypes
<1>5. \A n \in Reports : ~Holds(DoInc(m.parent, m.key), n) /\ ~Holds(DoAdd(m.key, CloneFields(m)), n)
  BY CallHolds
<1> QED BY <1>3, <1>4, <1>5, TwoCalls DEF AddCloneEvent

\* What is dropped of a process.
LEMMA ParentIn ==
  ASSUME TypeOK, NEW k \in Procs
  PROVE  Parent(k) \in Procs
BY DEF TypeOK, Parent, Fields

LEMMA OnceCalls ==
  ASSUME NEW done \in BOOLEAN, NEW c \in Calls, \A m \in Reports : ~Holds(c, m)
  PROVE  Once(done, c) \in Seq(Calls) /\ Plain(Once(done, c))
BY OneCall, EmptyCalls DEF Once

\* A retry makes calls that hold no report, and leaves the object one of the
\* same message that has been retried as often.
RetryOK(o, r) ==
  /\ r.do \in Seq(Calls) /\ Plain(r.do)
  /\ r.obj \in CacheObjs /\ r.obj.msg = o.msg /\ r.obj.color = o.color
  /\ r.err \in BOOLEAN

LEMMA RetriedOK ==
  ASSUME NEW o \in CacheObjs, NEW do \in Seq(Calls), Plain(do), NEW obj \in CacheObjs,
         obj.msg = o.msg, obj.color = o.color, NEW err \in BOOLEAN
  PROVE  RetryOK(o, Retried(do, obj, err))
BY DEF RetryOK, Retried

LEMMA CloneRetry ==
  ASSUME TypeOK, NEW o \in CacheObjs, o.msg.type = "clone"
  PROVE  RetryOK(o, RetryClone(o))
<1> DEFINE m == o.msg
           fields == IF o.internal THEN object[m.key] ELSE CloneFields(m)
           do == IF o.internal THEN << >> ELSE AddCloneEvent(m)
           obj == [o EXCEPT !.internal = TRUE]
<1>1. m \in WireMsg /\ m.key \in Procs
  BY ObjFields, MsgFields
<1>2. CloneFields(m) \in Fields /\ do \in Seq(Calls) /\ Plain(do)
  BY <1>1, CloneCalls, EmptyCalls
<1>3. fields \in Fields
  BY <1>1, <1>2 DEF TypeOK
<1>4. obj \in CacheObjs /\ obj.msg = o.msg /\ obj.color = o.color
  BY DEF CacheObjs
<1>5. (Needed(fields) /\ ~podKnown) \in BOOLEAN
  OBVIOUS
<1> HIDE DEF do, obj, fields
<1>6. RetryOK(o, Retried(do, obj, Needed(fields) /\ ~podKnown))
  BY <1>2, <1>4, <1>5, RetriedOK
<1>7. RetryOK(o, Retried(<< >>, o, TRUE))
  BY EmptyCalls, RetriedOK
<1> QED BY <1>6, <1>7 DEF RetryClone, do, obj, fields

LEMMA ExecRetry ==
  ASSUME TypeOK, NEW o \in CacheObjs, o.msg.type = "exec"
  PROVE  RetryOK(o, RetryExec(o))
<1> DEFINE m == o.msg
           inc == Once(o.parentDone, DoInc(Parent(m.key), m.key))
           go == IF m.cleanup = None THEN << >> ELSE <<DoGo(m.key, m.cleanup)>>
           obj == [o EXCEPT !.parentDone = TRUE]
<1>1. m \in WireMsg /\ m.key \in Keys /\ m.key \in Procs /\ m.cleanup \in Procs
  BY ObjFields, MsgFields
<1>2. DoInc(Parent(m.key), m.key) \in Calls /\ DoGo(m.key, m.cleanup) \in Calls
  BY <1>1, CallTypes, ParentIn
<1>3. \A n : ~Holds(DoInc(Parent(m.key), m.key), n) /\ ~Holds(DoGo(m.key, m.cleanup), n)
  BY CallHolds
<1>4. inc \in Seq(Calls) /\ Plain(inc)
  BY <1>2, <1>3, OnceCalls, ObjFields
<1>5. go \in Seq(Calls) /\ Plain(go)
  BY <1>2, <1>3, OneCall, EmptyCalls
<1>6. obj \in CacheObjs /\ obj.msg = o.msg /\ obj.color = o.color
  BY DEF CacheObjs
<1> HIDE DEF inc, go, obj
<1>7. inc \o go \in Seq(Calls) /\ Plain(inc \o go)
  BY <1>4, <1>5, Before
<1>8. RetryOK(o, Retried(inc \o go, obj, FALSE))
  BY <1>6, <1>7, RetriedOK
<1>9. RetryOK(o, Retried(<< >>, o, TRUE))
  BY EmptyCalls, RetriedOK
<1> QED BY <1>8, <1>9 DEF RetryExec, inc, go, obj

LEMMA DropRetry ==
  ASSUME TypeOK, NEW o \in CacheObjs
  PROVE  RetryOK(o, RetryDrop(o))
<1> DEFINE k == o.msg.key
           proc == k \in cache
           parent == Known(k)
           decParent == IF parent THEN Once(o.parentDone, DoDec(Parent(k), k)) ELSE << >>
           decProc == IF proc THEN Once(o.procDone, DoDec(k, k)) ELSE << >>
           obj == [o EXCEPT !.parentDone = @ \/ parent, !.procDone = @ \/ proc,
                            !.internal = parent]
<1>1. k \in Procs
  BY ObjFields, MsgFields
<1>2. DoDec(Parent(k), k) \in Calls /\ DoDec(k, k) \in Calls
  BY <1>1, CallTypes, ParentIn
<1>3. \A n : ~Holds(DoDec(Parent(k), k), n) /\ ~Holds(DoDec(k, k), n)
  BY CallHolds
<1>4. decParent \in Seq(Calls) /\ Plain(decParent)
  BY <1>2, <1>3, OnceCalls, EmptyCalls, ObjFields
<1>5. decProc \in Seq(Calls) /\ Plain(decProc)
  BY <1>2, <1>3, OnceCalls, EmptyCalls, ObjFields
<1>6. parent \in BOOLEAN /\ proc \in BOOLEAN
  BY DEF Known
<1> HIDE DEF parent, proc
<1>7. obj \in CacheObjs /\ obj.msg = o.msg /\ obj.color = o.color
  BY <1>6 DEF CacheObjs
<1> HIDE DEF decParent, decProc, obj
<1>8. decParent \o decProc \in Seq(Calls) /\ Plain(decParent \o decProc)
  BY <1>4, <1>5, Before
<1>9. RetryOK(o, Retried(decParent \o decProc, obj, ~parent))
  BY <1>6, <1>7, <1>8, RetriedOK
<1> QED BY <1>9 DEF RetryDrop, decParent, decProc, obj, parent, proc

LEMMA ExitRetry ==
  ASSUME TypeOK, NEW o \in CacheObjs, o.msg.type = "exit"
  PROVE  RetryOK(o, RetryExit(o))
<1> DEFINE r == IF o.internal THEN Retried(<< >>, o, FALSE) ELSE RetryDrop(o)
           no == K8s /\ ~object[o.msg.key].pod
<1>1. RetryOK(o, r)
  BY EmptyCalls, RetriedOK, DropRetry
<1>2. \E do, obj, err : r = Retried(do, obj, err)
  BY DEF RetryDrop
<1>3. no \in BOOLEAN
  OBVIOUS
<1> HIDE DEF r, no
<1>4. PICK do, obj, err : r = Retried(do, obj, err)
  BY <1>2
<1>5. [r EXCEPT !.err = @ \/ no] = Retried(do, obj, err \/ no)
  BY <1>4 DEF Retried
<1>6. RetryOK(o, Retried(do, obj, err \/ no))
  BY <1>1, <1>3, <1>4 DEF RetryOK, Retried
<1> QED BY <1>5, <1>6 DEF RetryExit, r, no

LEMMA Retries ==
  ASSUME TypeOK, NEW o \in CacheObjs
  PROVE  RetryOK(o, RetryObj(o))
<1>1. o.msg.type \in {"clone", "exec", "exit", "cleanup"}
  BY ObjFields, MsgFields
<1>2. CASE o.msg.type = "clone"
  BY <1>2, CloneRetry DEF RetryObj
<1>3. CASE o.msg.type = "exec"
  BY <1>3, ExecRetry DEF RetryObj
<1>4. CASE o.msg.type = "exit"
  BY <1>4, ExitRetry DEF RetryObj
<1>5. CASE o.msg.type = "cleanup"
  BY <1>5, DropRetry DEF RetryObj
<1> QED BY <1>1, <1>2, <1>3, <1>4, <1>5

-----------------------------------------------------------------------------
(***************************************************************************)
(* Steps that leave every message where it is.                             *)
(***************************************************************************)

\* No message that is reported has moved.
Stays(m) ==
  /\ \A g \in Goroutines : InProg(g, m)' <=> InProg(g, m)
  /\ \A i \in Nat : InWaiting(i, m)' <=> InWaiting(i, m)
  /\ \A i \in Nat : InWalk(i, m)' <=> InWalk(i, m)

LEMMA Frame ==
  ASSUME NEW m \in Reports, ReportOK(m), Stays(m),
         m \in received' <=> m \in received,
         m \in received => notified'[<<m.type, m.key>>] = notified[<<m.type, m.key>>]
  PROVE  ReportOK(m)'
<1>1. Somewhere(m)' <=> Somewhere(m)
  BY DEF Stays, Somewhere
<1>2. Unique(m)'
  BY DEF Stays, Unique, ReportOK
<1> QED BY <1>1, <1>2 DEF ReportOK

\* Steps that touch neither the calls nor the event cache.
LEMMA Quietly ==
  ASSUME IInv, UNCHANGED <<prog, waiting, walk, walking, notified, received>>
  PROVE  ProgOK' /\ Unheard' /\ \A m \in Reports : ReportOK(m)'
<1>1. ProgOK' /\ Unheard'
  BY DEF IInv, ProgOK, Unheard
<1>2. ASSUME NEW m \in Reports
      PROVE  ReportOK(m)'
  <2>1. Stays(m)
    BY DEF Stays, InProg, InWaiting, InWalk
  <2> QED BY <2>1, Frame DEF IInv
<1> QED BY <1>1, <1>2

-----------------------------------------------------------------------------
(***************************************************************************)
(* The kernel.                                                             *)
(***************************************************************************)

\* What is emitted has its own type and key, and is lost or on its way.
LEMMA Emission ==
  ASSUME IInv, NEW m \in WireMsg, Emit(m), UNCHANGED received,
         nextKey' \in 1 .. MaxKey + 1, nextKey <= nextKey', m.key < nextKey',
         \A n \in wire \cup received : n.type = m.type => n.key # m.key,
         \A n \in wire \cup received \cup {m} :
           n.type = "exit" => \A pid \in Alive' : task'[pid].key # n.key
  PROVE  /\ WireOK'
         /\ wire' \subseteq WireMsg /\ lost' \in 0 .. MaxLost
<1>1. wire' \subseteq wire \cup {m} /\ lost' \in 0 .. MaxLost
  BY OptionsAssumption DEF Emit, IInv, TypeOK
<1>2. m \notin received
  OBVIOUS
<1>3. wire' \cap received' = {}
  BY <1>1, <1>2 DEF IInv, WireOK
<1>4. ASSUME NEW n \in wire' \cup received'
      PROVE  n.key < nextKey'
  <2>1. n = m \/ n \in wire \cup received
    BY <1>1
  <2>2. CASE n \in wire \cup received
    <3>1. n.key < nextKey /\ n \in WireMsg
      BY <2>2 DEF IInv, WireOK, TypeOK
    <3>2. n.key \in Keys
      BY <3>1, MsgFields, WireIsMsg
    <3> QED BY <3>1, <3>2, KeysAssumption DEF Keys, IInv, TypeOK
  <2> QED BY <2>1, <2>2
<1>5. ASSUME NEW n \in wire' \cup received', NEW o \in wire' \cup received',
             n.type = o.type, n.key = o.key
      PROVE  n = o
  BY <1>1, <1>5 DEF IInv, WireOK
<1>6. WireOK'
  BY <1>1, <1>3, <1>4, <1>5 DEF WireOK
<1> QED BY <1>1, <1>6 DEF IInv, TypeOK

\* A live task, and the key it is known by.
LEMMA AliveFacts ==
  ASSUME TypeOK
  PROVE  /\ \A pid \in Alive : task[pid].key \in Keys /\ task[pid].clone \in BOOLEAN
         /\ \A pid \in Alive \cup {Root} : KeyOf(pid) \in Procs
<1>1. \A pid \in Alive : task[pid].key \in Keys /\ task[pid].clone \in BOOLEAN
  BY DEF TypeOK, Alive
<1> QED BY <1>1, KeyFacts DEF KeyOf

LEMMA ForkStep ==
  ASSUME IInv, NEW pid \in Pids, NEW parent \in Pids \cup {Root}, Fork(pid, parent),
         UNCHANGED received
  PROVE  /\ TaskOK' /\ WireOK'
         /\ task' \in [Pids -> [key : Keys \cup {None}, clone : BOOLEAN]]
         /\ ppid' \in [Pids -> Pids \cup {Root}]
         /\ nextKey' \in 1 .. MaxKey + 1 /\ wire' \subseteq WireMsg /\ lost' \in 0 .. MaxLost
<1> DEFINE m == CloneMsg(nextKey, KeyOf(parent))
<1>1. /\ nextKey \in Keys /\ KeyOf(parent) \in Procs /\ nextKey' \in 1 .. MaxKey + 1
      /\ nextKey' = nextKey + 1
  BY AliveFacts, KeysAssumption DEF IInv, TypeOK, Fork, Keys
<1>2. m \in WireMsg /\ m.type = "clone" /\ m.key = nextKey
  BY <1>1, EmittedMsgs
<1>3. task' \in [Pids -> [key : Keys \cup {None}, clone : BOOLEAN]]
  BY <1>1 DEF Fork, IInv, TypeOK
<1>4. ppid' \in [Pids -> Pids \cup {Root}]
  BY DEF Fork, IInv, TypeOK
<1>5. /\ Alive' = Alive \cup {pid}
      /\ \A q \in Alive : task'[q] = task[q] /\ ppid'[q] = ppid[q]
      /\ task'[pid].key = nextKey /\ ppid'[pid] = parent
  BY <1>1, KeyFacts DEF Fork, IInv, TypeOK, Alive, Keys, None
<1>6. TaskOK'
  <2>1. \A q \in Alive' : ppid'[q] \in Alive' \cup {Root}
    BY <1>5 DEF Fork, IInv, TaskOK
  <2>2. \A q \in Alive : task[q].key < nextKey /\ task[q].key \in Int
    BY AliveFacts DEF IInv, TaskOK, Keys
  <2>3. \A q \in Alive' : task'[q].key < nextKey'
    BY <2>2, <1>1, <1>5 DEF Keys
  <2>4. \A p, q \in Alive' : task'[p].key = task'[q].key => p = q
    BY <2>2, <1>1, <1>5 DEF Keys, IInv, TaskOK
  <2> QED BY <2>1, <2>3, <2>4 DEF TaskOK
<1>7. \A n \in wire \cup received :
        n.key < nextKey /\ n.key \in Int
  BY MsgFields, WireIsMsg DEF IInv, WireOK, TypeOK, Keys
<1>8. \A n \in wire \cup received : n.key # m.key
  BY <1>1, <1>2, <1>7 DEF Keys
<1>9. \A n \in wire \cup received \cup {m} :
        n.type = "exit" => \A q \in Alive' : task'[q].key # n.key
  BY <1>2, <1>5, <1>8 DEF IInv, WireOK
<1>10. nextKey <= nextKey' /\ m.key < nextKey'
  BY <1>1, <1>2 DEF Keys
<1>11. Emit(m)
  BY DEF Fork
<1> HIDE DEF m
<1> QED BY <1>1, <1>2, <1>3, <1>4, <1>6, <1>8, <1>9, <1>10, <1>11, Emission

LEMMA ExecStep ==
  ASSUME IInv, NEW pid \in Pids, Exec(pid), UNCHANGED received
  PROVE  /\ TaskOK' /\ WireOK'
         /\ task' \in [Pids -> [key : Keys \cup {None}, clone : BOOLEAN]]
         /\ ppid' \in [Pids -> Pids \cup {Root}]
         /\ nextKey' \in 1 .. MaxKey + 1 /\ wire' \subseteq WireMsg /\ lost' \in 0 .. MaxLost
<1> DEFINE m == ExecMsg(nextKey, KeyOf(ppid[pid]), task[pid].key, task[pid].clone)
<1>1. /\ nextKey \in Keys /\ nextKey' \in 1 .. MaxKey + 1 /\ nextKey' = nextKey + 1
      /\ pid \in Alive
  BY KeysAssumption DEF IInv, TypeOK, Exec, Keys
<1>2. /\ KeyOf(ppid[pid]) \in Procs
      /\ task[pid].key \in Procs /\ task[pid].clone \in BOOLEAN
  BY <1>1, AliveFacts, KeyFacts DEF IInv, TaskOK
<1>3. m \in WireMsg /\ m.type = "exec" /\ m.key = nextKey
  BY <1>1, <1>2, EmittedMsgs
<1>4. task' \in [Pids -> [key : Keys \cup {None}, clone : BOOLEAN]]
  BY <1>1 DEF Exec, IInv, TypeOK
<1>5. ppid' \in [Pids -> Pids \cup {Root}]
  BY DEF Exec, IInv, TypeOK
<1>6. /\ Alive' = Alive
      /\ \A q \in Alive \ {pid} : task'[q] = task[q]
      /\ task'[pid].key = nextKey
  BY <1>1, KeyFacts DEF Exec, IInv, TypeOK, Alive, Keys, None
<1>7. TaskOK'
  <2>1. \A q \in Alive' : ppid'[q] \in Alive' \cup {Root}
    BY <1>6 DEF Exec, IInv, TaskOK
  <2>2. \A q \in Alive : task[q].key < nextKey /\ task[q].key \in Int
    BY AliveFacts DEF IInv, TaskOK, Keys
  <2>3. \A q \in Alive' : task'[q].key < nextKey'
    BY <2>2, <1>1, <1>6 DEF Keys
  <2>4. \A p, q \in Alive' : task'[p].key = task'[q].key => p = q
    BY <2>2, <1>1, <1>6 DEF Keys, IInv, TaskOK
  <2> QED BY <2>1, <2>3, <2>4 DEF TaskOK
<1>8. \A n \in wire \cup received : n.key < nextKey /\ n.key \in Int
  BY MsgFields, WireIsMsg DEF IInv, WireOK, TypeOK, Keys
<1>9. \A n \in wire \cup received : n.key # m.key
  BY <1>1, <1>3, <1>8 DEF Keys
<1>10. \A n \in wire \cup received \cup {m} :
         n.type = "exit" => \A q \in Alive' : task'[q].key # n.key
  BY <1>3, <1>6, <1>9 DEF IInv, WireOK
<1>11. nextKey <= nextKey' /\ m.key < nextKey'
  BY <1>1, <1>3 DEF Keys
<1>12. Emit(m)
  BY DEF Exec
<1> HIDE DEF m
<1> QED BY <1>1, <1>3, <1>4, <1>5, <1>7, <1>9, <1>10, <1>11, <1>12, Emission

LEMMA ExitStep ==
  ASSUME IInv, NEW pid \in Pids, Exit(pid), UNCHANGED received
  PROVE  /\ TaskOK' /\ WireOK'
         /\ task' \in [Pids -> [key : Keys \cup {None}, clone : BOOLEAN]]
         /\ ppid' \in [Pids -> Pids \cup {Root}]
         /\ nextKey' \in 1 .. MaxKey + 1 /\ wire' \subseteq WireMsg /\ lost' \in 0 .. MaxLost
<1> DEFINE m == ExitMsg(task[pid].key)
<1>1. /\ nextKey' \in 1 .. MaxKey + 1 /\ nextKey' = nextKey
      /\ pid \in Alive /\ task[pid].key \in Keys
  BY AliveFacts DEF IInv, TypeOK, Exit
<1>2. m \in WireMsg /\ m.type = "exit" /\ m.key = task[pid].key
  BY <1>1, KeyFacts, EmittedMsgs
<1>3. task' \in [Pids -> [key : Keys \cup {None}, clone : BOOLEAN]]
  BY DEF Exit, IInv, TypeOK
<1>4. ppid' \in [Pids -> Pids \cup {Root}]
  BY DEF Exit, IInv, TypeOK
<1>5. /\ Alive' = Alive \ {pid}
      /\ \A q \in Alive \ {pid} :
           task'[q] = task[q] /\ ppid'[q] = IF ppid[q] = pid THEN Root ELSE ppid[q]
  BY DEF Exit, IInv, TypeOK, Alive
<1>6. TaskOK'
  <2>1. \A q \in Alive' : ppid'[q] \in Alive' \cup {Root}
    BY <1>5 DEF IInv, TaskOK
  <2> QED BY <2>1, <1>1, <1>5 DEF IInv, TaskOK
<1>7. \A n \in wire \cup received : n.type = "exit" => n.key # m.key
  BY <1>1, <1>2 DEF IInv, WireOK
<1>8. \A n \in wire \cup received \cup {m} :
         n.type = "exit" => \A q \in Alive' : task'[q].key # n.key
  BY <1>1, <1>2, <1>5 DEF IInv, WireOK, TaskOK
<1>9. nextKey <= nextKey' /\ m.key < nextKey'
  BY <1>1, <1>2 DEF IInv, TaskOK, TypeOK
<1>10. Emit(m)
  BY DEF Exit
<1> HIDE DEF m
<1> QED BY <1>1, <1>2, <1>3, <1>4, <1>6, <1>7, <1>8, <1>9, <1>10, Emission

LEMMA KernelStep ==
  ASSUME IInv, Kernel
  PROVE  IInv'
<1>1. ProgOK' /\ Unheard' /\ \A m \in Reports : ReportOK(m)'
  BY Quietly DEF Kernel, ecVars
<1>2. PICK pid \in Pids : \/ \E parent \in Pids \cup {Root} : Fork(pid, parent)
                          \/ Exec(pid)
                          \/ Exit(pid)
  BY DEF Kernel
<1>3. /\ TaskOK' /\ WireOK'
      /\ task' \in [Pids -> [key : Keys \cup {None}, clone : BOOLEAN]]
      /\ ppid' \in [Pids -> Pids \cup {Root}]
      /\ nextKey' \in 1 .. MaxKey + 1 /\ wire' \subseteq WireMsg /\ lost' \in 0 .. MaxLost
  BY <1>2, ForkStep, ExecStep, ExitStep DEF Kernel
<1>4. TypeOK'
  BY <1>3 DEF IInv, TypeOK, Kernel, absVars, ecVars
<1> QED BY <1>1, <1>3, <1>4 DEF IInv

-----------------------------------------------------------------------------
(***************************************************************************)
(* The observer.                                                           *)
(***************************************************************************)

\* The calls of the handler of m: the last one hands m on, if it is reported.
HandlerOK(s, m) ==
  /\ s \in Seq(Calls) /\ LastOnly(s)
  /\ \A n \in Reports : EndsWith(s, n) <=> n = m

LEMMA EnqueueCall ==
  ASSUME NEW m \in Msgs, NEW internal \in BOOLEAN
  PROVE  HandlerOK(<<DoEnqueue(CacheObj(m, internal))>>, m)
<1>1. CacheObj(m, internal) \in CacheObjs /\ CacheObj(m, internal).msg = m
  BY NewObj
<1>2. DoEnqueue(CacheObj(m, internal)) \in Calls
  BY <1>1, CallTypes
<1>3. \A n : Holds(DoEnqueue(CacheObj(m, internal)), n) <=> n = m
  BY <1>1, CallHolds
<1> QED BY <1>2, <1>3, OneCall DEF HandlerOK

LEMMA NotifyCall ==
  ASSUME NEW m \in WireMsg
  PROVE  HandlerOK(<<DoNotify(m)>>, m)
<1>1. DoNotify(m) \in Calls /\ \A n : Holds(DoNotify(m), n) <=> n = m
  BY CallTypes, CallHolds
<1> QED BY <1>1, OneCall DEF HandlerOK

LEMMA HandlerBefore ==
  ASSUME NEW p \in Seq(Calls), Plain(p), NEW m, NEW s, HandlerOK(s, m)
  PROVE  HandlerOK(p \o s, m)
BY Before DEF HandlerOK

\* A handler that makes only calls that hold nothing, of a message that is not
\* reported.
LEMMA PlainHandler ==
  ASSUME NEW p \in Seq(Calls), Plain(p), NEW m, m \notin Reports
  PROVE  HandlerOK(p, m)
BY PlainFacts DEF HandlerOK

LEMMA CloneHandler ==
  ASSUME TypeOK, NEW m \in WireMsg, m.type = "clone", HandleClone(m)
  PROVE  \E s : HandlerOK(s, m) /\ prog' = [prog EXCEPT ![Observer] = s]
<1>1. m \in Msgs /\ m \notin Reports
  BY WireIsMsg DEF Reports, Notifies
<1>2. AddCloneEvent(m) \in Seq(Calls) /\ Plain(AddCloneEvent(m))
  BY CloneCalls
<1>3. HandlerOK(<<DoEnqueue(CacheObj(m, FALSE))>>, m)
  BY <1>1, EnqueueCall
<1>4. HandlerOK(<<DoEnqueue(CacheObj(m, TRUE))>>, m)
  BY <1>1, EnqueueCall
<1>5. HandlerOK(<< >>, m)
  BY <1>1, EmptyCalls, PlainHandler
<1>6. HandlerOK(AddCloneEvent(m) \o <<DoEnqueue(CacheObj(m, TRUE))>>, m)
  BY <1>2, <1>4, HandlerBefore
<1>7. HandlerOK(AddCloneEvent(m) \o << >>, m)
  BY <1>2, <1>5, HandlerBefore
<1> QED BY <1>3, <1>6, <1>7 DEF HandleClone

LEMMA ExecHandler ==
  ASSUME TypeOK, NEW m \in WireMsg, m.type = "exec", HandleExec(m)
  PROVE  \E s : HandlerOK(s, m) /\ prog' = [prog EXCEPT ![Observer] = s]
<1>1. m \in Msgs /\ m.key \in Procs /\ m.parent \in Procs /\ m.cleanup \in Procs
  BY WireIsMsg, MsgFields
<1>2. ExecParent(m) \in Procs
  BY <1>1 DEF ExecParent
<1>3. DoInc(ExecParent(m), m.key) \in Calls /\ DoCleanup(m.cleanup) \in Calls
  BY <1>1, <1>2, CallTypes
<1>4. \A n : ~Holds(DoInc(ExecParent(m), m.key), n) /\ ~Holds(DoCleanup(m.cleanup), n)
  BY CallHolds
<1>5. <<DoInc(ExecParent(m), m.key)>> \in Seq(Calls) /\ Plain(<<DoInc(ExecParent(m), m.key)>>)
  BY <1>3, <1>4, OneCall
<1>6. CleanupOf(m) \in Seq(Calls) /\ Plain(CleanupOf(m))
  BY <1>3, <1>4, OneCall, EmptyCalls DEF CleanupOf
<1>7. /\ <<DoInc(ExecParent(m), m.key)>> \o CleanupOf(m) \in Seq(Calls)
      /\ Plain(<<DoInc(ExecParent(m), m.key)>> \o CleanupOf(m))
  BY <1>5, <1>6, Before
<1>8. HandlerOK(<<DoInc(ExecParent(m), m.key)>> \o CleanupOf(m) \o <<DoNotify(m)>>, m)
  BY <1>7, NotifyCall, HandlerBefore
<1>9. HandlerOK(<<DoEnqueue(CacheObj(m, TRUE))>>, m)
  BY <1>1, EnqueueCall
<1> QED BY <1>8, <1>9 DEF HandleExec

LEMMA ExitHandler ==
  ASSUME TypeOK, NEW m \in WireMsg, m.type = "exit", HandleExit(m)
  PROVE  \E s : HandlerOK(s, m) /\ prog' = [prog EXCEPT ![Observer] = s]
<1>1. m \in Msgs /\ m.key \in Procs
  BY WireIsMsg, MsgFields
<1>2. DoDec(Parent(m.key), m.key) \in Calls /\ DoDec(m.key, m.key) \in Calls
  BY <1>1, ParentIn, CallTypes
<1>3. \A n : ~Holds(DoDec(Parent(m.key), m.key), n) /\ ~Holds(DoDec(m.key, m.key), n)
  BY CallHolds
<1>4. DoNotify(m) \in Calls /\ \A n : Holds(DoNotify(m), n) <=> n = m
  BY CallTypes, CallHolds
<1>5. HandlerOK(<<DoDec(Parent(m.key), m.key), DoDec(m.key, m.key), DoNotify(m)>>, m)
  BY <1>2, <1>3, <1>4, ThreeCalls DEF HandlerOK
<1>6. HandlerOK(<<DoEnqueue(CacheObj(m, FALSE))>>, m)
  BY <1>1, EnqueueCall
<1> QED BY <1>5, <1>6 DEF HandleExit

\* A message that is taken was nowhere and not reported, and is now held by
\* the last call of its handler.
LEMMA Taken ==
  ASSUME IInv, NEW m \in wire, Idle(Observer), NEW s, HandlerOK(s, m),
         prog' = [prog EXCEPT ![Observer] = s], received' = received \cup {m},
         UNCHANGED <<waiting, walk, walking, notified>>
  PROVE  ProgOK' /\ Unheard' /\ \A n \in Reports : ReportOK(n)'
<1>1. /\ prog \in [Goroutines -> Seq(Calls)] /\ Observer \in Goroutines
      /\ prog[Observer] = << >> /\ m \in WireMsg /\ m \notin received
  BY KeyFacts DEF IInv, TypeOK, WireOK, Idle
<1>2. prog'[Observer] = s /\ \A g \in Goroutines \ {Observer} : prog'[g] = prog[g]
  BY <1>1
<1>3. \A k \in Keys : prog'[k] = prog[k]
  BY <1>2, KeyFacts
<1>4. ProgOK'
  <2>1. \A g \in Goroutines : LastOnly(prog'[g])
    BY <1>2 DEF HandlerOK, IInv, ProgOK
  <2>2. \A k \in Keys : Plain(prog'[k])
    BY <1>3 DEF IInv, ProgOK
  <2> QED BY <2>1, <2>2 DEF IInv, ProgOK
<1>5. Unheard'
  BY DEF IInv, Unheard
<1>6. ASSUME NEW n \in Reports
      PROVE  /\ ~InProg(Observer, n)
             /\ InProg(Observer, n)' <=> n = m
             /\ \A g \in Goroutines \ {Observer} : InProg(g, n)' <=> InProg(g, n)
             /\ \A i \in Nat : InWaiting(i, n)' <=> InWaiting(i, n)
             /\ \A i \in Nat : InWalk(i, n)' <=> InWalk(i, n)
  BY <1>1, <1>2 DEF InProg, InWaiting, InWalk, HandlerOK, EndsWith
<1>7. ASSUME NEW n \in Reports, n # m
      PROVE  ReportOK(n)'
  <2>1. Stays(n)
    BY <1>6, <1>7 DEF Stays
  <2> QED BY <2>1, <1>7, Frame DEF IInv
<1>8. ASSUME m \in Reports
      PROVE  ReportOK(m)'
  <2>1. ~Somewhere(m)
    BY <1>1, <1>8 DEF IInv, ReportOK
  <2>2. m.type \in {"exec", "exit"} /\ m.key \in Keys
    BY <1>1, <1>8, MsgFields, WireIsMsg DEF Reports, Notifies
  <2>3. \A n \in received : ~(n.type = m.type /\ n.key = m.key)
    BY <1>1 DEF IInv, WireOK
  <2>4. notified[<<m.type, m.key>>] = 0
    BY <2>2, <2>3 DEF IInv, Unheard
  <2>5. Somewhere(m)' /\ m \in received'
    BY <1>6, <1>8, <1>1 DEF Somewhere
  <2>6. Unique(m)'
    BY <1>6, <1>8, <2>1 DEF Unique, Somewhere
  <2> QED BY <2>4, <2>5, <2>6 DEF ReportOK
<1> QED BY <1>4, <1>5, <1>7, <1>8

LEMMA ReceiveStep ==
  ASSUME IInv, NEW m \in wire, Receive(m)
  PROVE  IInv'
<1>1. m \in WireMsg /\ m.key \in Keys /\ m.key \in Procs
  BY MsgFields, WireIsMsg DEF IInv, TypeOK
<1>2. PICK s : HandlerOK(s, m) /\ prog' = [prog EXCEPT ![Observer] = s]
  BY <1>1, CloneHandler, ExecHandler, ExitHandler DEF Receive, IInv
<1>3. ProgOK' /\ Unheard' /\ \A n \in Reports : ReportOK(n)'
  BY <1>2, Taken DEF Receive, ecVars
<1>4. TaskOK'
  BY DEF IInv, TaskOK, Receive, kernelVars, Alive
<1>5. wire' \cap received' = {} /\ wire' \cup received' = wire \cup received
  BY DEF Receive, IInv, WireOK
<1>6. WireOK'
  BY <1>5 DEF IInv, WireOK, Receive, kernelVars, Alive
<1>7. prog' \in [Goroutines -> Seq(Calls)]
  BY <1>2, KeyFacts DEF HandlerOK, IInv, TypeOK
<1>8. ASSUME m.type = "exec"
      PROVE  ExecFields(m) \in Fields
  <2>1. m.parent \in Procs /\ m.cleanup \in Procs
    BY <1>1, <1>8, MsgFields, WireIsMsg
  <2>2. ExecParent(m) \in Procs
    BY <2>1 DEF ExecParent
  <2> QED BY <2>2, OptionsAssumption DEF ExecFields, Fields, IInv, TypeOK
<1>9. /\ born' \subseteq Procs /\ cache' \subseteq born' /\ lapsed' \subseteq born'
      /\ refcnt' \in [Procs -> Int] /\ object' \in [Procs -> Fields]
  <2>1. CASE m.type = "exec" /\ HandleExec(m)
    BY <1>1, <1>8, <2>1 DEF HandleExec, IInv, TypeOK
  <2>2. CASE UNCHANGED <<absVars, object>>
    BY <2>2 DEF absVars, IInv, TypeOK
  <2> QED BY <2>1, <2>2 DEF Receive, HandleClone, HandleExit
<1>10. TypeOK'
  BY <1>1, <1>7, <1>9 DEF IInv, TypeOK, Receive, kernelVars, ecVars
<1> QED BY <1>3, <1>4, <1>6, <1>10 DEF IInv

-----------------------------------------------------------------------------
(***************************************************************************)
(* The calls.                                                              *)
(***************************************************************************)

\* A goroutine that makes a call, as it is before the call.
LEMMA AtCall ==
  ASSUME IInv, NEW g \in Goroutines, ~Idle(g)
  PROVE  /\ prog[g] \in Seq(Calls) /\ prog[g] # << >> /\ LastOnly(prog[g])
         /\ Head(prog[g]) \in Calls /\ Tail(prog[g]) \in Seq(Calls)
         /\ LastOnly(Tail(prog[g]))
         /\ Plain(prog[g]) => Plain(Tail(prog[g]))
         /\ g \in Keys => Plain(prog[g])
<1>1. prog[g] \in Seq(Calls) /\ prog[g] # << >> /\ LastOnly(prog[g])
  BY DEF IInv, TypeOK, ProgOK, Idle
<1> QED BY <1>1, After DEF IInv, ProgOK

\* What remains of a goroutine keeps the invariants on calls.
LEMMA Remains ==
  ASSUME IInv, NEW g \in Goroutines, NEW s \in Seq(Calls), LastOnly(s),
         Plain(prog[g]) => Plain(s), prog' = [prog EXCEPT ![g] = s],
         UNCHANGED <<walk, walking>>
  PROVE  /\ ProgOK' /\ prog' \in [Goroutines -> Seq(Calls)]
         /\ prog'[g] = s /\ \A h \in Goroutines \ {g} : prog'[h] = prog[h]
<1>1. prog \in [Goroutines -> Seq(Calls)]
  BY DEF IInv, TypeOK
<1>2. /\ prog' \in [Goroutines -> Seq(Calls)]
      /\ prog'[g] = s /\ \A h \in Goroutines \ {g} : prog'[h] = prog[h]
  BY <1>1
<1>3. \A h \in Goroutines : LastOnly(prog'[h])
  BY <1>2 DEF IInv, ProgOK
<1>4. \A k \in Keys : Plain(prog'[k])
  BY <1>2, KeyFacts DEF IInv, ProgOK
<1> QED BY <1>2, <1>3, <1>4 DEF IInv, ProgOK

\* A call that neither reports nor hands over leaves the messages in place.
LEMMA Made ==
  ASSUME IInv, NEW g \in Goroutines, NEW s \in Seq(Calls), LastOnly(s),
         Plain(prog[g]) => Plain(s), prog' = [prog EXCEPT ![g] = s],
         \A m \in Reports : EndsWith(s, m) <=> EndsWith(prog[g], m),
         UNCHANGED <<waiting, walk, walking, notified, received>>
  PROVE  /\ ProgOK' /\ prog' \in [Goroutines -> Seq(Calls)]
         /\ Unheard' /\ \A m \in Reports : ReportOK(m)'
<1>1. /\ ProgOK' /\ prog' \in [Goroutines -> Seq(Calls)]
      /\ prog'[g] = s /\ \A h \in Goroutines \ {g} : prog'[h] = prog[h]
  BY Remains
<1>2. Unheard'
  BY DEF IInv, Unheard
<1>3. ASSUME NEW m \in Reports
      PROVE  ReportOK(m)'
  <2>1. Stays(m)
    BY <1>1 DEF Stays, InProg, InWaiting, InWalk
  <2> QED BY <2>1, Frame DEF IInv
<1> QED BY <1>1, <1>2, <1>3

LEMMA MadeFirst ==
  ASSUME IInv, NEW g \in Goroutines, ~Idle(g),
         \A m \in Reports : ~Holds(Head(prog[g]), m), Return(g),
         UNCHANGED <<waiting, walk, walking, notified, received>>
  PROVE  /\ ProgOK' /\ prog' \in [Goroutines -> Seq(Calls)]
         /\ Unheard' /\ \A m \in Reports : ReportOK(m)'
<1>1. /\ prog[g] \in Seq(Calls) /\ prog[g] # << >> /\ LastOnly(prog[g])
      /\ Tail(prog[g]) \in Seq(Calls) /\ LastOnly(Tail(prog[g]))
      /\ Plain(prog[g]) => Plain(Tail(prog[g]))
  BY AtCall
<1>2. \A m \in Reports : EndsWith(Tail(prog[g]), m) <=> EndsWith(prog[g], m)
  BY <1>1, After
<1>3. prog' = [prog EXCEPT ![g] = Tail(prog[g])]
  BY DEF Return
<1> QED BY <1>1, <1>2, <1>3, Made

\* process++ and parent++, process-- and parent--, and adding to the cache.
LEMMA CountStep ==
  ASSUME IInv, NEW g \in Goroutines, StepInc(g) \/ StepDec(g) \/ StepAdd(g),
         UNCHANGED received
  PROVE  /\ ProgOK' /\ prog' \in [Goroutines -> Seq(Calls)]
         /\ Unheard' /\ \A m \in Reports : ReportOK(m)'
         /\ born' \subseteq Procs /\ cache' \subseteq born' /\ lapsed' \subseteq born'
         /\ refcnt' \in [Procs -> Int] /\ object' \in [Procs -> Fields]
         /\ counted' \subseteq Calls
<1> DEFINE c == Head(prog[g])
<1>1. ~Idle(g) /\ c.op \in {"inc", "dec", "add"} /\ Return(g)
  BY DEF StepInc, StepDec, StepAdd, At
<1>2. c \in Calls
  BY <1>1, AtCall
<1>3. \A m \in Reports : ~Holds(c, m)
  BY <1>1 DEF Holds
<1>4. /\ ProgOK' /\ prog' \in [Goroutines -> Seq(Calls)]
      /\ Unheard' /\ \A m \in Reports : ReportOK(m)'
  BY <1>1, <1>3, MadeFirst DEF StepInc, StepDec, StepAdd, ecVars
<1>5. /\ born' \subseteq Procs /\ cache' \subseteq born' /\ lapsed' \subseteq born'
      /\ refcnt' \in [Procs -> Int] /\ object' \in [Procs -> Fields]
  <2>1. CASE StepInc(g)
    BY <2>1 DEF StepInc, RefInc, IInv, TypeOK
  <2>2. CASE StepDec(g)
    BY <2>2 DEF StepDec, RefDec, IInv, TypeOK
  <2>3. CASE StepAdd(g)
    <3>1. c.key \in Keys /\ c.key \in Procs /\ c.fields \in Fields
      BY <1>2, <2>3, CallFields, KeyFacts DEF StepAdd, At
    <3> QED BY <3>1, <2>3 DEF StepAdd, IInv, TypeOK
  <2> QED BY <2>1, <2>2, <2>3
<1>6. counted' \subseteq Calls
  BY <1>2 DEF StepInc, StepDec, StepAdd, IInv, TypeOK
<1> QED BY <1>4, <1>5, <1>6

LEMMA CleanupStep ==
  ASSUME IInv, NEW g \in Goroutines, StepCleanup(g), UNCHANGED received
  PROVE  /\ ProgOK' /\ prog' \in [Goroutines -> Seq(Calls)]
         /\ Unheard' /\ \A m \in Reports : ReportOK(m)'
<1> DEFINE k == Head(prog[g]).key
           p == IF Known(k) THEN <<DoDec(Parent(k), k), DoDec(k, k)>>
                            ELSE <<DoEnqueue(CacheObj(CleanupMsg(k), FALSE))>>
           s == p \o Tail(prog[g])
<1>1. ~Idle(g) /\ Head(prog[g]).op = "cleanup"
  BY DEF StepCleanup, At
<1>2. /\ prog[g] \in Seq(Calls) /\ prog[g] # << >> /\ LastOnly(prog[g])
      /\ Head(prog[g]) \in Calls
      /\ Tail(prog[g]) \in Seq(Calls) /\ LastOnly(Tail(prog[g]))
      /\ Plain(prog[g]) => Plain(Tail(prog[g]))
  BY <1>1, AtCall
<1>3. k \in Procs
  BY <1>1, <1>2, CallFields
<1>4. CleanupMsg(k) \in Msgs /\ CleanupMsg(k) \notin Reports
  BY <1>3 DEF CleanupMsg, Msgs, Reports, Notifies
<1>5. p \in Seq(Calls) /\ Plain(p)
  <2>1. DoDec(Parent(k), k) \in Calls /\ DoDec(k, k) \in Calls
    BY <1>3, ParentIn, CallTypes DEF IInv
  <2>2. \A n : ~Holds(DoDec(Parent(k), k), n) /\ ~Holds(DoDec(k, k), n)
    BY CallHolds
  <2>3. <<DoDec(Parent(k), k), DoDec(k, k)>> \in Seq(Calls) /\ Plain(<<DoDec(Parent(k), k), DoDec(k, k)>>)
    BY <2>1, <2>2, TwoCalls
  <2> DEFINE e == <<DoEnqueue(CacheObj(CleanupMsg(k), FALSE))>>
  <2>4. HandlerOK(e, CleanupMsg(k))
    BY <1>4, EnqueueCall
  <2>5. e \in Seq(Calls) /\ \A n \in Reports : ~EndsWith(e, n)
    BY <2>4, <1>4 DEF HandlerOK
  <2>6. Plain(e)
    BY <2>5, OnePlain
  <2> QED BY <2>3, <2>5, <2>6
<1> HIDE DEF p
<1>6. /\ s \in Seq(Calls) /\ LastOnly(s)
      /\ Plain(prog[g]) => Plain(s)
      /\ \A m \in Reports : EndsWith(s, m) <=> EndsWith(Tail(prog[g]), m)
  BY <1>2, <1>5, Before
<1>7. \A m \in Reports : ~Holds(Head(prog[g]), m)
  BY <1>1 DEF Holds
<1>8. \A m \in Reports : EndsWith(Tail(prog[g]), m) <=> EndsWith(prog[g], m)
  BY <1>2, <1>7, After
<1>9. prog' = [prog EXCEPT ![g] = s]
  BY DEF StepCleanup, p
<1>10. UNCHANGED <<waiting, walk, walking, notified, received>>
  BY DEF StepCleanup, ecVars
<1> HIDE DEF s
<1> QED BY <1>6, <1>8, <1>9, <1>10, Made

LEMMA GoStep ==
  ASSUME IInv, NEW g \in Goroutines, StepGo(g), UNCHANGED received
  PROVE  /\ ProgOK' /\ prog' \in [Goroutines -> Seq(Calls)]
         /\ Unheard' /\ \A m \in Reports : ReportOK(m)'
<1> DEFINE k == Head(prog[g]).key
           s == <<DoCleanup(Head(prog[g]).old)>>
<1>1. ~Idle(g) /\ Head(prog[g]).op = "go"
  BY DEF StepGo, At
<1>2. /\ prog[g] \in Seq(Calls) /\ prog[g] # << >> /\ LastOnly(prog[g])
      /\ Head(prog[g]) \in Calls
      /\ Tail(prog[g]) \in Seq(Calls) /\ LastOnly(Tail(prog[g]))
      /\ Plain(prog[g]) => Plain(Tail(prog[g]))
  BY <1>1, AtCall
<1>3. k \in Keys /\ k \in Goroutines /\ Head(prog[g]).old \in Procs
  BY <1>1, <1>2, CallFields, KeyFacts
<1>4. s \in Seq(Calls) /\ Plain(s)
  BY <1>3, CallTypes, CallHolds, OneCall
<1>5. LastOnly(s) /\ \A m \in Reports : ~EndsWith(s, m)
  BY <1>4, PlainFacts
<1> HIDE DEF s
<1>6. prog' = [prog EXCEPT ![g] = Tail(@), ![k] = s]
  BY DEF StepGo, s
<1>7. /\ prog' \in [Goroutines -> Seq(Calls)]
      /\ prog'[k] = s
      /\ g # k => prog'[g] = Tail(prog[g])
      /\ \A h \in Goroutines \ {g, k} : prog'[h] = prog[h]
  BY <1>2, <1>3, <1>4, <1>6 DEF IInv, TypeOK
<1>8. ProgOK'
  <2>1. \A h \in Goroutines : LastOnly(prog'[h])
    BY <1>2, <1>5, <1>7 DEF IInv, ProgOK
  <2>2. \A h \in Keys : Plain(prog'[h])
    BY <1>2, <1>4, <1>7, KeyFacts DEF IInv, ProgOK
  <2>3. UNCHANGED <<walk, walking>>
    BY DEF StepGo, ecVars
  <2> QED BY <2>1, <2>2, <2>3 DEF IInv, ProgOK
<1>9. Unheard'
  BY DEF IInv, Unheard, StepGo
<1>10. ASSUME NEW m \in Reports
       PROVE  ReportOK(m)'
  <2>1. ~Holds(Head(prog[g]), m)
    BY <1>1 DEF Holds
  <2>2. \A n \in Reports : ~Holds(Head(prog[g]), n)
    BY <1>1 DEF Holds
  <2>3. EndsWith(Tail(prog[g]), m) <=> EndsWith(prog[g], m)
    BY <1>2, <2>2, After
  <2>4. ~EndsWith(prog[k], m) /\ ~EndsWith(prog'[k], m)
    <3>1. prog[k] \in Seq(Calls) /\ Plain(prog[k])
      BY <1>3 DEF IInv, TypeOK, ProgOK
    <3> QED BY <3>1, <1>5, <1>7, PlainFacts
  <2>5. \A h \in Goroutines : InProg(h, m)' <=> InProg(h, m)
    BY <1>7, <2>3, <2>4 DEF InProg
  <2>6. UNCHANGED <<waiting, walk, notified>>
    BY DEF StepGo, ecVars
  <2>7. Stays(m)
    BY <2>5, <2>6 DEF Stays, InWaiting, InWalk
  <2> QED BY <2>6, <2>7, Frame DEF IInv
<1> QED BY <1>7, <1>8, <1>9, <1>10

\* Where the last call of a goroutine hands a message on, the others stay.
LEMMA Handed ==
  ASSUME IInv, NEW g \in Goroutines, ~Idle(g), Return(g), NEW m,
         \A n \in Reports : Holds(Head(prog[g]), n) <=> n = m,
         UNCHANGED <<walk, walking>>
  PROVE  /\ ProgOK' /\ prog' \in [Goroutines -> Seq(Calls)]
         /\ \A h \in Goroutines \ {g} : \A n : InProg(h, n)' <=> InProg(h, n)
         /\ m \in Reports => InProg(g, m) /\ ~InProg(g, m)'
         /\ \A n \in Reports : n # m => (InProg(g, n)' <=> InProg(g, n))
<1>1. /\ prog[g] \in Seq(Calls) /\ prog[g] # << >> /\ LastOnly(prog[g])
      /\ Tail(prog[g]) \in Seq(Calls) /\ LastOnly(Tail(prog[g]))
      /\ Plain(prog[g]) => Plain(Tail(prog[g]))
  BY AtCall
<1>2. prog' = [prog EXCEPT ![g] = Tail(prog[g])]
  BY DEF Return
<1>3. /\ ProgOK' /\ prog' \in [Goroutines -> Seq(Calls)]
      /\ prog'[g] = Tail(prog[g]) /\ \A h \in Goroutines \ {g} : prog'[h] = prog[h]
  BY <1>1, <1>2, Remains
<1>4. CASE m \in Reports
  <2>1. /\ EndsWith(prog[g], m) /\ \A n : ~EndsWith(Tail(prog[g]), n)
        /\ \A n : EndsWith(prog[g], n) <=> Holds(Head(prog[g]), n)
    BY <1>1, <1>4, After
  <2> QED BY <2>1, <1>3 DEF InProg
<1>5. CASE m \notin Reports
  <2>1. \A n \in Reports : ~Holds(Head(prog[g]), n)
    BY <1>5
  <2>2. \A n \in Reports : EndsWith(Tail(prog[g]), n) <=> EndsWith(prog[g], n)
    BY <1>1, <2>1, After
  <2> QED BY <2>2, <1>3, <1>5 DEF InProg
<1> QED BY <1>4, <1>5

\* A message that the event cache gets moves from a goroutine to the end of
\* the waiting objects.
LEMMA EnqueueStep ==
  ASSUME IInv, NEW g \in Goroutines, StepEnqueue(g), UNCHANGED received
  PROVE  /\ ProgOK' /\ prog' \in [Goroutines -> Seq(Calls)]
         /\ waiting' \in Seq(CacheObjs)
         /\ Unheard' /\ \A m \in Reports : ReportOK(m)'
<1> DEFINE end == Len(waiting) + 1
<1>0. PICK o, m : o = Head(prog[g]).obj /\ m = o.msg
  OBVIOUS
<1>1. ~Idle(g) /\ Head(prog[g]).op = "enqueue" /\ Return(g)
  BY DEF StepEnqueue, At
<1>2. o \in CacheObjs
  BY <1>0, <1>1, AtCall, CallFields
<1>3. \A n \in Reports : Holds(Head(prog[g]), n) <=> n = m
  BY <1>0, <1>1 DEF Holds
<1>4. waiting' = Append(waiting, o) /\ UNCHANGED <<walk, walking, notified>>
  BY <1>0 DEF StepEnqueue
<1>5. /\ ProgOK' /\ prog' \in [Goroutines -> Seq(Calls)]
      /\ \A h \in Goroutines \ {g} : \A n : InProg(h, n)' <=> InProg(h, n)
      /\ m \in Reports => InProg(g, m) /\ ~InProg(g, m)'
      /\ \A n \in Reports : n # m => (InProg(g, n)' <=> InProg(g, n))
  BY <1>1, <1>3, <1>4, Handed
<1>6. /\ waiting \in Seq(CacheObjs) /\ Len(waiting) \in Nat
      /\ DOMAIN waiting = 1 .. Len(waiting)
  BY LenProperties DEF IInv, TypeOK
<1>7. /\ waiting' \in Seq(CacheObjs) /\ DOMAIN waiting' = 1 .. end
      /\ waiting'[end] = o /\ \A i \in 1 .. Len(waiting) : waiting'[i] = waiting[i]
  BY <1>2, <1>4, <1>6, AppendProperties, LenProperties
<1>8. \A n : \A i \in Nat :
        InWaiting(i, n)' <=> InWaiting(i, n) \/ (i = end /\ n = m)
  BY <1>0, <1>6, <1>7 DEF InWaiting
<1>9. \A n : \A i \in Nat : InWalk(i, n)' <=> InWalk(i, n)
  BY <1>4 DEF InWalk
<1>10. Unheard'
  BY <1>4 DEF IInv, Unheard
<1>11. ASSUME NEW n \in Reports, n # m
       PROVE  ReportOK(n)'
  <2>1. Stays(n)
    BY <1>5, <1>8, <1>9, <1>11 DEF Stays
  <2> QED BY <2>1, <1>4, Frame DEF IInv
<1>12. ASSUME m \in Reports
       PROVE  ReportOK(m)'
  <2>1. InProg(g, m) /\ Unique(m) /\ m \in received /\ notified[<<m.type, m.key>>] = 0
    BY <1>5, <1>12 DEF IInv, ReportOK, Somewhere
  <2>2. /\ \A h \in Goroutines : ~InProg(h, m)'
        /\ \A i \in Nat : InWaiting(i, m)' <=> i = end
        /\ \A i \in Nat : ~InWalk(i, m)'
    BY <2>1, <1>5, <1>8, <1>9, <1>12 DEF Unique
  <2>3. end \in Nat
    BY <1>6
  <2>4. Somewhere(m)' /\ Unique(m)'
    BY <2>2, <2>3 DEF Somewhere, Unique
  <2> QED BY <2>1, <2>4, <1>4 DEF ReportOK
<1> QED BY <1>5, <1>7, <1>10, <1>11, <1>12

\* A message that is reported was held by the goroutine alone, and is nowhere
\* afterwards.
LEMMA NotifyStep ==
  ASSUME IInv, NEW g \in Goroutines, StepNotify(g), UNCHANGED received
  PROVE  /\ ProgOK' /\ prog' \in [Goroutines -> Seq(Calls)]
         /\ notified' \in [{"exec", "exit"} \X Keys -> Nat]
         /\ Unheard' /\ \A m \in Reports : ReportOK(m)'
<1>0. PICK m : m = Head(prog[g]).msg
  OBVIOUS
<1>1. ~Idle(g) /\ Head(prog[g]).op = "notify" /\ Return(g)
  BY DEF StepNotify, At
<1>2. m \in WireMsg
  BY <1>0, <1>1, AtCall, CallFields
<1>3. \A n \in Reports : Holds(Head(prog[g]), n) <=> n = m
  BY <1>0, <1>1 DEF Holds
<1>4. /\ notified' = [notified EXCEPT ![<<m.type, m.key>>] = @ + 1]
      /\ UNCHANGED <<waiting, walk, walking>>
  BY <1>0 DEF StepNotify, ecVars
<1>5. /\ ProgOK' /\ prog' \in [Goroutines -> Seq(Calls)]
      /\ \A h \in Goroutines \ {g} : \A n : InProg(h, n)' <=> InProg(h, n)
      /\ m \in Reports => InProg(g, m) /\ ~InProg(g, m)'
      /\ \A n \in Reports : n # m => (InProg(g, n)' <=> InProg(g, n))
  BY <1>1, <1>3, <1>4, Handed
<1>6. notified \in [{"exec", "exit"} \X Keys -> Nat]
  BY DEF IInv, TypeOK
<1>7. /\ notified' \in [{"exec", "exit"} \X Keys -> Nat]
      /\ \A type \in {"exec", "exit"}, k \in Keys :
           ~(type = m.type /\ k = m.key) => notified'[<<type, k>>] = notified[<<type, k>>]
  <2> DEFINE D == {"exec", "exit"} \X Keys
             e == <<m.type, m.key>>
  <2>1. \A type \in {"exec", "exit"}, k \in Keys :
          /\ <<type, k>> \in D
          /\ ~(type = m.type /\ k = m.key) => <<type, k>> # e
    OBVIOUS
  <2>2. notified \in [D -> Nat] /\ notified' = [notified EXCEPT ![e] = @ + 1]
    BY <1>4, <1>6
  <2> HIDE DEF D, e
  <2>3. notified' \in [D -> Nat] /\ \A d \in D : d # e => notified'[d] = notified[d]
    <3>1. CASE e \in D
      <4>1. notified[e] + 1 \in Nat
        BY <2>2, <3>1
      <4> QED BY <2>2, <3>1, <4>1, Zenon
    <3>2. CASE e \notin D
      <4>1. notified' = notified
        BY <2>2, <3>2, Zenon
      <4> QED BY <2>2, <4>1
    <3> QED BY <3>1, <3>2
  <2>4. \A type \in {"exec", "exit"}, k \in Keys :
          ~(type = m.type /\ k = m.key) => notified'[<<type, k>>] = notified[<<type, k>>]
    BY <2>1, <2>3
  <2> QED BY <2>3, <2>4 DEF D
<1>8. m \in Reports =>
        /\ m \in received /\ Unique(m) /\ notified[<<m.type, m.key>>] = 0
        /\ m.type \in {"exec", "exit"} /\ m.key \in Keys
        /\ notified'[<<m.type, m.key>>] = 1
  <2> SUFFICES ASSUME m \in Reports
      PROVE  /\ m \in received /\ Unique(m) /\ notified[<<m.type, m.key>>] = 0
             /\ m.type \in {"exec", "exit"} /\ m.key \in Keys
             /\ notified'[<<m.type, m.key>>] = 1
    OBVIOUS
  <2>1. m \in received /\ Unique(m) /\ notified[<<m.type, m.key>>] = 0
    BY <1>5 DEF IInv, ReportOK, Somewhere
  <2>2. m.type \in {"exec", "exit"} /\ m.key \in Keys
    BY <1>2, MsgFields, WireIsMsg DEF Reports, Notifies
  <2> QED BY <2>1, <2>2, <1>4, <1>6
<1>9. m \notin Reports => m.type \notin {"exec", "exit"}
  BY <1>2 DEF Reports, Notifies
<1>10. Unheard'
  <2> SUFFICES ASSUME NEW type \in {"exec", "exit"}, NEW k \in Keys,
                      \A n \in received : ~(n.type = type /\ n.key = k)
               PROVE  notified'[<<type, k>>] = 0
    BY DEF Unheard
  <2>1. ~(type = m.type /\ k = m.key)
    BY <1>8, <1>9
  <2> QED BY <2>1, <1>7 DEF IInv, Unheard
<1>11. ASSUME NEW n \in Reports, n # m
       PROVE  ReportOK(n)'
  <2>1. Stays(n)
    BY <1>4, <1>5, <1>11 DEF Stays, InWaiting, InWalk
  <2>2. n.type \in {"exec", "exit"} /\ n.key \in Keys
    BY MsgFields, WireIsMsg DEF Reports, Notifies
  <2>3. n \in received => ~(n.type = m.type /\ n.key = m.key)
    BY <1>8, <1>9, <1>11, <2>2 DEF IInv, WireOK
  <2>4. n \in received => notified'[<<n.type, n.key>>] = notified[<<n.type, n.key>>]
    BY <1>7, <2>2, <2>3
  <2> QED BY <2>1, <2>4, Frame DEF IInv
<1>12. ASSUME m \in Reports
       PROVE  ReportOK(m)'
  <2>1. /\ \A h \in Goroutines : ~InProg(h, m)'
        /\ \A i \in Nat : ~InWaiting(i, m)' /\ ~InWalk(i, m)'
    BY <1>4, <1>5, <1>8, <1>12 DEF Unique, InWaiting, InWalk
  <2>2. ~Somewhere(m)' /\ Unique(m)'
    BY <2>1 DEF Somewhere, Unique
  <2> QED BY <2>2, <1>8, <1>12 DEF ReportOK
<1> QED BY <1>5, <1>7, <1>10, <1>11, <1>12

LEMMA CallStep ==
  ASSUME IInv, NEW g \in Goroutines, Step(g)
  PROVE  IInv'
<1>1. TaskOK' /\ WireOK'
  BY DEF Step, kernelVars, IInv, TaskOK, WireOK, Alive
<1>2. UNCHANGED <<task, ppid, nextKey, lost, wire, podKnown, received>>
  BY DEF Step, kernelVars
<1>3. CASE StepInc(g) \/ StepDec(g) \/ StepAdd(g)
  <2>1. /\ ProgOK' /\ prog' \in [Goroutines -> Seq(Calls)]
        /\ Unheard' /\ \A m \in Reports : ReportOK(m)'
        /\ born' \subseteq Procs /\ cache' \subseteq born' /\ lapsed' \subseteq born'
        /\ refcnt' \in [Procs -> Int] /\ object' \in [Procs -> Fields]
        /\ counted' \subseteq Calls
    BY <1>2, <1>3, CountStep
  <2>2. UNCHANGED <<waiting, walk, walking, notified>>
    BY <1>3 DEF StepInc, StepDec, StepAdd, ecVars
  <2>3. TypeOK'
    BY <2>1, <2>2, <1>2 DEF IInv, TypeOK
  <2> QED BY <2>1, <2>3, <1>1 DEF IInv
<1>4. CASE StepEnqueue(g)
  <2>1. /\ ProgOK' /\ prog' \in [Goroutines -> Seq(Calls)]
        /\ waiting' \in Seq(CacheObjs)
        /\ Unheard' /\ \A m \in Reports : ReportOK(m)'
    BY <1>2, <1>4, EnqueueStep
  <2>2. TypeOK'
    BY <2>1, <1>2, <1>4 DEF IInv, TypeOK, StepEnqueue, absVars
  <2> QED BY <2>1, <2>2, <1>1 DEF IInv
<1>5. CASE StepNotify(g)
  <2>1. /\ ProgOK' /\ prog' \in [Goroutines -> Seq(Calls)]
        /\ notified' \in [{"exec", "exit"} \X Keys -> Nat]
        /\ Unheard' /\ \A m \in Reports : ReportOK(m)'
    BY <1>2, <1>5, NotifyStep
  <2>2. UNCHANGED <<absVars, object, ecVars, counted>>
    BY <1>5 DEF StepNotify
  <2>3. TypeOK'
    BY <2>1, <2>2, <1>2 DEF IInv, TypeOK, absVars, ecVars
  <2> QED BY <2>1, <2>3, <1>1 DEF IInv
<1>6. CASE StepCleanup(g) \/ StepGo(g)
  <2>1. /\ ProgOK' /\ prog' \in [Goroutines -> Seq(Calls)]
        /\ Unheard' /\ \A m \in Reports : ReportOK(m)'
    BY <1>2, <1>6, CleanupStep, GoStep
  <2>2. UNCHANGED <<absVars, object, ecVars, notified, counted>>
    BY <1>6 DEF StepCleanup, StepGo
  <2>3. TypeOK'
    BY <2>1, <2>2, <1>2 DEF IInv, TypeOK, absVars, ecVars
  <2> QED BY <2>1, <2>3, <1>1 DEF IInv
<1> QED BY <1>3, <1>4, <1>5, <1>6 DEF Step

-----------------------------------------------------------------------------
(***************************************************************************)
(* The event cache loop.                                                   *)
(***************************************************************************)

\* A tick moves all waiting objects to the walk.
LEMMA TickStep ==
  ASSUME IInv, ecTick, UNCHANGED <<kernelVars, wire, podKnown, notified, received, counted>>
  PROVE  IInv'
<1>1. /\ walk = << >> /\ walk' = waiting /\ waiting' = << >> /\ walking' = TRUE
      /\ prog' = prog
  BY DEF ecTick, IInv, ProgOK
<1>2. TypeOK'
  BY <1>1, EmptySeq DEF IInv, TypeOK, ecTick, absVars, kernelVars
<1>3. TaskOK' /\ WireOK' /\ Unheard'
  BY DEF kernelVars, IInv, TaskOK, WireOK, Unheard, Alive
<1>4. ProgOK'
  BY <1>1 DEF IInv, ProgOK
<1>5. ASSUME NEW m \in Reports
      PROVE  ReportOK(m)'
  <2>1. /\ \A g \in Goroutines : InProg(g, m)' <=> InProg(g, m)
        /\ \A i \in Nat : ~InWaiting(i, m)' /\ ~InWalk(i, m)
        /\ \A i \in Nat : InWalk(i, m)' <=> InWaiting(i, m)
    BY <1>1 DEF InProg, InWaiting, InWalk
  <2>2. Somewhere(m)' <=> Somewhere(m)
    BY <2>1 DEF Somewhere
  <2>3. Unique(m)'
    BY <2>1 DEF IInv, ReportOK, Unique
  <2> QED BY <2>2, <2>3 DEF IInv, ReportOK
<1> QED BY <1>2, <1>3, <1>4, <1>5 DEF IInv

LEMMA EndStep ==
  ASSUME IInv, ecEnd, UNCHANGED <<kernelVars, wire, podKnown, notified, received, counted>>
  PROVE  IInv'
<1>1. TypeOK'
  BY DEF IInv, TypeOK, ecEnd, absVars, kernelVars
<1>2. TaskOK' /\ WireOK' /\ Unheard'
  BY DEF kernelVars, IInv, TaskOK, WireOK, Unheard, Alive
<1>3. ProgOK'
  BY DEF IInv, ProgOK, ecEnd
<1>4. ASSUME NEW m \in Reports
      PROVE  ReportOK(m)'
  <2>1. Stays(m)
    BY DEF Stays, InProg, InWaiting, InWalk, ecEnd
  <2> QED BY <2>1, Frame DEF IInv
<1> QED BY <1>1, <1>2, <1>3, <1>4 DEF IInv

\* What the loop still does for an object: a report, if the object is done and
\* its message is reported.
LEMMA TellCalls ==
  ASSUME NEW m \in Msgs, NEW done \in BOOLEAN
  PROVE  /\ Tell(m, done) \in Seq(Calls) /\ LastOnly(Tell(m, done))
         /\ \A n \in Reports : EndsWith(Tell(m, done), n) <=> done /\ n = m
<1>1. CASE done /\ Notifies(m)
  <2>1. m \in WireMsg
    BY <1>1, MsgFields DEF Reports
  <2> QED BY <2>1, <1>1, NotifyCall DEF Tell, HandlerOK
<1>2. CASE ~(done /\ Notifies(m))
  <2>1. done => m \notin Reports
    BY <1>2, MsgFields
  <2>2. Tell(m, done) = << >>
    BY <1>2 DEF Tell
  <2> QED BY <2>1, <2>2, EmptyCalls
<1> QED BY <1>1, <1>2

\* A retry takes the first object of the walk: its message is reported next,
\* or the object waits again.
LEMMA RetryStep ==
  ASSUME IInv, ecRetry, UNCHANGED <<kernelVars, wire, podKnown, notified, received, counted>>
  PROVE  IInv'
<1>0. PICK o, m, r, done :
        /\ o = Head(walk) /\ m = o.msg /\ r = RetryObj(o)
        /\ done = (~r.err \/ LastTry(o))
  OBVIOUS
<1> DEFINE kept == [r.obj EXCEPT !.color = @ + 1]
           s == r.do \o Tell(m, done)
           end == Len(waiting) + 1
<1>1. /\ walk # << >> /\ prog[Loop] = << >> /\ walk' = Tail(walk)
      /\ prog' = [prog EXCEPT ![Loop] = s]
      /\ waiting' = IF done THEN waiting ELSE Append(waiting, kept)
      /\ walking /\ walking' = walking
  BY <1>0 DEF ecRetry, Idle
<1>2. /\ walk \in Seq(CacheObjs) /\ waiting \in Seq(CacheObjs)
      /\ prog \in [Goroutines -> Seq(Calls)] /\ Loop \in Goroutines
  BY KeyFacts DEF IInv, TypeOK
<1>3. /\ o \in CacheObjs /\ walk' \in Seq(CacheObjs) /\ o = walk[1]
      /\ Len(walk') = Len(walk) - 1 /\ \A i \in 1 .. Len(walk') : walk'[i] = walk[i + 1]
  BY <1>0, <1>1, <1>2, HeadTailProperties
<1>4. /\ Len(walk) \in Nat \ {0} /\ DOMAIN walk = 1 .. Len(walk)
      /\ DOMAIN walk' = 1 .. Len(walk) - 1
  BY <1>1, <1>2, <1>3, LenProperties, EmptySeq
<1>5. RetryOK(o, r) /\ m \in Msgs
  BY <1>0, <1>3, Retries, ObjFields DEF IInv
<1>6. done \in BOOLEAN
  BY <1>0
<1>7. /\ s \in Seq(Calls) /\ LastOnly(s)
      /\ \A n \in Reports : EndsWith(s, n) <=> done /\ n = m
  BY <1>5, <1>6, TellCalls, Before DEF RetryOK
<1>8. ~done => kept \in CacheObjs /\ kept.msg = m
  <2> SUFFICES ASSUME ~done
               PROVE  kept \in CacheObjs /\ kept.msg = m
    OBVIOUS
  <2>1. o.color \in 0 .. NumRetries - 1 /\ ~(o.color + 1 >= NumRetries)
    BY <1>0, <1>3, ObjFields DEF LastTry
  <2>2. r.obj \in CacheObjs /\ r.obj.msg = m /\ r.obj.color = o.color
    BY <1>0, <1>5 DEF RetryOK
  <2>3. o.color + 1 \in 0 .. NumRetries - 1
    BY <2>1, OptionsAssumption
  <2> QED BY <2>2, <2>3 DEF CacheObjs
<1> HIDE DEF s, kept
<1>9. /\ Len(waiting) \in Nat /\ DOMAIN waiting = 1 .. Len(waiting)
  BY <1>2, LenProperties
<1>10. waiting' \in Seq(CacheObjs)
  BY <1>1, <1>2, <1>8, AppendProperties
<1>11. ~done => /\ DOMAIN waiting' = 1 .. end /\ waiting'[end].msg = m
                /\ \A i \in 1 .. Len(waiting) : waiting'[i] = waiting[i]
  BY <1>1, <1>2, <1>8, <1>9, <1>10, AppendProperties, LenProperties
<1>12. /\ prog' \in [Goroutines -> Seq(Calls)] /\ prog'[Loop] = s
       /\ \A g \in Goroutines \ {Loop} : prog'[g] = prog[g]
  BY <1>1, <1>2, <1>7
<1>13. object' \in [Procs -> Fields]
  <2>1. m.key \in Procs
    BY <1>5, MsgFields
  <2>2. object \in [Procs -> Fields] /\ object[m.key] \in Fields /\ K8s \in BOOLEAN
    BY <2>1, OptionsAssumption DEF IInv, TypeOK
  <2>3. \/ object' = object
        \/ object' = [object EXCEPT ![m.key].pod = K8s /\ object[m.key].docker]
    BY <1>0 DEF ecRetry
  <2>4. [object[m.key] EXCEPT !.pod = K8s /\ object[m.key].docker] \in Fields
    BY <2>2 DEF Fields
  <2>5. [object EXCEPT ![m.key].pod = K8s /\ object[m.key].docker] \in [Procs -> Fields]
    BY <2>2, <2>4
  <2> QED BY <2>2, <2>3, <2>5
<1>14. TypeOK'
  BY <1>1, <1>3, <1>10, <1>12, <1>13 DEF IInv, TypeOK, ecRetry, absVars, kernelVars
<1>15. TaskOK' /\ WireOK' /\ Unheard'
  BY DEF kernelVars, IInv, TaskOK, WireOK, Unheard, Alive
<1>16. ProgOK'
  <2>1. \A k \in Keys : prog'[k] = prog[k]
    BY <1>12, KeyFacts
  <2> QED BY <2>1, <1>1, <1>7, <1>12 DEF IInv, ProgOK
<1>17. ASSUME NEW n \in Reports
       PROVE  /\ ~InProg(Loop, n)
              /\ InProg(Loop, n)' <=> done /\ n = m
              /\ \A g \in Goroutines \ {Loop} : InProg(g, n)' <=> InProg(g, n)
              /\ \A i \in Nat : InWaiting(i, n)' <=>
                   InWaiting(i, n) \/ (~done /\ i = end /\ n = m)
              /\ \A i \in Nat : InWalk(i, n)' <=> i # 0 /\ InWalk(i + 1, n)
              /\ ~InWalk(0, n) /\ (InWalk(1, n) <=> n = m)
  <2>1. /\ ~InProg(Loop, n)
        /\ InProg(Loop, n)' <=> done /\ n = m
        /\ \A g \in Goroutines \ {Loop} : InProg(g, n)' <=> InProg(g, n)
    BY <1>1, <1>7, <1>12 DEF InProg, EndsWith
  <2>2. ASSUME NEW i \in Nat
        PROVE  InWaiting(i, n)' <=> InWaiting(i, n) \/ (~done /\ i = end /\ n = m)
    BY <1>1, <1>6, <1>9, <1>11 DEF InWaiting
  <2>3. ASSUME NEW i \in Nat
        PROVE  InWalk(i, n)' <=> i # 0 /\ InWalk(i + 1, n)
    BY <1>3, <1>4 DEF InWalk
  <2>4. ~InWalk(0, n) /\ (InWalk(1, n) <=> n = m)
    BY <1>0, <1>3, <1>4 DEF InWalk
  <2> QED BY <2>1, <2>2, <2>3, <2>4
<1>18. ASSUME NEW n \in Reports, n # m
       PROVE  ReportOK(n)'
  <2>1. /\ \A g \in Goroutines : InProg(g, n)' <=> InProg(g, n)
        /\ \A i \in Nat : InWaiting(i, n)' <=> InWaiting(i, n)
    BY <1>17, <1>18
  <2>2. (\E i \in Nat : InWalk(i, n)') <=> (\E i \in Nat : InWalk(i, n))
    <3>1. ASSUME NEW i \in Nat, InWalk(i, n)'
          PROVE  \E j \in Nat : InWalk(j, n)
      BY <3>1, <1>17
    <3>2. ASSUME NEW i \in Nat, InWalk(i, n)
          PROVE  \E j \in Nat : InWalk(j, n)'
      <4>1. i # 0 /\ i # 1
        BY <3>2, <1>17, <1>18
      <4>2. i - 1 \in Nat \ {0} /\ (i - 1) + 1 = i
        BY <4>1
      <4>3. InWalk(i - 1, n)'
        BY <3>2, <4>2, <1>17
      <4> QED BY <4>2, <4>3
    <3> QED BY <3>1, <3>2
  <2>3. Somewhere(n)' <=> Somewhere(n)
    BY <2>1, <2>2 DEF Somewhere
  <2>4. Unique(n)
    BY DEF IInv, ReportOK
  <2>5. \A i \in Nat : InWalk(i, n)' => i + 1 \in Nat /\ InWalk(i + 1, n)
    BY <1>17
  <2>6. \A i, j \in Nat : InWalk(i, n)' /\ InWalk(j, n)' => i = j
    <3> SUFFICES ASSUME NEW i \in Nat, NEW j \in Nat, InWalk(i, n)', InWalk(j, n)'
                 PROVE  i = j
      OBVIOUS
    <3>1. i + 1 = j + 1
      BY <2>4, <2>5 DEF Unique
    <3> QED BY <3>1
  <2>7. Unique(n)'
    BY <2>1, <2>4, <2>5, <2>6 DEF Unique
  <2> QED BY <2>3, <2>7 DEF IInv, ReportOK
<1>19. ASSUME m \in Reports
       PROVE  ReportOK(m)'
  <2>1. InWalk(1, m) /\ Unique(m) /\ m \in received /\ notified[<<m.type, m.key>>] = 0
    BY <1>17, <1>19 DEF IInv, ReportOK, Somewhere
  <2>2. /\ \A g \in Goroutines : InProg(g, m)' <=> done /\ g = Loop
        /\ \A i \in Nat : InWaiting(i, m)' <=> ~done /\ i = end
    BY <2>1, <1>17, <1>19 DEF Unique
  <2>3. \A i \in Nat : ~InWalk(i, m)'
    <3> SUFFICES ASSUME NEW i \in Nat, i # 0, InWalk(i + 1, m)
                 PROVE  FALSE
      BY <1>17, <1>19
    <3>1. i + 1 = 1
      BY <2>1 DEF Unique
    <3> QED BY <3>1
  <2>4. Loop \in Goroutines /\ end \in Nat
    BY <1>2, <1>9
  <2>5. Somewhere(m)' /\ Unique(m)'
    BY <2>2, <2>3, <2>4, <1>6 DEF Somewhere, Unique
  <2> QED BY <2>1, <2>5 DEF ReportOK
<1> QED BY <1>14, <1>15, <1>16, <1>18, <1>19 DEF IInv

-----------------------------------------------------------------------------
(***************************************************************************)
(* The theorems.                                                           *)
(***************************************************************************)
LEMMA InitOK ==
  ASSUME Init
  PROVE  IInv
<1>1. TypeOK
  <2>1. /\ born \subseteq Procs /\ cache \subseteq born /\ lapsed \subseteq born
        /\ refcnt \in [Procs -> Int] /\ object \in [Procs -> Fields]
    BY KeyFacts DEF Init, Fields
  <2>2. /\ task \in [Pids -> [key : Keys \cup {None}, clone : BOOLEAN]]
        /\ ppid \in [Pids -> Pids \cup {Root}]
        /\ nextKey \in 1 .. MaxKey + 1 /\ lost \in 0 .. MaxLost
    BY OptionsAssumption, KeysAssumption DEF Init
  <2>3. /\ prog \in [Goroutines -> Seq(Calls)]
        /\ waiting \in Seq(CacheObjs) /\ walk \in Seq(CacheObjs)
    BY EmptyCalls, EmptySeq DEF Init
  <2>4. notified \in [{"exec", "exit"} \X Keys -> Nat]
    BY DEF Init
  <2> QED BY <2>1, <2>2, <2>3, <2>4 DEF Init, TypeOK
<1>2. Alive = {}
  BY DEF Init, Alive
<1>3. TaskOK /\ WireOK
  BY <1>2 DEF TaskOK, WireOK, Init
<1>4. ProgOK
  BY EmptyCalls, KeyFacts DEF Init, ProgOK
<1>5. Unheard
  BY DEF Init, Unheard
<1>6. ASSUME NEW m \in Reports
      PROVE  ReportOK(m)
  BY DEF Init, ReportOK, Unique, Somewhere, InProg, InWaiting, InWalk, EndsWith
<1> QED BY <1>1, <1>3, <1>4, <1>5, <1>6 DEF IInv

LEMMA StepOK ==
  ASSUME IInv, [Next]_vars
  PROVE  IInv'
<1>1. CASE Kernel
  BY <1>1, KernelStep
<1>2. ASSUME NEW m \in wire, Receive(m)
      PROVE  IInv'
  BY <1>2, ReceiveStep
<1>3. ASSUME NEW g \in Goroutines, Step(g)
      PROVE  IInv'
  BY <1>3, CallStep
<1>4. CASE EventCache
  BY <1>4, TickStep, RetryStep, EndStep DEF EventCache
<1>5. CASE PodArrives
  <2>1. ProgOK' /\ Unheard' /\ \A m \in Reports : ReportOK(m)'
    BY <1>5, Quietly DEF PodArrives, ecVars
  <2>2. TaskOK' /\ WireOK'
    BY <1>5 DEF PodArrives, kernelVars, IInv, TaskOK, WireOK, Alive
  <2>3. TypeOK'
    BY <1>5 DEF PodArrives, absVars, kernelVars, ecVars, IInv, TypeOK
  <2> QED BY <2>1, <2>2, <2>3 DEF IInv
<1>6. ASSUME NEW k \in Procs, Collect(k)
      PROVE  IInv'
  <2>1. ProgOK' /\ Unheard' /\ \A m \in Reports : ReportOK(m)'
    BY <1>6, Quietly DEF Collect, ecVars
  <2>2. TaskOK' /\ WireOK'
    BY <1>6 DEF Collect, kernelVars, IInv, TaskOK, WireOK, Alive
  <2>3. TypeOK'
    BY <1>6 DEF Collect, Expire, kernelVars, ecVars, IInv, TypeOK
  <2> QED BY <2>1, <2>2, <2>3 DEF IInv
<1>7. CASE UNCHANGED vars
  <2>1. ProgOK' /\ Unheard' /\ \A m \in Reports : ReportOK(m)'
    BY <1>7, Quietly DEF vars, ecVars
  <2>2. TaskOK' /\ WireOK'
    BY <1>7 DEF vars, kernelVars, IInv, TaskOK, WireOK, Alive
  <2>3. TypeOK'
    BY <1>7 DEF vars, absVars, kernelVars, ecVars, IInv, TypeOK
  <2> QED BY <2>1, <2>2, <2>3 DEF IInv
<1> QED BY <1>1, <1>2, <1>3, <1>4, <1>5, <1>6, <1>7 DEF Next

LEMMA Invariance == Spec => []IInv
<1>1. Init => IInv
  BY InitOK
<1>2. IInv /\ [Next]_vars => IInv'
  BY StepOK
<1> QED BY <1>1, <1>2, PTL DEF Spec

\* Every handler, call and retry keeps the variables in their types: a
\* goroutine only ever makes calls whose keys, fields and messages are known,
\* and no object is retried more often than EventCacheNumRetries allows.
THEOREM EventsTypeCorrect == Spec => []TypeOK
<1>1. IInv => TypeOK
  BY DEF IInv
<1> QED BY <1>1, Invariance, PTL

\* Each exec and exit the observer takes is reported exactly once, for every
\* number of processes, retries and lost messages and every interleaving of
\* the observer, the event cache loop and the cleanup goroutines.
THEOREM NotifiedOnceCorrect == Spec => []NotifiedOnce
<1>1. ASSUME IInv
      PROVE  NotifiedOnce
  <2>1. notified \in [{"exec", "exit"} \X Keys -> Nat]
    BY <1>1 DEF IInv, TypeOK
  <2>2. \A m \in received : m \in WireMsg
    BY <1>1 DEF IInv, TypeOK
  <2>3. ASSUME NEW type \in {"exec", "exit"}, NEW k \in Keys
        PROVE  notified[<<type, k>>] <= 1
    <3>1. CASE \E m \in received : m.type = type /\ m.key = k
      <4>1. PICK m \in received : m.type = type /\ m.key = k
        BY <3>1
      <4>2. m \in Reports
        BY <2>2, <4>1 DEF Reports, Notifies
      <4>3. notified[<<type, k>>] \in {0, 1}
        BY <1>1, <4>1, <4>2 DEF IInv, ReportOK
      <4> QED BY <4>3
    <3>2. CASE \A m \in received : ~(m.type = type /\ m.key = k)
      BY <1>1, <3>2 DEF IInv, Unheard
    <3> QED BY <3>1, <3>2
  <2>4. \A m \in DOMAIN notified : notified[m] <= 1
    BY <2>1, <2>3
  <2>5. ASSUME Drained, NEW m \in received, Notifies(m)
        PROVE  notified[<<m.type, m.key>>] = 1
    <3>1. m \in Reports
      BY <2>2, <2>5 DEF Reports
    <3>2. /\ waiting = << >> /\ walk = << >>
          /\ \A g \in Goroutines : prog[g] = << >>
      BY <1>1, <2>5 DEF Drained, Quiet, Idle, IInv, ProgOK
    <3>3. ~Somewhere(m)
      BY <3>2 DEF Somewhere, InProg, InWaiting, InWalk, EndsWith
    <3> QED BY <1>1, <3>1, <3>3 DEF IInv, ReportOK
  <2> QED BY <2>4, <2>5 DEF NotifiedOnce
<1> QED BY <1>1, Invariance, PTL

-----------------------------------------------------------------------------
(***************************************************************************)
(* The counts.  While every pod is known in time and the chains of clones  *)
(* that wait for each other are shorter than the retries kept in reserve,  *)
(* the calls that were made add up: what follows is the inductive          *)
(* invariant, first of the messages ...                                    *)
(***************************************************************************)
All == wire \cup received

\* m tells of the new process c, which references the process Origin(m).
Creates(m, c) == m.type \in {"clone", "exec"} /\ m.key = c
Origin(m) == IF m.type = "exec" THEN ExecParent(m) ELSE m.parent
\* m tells that c is no more, by itself or as the old image of an exec.
Drops(m, c) ==
  \/ m.type \in {"exit", "cleanup"} /\ m.key = c
  \/ m.type = "exec" /\ m.cleanup = c

\* A key is created by one message, from an older one, and dropped by one when
\* it lives no longer.
MsgOK ==
  \A m \in All :
    /\ m.type = "exec" => m.cleanup \in Keys
    /\ \A c \in Procs : Creates(m, c) => Origin(m) \in Procs /\ Origin(m) < c
    /\ \A c \in Procs : Drops(m, c) =>
         c \in Keys /\ c < nextKey /\ \A pid \in Alive : task[pid].key # c
    /\ \A n \in All, c \in Procs :
         /\ Creates(m, c) /\ Creates(n, c) => m = n
         /\ Drops(m, c) /\ Drops(n, c) => m = n

\* While nothing is lost, there is a message for everything that happened.
SentOK ==
  lost = 0 => \A c \in Keys : c < nextKey =>
    /\ \E m \in All : Creates(m, c)
    /\ \/ \E pid \in Alive : task[pid].key = c
       \/ \E m \in All : Drops(m, c)

\* What the messages that were received tell.
Stems(c, p) == \E n \in received : Creates(n, c) /\ Origin(n) = p
Dropped(c) == \E n \in received : Drops(n, c)
Replaced(k, c) == \E n \in received : n.type = "exec" /\ n.key = k /\ n.cleanup = c

-----------------------------------------------------------------------------
(***************************************************************************)
(* ... then of the places where something is still to be done ...          *)
(***************************************************************************)
\* What a call is about.
MsgToken(m) == <<"msg", m>>
Token(x) ==
  CASE x.op \in {"inc", "dec"} -> <<"count", x>>
    [] x.op = "add" -> <<"add", x.key>>
    [] x.op = "enqueue" -> MsgToken(x.obj.msg)
    [] x.op = "notify" -> MsgToken(x.msg)
    [] x.op = "cleanup" -> MsgToken(CleanupMsg(x.key))
    [] x.op = "go" -> MsgToken(CleanupMsg(x.old))

Elems(s) == {s[i] : i \in DOMAIN s}
CallTokens(s) == {Token(x) : x \in Elems(s)}
ObjTokens(s) == {MsgToken(o.msg) : o \in Elems(s)}
CallsDiffer(s) == \A i, j \in DOMAIN s : Token(s[i]) = Token(s[j]) => i = j
ObjsDiffer(s) == \A i, j \in DOMAIN s : s[i].msg = s[j].msg => i = j

\* Each thing is in one place, once.
PlaceOK ==
  /\ \A g \in Goroutines : CallsDiffer(prog[g])
  /\ ObjsDiffer(waiting) /\ ObjsDiffer(walk)
  /\ \A g, h \in Goroutines : g # h => CallTokens(prog[g]) \cap CallTokens(prog[h]) = {}
  /\ \A g \in Goroutines : CallTokens(prog[g]) \cap ObjTokens(waiting) = {}
  /\ \A g \in Goroutines : CallTokens(prog[g]) \cap ObjTokens(walk) = {}
  /\ ObjTokens(waiting) \cap ObjTokens(walk) = {}

PendCalls == UNION {Elems(prog[g]) : g \in Goroutines}
Pending == {Token(x) : x \in PendCalls} \cup ObjTokens(waiting) \cup ObjTokens(walk)

\* The objects of the event cache, and those handed to it; the counting calls
\* that were made or will be; and the other calls that matter to the counts.
Sends == {x \in PendCalls : x.op = "enqueue"}
Objs == {x.obj : x \in Sends} \cup Elems(waiting) \cup Elems(walk)
Issued == counted \cup {x \in PendCalls : x.op \in {"inc", "dec"}}
Tasks == {x \in PendCalls : x.op \in {"add", "cleanup", "go"}}

Adds(c) == \E x \in Tasks : x.op = "add" /\ x.key = c
CleansUp(c) ==
  \/ \E x \in Tasks : x.op = "cleanup" /\ x.key = c
  \/ \E x \in Tasks : x.op = "go" /\ x.old = c
  \/ \E o \in Objs : o.msg = CleanupMsg(c)
NoInc(c) == \A p \in Procs : DoInc(p, c) \notin Issued
NoDec(c) == \A p \in Procs : DoDec(p, c) \notin Issued
ToDrop(o) == o.msg.type \in {"exit", "cleanup"}
Open(o) == o.msg.type = "clone" /\ ~o.internal

\* A goroutine is started once, by the exec that has its key, and what is
\* pending stems from a message that was received.
StartOK ==
  /\ \A x \in PendCalls : x.op = "notify" => x.msg \in received
  /\ \A x \in Sends : x.obj.color = 0
  /\ \A k \in Keys : prog[k] # << >> => \E c \in Procs : Replaced(k, c)
  /\ \A x \in Tasks : x.op = "go" => prog[x.key] = << >>
  /\ \A o \in Objs : o.msg.type = "exec" => prog[o.msg.key] = << >>

SourceOK ==
  /\ \A o \in Objs : o.msg.type # "cleanup" => o.msg \in received
  /\ \A c \in Procs : CleansUp(c) => \E k \in Keys : Replaced(k, c)
  /\ \A x \in Tasks : x.op = "go" => Replaced(x.key, x.old)

-----------------------------------------------------------------------------
(***************************************************************************)
(* ... then of the processes and the calls that count them ...             *)
(***************************************************************************)
\* What has been created, and from what.
BornOK ==
  /\ Root \in born
  /\ \A c \in born \ {Root} : Stems(c, Parent(c))
  /\ \A x \in Tasks : x.op = "add" =>
       /\ x.key \notin born
       /\ DoInc(x.fields.parent, x.key) \in Issued
  /\ \A p, c \in Procs : DoInc(p, c) \in Issued => p \in born /\ Stems(c, p)
  /\ \A p, c \in Procs : DoDec(p, c) \in Issued =>
       /\ c \in born \ {Root} /\ p \in born /\ p \in {c, Parent(c)}
       /\ Dropped(c)

\* What the event cache knows of its objects.
FlagOK ==
  \A o \in Objs : LET c == o.msg.key IN
    /\ Open(o) => c \notin born /\ NoInc(c) /\ ~Adds(c) /\ o.msg.parent # Root
    /\ o.msg.type = "exec" =>
         /\ c \in born /\ ~o.parentDone /\ NoInc(c)
         /\ NoDec(o.msg.cleanup) /\ ~CleansUp(o.msg.cleanup)
    /\ ToDrop(o) =>
         /\ o.parentDone => o.procDone /\ DoDec(Parent(c), c) \in Issued
         /\ o.procDone => DoDec(c, c) \in Issued
         /\ ~o.parentDone => \A p \in Procs : DoDec(p, c) \in Issued => p = c
         /\ ~o.procDone => DoDec(c, c) \notin Issued
         /\ o.internal => o.parentDone

CleanupOK ==
  \A x \in Tasks : /\ x.op = "cleanup" => NoDec(x.key)
                   /\ x.op = "go" => NoDec(x.old)

\* No counting call is made twice, and the counts are what these add up to.
IncBy(k) == {c \in Procs : DoInc(k, c) \in counted}
DecBy(k) == {c \in Procs : DoDec(k, c) \in counted}
CountOK ==
  /\ PendCalls \cap counted = {} /\ \A x \in counted : x.op \in {"inc", "dec"}
  /\ \A k \in born : refcnt[k] = 1 + Cardinality(IncBy(k)) - Cardinality(DecBy(k))

\* Every process references its parent, unless its exec was given up.
RaisedOK ==
  \A c \in born \ {Root} :
    \/ DoInc(Parent(c), c) \in Issued
    \/ \E o \in Objs : o.msg.type = "exec" /\ o.msg.key = c
    \/ \E n \in unsettled : n.type = "exec" /\ n.key = c

\* Keys that are not cached and never will be again.
Dead(G) ==
  \A q \in G :
    /\ q < nextKey /\ q \notin cache /\ ~Adds(q)
    /\ \A m \in wire : ~Creates(m, q)
    /\ \A o \in Objs : Open(o) /\ o.msg.key = q => o.msg.parent \in G
Gone(q) == \E G \in SUBSET Procs : q \in G /\ Dead(G)

\* Of an exec that was given up, the parent is not found by any other either.
GivenUpOK ==
  \A n \in unsettled : n.type = "exec" =>
    n \in received /\ Gone(Origin(n)) /\ DoDec(Origin(n), n.key) \notin Issued

\* What is held, or still to be looked up, is cached if it was created.
InTime(c) == c \in cache \/ c \notin born
LiveCached == Live \cap born \subseteq cache
CachedOK ==
  /\ LiveCached
  /\ \A p, c \in Procs : DoInc(p, c) \in Issued /\ DoDec(p, c) \notin Issued => p \in cache
  /\ \A m \in wire, c \in Procs : /\ Creates(m, c) => InTime(Origin(m))
                                  /\ Drops(m, c) => InTime(c)
  /\ \A o \in Objs : /\ Open(o) \/ o.msg.type = "exec" => InTime(Origin(o.msg))
                     /\ \A c \in Procs : Drops(o.msg, c) => InTime(c)
  /\ \A c \in Procs : CleansUp(c) => InTime(c)

\* What was received was dealt with, is being dealt with, or was given up.
HandledOK ==
  unsettled = {} => \A m \in received, c \in Procs :
    /\ Creates(m, c) => \/ c \in born \/ Adds(c)
                        \/ \E o \in Objs : Open(o) /\ o.msg = m
    /\ Drops(m, c) => \/ DoDec(Parent(c), c) \in Issued /\ DoDec(c, c) \in Issued
                      \/ \E o \in Objs : Drops(o.msg, c)
                      \/ CleansUp(c)

-----------------------------------------------------------------------------
(***************************************************************************)
(* ... and last of the walks of the event cache.                           *)
(***************************************************************************)
\* A clone may have to wait unless the root forked it.  No clone waits for a
\* clone that waits for ... Reserve or more deep.
Waits(m) == m.type = "clone" /\ m.parent # Root
Ranks == [Procs -> 0 .. Reserve]
Valid(rank) ==
  \A m \in All : Waits(m) =>
    /\ rank[m.key] + 1 < Reserve
    /\ \A n \in All : Waits(n) /\ n.key = m.parent => rank[n.key] < rank[m.key]
Shallow == \E rank \in Ranks : Valid(rank)

\* The quiet walks an object has been through when it has this color.
Walks(o) == o.color + Reserve - NumRetries

\* q is cached, or is about to be, or never will be.
LoopAdds(q) == \E x \in Elems(prog[Loop]) : x.op = "add" /\ x.key = q
Fixed(q) == q \in born \/ LoopAdds(q) \/ (lost > 0 /\ Gone(q))

OpenIn(s, q) == \E o \in Elems(s) : Open(o) /\ o.msg.key = q

\* After n quiet walks, a clone that still waits has n others before it.
Claim(rank, k, n) ==
  \A q \in Keys : q <= k =>
    \/ Fixed(q)
    \/ OpenIn(walk, q) /\ rank[q] >= n
    \/ OpenIn(waiting, q) /\ rank[q] >= n + 1

WalkOK ==
  /\ \A o \in Elems(walk) : Walks(o) >= 0 => (K8s => podKnown)
  /\ \A rank \in Ranks : Valid(rank) =>
       /\ \A o \in Elems(walk) : Walks(o) >= 0 => Claim(rank, o.msg.key, Walks(o))
       /\ \A o \in Elems(waiting) : Walks(o) >= 1 => Claim(rank, o.msg.key, Walks(o) - 1)

CInv ==
  /\ IInv /\ MsgOK /\ SentOK /\ PlaceOK /\ StartOK /\ SourceOK /\ BornOK
  /\ FlagOK /\ CleanupOK /\ CountOK /\ RaisedOK /\ GivenUpOK /\ CachedOK
  /\ HandledOK /\ NothingUnsettled /\ WalkOK

-----------------------------------------------------------------------------
(***************************************************************************)
(* Calls and what they are about.                                          *)
(***************************************************************************)

\* A call is what its constructor makes of its fields.
LEMMA CallShapes ==
  ASSUME NEW x \in Calls
  PROVE  /\ x.op \in {"inc", "dec", "add", "enqueue", "notify", "cleanup", "go"}
         /\ x.op = "inc" => x = DoInc(x.key, x.by)
         /\ x.op = "dec" => x = DoDec(x.key, x.by)
         /\ x.op = "add" => x = DoAdd(x.key, x.fields)
         /\ x.op = "enqueue" => x = DoEnqueue(x.obj)
         /\ x.op = "notify" => x = DoNotify(x.msg)
         /\ x.op = "cleanup" => x = DoCleanup(x.key)
         /\ x.op = "go" => x = DoGo(x.key, x.old)
BY DEF Calls, DoInc, DoDec, DoAdd, DoEnqueue, DoNotify, DoCleanup, DoGo

\* The fields of the calls.
LEMMA CallParts ==
  /\ \A k, c : DoInc(k, c).op = "inc" /\ DoInc(k, c).key = k /\ DoInc(k, c).by = c
  /\ \A k, c : DoDec(k, c).op = "dec" /\ DoDec(k, c).key = k /\ DoDec(k, c).by = c
  /\ \A k, f : DoAdd(k, f).op = "add" /\ DoAdd(k, f).key = k /\ DoAdd(k, f).fields = f
  /\ \A o : DoEnqueue(o).op = "enqueue" /\ DoEnqueue(o).obj = o
  /\ \A m : DoNotify(m).op = "notify" /\ DoNotify(m).msg = m
  /\ \A k : DoCleanup(k).op = "cleanup" /\ DoCleanup(k).key = k
  /\ \A k, c : DoGo(k, c).op = "go" /\ DoGo(k, c).key = k /\ DoGo(k, c).old = c
BY DEF DoInc, DoDec, DoAdd, DoEnqueue, DoNotify, DoCleanup, DoGo

\* Two calls that count are the same one if they count the same.
LEMMA CountCalls ==
  /\ \A k, c, l, d : DoInc(k, c) = DoInc(l, d) <=> k = l /\ c = d
  /\ \A k, c, l, d : DoDec(k, c) = DoDec(l, d) <=> k = l /\ c = d
  /\ \A k, c, l, d : DoInc(k, c) # DoDec(l, d)
<1>1. \A k, c, l, d : DoInc(k, c) = DoInc(l, d) <=> k = l /\ c = d
  BY CallParts
<1>2. \A k, c, l, d : DoDec(k, c) = DoDec(l, d) <=> k = l /\ c = d
  BY CallParts
<1>3. \A k, c, l, d : DoInc(k, c) # DoDec(l, d)
  BY CallParts
<1> QED BY <1>1, <1>2, <1>3

\* A cleanup message is its key.
LEMMA CleanupMsgs ==
  /\ \A k, l : CleanupMsg(k) = CleanupMsg(l) => k = l
  /\ \A k : CleanupMsg(k).type = "cleanup" /\ CleanupMsg(k).key = k
  /\ \A m \in Msgs : m.type = "cleanup" => m = CleanupMsg(m.key)
  /\ \A k \in Procs : CleanupMsg(k) \in Msgs
<1>1. \A k : CleanupMsg(k).type = "cleanup" /\ CleanupMsg(k).key = k
  BY DEF CleanupMsg
<1>2. \A k, l : CleanupMsg(k) = CleanupMsg(l) => k = l
  BY <1>1
<1>3. \A m \in Msgs : m.type = "cleanup" => m = CleanupMsg(m.key)
  BY DEF CleanupMsg, Msgs, WireMsg
<1>4. \A k \in Procs : CleanupMsg(k) \in Msgs
  BY DEF CleanupMsg, Msgs
<1> QED BY <1>1, <1>2, <1>3, <1>4

\* What each call is about.
LEMMA Tokens ==
  ASSUME NEW x \in Calls
  PROVE  /\ \A y : Token(x) = <<"count", y>> <=> x.op \in {"inc", "dec"} /\ x = y
         /\ \A k : Token(x) = <<"add", k>> <=> x.op = "add" /\ x.key = k
         /\ \A m : Token(x) = MsgToken(m) <=>
              \/ x.op = "enqueue" /\ x.obj.msg = m
              \/ x.op = "notify" /\ x.msg = m
              \/ x.op = "cleanup" /\ CleanupMsg(x.key) = m
              \/ x.op = "go" /\ CleanupMsg(x.old) = m
<1>1. x.op \in {"inc", "dec", "add", "enqueue", "notify", "cleanup", "go"}
  BY CallShapes
<1>2. CASE x.op \in {"inc", "dec"}
  BY <1>2 DEF Token, MsgToken
<1>3. CASE x.op = "add"
  BY <1>3 DEF Token, MsgToken
<1>4. CASE x.op = "enqueue"
  BY <1>4 DEF Token, MsgToken
<1>5. CASE x.op = "notify"
  BY <1>5 DEF Token, MsgToken
<1>6. CASE x.op = "cleanup"
  BY <1>6 DEF Token, MsgToken
<1>7. CASE x.op = "go"
  BY <1>7 DEF Token, MsgToken
<1> QED BY <1>1, <1>2, <1>3, <1>4, <1>5, <1>6, <1>7

\* What each call is about.
LEMMA NewTokens ==
  /\ \A k, c : Token(DoInc(k, c)) = <<"count", DoInc(k, c)>>
  /\ \A k, c : Token(DoDec(k, c)) = <<"count", DoDec(k, c)>>
  /\ \A k, f : Token(DoAdd(k, f)) = <<"add", k>>
  /\ \A o : Token(DoEnqueue(o)) = MsgToken(o.msg)
  /\ \A m : Token(DoNotify(m)) = MsgToken(m)
  /\ \A k : Token(DoCleanup(k)) = MsgToken(CleanupMsg(k))
  /\ \A k, c : Token(DoGo(k, c)) = MsgToken(CleanupMsg(c))
BY CallParts DEF Token

\* A message is told by its token.
LEMMA MsgTokens == \A m, n : MsgToken(m) = MsgToken(n) => m = n
BY DEF MsgToken

-----------------------------------------------------------------------------
(***************************************************************************)
(* The elements of sequences.                                              *)
(***************************************************************************)
\* The elements of the empty sequence ...
LEMMA NoElems ==
  /\ Elems(<< >>) = {} /\ CallTokens(<< >>) = {} /\ ObjTokens(<< >>) = {}
  /\ CallsDiffer(<< >>) /\ ObjsDiffer(<< >>)
BY DEF Elems, CallTokens, ObjTokens, CallsDiffer, ObjsDiffer

\* ... of one of length one ...
LEMMA OneElem ==
  ASSUME NEW x
  PROVE  Elems(<<x>>) = {x} /\ CallTokens(<<x>>) = {Token(x)} /\ CallsDiffer(<<x>>)
<1>1. DOMAIN <<x>> = {1} /\ <<x>>[1] = x
  OBVIOUS
<1>2. Elems(<<x>>) = {x}
  BY <1>1 DEF Elems
<1> QED BY <1>1, <1>2 DEF CallTokens, CallsDiffer

\* ... of one of length two ...
LEMMA TwoElems ==
  ASSUME NEW x, NEW y
  PROVE  /\ Elems(<<x, y>>) = {x, y} /\ CallTokens(<<x, y>>) = {Token(x), Token(y)}
         /\ Token(x) # Token(y) => CallsDiffer(<<x, y>>)
<1>1. DOMAIN <<x, y>> = {1, 2} /\ <<x, y>>[1] = x /\ <<x, y>>[2] = y
  OBVIOUS
<1>2. Elems(<<x, y>>) = {x, y}
  BY <1>1 DEF Elems
<1> QED BY <1>1, <1>2 DEF CallTokens, CallsDiffer

\* ... and of a sequence over a set.
LEMMA ElemTypes ==
  ASSUME NEW S, NEW s \in Seq(S)
  PROVE  Elems(s) \subseteq S /\ (s # << >> => Head(s) \in Elems(s) /\ Head(s) \in S)
<1>1. DOMAIN s = 1 .. Len(s) /\ Len(s) \in Nat /\ \A i \in DOMAIN s : s[i] \in S
  BY LenProperties, ElementOfSeq
<1>2. s # << >> => 1 \in DOMAIN s /\ Head(s) = s[1]
  BY <1>1, EmptySeq, HeadTailProperties
<1> QED BY <1>1, <1>2 DEF Elems

\* A sequence without its head.
LEMMA TailElems ==
  ASSUME NEW S, NEW s \in Seq(S), s # << >>
  PROVE  /\ Elems(s) = {Head(s)} \cup Elems(Tail(s))
         /\ CallsDiffer(s) => CallsDiffer(Tail(s)) /\ Token(Head(s)) \notin CallTokens(Tail(s))
         /\ ObjsDiffer(s) =>
              ObjsDiffer(Tail(s)) /\ \A o \in Elems(Tail(s)) : o.msg # Head(s).msg
<1>1. /\ Tail(s) \in Seq(S) /\ Head(s) = s[1] /\ Len(Tail(s)) = Len(s) - 1
      /\ \A i \in 1 .. Len(Tail(s)) : Tail(s)[i] = s[i + 1]
  BY HeadTailProperties
<1>2. /\ Len(s) \in Nat \ {0} /\ DOMAIN s = 1 .. Len(s)
      /\ DOMAIN Tail(s) = 1 .. Len(s) - 1
  BY <1>1, LenProperties, EmptySeq
<1>3. ASSUME NEW i \in DOMAIN Tail(s)
      PROVE  i + 1 \in DOMAIN s /\ i + 1 # 1 /\ Tail(s)[i] = s[i + 1]
  BY <1>1, <1>2
<1>4. ASSUME NEW i \in DOMAIN s
      PROVE  i = 1 \/ (i - 1 \in DOMAIN Tail(s) /\ Tail(s)[i - 1] = s[i])
  BY <1>1, <1>2
<1>5. 1 \in DOMAIN s
  BY <1>2
<1>6. Elems(s) = {Head(s)} \cup Elems(Tail(s))
  <2>1. ASSUME NEW x \in Elems(s)
        PROVE  x \in {Head(s)} \cup Elems(Tail(s))
    <3>1. PICK i \in DOMAIN s : x = s[i]
      BY DEF Elems
    <3>2. CASE i = 1
      BY <3>1, <3>2, <1>1
    <3>3. CASE i - 1 \in DOMAIN Tail(s) /\ Tail(s)[i - 1] = s[i]
      BY <3>1, <3>3 DEF Elems
    <3> QED BY <3>2, <3>3, <1>4
  <2>2. ASSUME NEW x \in Elems(Tail(s))
        PROVE  x \in Elems(s)
    BY <1>3 DEF Elems
  <2>3. Head(s) \in Elems(s)
    BY <1>1, <1>5 DEF Elems
  <2> QED BY <2>1, <2>2, <2>3
<1>7. ASSUME CallsDiffer(s)
      PROVE  CallsDiffer(Tail(s)) /\ Token(Head(s)) \notin CallTokens(Tail(s))
  <2>1. ASSUME NEW i \in DOMAIN Tail(s), NEW j \in DOMAIN Tail(s),
               Token(Tail(s)[i]) = Token(Tail(s)[j])
        PROVE  i = j
    <3>1. i + 1 = j + 1
      BY <1>3, <1>7, <2>1 DEF CallsDiffer
    <3> QED BY <3>1, <1>2
  <2>2. ASSUME NEW i \in DOMAIN Tail(s)
        PROVE  Token(Tail(s)[i]) # Token(Head(s))
    BY <1>1, <1>3, <1>5, <1>7 DEF CallsDiffer
  <2> QED BY <2>1, <2>2 DEF CallsDiffer, CallTokens, Elems
<1>8. ASSUME ObjsDiffer(s)
      PROVE  ObjsDiffer(Tail(s)) /\ \A o \in Elems(Tail(s)) : o.msg # Head(s).msg
  <2>1. ASSUME NEW i \in DOMAIN Tail(s), NEW j \in DOMAIN Tail(s),
               Tail(s)[i].msg = Tail(s)[j].msg
        PROVE  i = j
    <3>1. i + 1 = j + 1
      BY <1>3, <1>8, <2>1 DEF ObjsDiffer
    <3> QED BY <3>1, <1>2
  <2>2. ASSUME NEW i \in DOMAIN Tail(s)
        PROVE  Tail(s)[i].msg # Head(s).msg
    BY <1>1, <1>3, <1>5, <1>8 DEF ObjsDiffer
  <2> QED BY <2>1, <2>2 DEF ObjsDiffer, Elems
<1> QED BY <1>6, <1>7, <1>8

\* A sequence after another.
LEMMA ConcatElems ==
  ASSUME NEW S, NEW p \in Seq(S), NEW s \in Seq(S)
  PROVE  /\ Elems(p \o s) = Elems(p) \cup Elems(s)
         /\ CallTokens(p \o s) = CallTokens(p) \cup CallTokens(s)
         /\ CallsDiffer(p) /\ CallsDiffer(s) /\ CallTokens(p) \cap CallTokens(s) = {}
              => CallsDiffer(p \o s)
<1>1. /\ p \o s \in Seq(S)
      /\ Len(p \o s) = Len(p) + Len(s)
      /\ \A i \in 1 .. Len(p) + Len(s) :
           (p \o s)[i] = IF i <= Len(p) THEN p[i] ELSE s[i - Len(p)]
  BY ConcatProperties
<1>2. /\ Len(p) \in Nat /\ Len(s) \in Nat
      /\ DOMAIN p = 1 .. Len(p) /\ DOMAIN s = 1 .. Len(s)
      /\ DOMAIN (p \o s) = 1 .. Len(p) + Len(s)
  BY <1>1, LenProperties
<1>3. ASSUME NEW i \in DOMAIN (p \o s)
      PROVE  \/ i \in DOMAIN p /\ (p \o s)[i] = p[i]
             \/ i - Len(p) \in DOMAIN s /\ (p \o s)[i] = s[i - Len(p)]
  BY <1>1, <1>2
<1>4. ASSUME NEW i \in DOMAIN p
      PROVE  i \in DOMAIN (p \o s) /\ (p \o s)[i] = p[i]
  BY <1>1, <1>2
<1>5. ASSUME NEW i \in DOMAIN s
      PROVE  i + Len(p) \in DOMAIN (p \o s) /\ (p \o s)[i + Len(p)] = s[i]
  BY <1>1, <1>2
<1>6. Elems(p \o s) = Elems(p) \cup Elems(s)
  <2>1. ASSUME NEW x \in Elems(p \o s)
        PROVE  x \in Elems(p) \cup Elems(s)
    BY <1>3 DEF Elems
  <2>2. ASSUME NEW x \in Elems(p)
        PROVE  x \in Elems(p \o s)
    BY <1>4 DEF Elems
  <2>3. ASSUME NEW x \in Elems(s)
        PROVE  x \in Elems(p \o s)
    BY <1>5 DEF Elems
  <2> QED BY <2>1, <2>2, <2>3
<1>7. ASSUME CallsDiffer(p), CallsDiffer(s), CallTokens(p) \cap CallTokens(s) = {}
      PROVE  CallsDiffer(p \o s)
  <2> SUFFICES ASSUME NEW i \in DOMAIN (p \o s), NEW j \in DOMAIN (p \o s),
                      Token((p \o s)[i]) = Token((p \o s)[j])
               PROVE  i = j
    BY DEF CallsDiffer
  <2>1. \A k \in DOMAIN p, l \in DOMAIN s : Token(p[k]) # Token(s[l])
    BY <1>7 DEF CallTokens, Elems
  <2>2. CASE i - Len(p) \in DOMAIN s /\ (p \o s)[i] = s[i - Len(p)]
             /\ j - Len(p) \in DOMAIN s /\ (p \o s)[j] = s[j - Len(p)]
    <3>1. i - Len(p) = j - Len(p)
      BY <2>2, <1>7 DEF CallsDiffer
    <3> QED BY <3>1, <1>2
  <2>3. CASE i \in DOMAIN p /\ (p \o s)[i] = p[i] /\ j \in DOMAIN p /\ (p \o s)[j] = p[j]
    BY <2>3, <1>7 DEF CallsDiffer
  <2> QED BY <1>3, <2>1, <2>2, <2>3
<1> QED BY <1>6, <1>7 DEF CallTokens

\* A sequence with one more element.
LEMMA AppendElems ==
  ASSUME NEW s \in Seq(CacheObjs), NEW o \in CacheObjs
  PROVE  /\ Elems(Append(s, o)) = Elems(s) \cup {o}
         /\ ObjTokens(Append(s, o)) = ObjTokens(s) \cup {MsgToken(o.msg)}
         /\ ObjsDiffer(s) /\ MsgToken(o.msg) \notin ObjTokens(s) => ObjsDiffer(Append(s, o))
<1>1. /\ DOMAIN s = 1 .. Len(s) /\ Len(s) \in Nat
      /\ DOMAIN Append(s, o) = 1 .. Len(s) + 1 /\ Append(s, o)[Len(s) + 1] = o
      /\ \A i \in 1 .. Len(s) : Append(s, o)[i] = s[i]
  BY AppendProperties, LenProperties
<1>2. Elems(Append(s, o)) = Elems(s) \cup {o}
  <2>1. \A i \in DOMAIN Append(s, o) : i = Len(s) + 1 \/ i \in DOMAIN s
    BY <1>1
  <2> QED BY <1>1, <2>1 DEF Elems
<1>3. ASSUME ObjsDiffer(s), MsgToken(o.msg) \notin ObjTokens(s)
      PROVE  ObjsDiffer(Append(s, o))
  <2>1. \A i \in DOMAIN s : s[i].msg # o.msg
    BY <1>3 DEF ObjTokens, Elems
  <2>2. \A i \in DOMAIN Append(s, o) : i = Len(s) + 1 \/ i \in DOMAIN s
    BY <1>1
  <2> QED BY <1>1, <1>3, <2>1, <2>2 DEF ObjsDiffer
<1> QED BY <1>2, <1>3 DEF ObjTokens

-----------------------------------------------------------------------------
(***************************************************************************)
(* What is pending, and what a step changes of it.                         *)
(***************************************************************************)

\* Each call and each object is pending once.
LEMMA PendingOnce ==
  ASSUME TypeOK, PlaceOK
  PROVE  /\ PendCalls \subseteq Calls /\ Objs \subseteq CacheObjs
         /\ Issued \subseteq Calls /\ Tasks \subseteq Calls
         /\ \A x, y \in PendCalls : Token(x) = Token(y) => x = y
         /\ \A o, p \in Objs : o.msg = p.msg => o = p
         /\ \A x \in PendCalls, o \in Objs :
              Token(x) = MsgToken(o.msg) => x.op = "enqueue" /\ x.obj = o
<1>1. /\ \A g \in Goroutines : prog[g] \in Seq(Calls)
      /\ waiting \in Seq(CacheObjs) /\ walk \in Seq(CacheObjs) /\ counted \subseteq Calls
  BY DEF TypeOK
<1>2. PendCalls \subseteq Calls
  BY <1>1, ElemTypes DEF PendCalls
<1>3. Elems(waiting) \subseteq CacheObjs /\ Elems(walk) \subseteq CacheObjs
  BY <1>1, ElemTypes
<1>4. \A x \in Sends : x.obj \in CacheObjs /\ Token(x) = MsgToken(x.obj.msg)
  BY <1>2, CallFields, Tokens DEF Sends
<1>5. Objs \subseteq CacheObjs
  BY <1>3, <1>4 DEF Objs
<1>6. \A x, y \in PendCalls : Token(x) = Token(y) => x = y
  <2> SUFFICES ASSUME NEW g \in Goroutines, NEW h \in Goroutines,
                      NEW x \in Elems(prog[g]), NEW y \in Elems(prog[h]),
                      Token(x) = Token(y)
               PROVE  x = y
    BY DEF PendCalls
  <2>1. g = h
    BY DEF PlaceOK, CallTokens
  <2> QED BY <2>1 DEF PlaceOK, CallsDiffer, Elems
<1>7. \A x \in PendCalls, o \in Elems(waiting) \cup Elems(walk) : Token(x) # MsgToken(o.msg)
  BY DEF PlaceOK, PendCalls, CallTokens, ObjTokens
<1>8. \A x \in PendCalls, o \in Objs :
        Token(x) = MsgToken(o.msg) => x.op = "enqueue" /\ x.obj = o
  <2> SUFFICES ASSUME NEW x \in PendCalls, NEW o \in Objs, Token(x) = MsgToken(o.msg)
               PROVE  x.op = "enqueue" /\ x.obj = o
    OBVIOUS
  <2>1. PICK y \in Sends : o = y.obj
    BY <1>7 DEF Objs
  <2>2. x = y
    BY <2>1, <1>4, <1>6 DEF Sends
  <2> QED BY <2>1, <2>2 DEF Sends
<1>9. \A o, p \in Objs : o.msg = p.msg => o = p
  <2> SUFFICES ASSUME NEW o \in Objs, NEW p \in Objs, o.msg = p.msg
               PROVE  o = p
    OBVIOUS
  <2>1. CASE o \in {x.obj : x \in Sends} \/ p \in {x.obj : x \in Sends}
    BY <2>1, <1>4, <1>8 DEF Sends
  <2>2. CASE o \in Elems(waiting) /\ p \in Elems(waiting)
    BY <2>2 DEF PlaceOK, ObjsDiffer, Elems
  <2>3. CASE o \in Elems(walk) /\ p \in Elems(walk)
    BY <2>3 DEF PlaceOK, ObjsDiffer, Elems
  <2>4. ~(o \in Elems(waiting) /\ p \in Elems(walk))
    BY DEF PlaceOK, ObjTokens
  <2>5. ~(p \in Elems(waiting) /\ o \in Elems(walk))
    BY DEF PlaceOK, ObjTokens
  <2> QED BY <2>1, <2>2, <2>3, <2>4, <2>5 DEF Objs
<1> QED BY <1>1, <1>2, <1>5, <1>6, <1>8, <1>9 DEF Issued, Tasks

\* One goroutine goes on with other calls, and objects move: what is pending
\* then was already at one of these places, or is new.
LEMMA Moves ==
  ASSUME TypeOK, PlaceOK, NEW g \in Goroutines, NEW s, prog' = [prog EXCEPT ![g] = s],
         CallsDiffer(s), ObjsDiffer(waiting'), ObjsDiffer(walk'),
         CallTokens(s) \cap ObjTokens(waiting') = {},
         CallTokens(s) \cap ObjTokens(walk') = {},
         ObjTokens(waiting') \cap ObjTokens(walk') = {},
         \A t \in CallTokens(s) \cup ObjTokens(waiting') \cup ObjTokens(walk') :
           \/ t \in CallTokens(prog[g]) \cup ObjTokens(waiting) \cup ObjTokens(walk)
           \/ t \notin Pending
  PROVE  PlaceOK' /\ PendCalls' = (PendCalls \ Elems(prog[g])) \cup Elems(s)
<1>1. prog'[g] = s /\ \A h \in Goroutines \ {g} : prog'[h] = prog[h]
  BY DEF TypeOK
<1>2. /\ \A h \in Goroutines \ {g} : CallTokens(prog[h]) \cap CallTokens(s) = {}
      /\ \A h \in Goroutines \ {g} : CallTokens(prog[h]) \cap ObjTokens(waiting') = {}
      /\ \A h \in Goroutines \ {g} : CallTokens(prog[h]) \cap ObjTokens(walk') = {}
  <2>1. \A h \in Goroutines : CallTokens(prog[h]) \subseteq Pending
    BY DEF Pending, PendCalls, CallTokens
  <2>2. \A h \in Goroutines \ {g} :
          CallTokens(prog[h])
            \cap (CallTokens(prog[g]) \cup ObjTokens(waiting) \cup ObjTokens(walk)) = {}
    BY DEF PlaceOK
  <2> QED BY <2>1, <2>2
<1>3. PlaceOK'
  <2>1. \A h \in Goroutines : CallsDiffer(prog'[h])
    BY <1>1 DEF PlaceOK
  <2>2. \A h, l \in Goroutines : h # l => CallTokens(prog'[h]) \cap CallTokens(prog'[l]) = {}
    <3> SUFFICES ASSUME NEW h \in Goroutines, NEW l \in Goroutines, h # l
                 PROVE  CallTokens(prog'[h]) \cap CallTokens(prog'[l]) = {}
      OBVIOUS
    <3>1. CASE h = g
      BY <3>1, <1>1, <1>2
    <3>2. CASE l = g
      BY <3>2, <1>1, <1>2
    <3>3. CASE h # g /\ l # g
      BY <3>3, <1>1 DEF PlaceOK
    <3> QED BY <3>1, <3>2, <3>3
  <2>3. \A h \in Goroutines : /\ CallTokens(prog'[h]) \cap ObjTokens(waiting') = {}
                              /\ CallTokens(prog'[h]) \cap ObjTokens(walk') = {}
    BY <1>1, <1>2
  <2> QED BY <2>1, <2>2, <2>3 DEF PlaceOK
<1>4. \A h \in Goroutines \ {g} : Elems(prog[h]) \cap Elems(prog[g]) = {}
  BY DEF PlaceOK, CallTokens
<1>5. PendCalls' = UNION {Elems(prog'[h]) : h \in Goroutines}
  BY DEF PendCalls
<1>6. PendCalls' = (PendCalls \ Elems(prog[g])) \cup Elems(s)
  <2>1. ASSUME NEW x \in PendCalls'
        PROVE  x \in (PendCalls \ Elems(prog[g])) \cup Elems(s)
    BY <1>1, <1>4, <1>5 DEF PendCalls
  <2>2. ASSUME NEW x \in (PendCalls \ Elems(prog[g])) \cup Elems(s)
        PROVE  x \in PendCalls'
    BY <1>1, <1>5 DEF PendCalls
  <2> QED BY <2>1, <2>2
<1> QED BY <1>3, <1>6

\* A goroutine goes on with calls about nothing else that is pending.
LEMMA GoesOn ==
  ASSUME TypeOK, PlaceOK, NEW g \in Goroutines, NEW s,
         prog' = [prog EXCEPT ![g] = s], waiting' = waiting, walk' = walk,
         CallsDiffer(s), \A t \in CallTokens(s) : t \in CallTokens(prog[g]) \/ t \notin Pending
  PROVE  PlaceOK' /\ PendCalls' = (PendCalls \ Elems(prog[g])) \cup Elems(s)
<1>1. /\ ObjsDiffer(waiting) /\ ObjsDiffer(walk)
      /\ CallTokens(prog[g]) \cap ObjTokens(waiting) = {}
      /\ CallTokens(prog[g]) \cap ObjTokens(walk) = {}
      /\ ObjTokens(waiting) \cap ObjTokens(walk) = {}
  BY DEF PlaceOK
<1>2. ObjTokens(waiting) \subseteq Pending /\ ObjTokens(walk) \subseteq Pending
  BY DEF Pending
<1>3. CallTokens(s) \cap ObjTokens(waiting) = {} /\ CallTokens(s) \cap ObjTokens(walk) = {}
  BY <1>1, <1>2
<1> QED BY <1>1, <1>3, Moves

\* An idle goroutine starts.
LEMMA Starts ==
  ASSUME TypeOK, PlaceOK, NEW g \in Goroutines, prog[g] = << >>, NEW s,
         prog' = [prog EXCEPT ![g] = s], waiting' = waiting, walk' = walk,
         CallsDiffer(s), CallTokens(s) \cap Pending = {}
  PROVE  PlaceOK' /\ PendCalls' = PendCalls \cup Elems(s)
<1>1. PlaceOK' /\ PendCalls' = (PendCalls \ Elems(prog[g])) \cup Elems(s)
  BY GoesOn
<1> QED BY <1>1, NoElems

\* A goroutine makes its first call, which leaves others to make in its place.
LEMMA MakesCall ==
  ASSUME TypeOK, PlaceOK, NEW g \in Goroutines, prog[g] # << >>, NEW s \in Seq(Calls),
         prog' = [prog EXCEPT ![g] = s \o Tail(prog[g])], waiting' = waiting, walk' = walk,
         CallsDiffer(s),
         \A t \in CallTokens(s) : t = Token(Head(prog[g])) \/ t \notin Pending
  PROVE  /\ PlaceOK' /\ Head(prog[g]) \in PendCalls
         /\ PendCalls' = (PendCalls \ {Head(prog[g])}) \cup Elems(s)
<1>1. prog[g] \in Seq(Calls) /\ Tail(prog[g]) \in Seq(Calls)
  BY HeadTailProperties DEF TypeOK
<1>2. /\ Elems(prog[g]) = {Head(prog[g])} \cup Elems(Tail(prog[g]))
      /\ CallsDiffer(Tail(prog[g])) /\ Token(Head(prog[g])) \notin CallTokens(Tail(prog[g]))
  BY <1>1, TailElems DEF PlaceOK
<1>3. CallTokens(prog[g]) = {Token(Head(prog[g]))} \cup CallTokens(Tail(prog[g]))
  BY <1>2 DEF CallTokens
<1>4. CallTokens(prog[g]) \subseteq Pending
  BY DEF Pending, PendCalls, CallTokens
<1>5. /\ CallsDiffer(s \o Tail(prog[g]))
      /\ Elems(s \o Tail(prog[g])) = Elems(s) \cup Elems(Tail(prog[g]))
      /\ CallTokens(s \o Tail(prog[g])) = CallTokens(s) \cup CallTokens(Tail(prog[g]))
  <2>1. CallTokens(s) \cap CallTokens(Tail(prog[g])) = {}
    BY <1>2, <1>3, <1>4
  <2>2. /\ Elems(s \o Tail(prog[g])) = Elems(s) \cup Elems(Tail(prog[g]))
        /\ CallTokens(s \o Tail(prog[g])) = CallTokens(s) \cup CallTokens(Tail(prog[g]))
        /\ CallsDiffer(s) /\ CallsDiffer(Tail(prog[g]))
             /\ CallTokens(s) \cap CallTokens(Tail(prog[g])) = {}
             => CallsDiffer(s \o Tail(prog[g]))
    BY ONLY <1>1, s \in Seq(Calls), ConcatElems
  <2> QED BY <2>1, <2>2, <1>2
<1>6. /\ PlaceOK'
      /\ PendCalls' = (PendCalls \ Elems(prog[g])) \cup Elems(s \o Tail(prog[g]))
  BY <1>3, <1>5, GoesOn
<1>7. Head(prog[g]) \notin Elems(Tail(prog[g])) /\ Elems(prog[g]) \subseteq PendCalls
  BY <1>2 DEF CallTokens, PendCalls
<1> QED BY <1>2, <1>5, <1>6, <1>7

\* A goroutine makes its next call and goes on with the rest.
LEMMA MakesLast ==
  ASSUME TypeOK, PlaceOK, NEW g \in Goroutines, prog[g] # << >>, Return(g),
         waiting' = waiting, walk' = walk
  PROVE  /\ PlaceOK' /\ Head(prog[g]) \in PendCalls
         /\ PendCalls' = PendCalls \ {Head(prog[g])}
<1>1. Tail(prog[g]) \in Seq(Calls)
  BY HeadTailProperties DEF TypeOK
<1>2. << >> \o Tail(prog[g]) = Tail(prog[g])
  BY <1>1, ConcatEmptySeq
<1>3. prog' = [prog EXCEPT ![g] = << >> \o Tail(prog[g])]
  BY <1>2 DEF Return
<1>4. << >> \in Seq(Calls)
  BY EmptyCalls
<1>5. /\ PlaceOK' /\ Head(prog[g]) \in PendCalls
      /\ PendCalls' = (PendCalls \ {Head(prog[g])}) \cup Elems(<< >>)
  BY <1>3, <1>4, NoElems, MakesCall
<1> QED BY <1>5, NoElems

\* What a call leaves of the sets, by its kind.
LEMMA SetsAfter ==
  ASSUME TypeOK, PlaceOK, NEW h \in PendCalls, NEW S \in SUBSET Calls,
         PendCalls' = (PendCalls \ {h}) \cup S, waiting' = waiting, walk' = walk
  PROVE  /\ Tasks' = (Tasks \ {h}) \cup {x \in S : x.op \in {"add", "cleanup", "go"}}
         /\ h.op # "enqueue" => Objs' = Objs \cup {x.obj : x \in {y \in S : y.op = "enqueue"}}
         /\ counted' = counted /\ h.op \notin {"inc", "dec"} =>
              Issued' = Issued \cup {x \in S : x.op \in {"inc", "dec"}}
         /\ counted' = counted \cup {h} /\ h.op \in {"inc", "dec"} /\ S = {} => Issued' = Issued
<1>1. Tasks' = (Tasks \ {h}) \cup {x \in S : x.op \in {"add", "cleanup", "go"}}
  BY DEF Tasks
<1>2. ASSUME h.op # "enqueue"
      PROVE  Objs' = Objs \cup {x.obj : x \in {y \in S : y.op = "enqueue"}}
  <2>1. Sends' = Sends \cup {y \in S : y.op = "enqueue"}
    BY <1>2 DEF Sends
  <2>2. Objs' = {x.obj : x \in Sends'} \cup Elems(waiting) \cup Elems(walk)
    BY DEF Objs
  <2> QED BY <2>1, <2>2 DEF Objs
<1>3. ASSUME counted' = counted, h.op \notin {"inc", "dec"}
      PROVE  Issued' = Issued \cup {x \in S : x.op \in {"inc", "dec"}}
  BY <1>3 DEF Issued
<1>4. ASSUME counted' = counted \cup {h}, h.op \in {"inc", "dec"}, S = {}
      PROVE  Issued' = Issued
  BY <1>4 DEF Issued
<1> QED BY <1>1, <1>2, <1>3, <1>4

\* What is pending when calls are added and none is made.
LEMMA SetsBefore ==
  ASSUME TypeOK, PlaceOK, NEW S \in SUBSET Calls,
         PendCalls' = PendCalls \cup S, waiting' = waiting, walk' = walk, counted' = counted
  PROVE  /\ Tasks' = Tasks \cup {x \in S : x.op \in {"add", "cleanup", "go"}}
         /\ Objs' = Objs \cup {x.obj : x \in {y \in S : y.op = "enqueue"}}
         /\ Issued' = Issued \cup {x \in S : x.op \in {"inc", "dec"}}
<1>1. Sends' = Sends \cup {y \in S : y.op = "enqueue"}
  BY DEF Sends
<1>2. Objs' = {x.obj : x \in Sends'} \cup Elems(waiting) \cup Elems(walk)
  BY DEF Objs
<1>3. Objs' = Objs \cup {x.obj : x \in {y \in S : y.op = "enqueue"}}
  BY <1>1, <1>2 DEF Objs
<1>4. Tasks' = Tasks \cup {x \in S : x.op \in {"add", "cleanup", "go"}}
  BY DEF Tasks
<1>5. Issued' = Issued \cup {x \in S : x.op \in {"inc", "dec"}}
  BY DEF Issued
<1> QED BY <1>3, <1>4, <1>5

\* An object handed over is the same object in the event cache.
LEMMA EnqueueEffect ==
  ASSUME TypeOK, PlaceOK, NEW g \in Goroutines, StepEnqueue(g)
  PROVE  /\ PlaceOK' /\ Head(prog[g]) \in Sends
         /\ PendCalls' = PendCalls \ {Head(prog[g])}
         /\ Objs' = Objs /\ Issued' = Issued /\ Tasks' = Tasks
         /\ Elems(waiting') = Elems(waiting) \cup {Head(prog[g]).obj}
<1>0. PICK h : h = Head(prog[g])
  OBVIOUS
<1>1. /\ prog[g] # << >> /\ h.op = "enqueue"
      /\ waiting' = Append(waiting, h.obj) /\ walk' = walk /\ counted' = counted
      /\ prog' = [prog EXCEPT ![g] = Tail(prog[g])]
  BY <1>0 DEF StepEnqueue, At, Idle, Return
<1>2. /\ prog[g] \in Seq(Calls) /\ Tail(prog[g]) \in Seq(Calls) /\ h \in Calls
      /\ waiting \in Seq(CacheObjs)
  BY <1>0, <1>1, HeadTailProperties DEF TypeOK
<1>3. /\ Elems(prog[g]) = {h} \cup Elems(Tail(prog[g]))
      /\ CallsDiffer(Tail(prog[g])) /\ Token(h) \notin CallTokens(Tail(prog[g]))
  BY <1>0, <1>1, <1>2, TailElems DEF PlaceOK
<1>4. CallTokens(prog[g]) = {Token(h)} \cup CallTokens(Tail(prog[g]))
  BY <1>3 DEF CallTokens
<1>5. h.obj \in CacheObjs /\ Token(h) = MsgToken(h.obj.msg)
  BY <1>1, <1>2, CallFields, Tokens
<1>6. /\ Token(h) \notin ObjTokens(waiting) /\ Token(h) \notin ObjTokens(walk)
      /\ CallTokens(Tail(prog[g])) \cap ObjTokens(waiting) = {}
      /\ CallTokens(Tail(prog[g])) \cap ObjTokens(walk) = {}
      /\ ObjsDiffer(waiting) /\ ObjsDiffer(walk) /\ ObjTokens(waiting) \cap ObjTokens(walk) = {}
  BY <1>4 DEF PlaceOK
<1>7. /\ Elems(waiting') = Elems(waiting) \cup {h.obj}
      /\ ObjTokens(waiting') = ObjTokens(waiting) \cup {Token(h)}
      /\ ObjsDiffer(waiting')
  BY <1>1, <1>2, <1>5, <1>6, AppendElems
<1>8. /\ ObjsDiffer(walk')
      /\ CallTokens(Tail(prog[g])) \cap ObjTokens(waiting') = {}
      /\ CallTokens(Tail(prog[g])) \cap ObjTokens(walk') = {}
      /\ ObjTokens(waiting') \cap ObjTokens(walk') = {}
  BY <1>1, <1>3, <1>6, <1>7
<1>9. \A t \in CallTokens(Tail(prog[g])) \cup ObjTokens(waiting') \cup ObjTokens(walk') :
        t \in CallTokens(prog[g]) \cup ObjTokens(waiting) \cup ObjTokens(walk)
  BY <1>1, <1>4, <1>7
<1>10. PlaceOK' /\ PendCalls' = (PendCalls \ Elems(prog[g])) \cup Elems(Tail(prog[g]))
  BY <1>1, <1>3, <1>7, <1>8, <1>9, Moves
<1>11. h \notin Elems(Tail(prog[g])) /\ Elems(prog[g]) \subseteq PendCalls
  BY <1>3 DEF CallTokens, PendCalls
<1>12. PendCalls' = PendCalls \ {h} /\ h \in PendCalls
  BY <1>3, <1>10, <1>11
<1>13. Sends' = Sends \ {h} /\ h \in Sends
  BY <1>1, <1>12 DEF Sends
<1>14. Objs' = {x.obj : x \in Sends'} \cup Elems(waiting') \cup Elems(walk)
  BY <1>1 DEF Objs
<1>15. Objs' = Objs
  BY <1>7, <1>13, <1>14 DEF Objs
<1>16. Issued' = Issued /\ Tasks' = Tasks
  BY <1>1, <1>12 DEF Issued, Tasks
<1> QED BY <1>0, <1>7, <1>10, <1>12, <1>13, <1>15, <1>16

\* The old image of an exec goes to a goroutine of its own.
LEMMA GoEffect ==
  ASSUME TypeOK, PlaceOK, NEW g \in Goroutines, StepGo(g), NEW h, h = Head(prog[g]),
         prog[h.key] = << >>
  PROVE  /\ PlaceOK' /\ h \in Tasks /\ h.op = "go" /\ h.key # g
         /\ prog'[g] = Tail(prog[g]) /\ prog'[h.key] # << >>
         /\ \A k \in Goroutines \ {g, h.key} : prog'[k] = prog[k]
         /\ PendCalls' = (PendCalls \ {h}) \cup {DoCleanup(h.old)}
         /\ Objs' = Objs /\ Issued' = Issued
         /\ Tasks' = (Tasks \ {h}) \cup {DoCleanup(h.old)}
<1> DEFINE d == DoCleanup(h.old)
<1>1. /\ prog[g] # << >> /\ h.op = "go" /\ waiting' = waiting /\ walk' = walk
      /\ counted' = counted
      /\ prog' = [prog EXCEPT ![g] = Tail(prog[g]), ![h.key] = <<d>>]
  BY DEF StepGo, At, Idle, ecVars
<1>2. /\ prog[g] \in Seq(Calls) /\ Tail(prog[g]) \in Seq(Calls) /\ h \in Calls
      /\ h.key \in Goroutines /\ h.key # g /\ h.old \in Procs
  <2>1. prog[g] \in Seq(Calls) /\ Tail(prog[g]) \in Seq(Calls) /\ h \in Calls
    BY <1>1, HeadTailProperties DEF TypeOK
  <2> QED BY <2>1, <1>1, CallFields, KeyFacts
<1>3. /\ prog'[g] = Tail(prog[g]) /\ prog'[h.key] = <<d>>
      /\ \A k \in Goroutines \ {g, h.key} : prog'[k] = prog[k]
  BY <1>1, <1>2 DEF TypeOK
<1>4. /\ Elems(prog[g]) = {h} \cup Elems(Tail(prog[g]))
      /\ CallsDiffer(Tail(prog[g])) /\ Token(h) \notin CallTokens(Tail(prog[g]))
  BY <1>1, <1>2, TailElems DEF PlaceOK
<1>5. CallTokens(prog[g]) = {Token(h)} \cup CallTokens(Tail(prog[g]))
  BY <1>4 DEF CallTokens
<1>6. Token(d) = Token(h) /\ d \in Calls /\ d.op = "cleanup"
  <2>1. h = DoGo(h.key, h.old)
    BY <1>1, <1>2, CallShapes
  <2> QED BY <2>1, <1>2, NewTokens, CallTypes, CallParts
<1>7. Elems(<<d>>) = {d} /\ CallTokens(<<d>>) = {Token(h)} /\ CallsDiffer(<<d>>)
  BY <1>6, OneElem
<1>8. /\ \A k \in Goroutines : CallTokens(prog'[k]) \subseteq
           CallTokens(prog[k]) \cup (IF k = h.key THEN CallTokens(prog[g]) ELSE {})
      /\ Token(h) \notin CallTokens(prog'[g])
      /\ \A k \in Goroutines : CallsDiffer(prog'[k])
  BY <1>2, <1>3, <1>4, <1>5, <1>7 DEF PlaceOK
<1>9. \A k \in Goroutines : Token(h) \in CallTokens(prog'[k]) <=> k = h.key
  BY <1>2, <1>3, <1>5, <1>7, <1>8 DEF PlaceOK
<1>10. \A k \in Goroutines : \A t \in CallTokens(prog'[k]) :
         t = Token(h) \/ t \in CallTokens(prog[k])
  BY <1>2, <1>3, <1>5, <1>7
<1>11. PlaceOK'
  <2>1. \A k, l \in Goroutines : k # l => CallTokens(prog'[k]) \cap CallTokens(prog'[l]) = {}
    BY <1>9, <1>10 DEF PlaceOK
  <2>2. \A k \in Goroutines : /\ CallTokens(prog'[k]) \cap ObjTokens(waiting) = {}
                              /\ CallTokens(prog'[k]) \cap ObjTokens(walk) = {}
    BY <1>5, <1>10 DEF PlaceOK
  <2> QED BY <2>1, <2>2, <1>1, <1>8 DEF PlaceOK
<1>12. PendCalls' = (PendCalls \ {h}) \cup {d} /\ h \in PendCalls
  <2>1. PendCalls' = UNION {Elems(prog'[k]) : k \in Goroutines}
    BY DEF PendCalls
  <2>2. h \notin Elems(Tail(prog[g])) /\ \A k \in Goroutines \ {g} : h \notin Elems(prog[k])
    BY <1>4, <1>5 DEF PlaceOK, CallTokens
  <2>3. h \in PendCalls
    BY <1>4 DEF PendCalls
  <2>4. ASSUME NEW x \in PendCalls'
        PROVE  x \in (PendCalls \ {h}) \cup {d}
    <3>1. PICK k \in Goroutines : x \in Elems(prog'[k])
      BY <2>1
    <3> QED BY <3>1, <2>2, <1>3, <1>4, <1>7 DEF PendCalls
  <2>5. ASSUME NEW x \in PendCalls, x # h
        PROVE  x \in PendCalls'
    <3>1. PICK k \in Goroutines : x \in Elems(prog[k])
      BY DEF PendCalls
    <3>2. k # h.key
      BY <3>1, NoElems
    <3> QED BY <3>1, <3>2, <2>1, <2>5, <1>3, <1>4
  <2>6. d \in PendCalls'
    BY <2>1, <1>2, <1>3, <1>7
  <2> QED BY <2>3, <2>4, <2>5, <2>6
<1>13. /\ Tasks' = (Tasks \ {h}) \cup {x \in {d} : x.op \in {"add", "cleanup", "go"}}
       /\ Objs' = Objs \cup {x.obj : x \in {y \in {d} : y.op = "enqueue"}}
       /\ Issued' = Issued \cup {x \in {d} : x.op \in {"inc", "dec"}}
  <2>1. {d} \in SUBSET Calls /\ h \in PendCalls /\ h.op # "enqueue" /\ h.op \notin {"inc", "dec"}
    BY <1>1, <1>6, <1>12
  <2> HIDE DEF d
  <2> QED BY <2>1, <1>1, <1>12, SetsAfter
<1>14. h \in Tasks /\ prog'[h.key] # << >>
  <2>1. h \in Tasks
    BY <1>1, <1>12 DEF Tasks
  <2>2. \A e : <<e>> # << >>
    OBVIOUS
  <2> QED BY <2>1, <2>2, <1>3
<1>15. /\ {x \in {d} : x.op \in {"add", "cleanup", "go"}} = {d}
       /\ {y \in {d} : y.op = "enqueue"} = {} /\ {x \in {d} : x.op \in {"inc", "dec"}} = {}
  <2> HIDE DEF d
  <2> QED BY <1>6
<1>16. Objs' = Objs /\ Issued' = Issued /\ Tasks' = (Tasks \ {h}) \cup {d}
  BY <1>13, <1>15
<1> HIDE DEF d
<1> QED BY <1>1, <1>2, <1>3, <1>11, <1>12, <1>14, <1>16 DEF d

\* A tick moves all objects; nothing else is pending elsewhere.
LEMMA TickEffect ==
  ASSUME TypeOK, PlaceOK, ecTick, walk = << >>, counted' = counted
  PROVE  /\ PlaceOK' /\ PendCalls' = PendCalls
         /\ Objs' = Objs /\ Issued' = Issued /\ Tasks' = Tasks
<1>1. walk' = waiting /\ waiting' = << >> /\ prog' = prog
  BY DEF ecTick
<1>2. PlaceOK'
  BY <1>1, NoElems DEF PlaceOK
<1>3. PendCalls' = PendCalls
  BY <1>1 DEF PendCalls
<1>4. Sends' = Sends
  BY <1>3 DEF Sends
<1>5. Objs' = {x.obj : x \in Sends} \cup Elems(<< >>) \cup Elems(waiting)
  BY <1>1, <1>4 DEF Objs
<1>6. Objs' = Objs
  BY <1>5, NoElems DEF Objs
<1> QED BY <1>2, <1>3, <1>6 DEF Issued, Tasks

\* A retry of o makes the calls s, with o kept or not.
LEMMA RetryEffect ==
  ASSUME TypeOK, PlaceOK, prog[Loop] = << >>, walk # << >>, counted' = counted,
         NEW o, o = Head(walk), NEW s \in Seq(Calls), NEW kept,
         prog' = [prog EXCEPT ![Loop] = s], walk' = Tail(walk),
         \/ waiting' = waiting
         \/ /\ kept \in CacheObjs /\ kept.msg = o.msg
            /\ waiting' = Append(waiting, kept) /\ MsgToken(o.msg) \notin CallTokens(s),
         CallsDiffer(s), \A t \in CallTokens(s) : t = MsgToken(o.msg) \/ t \notin Pending,
         \A x \in Elems(s) : x.op # "enqueue"
  PROVE  /\ PlaceOK' /\ PendCalls' = PendCalls \cup Elems(s)
         /\ o \in Objs /\ Elems(walk) = {o} \cup Elems(walk') /\ o \notin Elems(walk')
         /\ Elems(waiting') = Elems(waiting) \cup (IF waiting' = waiting THEN {} ELSE {kept})
         /\ Objs' = (Objs \ {o}) \cup (IF waiting' = waiting THEN {} ELSE {kept})
         /\ Issued' = Issued \cup {x \in Elems(s) : x.op \in {"inc", "dec"}}
         /\ Tasks' = Tasks \cup {x \in Elems(s) : x.op \in {"add", "cleanup", "go"}}
<1>1. /\ walk \in Seq(CacheObjs) /\ waiting \in Seq(CacheObjs) /\ Loop \in Goroutines
      /\ walk' \in Seq(CacheObjs) /\ o \in CacheObjs
  BY KeyFacts, HeadTailProperties DEF TypeOK
<1>2. /\ Elems(walk) = {o} \cup Elems(walk') /\ ObjsDiffer(walk')
      /\ \A p \in Elems(walk') : p.msg # o.msg
  BY <1>1, TailElems DEF PlaceOK
<1>3. /\ ObjTokens(walk) = {MsgToken(o.msg)} \cup ObjTokens(walk')
      /\ MsgToken(o.msg) \notin ObjTokens(walk')
  BY <1>2, MsgTokens DEF ObjTokens
<1>4. /\ ObjsDiffer(waiting) /\ MsgToken(o.msg) \notin ObjTokens(waiting)
      /\ ObjTokens(waiting) \cap ObjTokens(walk') = {}
  BY <1>3 DEF PlaceOK
<1>5. ObjTokens(waiting) \subseteq Pending /\ ObjTokens(walk) \subseteq Pending
  BY DEF Pending
<1>6. /\ Elems(waiting') = Elems(waiting) \cup (IF waiting' = waiting THEN {} ELSE {kept})
      /\ ObjsDiffer(waiting')
      /\ ObjTokens(waiting') \subseteq ObjTokens(waiting) \cup {MsgToken(o.msg)}
      /\ CallTokens(s) \cap ObjTokens(waiting') = {}
  <2>1. CASE waiting' = waiting
    BY <2>1, <1>4, <1>5
  <2>2. CASE waiting' # waiting
    <3>1. /\ kept \in CacheObjs /\ kept.msg = o.msg
          /\ waiting' = Append(waiting, kept) /\ MsgToken(o.msg) \notin CallTokens(s)
      BY <2>2
    <3>2. /\ Elems(waiting') = Elems(waiting) \cup {kept}
          /\ ObjTokens(waiting') = ObjTokens(waiting) \cup {MsgToken(o.msg)}
          /\ ObjsDiffer(waiting')
      BY <3>1, <1>1, <1>4, AppendElems
    <3> QED BY <2>2, <3>1, <3>2, <1>4, <1>5
  <2> QED BY <2>1, <2>2
<1>7. CallTokens(s) \cap ObjTokens(walk') = {} /\ ObjTokens(waiting') \cap ObjTokens(walk') = {}
  BY <1>3, <1>4, <1>5, <1>6
<1>8. \A t \in CallTokens(s) \cup ObjTokens(waiting') \cup ObjTokens(walk') :
        \/ t \in CallTokens(prog[Loop]) \cup ObjTokens(waiting) \cup ObjTokens(walk)
        \/ t \notin Pending
  BY <1>3, <1>6
<1>9. PlaceOK' /\ PendCalls' = (PendCalls \ Elems(prog[Loop])) \cup Elems(s)
  BY <1>1, <1>2, <1>6, <1>7, <1>8, Moves
<1>10. PendCalls' = PendCalls \cup Elems(s)
  BY <1>9, NoElems
<1>11. Sends' = Sends
  BY <1>10 DEF Sends
<1>12. Objs' = {x.obj : x \in Sends} \cup Elems(waiting') \cup Elems(walk')
  BY <1>11 DEF Objs
<1>13. o \in Objs /\ o \notin Elems(walk') /\ o \notin Elems(waiting)
       /\ o \notin {x.obj : x \in Sends}
  <2>1. o \in Objs /\ o \notin Elems(walk') /\ o \notin Elems(waiting)
    BY <1>2, <1>4 DEF Objs, ObjTokens
  <2>2. ASSUME NEW x \in Sends, x.obj = o
        PROVE  FALSE
    <3>1. x \in PendCalls /\ x \in Calls /\ x.op = "enqueue"
      BY PendingOnce DEF Sends
    <3>2. Token(x) = MsgToken(o.msg)
      BY <2>2, <3>1, Tokens
    <3>3. PICK g \in Goroutines : x \in Elems(prog[g])
      BY <3>1 DEF PendCalls
    <3> QED BY <3>2, <3>3, <1>3 DEF PlaceOK, CallTokens
  <2> QED BY <2>1, <2>2
<1>14. Objs' = (Objs \ {o}) \cup (IF waiting' = waiting THEN {} ELSE {kept})
  BY <1>2, <1>6, <1>12, <1>13 DEF Objs
<1>15. /\ Issued' = Issued \cup {x \in Elems(s) : x.op \in {"inc", "dec"}}
       /\ Tasks' = Tasks \cup {x \in Elems(s) : x.op \in {"add", "cleanup", "go"}}
  BY <1>10 DEF Issued, Tasks
<1> QED BY <1>2, <1>6, <1>9, <1>10, <1>13, <1>14, <1>15

-----------------------------------------------------------------------------
(***************************************************************************)
(* What the messages tell.                                                 *)
(***************************************************************************)
\* The messages that were sent have their types.
LEMMA AllMsgs ==
  ASSUME TypeOK, NEW m \in All
  PROVE  /\ m \in WireMsg /\ m \in Msgs /\ m.key \in Keys /\ m.key \in Procs
         /\ m.type \in {"clone", "exec", "exit"}
  BY MsgFields, WireIsMsg DEF TypeOK, All

\* A process stems from one other, which is older.
LEMMA Origins ==
  ASSUME IInv, MsgOK, NEW c \in Procs
  PROVE  /\ \A p, q : Stems(c, p) /\ Stems(c, q) => p = q
         /\ \A p : Stems(c, p) => c \in Keys /\ p \in Procs /\ p < c /\ c < nextKey
         /\ Dropped(c) => c \in Keys /\ c < nextKey /\ \A pid \in Alive : task[pid].key # c
         /\ \A k : Replaced(k, c) => Dropped(c)
         /\ \A k \in Procs : \A d \in Procs : Replaced(k, c) /\ Replaced(k, d) => c = d
<1>1. received \subseteq All /\ TypeOK
  BY DEF All, IInv
<1>2. ASSUME NEW p, Stems(c, p)
      PROVE  c \in Keys /\ p \in Procs /\ p < c /\ c < nextKey
  <2>1. PICK n \in received : Creates(n, c) /\ Origin(n) = p
    BY <1>2 DEF Stems
  <2>2. n.key = c /\ n \in All
    BY <1>1, <2>1 DEF Creates
  <2>3. c < nextKey
    BY <2>2 DEF IInv, WireOK, All
  <2> QED BY <2>1, <2>2, <2>3, <1>1, AllMsgs DEF MsgOK
<1>3. \A p, q : Stems(c, p) /\ Stems(c, q) => p = q
  BY <1>1 DEF MsgOK, Stems
<1>4. Dropped(c) => c \in Keys /\ c < nextKey /\ \A pid \in Alive : task[pid].key # c
  BY <1>1 DEF MsgOK, Dropped
<1>5. \A k : Replaced(k, c) => Dropped(c)
  BY DEF Replaced, Dropped, Drops
<1>6. ASSUME NEW k \in Procs, NEW d \in Procs, Replaced(k, c), Replaced(k, d)
      PROVE  c = d
  <2>1. PICK m \in received : m.type = "exec" /\ m.key = k /\ m.cleanup = c
    BY <1>6 DEF Replaced
  <2>2. PICK n \in received : n.type = "exec" /\ n.key = k /\ n.cleanup = d
    BY <1>6 DEF Replaced
  <2>3. m = n
    BY <2>1, <2>2, <1>1 DEF MsgOK, Creates
  <2> QED BY <2>1, <2>2, <2>3
<1> QED BY <1>2, <1>3, <1>4, <1>5, <1>6

\* A message that is received is the first to tell what it tells.
LEMMA FirstToTell ==
  ASSUME IInv, MsgOK, NEW m \in wire
  PROVE  /\ \A c \in Procs : Creates(m, c) => \A p : ~Stems(c, p)
         /\ \A c \in Procs : Drops(m, c) => ~Dropped(c)
         /\ m.type = "exec" => \A c \in Procs : ~Replaced(m.key, c)
         /\ m \notin received
<1>1. m \in All /\ received \subseteq All /\ m \notin received /\ m.key \in Procs
  BY AllMsgs DEF All, IInv, WireOK
<1>2. \A c \in Procs : Creates(m, c) => \A p : ~Stems(c, p)
  BY <1>1 DEF MsgOK, Stems
<1>3. \A c \in Procs : Drops(m, c) => ~Dropped(c)
  BY <1>1 DEF MsgOK, Dropped
<1>4. ASSUME m.type = "exec", NEW c \in Procs
      PROVE  ~Replaced(m.key, c)
  BY <1>1, <1>4 DEF MsgOK, Replaced, Creates
<1> QED BY <1>1, <1>2, <1>3, <1>4

\* What a received message adds to this.
LEMMA ThenTold ==
  ASSUME NEW m, received' = received \cup {m}
  PROVE  /\ \A c, p : Stems(c, p)' <=> Stems(c, p) \/ (Creates(m, c) /\ Origin(m) = p)
         /\ \A c : Dropped(c)' <=> Dropped(c) \/ Drops(m, c)
         /\ \A k, c : Replaced(k, c)' <=>
              Replaced(k, c) \/ (m.type = "exec" /\ m.key = k /\ m.cleanup = c)
<1>1. \A c, p : Stems(c, p)' <=> Stems(c, p) \/ (Creates(m, c) /\ Origin(m) = p)
  BY DEF Stems, Creates, Origin, ExecParent
<1>2. \A c : Dropped(c)' <=> Dropped(c) \/ Drops(m, c)
  BY DEF Dropped, Drops
<1>3. \A k, c : Replaced(k, c)' <=>
        Replaced(k, c) \/ (m.type = "exec" /\ m.key = k /\ m.cleanup = c)
  BY DEF Replaced
<1> QED BY <1>1, <1>2, <1>3

\* A created process has a key that was handed out, and an older parent.
LEMMA BornFacts ==
  ASSUME IInv, MsgOK, BornOK, NEW c \in born \ {Root}
  PROVE  /\ c \in Keys /\ c \in Procs /\ c < nextKey /\ Stems(c, Parent(c))
         /\ Parent(c) \in Procs /\ Parent(c) < c /\ Parent(c) # c
<1>1. c \in Procs /\ Stems(c, Parent(c))
  BY DEF IInv, TypeOK, BornOK
<1>2. c \in Keys /\ Parent(c) \in Procs /\ Parent(c) < c /\ c < nextKey
  BY <1>1, Origins
<1> QED BY <1>1, <1>2, KeysAssumption DEF Keys

-----------------------------------------------------------------------------
(***************************************************************************)
(* What steps that change little keep.                                     *)
(***************************************************************************)
\* What is gone stays gone unless something is created or handed out.
LEMMA StaysGone ==
  ASSUME TypeOK, TypeOK', nextKey <= nextKey', cache' \subseteq cache, wire' \subseteq wire,
         \A x \in Tasks' : x.op = "add" => x \in Tasks,
         \A o \in Objs' : Open(o) => o \in Objs,
         NEW q, Gone(q)
  PROVE  Gone(q)'
<1>1. PICK G \in SUBSET Procs : q \in G /\ Dead(G)
  BY DEF Gone
<1>2. G \subseteq Int /\ nextKey \in Int /\ nextKey' \in Int
  BY KeysAssumption DEF TypeOK, Keys, Root
<1>3. Dead(G)'
  <2> SUFFICES ASSUME NEW r \in G
               PROVE  /\ r < nextKey' /\ r \notin cache' /\ ~Adds(r)'
                      /\ \A m \in wire' : ~Creates(m, r)
                      /\ \A o \in Objs' : Open(o) /\ o.msg.key = r => o.msg.parent \in G
    BY DEF Dead, Creates, Open
  <2>1. /\ r < nextKey /\ r \notin cache /\ ~Adds(r)
        /\ \A m \in wire : ~Creates(m, r)
        /\ \A o \in Objs : Open(o) /\ o.msg.key = r => o.msg.parent \in G
    BY <1>1 DEF Dead
  <2>2. ~Adds(r)'
    BY <2>1 DEF Adds
  <2>3. r < nextKey'
    BY <2>1, <1>2
  <2> QED BY <2>1, <2>2, <2>3
<1> QED BY <1>1, <1>3 DEF Gone

\* The steps that leave the processes and the messages alone.
LEMMA LeavesAll ==
  ASSUME MsgOK, SentOK, SourceOK, BornOK, FlagOK, CleanupOK, RaisedOK, GivenUpOK, CachedOK,
         HandledOK, NothingUnsettled,
         UNCHANGED <<kernelVars, wire, received, born, cache, object, unsettled>>,
         Objs' = Objs, Issued' = Issued, Tasks' = Tasks
  PROVE  /\ MsgOK' /\ SentOK' /\ SourceOK' /\ BornOK' /\ FlagOK' /\ CleanupOK' /\ RaisedOK'
         /\ GivenUpOK' /\ CachedOK' /\ HandledOK' /\ NothingUnsettled'
<1> USE DEF kernelVars
<1>1. Alive' = Alive /\ All' = All
  BY DEF Alive, All
<1>2. MsgOK' /\ SentOK'
  BY <1>1 DEF MsgOK, SentOK, Creates, Drops, Origin, ExecParent
<1>3. /\ \A c, p : Stems(c, p)' <=> Stems(c, p)
      /\ \A c : Dropped(c)' <=> Dropped(c)
      /\ \A k, c : Replaced(k, c)' <=> Replaced(k, c)
  BY DEF Stems, Dropped, Replaced, Creates, Drops, Origin, ExecParent
<1>4. /\ \A c : Adds(c)' <=> Adds(c)
      /\ \A c : CleansUp(c)' <=> CleansUp(c)
      /\ \A c : NoInc(c)' <=> NoInc(c)
      /\ \A c : NoDec(c)' <=> NoDec(c)
      /\ \A c : Parent(c)' = Parent(c)
  BY DEF Adds, CleansUp, NoInc, NoDec, Parent
<1>5. SourceOK' /\ BornOK'
  BY <1>3, <1>4 DEF SourceOK, BornOK
<1>6. FlagOK' /\ CleanupOK' /\ RaisedOK'
  BY <1>4 DEF FlagOK, CleanupOK, RaisedOK, Open, ToDrop
<1>7. \A q : Gone(q)' <=> Gone(q)
  BY <1>4 DEF Gone, Dead, Creates, Open
<1>8. GivenUpOK'
  BY <1>7 DEF GivenUpOK, Origin, ExecParent
<1>9. CachedOK'
  BY <1>1, <1>4 DEF CachedOK, LiveCached, Live, InTime, Creates, Drops, Origin, ExecParent, Open
<1>10. HandledOK' /\ NothingUnsettled'
  BY <1>4 DEF HandledOK, NothingUnsettled, Creates, Drops, Open
<1> QED BY <1>2, <1>5, <1>6, <1>8, <1>9, <1>10

\* The steps that leave the walk alone.
LEMMA KeepsWalk ==
  ASSUME WalkOK, TypeOK, All \subseteq All', walk' = walk, Elems(waiting) \subseteq Elems(waiting'),
         \A o \in Elems(waiting') \ Elems(waiting) : o \in CacheObjs /\ o.color = 0,
         podKnown => podKnown', \A q \in Keys : Fixed(q) => Fixed(q)'
  PROVE  WalkOK'
<1>1. \A rank \in Ranks : Valid(rank)' => Valid(rank)
  BY DEF Valid, Waits
<1>2. ASSUME NEW rank \in Ranks, NEW k, NEW n, Claim(rank, k, n)
      PROVE  Claim(rank, k, n)'
  <2>1. \A q \in Keys : OpenIn(walk, q) => OpenIn(walk', q)
    OBVIOUS
  <2>2. \A q \in Keys : OpenIn(waiting, q) => OpenIn(waiting', q)
    BY DEF OpenIn
  <2> QED BY <2>1, <2>2, <1>2 DEF Claim, OpenIn, Open
<1>3. \A o \in Elems(waiting') : Walks(o) >= 1 => o \in Elems(waiting)
  BY OptionsAssumption DEF Walks
<1>4. \A o \in Elems(walk') : Walks(o) >= 0 => (K8s => podKnown')
  BY DEF WalkOK
<1>5. ASSUME NEW rank \in Ranks, Valid(rank)'
      PROVE  /\ \A o \in Elems(walk') : Walks(o) >= 0 => Claim(rank, o.msg.key, Walks(o))'
             /\ \A o \in Elems(waiting') : Walks(o) >= 1 => Claim(rank, o.msg.key, Walks(o) - 1)'
  BY <1>1, <1>2, <1>3, <1>5 DEF WalkOK
<1> QED BY <1>4, <1>5 DEF WalkOK, Walks

\* What is fixed for the walk stays so.
LEMMA StaysFixed ==
  ASSUME NEW q, Fixed(q), born \subseteq born', LoopAdds(q) => LoopAdds(q)' \/ q \in born',
         Gone(q) => Gone(q)', lost > 0 => lost' > 0
  PROVE  Fixed(q)'
BY DEF Fixed

-----------------------------------------------------------------------------
(***************************************************************************)
(* The kernel.                                                             *)
(***************************************************************************)
LiveKeys == {task[pid].key : pid \in Alive}

\* What a step of the kernel does, and what its message tells of it.
KernelTells(m) ==
  /\ m \in WireMsg /\ Emit(m)
  /\ m.type = "exec" => m.cleanup \in Keys
  /\ LiveKeys' \subseteq LiveKeys \cup {nextKey}
  /\ nextKey' = nextKey \/ (nextKey' = nextKey + 1 /\ nextKey \in LiveKeys')
  /\ \A c \in Procs : Creates(m, c) <=> c = nextKey /\ nextKey' = nextKey + 1
  /\ \A c \in Procs : Creates(m, c) => Origin(m) \in Live
  /\ \A c \in Procs : Drops(m, c) <=> c \in LiveKeys \ LiveKeys'

\* The live keys were handed out.
LEMMA LiveFacts ==
  ASSUME IInv
  PROVE  /\ Live = {Root} \cup LiveKeys /\ LiveKeys \subseteq Keys
         /\ \A c \in LiveKeys : c < nextKey
         /\ \A c \in Live : c < nextKey /\ c \in Procs
         /\ \A pid \in Alive \cup {Root} : KeyOf(pid) \in Live
<1>1. Live = {Root} \cup LiveKeys
  BY DEF Live, LiveKeys
<1>2. LiveKeys \subseteq Keys /\ \A c \in LiveKeys : c < nextKey
  BY AliveFacts DEF LiveKeys, IInv, TaskOK
<1>3. Root < nextKey
  BY DEF IInv, TypeOK, Root
<1>4. \A c \in Live : c < nextKey /\ c \in Procs
  BY <1>1, <1>2, <1>3, KeyFacts
<1>5. \A pid \in Alive \cup {Root} : KeyOf(pid) \in Live
  BY <1>1 DEF KeyOf, LiveKeys
<1> QED BY <1>1, <1>2, <1>4, <1>5

\* A fork tells of a new process.
LEMMA ForkTells ==
  ASSUME IInv, NEW pid \in Pids, NEW parent \in Pids \cup {Root}, Fork(pid, parent)
  PROVE  \E m : KernelTells(m)
<1> DEFINE m == CloneMsg(nextKey, KeyOf(parent))
<1>1. /\ nextKey \in Keys /\ KeyOf(parent) \in Procs /\ nextKey' = nextKey + 1 /\ nextKey \in Int
      /\ KeyOf(parent) \in Live /\ Emit(m)
  BY AliveFacts, LiveFacts, KeysAssumption DEF IInv, TypeOK, Fork, Keys
<1>2. m \in WireMsg /\ m.type = "clone" /\ m.key = nextKey /\ m.parent = KeyOf(parent)
  BY <1>1, EmittedMsgs DEF CloneMsg
<1>3. /\ Alive' = Alive \cup {pid} /\ \A q \in Alive : task'[q] = task[q]
      /\ task'[pid].key = nextKey
  BY <1>1, KeyFacts DEF Fork, IInv, TypeOK, Alive, Keys, None
<1>4. LiveKeys' = {task'[q].key : q \in Alive'}
  BY DEF LiveKeys
<1>5. LiveKeys' = LiveKeys \cup {nextKey}
  BY <1>3, <1>4 DEF LiveKeys
<1> HIDE DEF m
<1>6. KernelTells(m)
  BY <1>1, <1>2, <1>5 DEF KernelTells, Creates, Drops, Origin
<1> QED BY <1>6

\* An exec tells of a new process and of the end of the old one.
LEMMA ExecTells ==
  ASSUME IInv, NEW pid \in Pids, Exec(pid)
  PROVE  \E m : KernelTells(m)
<1> DEFINE m == ExecMsg(nextKey, KeyOf(ppid[pid]), task[pid].key, task[pid].clone)
<1>1. /\ nextKey \in Keys /\ nextKey' = nextKey + 1 /\ nextKey \in Int /\ pid \in Alive /\ Emit(m)
  BY KeysAssumption DEF IInv, TypeOK, Exec, Keys
<1>2. /\ KeyOf(ppid[pid]) \in Procs /\ KeyOf(ppid[pid]) \in Live /\ task[pid].key \in Keys
      /\ task[pid].key \in Procs /\ task[pid].clone \in BOOLEAN
  BY <1>1, AliveFacts, LiveFacts, KeyFacts DEF IInv, TaskOK
<1>3. /\ m \in WireMsg /\ m.type = "exec" /\ m.key = nextKey /\ m.parent = KeyOf(ppid[pid])
      /\ m.cleanup = task[pid].key
  BY <1>1, <1>2, EmittedMsgs DEF ExecMsg
<1>4. /\ Alive' = Alive /\ \A q \in Alive \ {pid} : task'[q] = task[q]
      /\ task'[pid].key = nextKey
  BY <1>1, KeyFacts DEF Exec, IInv, TypeOK, Alive, Keys, None
<1>5. LiveKeys' = {task'[q].key : q \in Alive'}
  BY DEF LiveKeys
<1>6. /\ LiveKeys' = (LiveKeys \ {task[pid].key}) \cup {nextKey}
      /\ task[pid].key \in LiveKeys /\ task[pid].key # nextKey
  <2>1. task[pid].key \in LiveKeys /\ task[pid].key < nextKey
    BY <1>1 DEF LiveKeys, IInv, TaskOK
  <2>2. \A q \in Alive \ {pid} : task[q].key # task[pid].key
    BY <1>1 DEF IInv, TaskOK
  <2>3. task[pid].key # nextKey
    BY <2>1, <1>1, <1>2
  <2>4. LiveKeys' = (LiveKeys \ {task[pid].key}) \cup {nextKey}
    <3>1. ASSUME NEW c \in LiveKeys'
          PROVE  c \in (LiveKeys \ {task[pid].key}) \cup {nextKey}
      BY <2>2, <1>4, <1>5 DEF LiveKeys
    <3>2. ASSUME NEW c \in LiveKeys, c # task[pid].key
          PROVE  c \in LiveKeys'
      BY <3>2, <1>4, <1>5 DEF LiveKeys
    <3>3. nextKey \in LiveKeys'
      BY <1>1, <1>4, <1>5
    <3> QED BY <3>1, <3>2, <3>3
  <2> QED BY <2>1, <2>3, <2>4
<1>7. Origin(m) \in Live
  BY <1>2, <1>3, <1>6, LiveFacts DEF Origin, ExecParent
<1> HIDE DEF m
<1>8. KernelTells(m)
  BY <1>1, <1>2, <1>3, <1>6, <1>7 DEF KernelTells, Creates, Drops
<1> QED BY <1>8

\* An exit tells of the end of a process.
LEMMA ExitTells ==
  ASSUME IInv, NEW pid \in Pids, Exit(pid)
  PROVE  \E m : KernelTells(m)
<1> DEFINE m == ExitMsg(task[pid].key)
<1>1. nextKey' = nextKey /\ nextKey \in Int /\ pid \in Alive /\ task[pid].key \in Keys /\ Emit(m)
  BY AliveFacts DEF IInv, TypeOK, Exit
<1>2. m \in WireMsg /\ m.type = "exit" /\ m.key = task[pid].key
  BY <1>1, KeyFacts, EmittedMsgs
<1>3. Alive' = Alive \ {pid} /\ \A q \in Alive' : task'[q] = task[q]
  BY <1>1 DEF Exit, IInv, TypeOK, Alive
<1>4. LiveKeys' = {task'[q].key : q \in Alive'}
  BY DEF LiveKeys
<1>5. LiveKeys' = LiveKeys \ {task[pid].key} /\ task[pid].key \in LiveKeys
  <2>1. \A q \in Alive \ {pid} : task[q].key # task[pid].key
    BY <1>1 DEF IInv, TaskOK
  <2> QED BY <2>1, <1>1, <1>3, <1>4 DEF LiveKeys
<1> HIDE DEF m
<1>6. KernelTells(m)
  BY <1>1, <1>2, <1>5, KeyFacts DEF KernelTells, Creates, Drops
<1> QED BY <1>6

\* The messages stay right.
LEMMA KernelMsgs ==
  ASSUME IInv, MsgOK, SentOK, NEW m, KernelTells(m), received' = received
  PROVE  /\ MsgOK' /\ SentOK' /\ All \subseteq All' /\ wire' \subseteq wire \cup {m}
         /\ lost = lost' \/ lost' > 0
         /\ nextKey \in Int /\ nextKey' \in Int /\ nextKey <= nextKey'
<1>1. /\ wire' \subseteq wire \cup {m} /\ wire \subseteq wire' /\ All \subseteq All'
      /\ All' \subseteq All \cup {m}
      /\ m \in wire' \/ lost' > 0
      /\ lost = lost' \/ lost' > 0
  BY DEF KernelTells, Emit, All, IInv, TypeOK
<1>2. nextKey \in Int /\ nextKey' \in Int /\ nextKey <= nextKey'
  BY DEF KernelTells, IInv, TypeOK
<1>3. LiveKeys \subseteq Keys /\ \A c \in LiveKeys : c < nextKey
  BY LiveFacts
<1>4. \A c \in Procs : c \in Int
  BY KeysAssumption DEF Keys, Root
<1>5. \A n \in All, c \in Procs : Creates(n, c) => c < nextKey
  BY DEF All, IInv, WireOK, Creates
<1>6. \A c \in Procs : (\A pid \in Alive : task[pid].key # c) <=> c \notin LiveKeys
  BY DEF LiveKeys
<1>7. \A c \in Procs : (\A pid \in Alive' : task'[pid].key # c) <=> c \notin LiveKeys'
  BY DEF LiveKeys
<1>8. \A n \in All, c \in Procs : Drops(n, c) => c < nextKey /\ c \in Keys /\ c \notin LiveKeys
  BY <1>6 DEF MsgOK
<1>9. \A c \in Procs : Creates(m, c) => Origin(m) \in Procs /\ Origin(m) < c
  BY LiveFacts DEF KernelTells
<1>10. ASSUME NEW n \in All', NEW c \in Procs, Drops(n, c)
       PROVE  c \in Keys /\ c < nextKey' /\ c \notin LiveKeys'
  <2>1. CASE n \in All
    BY <2>1, <1>2, <1>4, <1>8, <1>10 DEF KernelTells
  <2>2. CASE n = m
    BY <2>2, <1>2, <1>3, <1>4, <1>10 DEF KernelTells
  <2> QED BY <2>1, <2>2, <1>1
<1>11. ASSUME NEW n \in All', NEW l \in All', NEW c \in Procs
       PROVE  /\ Creates(n, c) /\ Creates(l, c) => n = l
              /\ Drops(n, c) /\ Drops(l, c) => n = l
  <2>1. CASE n \in All /\ l \in All
    BY <2>1 DEF MsgOK
  <2>2. CASE n \in All /\ l = m
    BY <2>2, <1>2, <1>4, <1>5, <1>8 DEF KernelTells
  <2>3. CASE n = m /\ l \in All
    BY <2>3, <1>2, <1>4, <1>5, <1>8 DEF KernelTells
  <2> QED BY <2>1, <2>2, <2>3, <1>1
<1>12. MsgOK'
  <2>1. \A n \in All' : n.type = "exec" => n.cleanup \in Keys
    BY <1>1 DEF KernelTells, MsgOK
  <2>2. \A n \in All', c \in Procs : Creates(n, c) => Origin(n) \in Procs /\ Origin(n) < c
    BY <1>1, <1>9 DEF MsgOK
  <2> QED BY <2>1, <2>2, <1>7, <1>10, <1>11 DEF MsgOK, Creates, Drops, Origin, ExecParent
<1>13. SentOK'
  <2> SUFFICES ASSUME lost' = 0, NEW c \in Keys, c < nextKey'
               PROVE  /\ \E n \in All' : Creates(n, c)
                      /\ \/ \E pid \in Alive' : task'[pid].key = c
                         \/ \E n \in All' : Drops(n, c)
    BY DEF SentOK, Creates, Drops
  <2>1. lost = 0 /\ m \in All' /\ c \in Procs
    BY <1>1, KeyFacts DEF All
  <2>2. CASE c < nextKey
    <3>1. PICK n \in All : Creates(n, c)
      BY <2>1, <2>2 DEF SentOK
    <3>2. CASE \E n1 \in All : Drops(n1, c)
      BY <3>1, <3>2, <1>1
    <3>3. CASE c \in LiveKeys
      <4>1. c \in LiveKeys' \/ Drops(m, c)
        BY <3>3, <2>1 DEF KernelTells
      <4> QED BY <3>1, <4>1, <2>1, <1>1, <1>7
    <3> QED BY <3>2, <3>3, <2>1, <2>2 DEF SentOK, LiveKeys
  <2>3. CASE ~(c < nextKey)
    <3>1. c = nextKey /\ nextKey' = nextKey + 1
      BY <2>1, <2>3, <1>2, <1>4 DEF KernelTells
    <3>2. Creates(m, c) /\ c \in LiveKeys'
      BY <3>1, <2>1, <1>2 DEF KernelTells
    <3> QED BY <3>2, <2>1, <1>7
  <2> QED BY <2>2, <2>3
<1> QED BY <1>1, <1>2, <1>12, <1>13

\* What is gone stays so: a new message tells of a new key.
LEMMA KernelGone ==
  ASSUME IInv, NEW m, KernelTells(m), wire' \subseteq wire \cup {m}, cache' = cache,
         nextKey <= nextKey', nextKey \in Int, nextKey' \in Int,
         Objs' = Objs, Tasks' = Tasks, NEW q, Gone(q)
  PROVE  Gone(q)'
<1>1. PICK G \in SUBSET Procs : q \in G /\ Dead(G)
  BY DEF Gone
<1>2. G \subseteq Int
  BY KeysAssumption DEF Keys, Root
<1>3. \A r \in G : ~Creates(m, r) /\ r < nextKey'
  BY <1>1, <1>2 DEF Dead, KernelTells
<1>4. Dead(G)'
  BY <1>1, <1>3 DEF Dead, Adds, Creates, Open
<1> QED BY <1>1, <1>4 DEF Gone

\* The kernel keeps the invariant.
LEMMA KernelCounts ==
  ASSUME CInv, Kernel, IInv'
  PROVE  CInv'
<1>1. PICK m : KernelTells(m)
  BY ForkTells, ExecTells, ExitTells DEF Kernel, CInv
<1>2. /\ UNCHANGED <<absVars, object, podKnown, prog, ecVars, notified, received, counted>>
      /\ IInv /\ MsgOK /\ SentOK
  BY DEF Kernel, CInv
<1>3. /\ MsgOK' /\ SentOK' /\ All \subseteq All' /\ wire' \subseteq wire \cup {m}
      /\ lost = lost' \/ lost' > 0
      /\ nextKey \in Int /\ nextKey' \in Int /\ nextKey <= nextKey'
  BY <1>1, <1>2, KernelMsgs
<1> USE <1>2 DEF absVars, ecVars
<1>4. PendCalls' = PendCalls
  BY DEF PendCalls
<1>5. Sends' = Sends /\ Issued' = Issued /\ Tasks' = Tasks
  BY <1>4 DEF Sends, Issued, Tasks
<1>6. Objs' = Objs
  BY <1>5 DEF Objs
<1>7. PlaceOK'
  BY DEF CInv, PlaceOK
<1>8. /\ \A c, p : Stems(c, p)' <=> Stems(c, p)
      /\ \A c : Dropped(c)' <=> Dropped(c)
      /\ \A k, c : Replaced(k, c)' <=> Replaced(k, c)
  BY DEF Stems, Dropped, Replaced, Creates, Drops, Origin, ExecParent
<1>9. StartOK'
  BY <1>4, <1>5, <1>6, <1>8 DEF CInv, StartOK
<1>10. /\ \A c : Adds(c)' <=> Adds(c)
       /\ \A c : CleansUp(c)' <=> CleansUp(c)
       /\ \A c : NoInc(c)' <=> NoInc(c)
       /\ \A c : NoDec(c)' <=> NoDec(c)
       /\ \A c : Parent(c)' = Parent(c)
  BY <1>5, <1>6 DEF Adds, CleansUp, NoInc, NoDec, Parent
<1>11. SourceOK' /\ BornOK'
  BY <1>5, <1>6, <1>8, <1>10 DEF CInv, SourceOK, BornOK
<1>12. FlagOK' /\ CleanupOK' /\ RaisedOK'
  BY <1>5, <1>6, <1>10 DEF CInv, FlagOK, CleanupOK, RaisedOK, Open, ToDrop
<1>13. CountOK'
  BY <1>4 DEF CInv, CountOK, IncBy, DecBy
<1>14. \A q : Gone(q) => Gone(q)'
  BY <1>1, <1>3, <1>5, <1>6, KernelGone
<1>15. GivenUpOK'
  BY <1>5, <1>14 DEF CInv, GivenUpOK, Origin, ExecParent
<1>16. CachedOK'
  <2>1. nextKey \notin born
    <3> SUFFICES ASSUME nextKey \in born
                 PROVE  FALSE
      OBVIOUS
    <3>1. nextKey # Root
      BY DEF IInv, TypeOK, Root
    <3>2. nextKey < nextKey
      BY <3>1, BornFacts DEF CInv
    <3> QED BY <3>2, <1>3
  <2>2. Live' \subseteq Live \cup {nextKey}
    <3>1. Live' = {Root} \cup LiveKeys'
      BY DEF Live, LiveKeys
    <3> QED BY <3>1, <1>1, LiveFacts DEF KernelTells
  <2>3. LiveCached'
    BY <2>1, <2>2 DEF CInv, CachedOK, LiveCached
  <2>4. \A c \in Live : InTime(c)
    BY DEF CInv, CachedOK, LiveCached, InTime
  <2>5. \A c \in Procs : /\ Creates(m, c) => InTime(Origin(m))
                         /\ Drops(m, c) => InTime(c)
    BY <2>4, <1>1, LiveFacts DEF KernelTells
  <2>6. \A n \in wire', c \in Procs : /\ Creates(n, c) => InTime(Origin(n))
                                      /\ Drops(n, c) => InTime(c)
    BY <2>5, <1>3 DEF CInv, CachedOK
  <2> QED BY <2>3, <2>6, <1>5, <1>6, <1>10
          DEF CInv, CachedOK, InTime, Creates, Drops, Origin, ExecParent, Open
<1>17. HandledOK'
  BY <1>5, <1>6, <1>10 DEF CInv, HandledOK, Creates, Drops, Open
<1>18. NothingUnsettled'
  BY <1>3 DEF CInv, NothingUnsettled
<1>19. WalkOK'
  <2>1. \A q \in Keys : Fixed(q) => Fixed(q)'
    BY <1>3, <1>14 DEF Fixed, LoopAdds
  <2> QED BY <2>1, <1>3, KeepsWalk DEF CInv, IInv
<1> QED BY <1>3, <1>7, <1>9, <1>11, <1>12, <1>13, <1>15, <1>16, <1>17, <1>18, <1>19 DEF CInv

-----------------------------------------------------------------------------
(***************************************************************************)
(* The calls that change counts, and the small steps.                      *)
(***************************************************************************)

\* A goroutine that makes a call does not start again.
LEMMA ReturnFacts ==
  ASSUME TypeOK, NEW g \in Goroutines, prog[g] # << >>, Return(g)
  PROVE  /\ \A k \in Goroutines : prog[k] = << >> => prog'[k] = << >>
         /\ \A q : LoopAdds(q) =>
              \/ LoopAdds(q)'
              \/ g = Loop /\ Head(prog[g]).op = "add" /\ Head(prog[g]).key = q
<1>1. prog'[g] = Tail(prog[g]) /\ \A k \in Goroutines \ {g} : prog'[k] = prog[k]
  BY DEF TypeOK, Return
<1>2. Elems(prog[g]) = {Head(prog[g])} \cup Elems(prog'[g])
  <2>1. prog[g] \in Seq(Calls)
    BY DEF TypeOK
  <2> QED BY <2>1, <1>1, TailElems
<1>3. Loop \in Goroutines
  BY KeyFacts
<1> QED BY <1>1, <1>2, <1>3 DEF LoopAdds

\* A call that starts no goroutine.
LEMMA StartKeeps ==
  ASSUME StartOK, PendCalls' \subseteq PendCalls, Objs' = Objs, received' = received,
         \A k \in Goroutines : prog[k] = << >> => prog'[k] = << >>, TypeOK, PlaceOK
  PROVE  StartOK'
<1>1. Tasks' \subseteq Tasks /\ Sends' \subseteq Sends
  BY DEF Tasks, Sends
<1>2. \A k, c : Replaced(k, c)' <=> Replaced(k, c)
  BY DEF Replaced
<1>3. \A k \in Keys : k \in Goroutines
  BY KeyFacts
<1>4. \A x \in Tasks : x.op = "go" => x.key \in Goroutines
  BY <1>3, PendingOnce, CallFields
<1>5. \A o \in Objs : o.msg.type = "exec" => o.msg.key \in Goroutines
  BY <1>3, PendingOnce, ObjFields, MsgFields
<1> QED BY <1>1, <1>2, <1>3, <1>4, <1>5 DEF StartOK

\* The processes that count, finitely many.
LEMMA FiniteCounts ==
  /\ IsFiniteSet(Procs)
  /\ \A k : IsFiniteSet(IncBy(k)) /\ IsFiniteSet(DecBy(k))
  /\ \A k : Cardinality(IncBy(k)) \in Nat /\ Cardinality(DecBy(k)) \in Nat
<1>1. IsFiniteSet(Procs)
  <2>1. IsFiniteSet(0 .. MaxKey)
    BY KeysAssumption, FS_Interval
  <2>2. Procs \subseteq 0 .. MaxKey
    BY KeysAssumption DEF Keys, Root
  <2> QED BY <2>1, <2>2, FS_Subset
<1>2. \A k : IncBy(k) \subseteq Procs /\ DecBy(k) \subseteq Procs
  BY DEF IncBy, DecBy
<1>3. \A k : IsFiniteSet(IncBy(k)) /\ IsFiniteSet(DecBy(k))
  BY <1>1, <1>2, FS_Subset
<1> QED BY <1>1, <1>3, FS_CardinalityType

\* A set with one more element.
LEMMA OneMore ==
  ASSUME NEW S, IsFiniteSet(S), NEW x, x \notin S
  PROVE  Cardinality(S \cup {x}) = Cardinality(S) + 1
BY FS_AddElement

\* The counts after a counting call.
LEMMA CountsOn ==
  ASSUME TypeOK, PlaceOK, BornOK, CountOK, NEW h \in PendCalls, h.op \in {"inc", "dec"},
         counted' = counted \cup {h}, PendCalls' = PendCalls \ {h}, born' = born,
         refcnt' = [refcnt EXCEPT ![h.key] = IF h.op = "inc" THEN @ + 1 ELSE @ - 1]
  PROVE  CountOK'
<1>1. h \in Calls /\ h.key \in Procs /\ h.by \in Procs /\ h \notin counted
  BY PendingOnce, CallFields DEF CountOK
<1>2. PendCalls' \cap counted' = {} /\ \A x \in counted' : x.op \in {"inc", "dec"}
  BY DEF CountOK
<1>3. /\ h.op = "inc" => h = DoInc(h.key, h.by)
      /\ h.op = "dec" => h = DoDec(h.key, h.by)
  BY <1>1, CallShapes
<1>4. refcnt \in [Procs -> Int] /\ born \subseteq Procs
  BY DEF TypeOK
<1>5. ASSUME NEW k \in born
      PROVE  refcnt'[k] = 1 + Cardinality(IncBy(k)') - Cardinality(DecBy(k)')
  <2>1. refcnt[k] = 1 + Cardinality(IncBy(k)) - Cardinality(DecBy(k))
    BY DEF CountOK
  <2>2. Cardinality(IncBy(k)) \in Nat /\ Cardinality(DecBy(k)) \in Nat
    BY FiniteCounts
  <2>3. CASE h.op = "inc" /\ h.key = k
    <3>1. IncBy(k)' = IncBy(k) \cup {h.by} /\ DecBy(k)' = DecBy(k) /\ h.by \notin IncBy(k)
      BY <2>3, <1>1, <1>3, CountCalls DEF IncBy, DecBy
    <3>2. Cardinality(IncBy(k)') = Cardinality(IncBy(k)) + 1
      BY <3>1, FiniteCounts, OneMore
    <3>3. refcnt'[k] = refcnt[k] + 1
      BY <2>3, <1>4
    <3> QED BY <2>1, <2>2, <3>1, <3>2, <3>3
  <2>4. CASE h.op = "dec" /\ h.key = k
    <3>1. DecBy(k)' = DecBy(k) \cup {h.by} /\ IncBy(k)' = IncBy(k) /\ h.by \notin DecBy(k)
      BY <2>4, <1>1, <1>3, CountCalls DEF IncBy, DecBy
    <3>2. Cardinality(DecBy(k)') = Cardinality(DecBy(k)) + 1
      BY <3>1, FiniteCounts, OneMore
    <3>3. refcnt'[k] = refcnt[k] - 1
      BY <2>4, <1>4
    <3> QED BY <2>1, <2>2, <3>1, <3>2, <3>3
  <2>5. CASE h.key # k
    <3>1. DecBy(k)' = DecBy(k) /\ IncBy(k)' = IncBy(k)
      BY <2>5, <1>1, <1>3, CountCalls DEF IncBy, DecBy
    <3>2. refcnt'[k] = refcnt[k]
      BY <2>5, <1>4
    <3> QED BY <2>1, <3>1, <3>2
  <2> QED BY <2>3, <2>4, <2>5
<1> QED BY <1>2, <1>5 DEF CountOK

\* A call that counts keeps the invariant.
LEMMA CountCounts ==
  ASSUME CInv, IInv', NEW g \in Goroutines, StepInc(g) \/ StepDec(g),
         UNCHANGED <<kernelVars, wire, podKnown, received>>
  PROVE  CInv'
<1>0. PICK h : h = Head(prog[g])
  OBVIOUS
<1>1. /\ prog[g] # << >> /\ Return(g) /\ h.op \in {"inc", "dec"}
      /\ counted' = counted \cup {h}
      /\ UNCHANGED <<object, ecVars, notified, born, cache>>
      /\ refcnt' = [refcnt EXCEPT ![h.key] = IF h.op = "inc" THEN @ + 1 ELSE @ - 1]
  <2>1. CASE StepInc(g)
    BY <2>1, <1>0 DEF StepInc, At, Idle, RefInc
  <2>2. CASE StepDec(g)
    BY <2>2, <1>0 DEF StepDec, At, Idle, RefDec
  <2> QED BY <2>1, <2>2
<1>2. IInv /\ TypeOK /\ PlaceOK /\ CountOK /\ BornOK /\ waiting' = waiting /\ walk' = walk
      /\ unsettled' = unsettled
  BY <1>1 DEF CInv, IInv, ecVars
<1>3. PlaceOK' /\ h \in PendCalls /\ PendCalls' = PendCalls \ {h}
  BY <1>0, <1>1, <1>2, MakesLast
<1>4. Tasks' = Tasks /\ Objs' = Objs /\ Issued' = Issued
  <2>0. PendCalls' = (PendCalls \ {h}) \cup {} /\ {} \in SUBSET Calls
    BY <1>3
  <2>1. /\ Tasks' = (Tasks \ {h}) \cup {x \in {} : x.op \in {"add", "cleanup", "go"}}
        /\ Objs' = Objs \cup {x.obj : x \in {y \in {} : y.op = "enqueue"}}
        /\ Issued' = Issued
    BY <2>0, <1>1, <1>2, <1>3, SetsAfter
  <2>2. h \notin Tasks
    BY <1>1 DEF Tasks
  <2> QED BY <2>1, <2>2
<1>5. CountOK'
  BY <1>1, <1>2, <1>3, CountsOn
<1>6. StartOK'
  BY <1>1, <1>2, <1>3, <1>4, StartKeeps, ReturnFacts DEF CInv
<1>7. /\ MsgOK' /\ SentOK' /\ SourceOK' /\ BornOK' /\ FlagOK' /\ CleanupOK' /\ RaisedOK'
      /\ GivenUpOK' /\ CachedOK' /\ HandledOK' /\ NothingUnsettled'
  BY <1>1, <1>2, <1>4, LeavesAll DEF CInv
<1>8. WalkOK'
  <2>1. \A q : Gone(q) => Gone(q)'
    BY <1>1, <1>4 DEF Gone, Dead, Adds, kernelVars, Creates, Open
  <2>2. \A q \in Keys : Fixed(q) => Fixed(q)'
    BY <2>1, <1>0, <1>1, <1>2, ReturnFacts DEF Fixed, kernelVars
  <2> QED BY <2>2, <1>2, KeepsWalk DEF CInv, All
<1> QED BY <1>3, <1>5, <1>6, <1>7, <1>8 DEF CInv

\* A notification keeps the invariant.
LEMMA NotifyCounts ==
  ASSUME CInv, IInv', NEW g \in Goroutines, StepNotify(g),
         UNCHANGED <<kernelVars, wire, podKnown, received>>
  PROVE  CInv'
<1>0. PICK h : h = Head(prog[g])
  OBVIOUS
<1>1. /\ prog[g] # << >> /\ Return(g) /\ h.op = "notify"
      /\ UNCHANGED <<object, ecVars, absVars, counted>>
  BY <1>0 DEF StepNotify, At, Idle
<1>2. IInv /\ TypeOK /\ PlaceOK /\ CountOK /\ waiting' = waiting /\ walk' = walk
      /\ UNCHANGED <<unsettled, born, cache, refcnt, counted>>
  BY <1>1 DEF CInv, IInv, ecVars, absVars
<1>3. PlaceOK' /\ h \in PendCalls /\ PendCalls' = PendCalls \ {h}
  BY <1>0, <1>1, <1>2, MakesLast
<1>4. Tasks' = Tasks /\ Objs' = Objs /\ Issued' = Issued
  <2>0. PendCalls' = (PendCalls \ {h}) \cup {} /\ {} \in SUBSET Calls
    BY <1>3
  <2>1. /\ Tasks' = (Tasks \ {h}) \cup {x \in {} : x.op \in {"add", "cleanup", "go"}}
        /\ Objs' = Objs \cup {x.obj : x \in {y \in {} : y.op = "enqueue"}}
        /\ Issued' = Issued \cup {x \in {} : x.op \in {"inc", "dec"}}
    BY <2>0, <1>1, <1>2, <1>3, SetsAfter
  <2>2. h \notin Tasks
    BY <1>1 DEF Tasks
  <2> QED BY <2>1, <2>2
<1>5. CountOK'
  BY <1>2, <1>3 DEF CountOK, IncBy, DecBy
<1>6. StartOK'
  BY <1>1, <1>2, <1>3, <1>4, StartKeeps, ReturnFacts DEF CInv
<1>7. /\ MsgOK' /\ SentOK' /\ SourceOK' /\ BornOK' /\ FlagOK' /\ CleanupOK' /\ RaisedOK'
      /\ GivenUpOK' /\ CachedOK' /\ HandledOK' /\ NothingUnsettled'
  BY <1>1, <1>2, <1>4, LeavesAll DEF CInv
<1>8. WalkOK'
  <2>1. \A q : Gone(q) => Gone(q)'
    BY <1>2, <1>4 DEF Gone, Dead, Adds, kernelVars, Creates, Open
  <2>2. \A q \in Keys : Fixed(q) => Fixed(q)'
    BY <2>1, <1>0, <1>1, <1>2, ReturnFacts DEF Fixed, kernelVars
  <2> QED BY <2>2, <1>2, KeepsWalk DEF CInv, All
<1> QED BY <1>3, <1>5, <1>6, <1>7, <1>8 DEF CInv

\* Handing an object to the event cache keeps the invariant.
LEMMA EnqueueCounts ==
  ASSUME CInv, IInv', NEW g \in Goroutines, StepEnqueue(g),
         UNCHANGED <<kernelVars, wire, podKnown, received>>
  PROVE  CInv'
<1>0. PICK h : h = Head(prog[g])
  OBVIOUS
<1>1. /\ prog[g] # << >> /\ Return(g) /\ h.op = "enqueue" /\ walk' = walk
      /\ UNCHANGED <<object, unsettled, absVars, counted>>
  BY <1>0 DEF StepEnqueue, At, Idle
<1>2. IInv /\ TypeOK /\ PlaceOK /\ CountOK /\ UNCHANGED <<born, cache, refcnt, counted>>
  BY <1>1 DEF CInv, IInv, absVars
<1>3. /\ PlaceOK' /\ h \in Sends /\ PendCalls' = PendCalls \ {h}
      /\ Objs' = Objs /\ Issued' = Issued /\ Tasks' = Tasks
      /\ Elems(waiting') = Elems(waiting) \cup {h.obj}
  BY <1>0, <1>2, EnqueueEffect
<1>5. CountOK'
  BY <1>2, <1>3 DEF CountOK, IncBy, DecBy
<1>6. StartOK'
  BY <1>1, <1>2, <1>3, StartKeeps, ReturnFacts DEF CInv
<1>7. /\ MsgOK' /\ SentOK' /\ SourceOK' /\ BornOK' /\ FlagOK' /\ CleanupOK' /\ RaisedOK'
      /\ GivenUpOK' /\ CachedOK' /\ HandledOK' /\ NothingUnsettled'
  BY <1>1, <1>2, <1>3, LeavesAll DEF CInv
<1>8. WalkOK'
  <2>1. \A q : Gone(q) => Gone(q)'
    BY <1>2, <1>3 DEF Gone, Dead, Adds, kernelVars, Creates, Open
  <2>2. \A q \in Keys : Fixed(q) => Fixed(q)'
    BY <2>1, <1>0, <1>1, <1>2, ReturnFacts DEF Fixed, kernelVars
  <2>3. h.obj \in CacheObjs /\ h.obj.color = 0
    BY <1>2, <1>3, PendingOnce DEF CInv, StartOK, Objs
  <2> QED BY <2>2, <2>3, <1>1, <1>2, <1>3, KeepsWalk DEF CInv, All
<1> QED BY <1>3, <1>5, <1>6, <1>7, <1>8 DEF CInv

\* The pod is learnt of, a walk ends, or nothing happens.
LEMMA IdleCounts ==
  ASSUME CInv, IInv', podKnown => podKnown',
         UNCHANGED <<kernelVars, wire, received, born, cache, refcnt, object, unsettled, counted,
                     prog, waiting, walk>>
  PROVE  CInv'
<1>1. PendCalls' = PendCalls
  BY DEF PendCalls
<1>2. Sends' = Sends /\ Tasks' = Tasks /\ Issued' = Issued
  BY <1>1 DEF Sends, Tasks, Issued
<1>3. Objs' = Objs
  BY <1>2 DEF Objs
<1>4. PlaceOK' /\ CountOK'
  BY <1>1 DEF CInv, PlaceOK, CountOK, IncBy, DecBy
<1>5. StartOK'
  BY <1>1, <1>3, StartKeeps DEF CInv, IInv
<1>6. /\ MsgOK' /\ SentOK' /\ SourceOK' /\ BornOK' /\ FlagOK' /\ CleanupOK' /\ RaisedOK'
      /\ GivenUpOK' /\ CachedOK' /\ HandledOK' /\ NothingUnsettled'
  BY <1>2, <1>3, LeavesAll DEF CInv
<1>7. WalkOK'
  <2>1. \A q : Gone(q) => Gone(q)'
    BY <1>2, <1>3 DEF Gone, Dead, Adds, kernelVars, Creates, Open
  <2>2. \A q \in Keys : Fixed(q) => Fixed(q)'
    BY <2>1 DEF Fixed, kernelVars, LoopAdds
  <2> QED BY <2>2, KeepsWalk DEF CInv, IInv, All
<1> QED BY <1>4, <1>5, <1>6, <1>7 DEF CInv

-----------------------------------------------------------------------------
(***************************************************************************)
(* The observer.                                                           *)
(***************************************************************************)

\* What is in one of the places.
LEMMA InPending ==
  ASSUME TypeOK, PlaceOK
  PROVE  /\ \A x : <<"count", x>> \in Pending => x \in PendCalls /\ x \in Issued
         /\ \A c : <<"add", c>> \in Pending => Adds(c)
         /\ \A n : MsgToken(n) \in Pending =>
              \/ \E o \in Objs : o.msg = n
              \/ \E x \in PendCalls : x.op = "notify" /\ x.msg = n
              \/ \E c \in Procs : n = CleanupMsg(c) /\ CleansUp(c)
<1>1. PendCalls \subseteq Calls
  BY PendingOnce
<1>2. \A t \in Pending : \/ \E x \in PendCalls : Token(x) = t
                         \/ \E o \in Objs : MsgToken(o.msg) = t
  BY DEF Pending, ObjTokens, Objs
<1>3. /\ \A x, n : <<"count", x>> # MsgToken(n)
      /\ \A c, n : <<"add", c>> # MsgToken(n)
  BY DEF MsgToken
<1>4. \A x : <<"count", x>> \in Pending => x \in PendCalls /\ x \in Issued
  BY <1>1, <1>2, <1>3, Tokens DEF Issued
<1>5. \A c : <<"add", c>> \in Pending => Adds(c)
  BY <1>1, <1>2, <1>3, Tokens DEF Adds, Tasks
<1>6. ASSUME NEW n, MsgToken(n) \in Pending
      PROVE  \/ \E o \in Objs : o.msg = n
             \/ \E x \in PendCalls : x.op = "notify" /\ x.msg = n
             \/ \E c \in Procs : n = CleanupMsg(c) /\ CleansUp(c)
  <2>1. CASE \E o \in Objs : MsgToken(o.msg) = MsgToken(n)
    BY <2>1, MsgTokens
  <2>2. CASE \E x \in PendCalls : Token(x) = MsgToken(n)
    <3>1. PICK x \in PendCalls : Token(x) = MsgToken(n)
      BY <2>2
    <3>2. x \in Calls
      BY <1>1
    <3>3. CASE x.op = "enqueue" /\ x.obj.msg = n
      BY <3>3 DEF Objs, Sends
    <3>4. CASE x.op = "notify" /\ x.msg = n
      BY <3>4
    <3>5. CASE x.op = "cleanup" /\ CleanupMsg(x.key) = n
      BY <3>2, <3>5, CallFields DEF CleansUp, Tasks
    <3>6. CASE x.op = "go" /\ CleanupMsg(x.old) = n
      BY <3>2, <3>6, CallFields DEF CleansUp, Tasks
    <3> QED BY <3>1, <3>2, <3>3, <3>4, <3>5, <3>6, Tokens
  <2> QED BY <2>1, <2>2, <1>2, <1>6
<1> QED BY <1>4, <1>5, <1>6

\* The counting calls of a process stem from its messages.
LEMMA FreshCalls ==
  ASSUME CInv, NEW c \in Procs
  PROVE  /\ (\A p : ~Stems(c, p)) =>
              NoInc(c) /\ ~Adds(c) /\ (c = Root \/ c \notin born)
         /\ ~Dropped(c) => NoDec(c) /\ ~CleansUp(c)
         /\ c \notin born => /\ \A d \in Procs : DoInc(c, d) \notin Issued
                             /\ \A d \in Procs : DoDec(c, d) \notin Issued
                             /\ NoDec(c)
<1>1. /\ Issued \subseteq Calls /\ Tasks \subseteq Calls
      /\ IInv /\ MsgOK /\ BornOK /\ SourceOK
  BY PendingOnce DEF CInv, IInv
<1>2. \A x \in Tasks : x.op = "add" => x.key \in Procs /\ x.fields.parent \in Procs
  BY <1>1, CallFields, KeyFacts DEF Fields
<1>3. (\A p : ~Stems(c, p)) => NoInc(c) /\ ~Adds(c) /\ (c = Root \/ c \notin born)
  BY <1>1, <1>2 DEF BornOK, NoInc, Adds
<1>4. ~Dropped(c) => NoDec(c) /\ ~CleansUp(c)
  BY <1>1, Origins DEF BornOK, NoDec, SourceOK
<1>5. c \notin born => /\ \A d \in Procs : DoInc(c, d) \notin Issued
                       /\ \A d \in Procs : DoDec(c, d) \notin Issued
                       /\ NoDec(c)
  BY <1>1 DEF BornOK, NoDec
<1> QED BY <1>3, <1>4, <1>5

\* What a message on the wire tells of, nothing pending is about.
LEMMA FreshMsg ==
  ASSUME CInv, NEW m \in wire
  PROVE  /\ \A c \in Procs : Creates(m, c) =>
              /\ NoInc(c) /\ ~Adds(c) /\ c \notin born /\ c # Root
              /\ \A o \in Objs : o.msg.type \in {"clone", "exec"} => o.msg.key # c
              /\ <<"add", c>> \notin Pending
              /\ \A p \in Procs : <<"count", DoInc(p, c)>> \notin Pending
         /\ \A c \in Procs : Drops(m, c) =>
              /\ NoDec(c) /\ ~CleansUp(c) /\ c # Root
              /\ \A o \in Objs : ~Drops(o.msg, c)
              /\ MsgToken(CleanupMsg(c)) \notin Pending
              /\ \A p \in Procs : <<"count", DoDec(p, c)>> \notin Pending
         /\ \A o \in Objs : o.msg # m
         /\ MsgToken(m) \notin Pending
<1>1. /\ IInv /\ TypeOK /\ PlaceOK /\ MsgOK /\ SourceOK /\ StartOK /\ m \in All /\ m \notin received
      /\ Objs \subseteq CacheObjs /\ received \subseteq WireMsg /\ received \subseteq All
  BY PendingOnce DEF CInv, IInv, All, WireOK, TypeOK
<1>2. \A o \in Objs : o.msg # m
  <2> SUFFICES ASSUME NEW o \in Objs, o.msg = m
               PROVE  FALSE
    OBVIOUS
  <2>1. m.type # "cleanup"
    BY <1>1, AllMsgs
  <2> QED BY <2>1, <1>1 DEF SourceOK
<1>3. MsgToken(m) \notin Pending
  <2>1. \A c : m # CleanupMsg(c)
    BY <1>1, AllMsgs, CleanupMsgs
  <2>2. \A x \in PendCalls : x.op = "notify" => x.msg # m
    BY <1>1 DEF StartOK
  <2> QED BY <2>1, <2>2, <1>1, <1>2, InPending
<1>4. ASSUME NEW c \in Procs, Creates(m, c)
      PROVE  /\ NoInc(c) /\ ~Adds(c) /\ c \notin born /\ c # Root
             /\ \A o \in Objs : o.msg.type \in {"clone", "exec"} => o.msg.key # c
             /\ <<"add", c>> \notin Pending
             /\ \A p \in Procs : <<"count", DoInc(p, c)>> \notin Pending
  <2>1. \A p : ~Stems(c, p)
    BY <1>1, <1>4, FirstToTell
  <2>2. c # Root
    BY <1>1, <1>4, AllMsgs, KeyFacts DEF Creates, Keys, Root
  <2>3. NoInc(c) /\ ~Adds(c) /\ c \notin born
    BY <2>1, <2>2, FreshCalls
  <2>4. ASSUME NEW o \in Objs, o.msg.type \in {"clone", "exec"}, o.msg.key = c
        PROVE  FALSE
    <3>1. o.msg \in received
      BY <2>4, <1>1 DEF SourceOK
    <3> QED BY <3>1, <2>1, <2>4 DEF Stems, Creates
  <2> QED BY <2>2, <2>3, <2>4, <1>1, InPending DEF NoInc
<1>5. ASSUME NEW c \in Procs, Drops(m, c)
      PROVE  /\ NoDec(c) /\ ~CleansUp(c) /\ c # Root
             /\ \A o \in Objs : ~Drops(o.msg, c)
             /\ MsgToken(CleanupMsg(c)) \notin Pending
             /\ \A p \in Procs : <<"count", DoDec(p, c)>> \notin Pending
  <2>1. ~Dropped(c)
    BY <1>1, <1>5, FirstToTell
  <2>2. NoDec(c) /\ ~CleansUp(c)
    BY <2>1, FreshCalls
  <2>3. c # Root
    BY <1>1, <1>5, KeyFacts DEF MsgOK, Keys, Root
  <2>4. ASSUME NEW o \in Objs, Drops(o.msg, c)
        PROVE  FALSE
    <3>1. CASE o.msg.type = "cleanup"
      <4>1. o.msg = CleanupMsg(c)
        BY <2>4, <3>1, <1>1, ObjFields, CleanupMsgs DEF Drops
      <4> QED BY <4>1, <2>2 DEF CleansUp
    <3>2. CASE o.msg.type # "cleanup"
      BY <3>2, <2>1, <2>4, <1>1 DEF SourceOK, Dropped
    <3> QED BY <3>1, <3>2
  <2>5. MsgToken(CleanupMsg(c)) \notin Pending
    <3> SUFFICES ASSUME MsgToken(CleanupMsg(c)) \in Pending
                 PROVE  FALSE
      OBVIOUS
    <3>1. CleanupMsg(c).type = "cleanup" /\ CleanupMsg(c).key = c
      BY CleanupMsgs
    <3>2. CASE \E o \in Objs : o.msg = CleanupMsg(c)
      BY <3>2, <2>2 DEF CleansUp
    <3>3. CASE \E x \in PendCalls : x.op = "notify" /\ x.msg = CleanupMsg(c)
      <4>1. CleanupMsg(c) \in received
        BY <3>3, <1>1 DEF StartOK
      <4> QED BY <4>1, <3>1, <1>1, AllMsgs
    <3>4. CASE \E d \in Procs : CleanupMsg(c) = CleanupMsg(d) /\ CleansUp(d)
      BY <3>4, <2>2, CleanupMsgs
    <3> QED BY <3>2, <3>3, <3>4, <1>1, InPending
  <2> QED BY <2>2, <2>3, <2>4, <2>5, <1>1, InPending DEF NoDec
<1> QED BY <1>2, <1>3, <1>4, <1>5

\* The counts while none is counted: the same, or one of a new process.
LEMMA CountsSame ==
  ASSUME CountOK, counted' = counted, born' = born, refcnt' = refcnt,
         NEW S, PendCalls' \subseteq PendCalls \cup S,
         \A x \in S : x.op \in {"inc", "dec"} => x \notin Issued
  PROVE  CountOK'
<1>1. PendCalls' \cap counted' = {}
  BY DEF CountOK, Issued
<1> QED BY <1>1 DEF CountOK, IncBy, DecBy

\* The count of a process that is created.
LEMMA CountsNew ==
  ASSUME CInv, counted' = counted, NEW c \in Procs, c \notin born,
         born' = born \cup {c}, refcnt' = [refcnt EXCEPT ![c] = 1],
         NEW S, PendCalls' \subseteq PendCalls \cup S,
         \A x \in S : x.op \in {"inc", "dec"} => x \notin Issued
  PROVE  CountOK'
<1>1. CountOK /\ TypeOK
  BY DEF CInv, IInv
<1>2. PendCalls' \cap counted' = {}
  BY <1>1 DEF CountOK, Issued
<1>3. \A k : IncBy(k)' = IncBy(k) /\ DecBy(k)' = DecBy(k)
  BY DEF IncBy, DecBy
<1>4. IncBy(c) = {} /\ DecBy(c) = {}
  BY FreshCalls DEF IncBy, DecBy, Issued
<1>5. Cardinality({}) = 0
  BY FS_EmptySet
<1>6. \A k \in born' : refcnt'[k] = 1 + Cardinality(IncBy(k)) - Cardinality(DecBy(k))
  <2>1. refcnt'[c] = 1 /\ \A k \in born : refcnt'[k] = refcnt[k]
    BY <1>1 DEF TypeOK
  <2>2. 1 = 1 + Cardinality(IncBy(c)) - Cardinality(DecBy(c))
    BY <1>4, <1>5
  <2> QED BY <2>1, <2>2, <1>1 DEF CountOK
<1> QED BY <1>1, <1>2, <1>3, <1>6 DEF CountOK

\* What is gone stays so: the message received tells of none of that.
LEMMA ReceiveGone ==
  ASSUME NEW m \in wire, wire' = wire \ {m}, nextKey' = nextKey,
         \A c \in cache' : c \in cache \/ Creates(m, c),
         \A x \in Tasks' : x.op = "add" => x \in Tasks \/ Creates(m, x.key),
         \A o \in Objs' : Open(o) => o \in Objs \/ Creates(m, o.msg.key),
         NEW q, Gone(q)
  PROVE  Gone(q)'
<1>1. PICK G \in SUBSET Procs : q \in G /\ Dead(G)
  BY DEF Gone
<1>2. \A r \in G : ~Creates(m, r)
  BY <1>1 DEF Dead
<1>3. \A r \in G : ~Adds(r)'
  BY <1>1, <1>2 DEF Dead, Adds
<1>4. Dead(G)'
  <2> SUFFICES ASSUME NEW r \in G
               PROVE  /\ r < nextKey' /\ r \notin cache' /\ ~Adds(r)'
                      /\ \A n \in wire' : ~Creates(n, r)
                      /\ \A o \in Objs' : Open(o) /\ o.msg.key = r => o.msg.parent \in G
    BY DEF Dead, Creates, Open
  <2> QED BY <1>1, <1>2, <1>3 DEF Dead
<1> QED BY <1>1, <1>4 DEF Gone

\* The messages are the same when one of them is received.
LEMMA ReceiveMsgs ==
  ASSUME MsgOK, SentOK, NEW m \in wire, wire' = wire \ {m}, received' = received \cup {m},
         UNCHANGED kernelVars
  PROVE  MsgOK' /\ SentOK' /\ All' = All /\ LiveKeys' = LiveKeys /\ Live' = Live
<1>1. All' = All /\ Alive' = Alive /\ nextKey' = nextKey /\ task' = task /\ lost' = lost
  BY DEF All, Alive, kernelVars
<1> QED BY <1>1 DEF MsgOK, SentOK, Creates, Drops, Origin, ExecParent, LiveKeys, Live

\* A clone is received whose parent is known: the parent is referenced and the
\* process added.
LEMMA CloneTaken ==
  ASSUME CInv, NEW m \in wire, m.type = "clone", NEW p, p = m.parent, NEW c, c = m.key,
         p \in cache, wire' = wire \ {m}, received' = received \cup {m},
         UNCHANGED <<kernelVars, born, cache, object, unsettled>>,
         NEW f \in Fields, f.parent = p,
         Issued' = Issued \cup {DoInc(p, c)}, Tasks' = Tasks \cup {DoAdd(c, f)},
         Objs \subseteq Objs', \A o \in Objs' : o \in Objs \/ o = CacheObj(m, TRUE)
  PROVE  /\ MsgOK' /\ SentOK' /\ SourceOK' /\ BornOK' /\ FlagOK' /\ CleanupOK' /\ RaisedOK'
         /\ GivenUpOK' /\ CachedOK' /\ HandledOK' /\ NothingUnsettled'
         /\ \A q : Gone(q) => Gone(q)'
<1> DEFINE o1 == CacheObj(m, TRUE)
<1>1. /\ IInv /\ MsgOK /\ SentOK /\ SourceOK /\ BornOK /\ m \in WireMsg /\ m \in Msgs
      /\ c \in Keys /\ c \in Procs /\ p \in Procs /\ p \in born
  BY MsgFields, WireIsMsg, KeyFacts DEF CInv, IInv, TypeOK
<1>2. /\ Creates(m, c) /\ Origin(m) = p /\ \A d : Creates(m, d) <=> d = c
      /\ \A d : ~Drops(m, d)
  BY DEF Creates, Drops, Origin
<1>3. /\ NoInc(c) /\ ~Adds(c) /\ c \notin born /\ c # Root
      /\ \A o \in Objs : o.msg.type \in {"clone", "exec"} => o.msg.key # c
  BY <1>1, <1>2, FreshMsg
<1>4. /\ o1.msg = m /\ ~Open(o1) /\ ~ToDrop(o1) /\ m.type # "cleanup" /\ m.type # "exec"
  BY DEF CacheObj, Open, ToDrop
<1>5. /\ MsgOK' /\ SentOK' /\ Live' = Live
  BY <1>1, ReceiveMsgs
<1>6. /\ \A d, r : Stems(d, r)' <=> Stems(d, r) \/ (d = c /\ r = p)
      /\ \A d : Dropped(d)' <=> Dropped(d)
      /\ \A k, d : Replaced(k, d)' <=> Replaced(k, d)
  BY <1>2, ThenTold
<1>7. /\ DoAdd(c, f).op = "add" /\ DoAdd(c, f).key = c /\ DoAdd(c, f).fields = f
      /\ \A d, r \in Procs : DoInc(d, r) \in Issued' <=> DoInc(d, r) \in Issued \/ (d = p /\ r = c)
      /\ \A d, r : DoDec(d, r) \in Issued' <=> DoDec(d, r) \in Issued
  BY CallParts, CountCalls
<1>8. /\ \A d : Adds(d)' <=> Adds(d) \/ d = c
      /\ \A d : CleansUp(d)' <=> CleansUp(d)
      /\ \A d \in Procs : NoInc(d)' <=> NoInc(d) /\ d # c
      /\ \A d : NoDec(d)' <=> NoDec(d)
      /\ \A d : Parent(d)' = Parent(d)
  <2>1. \A d : Adds(d)' <=> Adds(d) \/ d = c
    BY <1>7 DEF Adds
  <2>2. \A d : CleanupMsg(d) # m
    BY <1>4, CleanupMsgs
  <2>3. \A d : CleansUp(d)' <=> CleansUp(d)
    BY <2>2, <1>4, <1>7 DEF CleansUp
  <2>4. \A d \in Procs : NoInc(d)' <=> NoInc(d) /\ d # c
    BY <1>1, <1>7 DEF NoInc
  <2> QED BY <2>1, <2>3, <2>4, <1>7 DEF NoDec, Parent
<1> HIDE DEF o1
<1>9. \A o \in Objs' : o \in Objs \/ o = o1
  BY DEF o1
<1>10. SourceOK'
  BY <1>1, <1>4, <1>6, <1>7, <1>8, <1>9 DEF SourceOK
<1>11. BornOK'
  BY <1>1, <1>3, <1>6, <1>7, <1>8 DEF BornOK
<1>12. FlagOK'
  <2> SUFFICES ASSUME NEW o \in Objs', NEW d, d = o.msg.key
               PROVE  /\ Open(o) => d \notin born /\ NoInc(d)' /\ ~Adds(d)' /\ o.msg.parent # Root
                      /\ o.msg.type = "exec" =>
                           /\ d \in born /\ ~o.parentDone /\ NoInc(d)'
                           /\ NoDec(o.msg.cleanup)' /\ ~CleansUp(o.msg.cleanup)'
                      /\ ToDrop(o) =>
                           /\ o.parentDone => o.procDone /\ DoDec(Parent(d), d) \in Issued'
                           /\ o.procDone => DoDec(d, d) \in Issued'
                           /\ ~o.parentDone => \A r \in Procs : DoDec(r, d) \in Issued' => r = d
                           /\ ~o.procDone => DoDec(d, d) \notin Issued'
                           /\ o.internal => o.parentDone
    BY <1>8 DEF FlagOK, Open, ToDrop
  <2>1. CASE o = o1
    BY <2>1, <1>4
  <2>2. CASE o \in Objs
    <3>1. d \in Procs
      BY <2>2, <1>1, PendingOnce, ObjFields, MsgFields DEF CInv, IInv
    <3> QED BY <2>2, <3>1, <1>3, <1>7, <1>8 DEF CInv, FlagOK, Open
  <2> QED BY <2>1, <2>2, <1>9
<1>13. CleanupOK'
  BY <1>7, <1>8 DEF CInv, CleanupOK
<1>14. RaisedOK'
  BY <1>8 DEF CInv, RaisedOK
<1>15. \A q : Gone(q) => Gone(q)'
  <2>1. \A o \in Objs' : Open(o) => o \in Objs
    BY <1>4, <1>9
  <2>2. \A x \in Tasks' : x.op = "add" => x \in Tasks \/ Creates(m, x.key)
    BY <1>2, <1>7
  <2> QED BY <2>1, <2>2, ReceiveGone DEF kernelVars
<1>16. GivenUpOK'
  BY <1>7, <1>15 DEF CInv, GivenUpOK, Origin, ExecParent
<1>17. CachedOK'
  <2>1. \A d : InTime(d)' <=> InTime(d)
    BY DEF InTime
  <2>2. LiveCached'
    BY <1>5 DEF CInv, CachedOK, LiveCached
  <2>3. \A o \in Objs' : \/ o \in Objs
                         \/ ~Open(o) /\ o.msg.type # "exec" /\ \A d : ~Drops(o.msg, d)
    BY <1>2, <1>4, <1>9
  <2> QED BY <2>1, <2>2, <2>3, <1>7, <1>8
          DEF CInv, CachedOK, Creates, Drops, Origin, ExecParent, Open
<1>18. HandledOK' /\ NothingUnsettled'
  BY <1>2, <1>7, <1>8 DEF CInv, HandledOK, NothingUnsettled, Creates, Drops, Open, kernelVars
<1> QED BY <1>5, <1>10, <1>11, <1>12, <1>13, <1>14, <1>15, <1>16, <1>17, <1>18

\* A clone is received whose parent is not known: it waits.
LEMMA CloneWaits ==
  ASSUME CInv, NEW m \in wire, m.type = "clone", m.parent \notin cache,
         wire' = wire \ {m}, received' = received \cup {m},
         UNCHANGED <<kernelVars, born, cache, object, unsettled>>,
         Issued' = Issued, Tasks' = Tasks, Objs' = Objs \cup {CacheObj(m, FALSE)}
  PROVE  /\ MsgOK' /\ SentOK' /\ SourceOK' /\ BornOK' /\ FlagOK' /\ CleanupOK' /\ RaisedOK'
         /\ GivenUpOK' /\ CachedOK' /\ HandledOK' /\ NothingUnsettled'
         /\ \A q : Gone(q) => Gone(q)'
<1> DEFINE o1 == CacheObj(m, FALSE)
           c == m.key
           p == m.parent
<1>1. /\ IInv /\ MsgOK /\ SentOK /\ SourceOK /\ BornOK /\ m \in WireMsg /\ m \in Msgs
      /\ c \in Keys /\ c \in Procs /\ p \in Procs
  BY MsgFields, WireIsMsg, KeyFacts DEF CInv, IInv, TypeOK
<1>2. /\ Creates(m, c) /\ Origin(m) = p /\ \A d : Creates(m, d) <=> d = c
      /\ \A d : ~Drops(m, d)
  BY DEF Creates, Drops, Origin
<1>3. NoInc(c) /\ ~Adds(c) /\ c \notin born
  BY <1>1, <1>2, FreshMsg
<1>4. /\ o1.msg = m /\ Open(o1) /\ ~ToDrop(o1) /\ m.type # "cleanup" /\ m.type # "exec"
  BY DEF CacheObj, Open, ToDrop
<1>5. /\ MsgOK' /\ SentOK' /\ Live' = Live
  BY <1>1, ReceiveMsgs
<1>6. p # Root
  BY <1>1 DEF CInv, CachedOK, LiveCached, Live, BornOK
<1>7. /\ \A d, r : Stems(d, r)' <=> Stems(d, r) \/ (d = c /\ r = p)
      /\ \A d : Dropped(d)' <=> Dropped(d)
      /\ \A k, d : Replaced(k, d)' <=> Replaced(k, d)
  BY <1>2, ThenTold
<1>8. /\ \A d : Adds(d)' <=> Adds(d)
      /\ \A d : CleansUp(d)' <=> CleansUp(d)
      /\ \A d : NoInc(d)' <=> NoInc(d)
      /\ \A d : NoDec(d)' <=> NoDec(d)
      /\ \A d : Parent(d)' = Parent(d)
  <2>1. \A d : CleanupMsg(d) # m
    BY <1>4, CleanupMsgs
  <2>2. \A d : CleansUp(d)' <=> CleansUp(d)
    BY <2>1, <1>4 DEF CleansUp
  <2> QED BY <2>2 DEF Adds, NoInc, NoDec, Parent
<1> HIDE DEF o1
<1>9. Objs' = Objs \cup {o1}
  BY DEF o1
<1>10. SourceOK'
  BY <1>1, <1>4, <1>7, <1>8, <1>9 DEF SourceOK
<1>11. BornOK'
  BY <1>1, <1>7, <1>8 DEF BornOK
<1>12. FlagOK'
  BY <1>3, <1>4, <1>6, <1>8, <1>9 DEF CInv, FlagOK, Open, ToDrop
<1>13. CleanupOK' /\ RaisedOK'
  BY <1>8, <1>9 DEF CInv, CleanupOK, RaisedOK
<1>14. \A q : Gone(q) => Gone(q)'
  <2>1. \A o \in Objs' : Open(o) => o \in Objs \/ Creates(m, o.msg.key)
    BY <1>2, <1>4, <1>9
  <2> QED BY <2>1, ReceiveGone DEF kernelVars
<1>15. GivenUpOK'
  BY <1>14 DEF CInv, GivenUpOK, Origin, ExecParent
<1>16. CachedOK'
  <2>1. \A d : InTime(d)' <=> InTime(d)
    BY DEF InTime
  <2>2. LiveCached'
    BY <1>5 DEF CInv, CachedOK, LiveCached
  <2>3. InTime(Origin(m))
    BY <1>1, <1>2 DEF CInv, CachedOK
  <2>4. \A o \in Objs' : /\ Open(o) \/ o.msg.type = "exec" => InTime(Origin(o.msg))
                         /\ \A d \in Procs : Drops(o.msg, d) => InTime(d)
    BY <2>3, <1>2, <1>4, <1>9 DEF CInv, CachedOK
  <2> QED BY <2>1, <2>2, <2>4, <1>8
          DEF CInv, CachedOK, Creates, Drops, Origin, ExecParent, Open
<1>17. HandledOK' /\ NothingUnsettled'
  BY <1>2, <1>4, <1>8, <1>9, ZenonT(40)
  DEF CInv, HandledOK, NothingUnsettled, Creates, Drops, Open, kernelVars
<1> QED BY <1>5, <1>10, <1>11, <1>12, <1>13, <1>14, <1>15, <1>16, <1>17

\* An exec is received: the process is added, and either its parent is
\* referenced and the old image cleaned up, or it waits.
ExecTaken(m) ==
  /\ Origin(m) \in cache
  /\ Issued' = Issued \cup {DoInc(Origin(m), m.key)}
  /\ Tasks' = Tasks \cup {DoCleanup(m.cleanup)}
  /\ Objs' = Objs

ExecWaits(m) ==
  /\ Issued' = Issued
  /\ Tasks' = Tasks
  /\ Objs' = Objs \cup {CacheObj(m, TRUE)}

\* Both outcomes of the handler of an exec keep the parts of the invariant.
LEMMA ExecReceived ==
  ASSUME CInv, NEW m \in wire, m.type = "exec", ExecTaken(m) \/ ExecWaits(m),
         wire' = wire \ {m}, received' = received \cup {m},
         born' = born \cup {m.key}, cache' = cache \cup {m.key},
         NEW f \in Fields, f.parent = Origin(m), object' = [object EXCEPT ![m.key] = f],
         UNCHANGED <<kernelVars, unsettled>>
  PROVE  /\ MsgOK' /\ SentOK' /\ SourceOK' /\ BornOK' /\ FlagOK' /\ CleanupOK' /\ RaisedOK'
         /\ GivenUpOK' /\ CachedOK' /\ HandledOK' /\ NothingUnsettled'
         /\ \A q : Gone(q) => Gone(q)'
<1>0. PICK o1, c, p, old : o1 = CacheObj(m, TRUE) /\ c = m.key /\ p = Origin(m) /\ old = m.cleanup
  OBVIOUS
<1>1. /\ IInv /\ TypeOK /\ MsgOK /\ SentOK /\ SourceOK /\ BornOK /\ m \in WireMsg /\ m \in Msgs
      /\ c \in Keys /\ c \in Procs /\ p \in Procs /\ old \in Keys /\ old \in Procs /\ p < c
  <2>1. m \in All /\ m \in WireMsg /\ m \in Msgs /\ c \in Keys /\ c \in Procs
    BY <1>0, MsgFields, WireIsMsg, KeyFacts DEF CInv, IInv, TypeOK, All
  <2>2. Creates(m, c)
    BY <1>0 DEF Creates
  <2>3. p \in Procs /\ p < c /\ old \in Keys
    BY <2>1, <2>2, <1>0 DEF CInv, MsgOK
  <2> QED BY <2>1, <2>3, KeyFacts DEF CInv, IInv
<1>2. /\ Creates(m, c) /\ \A d : Creates(m, d) <=> d = c
      /\ Drops(m, old) /\ \A d : Drops(m, d) <=> d = old
  BY <1>0 DEF Creates, Drops
<1>3. /\ NoInc(c) /\ ~Adds(c) /\ c \notin born /\ c # Root
      /\ \A o \in Objs : o.msg.type \in {"clone", "exec"} => o.msg.key # c
      /\ NoDec(old) /\ ~CleansUp(old)
      /\ \A o \in Objs : ~Drops(o.msg, old)
  BY <1>1, <1>2, FreshMsg
<1>4. /\ o1.msg = m /\ ~Open(o1) /\ ~ToDrop(o1) /\ m.type # "cleanup" /\ ~o1.parentDone
  BY <1>0 DEF CacheObj, Open, ToDrop
<1>5. /\ MsgOK' /\ SentOK' /\ Live' = Live
  BY <1>1, ReceiveMsgs
<1>6. /\ \A d, r : Stems(d, r)' <=> Stems(d, r) \/ (d = c /\ r = p)
      /\ \A d : Dropped(d)' <=> Dropped(d) \/ d = old
      /\ \A k, d : Replaced(k, d)' <=> Replaced(k, d) \/ (k = c /\ d = old)
  BY <1>0, <1>2, ThenTold
<1>7. /\ DoCleanup(old).op = "cleanup" /\ DoCleanup(old).key = old
      /\ \A d, r \in Procs : DoInc(d, r) \in Issued' <=>
           DoInc(d, r) \in Issued \/ (ExecTaken(m) /\ d = p /\ r = c)
      /\ \A d, r : DoDec(d, r) \in Issued' <=> DoDec(d, r) \in Issued
  <2>1. CASE ExecTaken(m)
    BY <2>1, <1>0, CallParts, CountCalls DEF ExecTaken
  <2>2. CASE ~ExecTaken(m)
    BY <2>2, CallParts DEF ExecWaits
  <2> QED BY <2>1, <2>2
<1>8. /\ ExecTaken(m) => p \in cache
      /\ \A x \in Tasks' : x \in Tasks \/ (ExecTaken(m) /\ x = DoCleanup(old))
      /\ \A o \in Objs' : o \in Objs \/ (~ExecTaken(m) /\ o = o1)
      /\ Tasks \subseteq Tasks' /\ Objs \subseteq Objs'
      /\ ExecTaken(m) => DoCleanup(old) \in Tasks'
      /\ ~ExecTaken(m) => o1 \in Objs'
  BY <1>0 DEF ExecTaken, ExecWaits
<1>9. /\ Parent(c)' = p
      /\ \A d \in Procs \ {c} : Parent(d)' = Parent(d)
      /\ \A d \in born : Parent(d)' = Parent(d)
      /\ \A d \in Procs : Parent(d) \in Procs
  <2>1. object \in [Procs -> Fields] /\ born \subseteq Procs
    BY <1>1 DEF TypeOK
  <2>2. Parent(c)' = p /\ \A d \in Procs \ {c} : Parent(d)' = Parent(d)
    BY <1>0, <1>1, <2>1 DEF Parent
  <2> QED BY <2>1, <2>2, <1>1, <1>3, ParentIn
<1>10. /\ \A d : Adds(d)' <=> Adds(d)
       /\ \A d : CleansUp(d)' <=> CleansUp(d) \/ (ExecTaken(m) /\ d = old)
       /\ \A d \in Procs : NoInc(d)' <=> NoInc(d) /\ (~ExecTaken(m) \/ d # c)
       /\ \A d : NoDec(d)' <=> NoDec(d)
  <2>1. \A d : Adds(d)' <=> Adds(d)
    BY <1>7, <1>8 DEF Adds
  <2>2. \A d : CleanupMsg(d) # m
    BY <1>4, CleanupMsgs
  <2>3. \A d : CleansUp(d)' <=> CleansUp(d) \/ (ExecTaken(m) /\ d = old)
    BY <2>2, <1>4, <1>7, <1>8 DEF CleansUp
  <2>4. \A d \in Procs : NoInc(d)' <=> NoInc(d) /\ (~ExecTaken(m) \/ d # c)
    BY <1>1, <1>7 DEF NoInc
  <2> QED BY <2>1, <2>3, <2>4, <1>7 DEF NoDec
<1>11. \A d, r \in Procs : DoDec(r, d) \in Issued => d \in born /\ d # c
  BY <1>1, <1>3 DEF BornOK
<1>12. SourceOK'
  <2>1. \A o \in Objs' : o.msg.type # "cleanup" => o.msg \in received'
    BY <1>1, <1>4, <1>8 DEF SourceOK
  <2>2. \A d \in Procs : CleansUp(d)' => \E k \in Keys : Replaced(k, d)'
    BY <1>1, <1>6, <1>10 DEF SourceOK
  <2>3. \A x \in Tasks' : x.op = "go" => Replaced(x.key, x.old)'
    BY <1>1, <1>6, <1>7, <1>8 DEF SourceOK
  <2> QED BY <2>1, <2>2, <2>3 DEF SourceOK
<1>13. BornOK'
  <2>1. ASSUME NEW d \in born' \ {Root}
        PROVE  Stems(d, Parent(d))'
    <3>1. PICK r : r = Parent(d)'
      OBVIOUS
    <3>2. Stems(d, r)'
      BY <3>1, <1>0, <1>1, <1>6, <1>9 DEF BornOK
    <3> QED BY <3>1, <3>2 DEF Stems
  <2>2. \A x \in Tasks' : x.op = "add" =>
          x.key \notin born' /\ DoInc(x.fields.parent, x.key) \in Issued'
    <3> SUFFICES ASSUME NEW x \in Tasks', x.op = "add"
                 PROVE  x.key \notin born' /\ DoInc(x.fields.parent, x.key) \in Issued'
      OBVIOUS
    <3>1. x \in Tasks
      BY <1>7, <1>8
    <3>2. x.key # c
      BY <3>1, <1>3 DEF Adds
    <3> QED BY <3>1, <3>2, <1>0, <1>1 DEF BornOK, ExecTaken, ExecWaits
  <2>3. \A r, d \in Procs : DoInc(r, d) \in Issued' => r \in born' /\ Stems(d, r)'
    BY <1>1, <1>6, <1>7, <1>8 DEF BornOK, TypeOK
  <2>4. \A r, d \in Procs : DoDec(r, d) \in Issued' =>
          d \in born' \ {Root} /\ r \in born' /\ r \in {d, Parent(d)'} /\ Dropped(d)'
    BY <1>1, <1>6, <1>7, <1>9 DEF BornOK
  <2> QED BY <2>1, <2>2, <2>3, <2>4, <1>1 DEF BornOK
<1>14. FlagOK'
  <2> SUFFICES ASSUME NEW o \in Objs', NEW d, d = o.msg.key
               PROVE  /\ Open(o) => d \notin born' /\ NoInc(d)' /\ ~Adds(d)' /\ o.msg.parent # Root
                      /\ o.msg.type = "exec" =>
                           /\ d \in born' /\ ~o.parentDone /\ NoInc(d)'
                           /\ NoDec(o.msg.cleanup)' /\ ~CleansUp(o.msg.cleanup)'
                      /\ ToDrop(o) =>
                           /\ o.parentDone => o.procDone /\ DoDec(Parent(d)', d) \in Issued'
                           /\ o.procDone => DoDec(d, d) \in Issued'
                           /\ ~o.parentDone => \A r \in Procs : DoDec(r, d) \in Issued' => r = d
                           /\ ~o.procDone => DoDec(d, d) \notin Issued'
                           /\ o.internal => o.parentDone
    BY DEF FlagOK, Open, ToDrop
  <2>1. CASE ~ExecTaken(m) /\ o = o1
    BY <2>1, <1>0, <1>1, <1>3, <1>4, <1>10
  <2>2. CASE o \in Objs
    <3>1. d \in Procs
      BY <2>2, <1>1, PendingOnce, ObjFields, MsgFields DEF CInv, IInv
    <3>2. /\ Open(o) => d \notin born /\ NoInc(d) /\ ~Adds(d) /\ o.msg.parent # Root
          /\ o.msg.type = "exec" =>
               /\ d \in born /\ ~o.parentDone /\ NoInc(d)
               /\ NoDec(o.msg.cleanup) /\ ~CleansUp(o.msg.cleanup)
          /\ ToDrop(o) =>
               /\ o.parentDone => o.procDone /\ DoDec(Parent(d), d) \in Issued
               /\ o.procDone => DoDec(d, d) \in Issued
               /\ ~o.parentDone => \A r \in Procs : DoDec(r, d) \in Issued => r = d
               /\ ~o.procDone => DoDec(d, d) \notin Issued
               /\ o.internal => o.parentDone
      BY <2>2 DEF CInv, FlagOK
    <3>3. Open(o) \/ o.msg.type = "exec" => d # c
      BY <2>2, <1>3 DEF Open
    <3>4. o.msg.type = "exec" => o.msg.cleanup # old
      BY <2>2, <1>3 DEF Drops
    <3>5. o.msg.type = "exec" => NoDec(o.msg.cleanup)' /\ ~CleansUp(o.msg.cleanup)'
      BY <3>2, <3>4, <1>10
    <3>6. DoDec(Parent(d), d) \in Issued => Parent(d)' = Parent(d)
      BY <3>1, <1>9, <1>11
    <3> QED BY <3>1, <3>2, <3>3, <3>5, <3>6, <1>0, <1>7, <1>10
  <2> QED BY <2>1, <2>2, <1>8
<1>15. CleanupOK'
  BY <1>3, <1>7, <1>8, <1>10 DEF CInv, CleanupOK
<1>16. RaisedOK'
  <2> SUFFICES ASSUME NEW d \in born' \ {Root}
               PROVE  \/ DoInc(Parent(d)', d) \in Issued'
                      \/ \E o \in Objs' : o.msg.type = "exec" /\ o.msg.key = d
                      \/ \E n \in unsettled : n.type = "exec" /\ n.key = d
    BY DEF RaisedOK
  <2>1. CASE d = c
    BY <2>1, <1>0, <1>1, <1>4, <1>7, <1>8, <1>9
  <2>2. CASE d \in born
    <3>1. d \in Procs /\ Parent(d)' = Parent(d) /\ Parent(d) \in Procs
      BY <2>2, <1>1, <1>9 DEF TypeOK
    <3> QED BY <2>2, <3>1, <1>7, <1>8 DEF CInv, RaisedOK
  <2> QED BY <2>1, <2>2, <1>0
<1>17. \A q : Gone(q) => Gone(q)'
  <2>1. \A o \in Objs' : Open(o) => o \in Objs
    BY <1>4, <1>8
  <2>2. \A x \in Tasks' : x.op = "add" => x \in Tasks
    BY <1>7, <1>8
  <2>3. \A d \in cache' : d \in cache \/ Creates(m, d)
    BY <1>0, <1>2
  <2> QED BY <2>1, <2>2, <2>3, ReceiveGone DEF kernelVars
<1>18. GivenUpOK'
  BY <1>7, <1>17 DEF CInv, GivenUpOK, Origin, ExecParent
<1>19. CachedOK'
  <2>1. \A d : InTime(d) => InTime(d)'
    BY DEF InTime
  <2>2. LiveCached'
    BY <1>5 DEF CInv, CachedOK, LiveCached
  <2>3. InTime(p) /\ InTime(old)
    BY <1>0, <1>1, <1>2 DEF CInv, CachedOK
  <2>4. \A o \in Objs' : /\ Open(o) \/ o.msg.type = "exec" => InTime(Origin(o.msg))
                         /\ \A d \in Procs : Drops(o.msg, d) => InTime(d)
    BY <2>3, <1>0, <1>2, <1>4, <1>8 DEF CInv, CachedOK
  <2>5. \A d \in Procs : CleansUp(d)' => InTime(d)
    BY <2>3, <1>10 DEF CInv, CachedOK
  <2>6. \A r, d \in Procs : DoInc(r, d) \in Issued' /\ DoDec(r, d) \notin Issued' => r \in cache'
    BY <1>7, <1>8 DEF CInv, CachedOK
  <2>7. \A n \in wire', d \in Procs : /\ Creates(n, d) => InTime(Origin(n))
                                      /\ Drops(n, d) => InTime(d)
    BY DEF CInv, CachedOK
  <2> QED BY <2>1, <2>2, <2>4, <2>5, <2>6, <2>7
          DEF CachedOK, Creates, Drops, Origin, ExecParent, Open
<1>20. HandledOK' /\ NothingUnsettled'
  <2>1. NothingUnsettled'
    BY DEF CInv, NothingUnsettled, kernelVars
  <2> SUFFICES ASSUME unsettled = {}, NEW n \in received', NEW d \in Procs
               PROVE  /\ Creates(n, d) => \/ d \in born' \/ Adds(d)'
                                          \/ \E o \in Objs' : Open(o) /\ o.msg = n
                      /\ Drops(n, d) => \/ DoDec(Parent(d)', d) \in Issued' /\ DoDec(d, d) \in Issued'
                                        \/ \E o \in Objs' : Drops(o.msg, d)
                                        \/ CleansUp(d)'
    BY <2>1 DEF HandledOK, Creates, Drops, Open
  <2>2. CASE n = m
    BY <2>2, <1>0, <1>2, <1>4, <1>8, <1>10
  <2>3. CASE n \in received
    <3>1. /\ Creates(n, d) => \/ d \in born \/ Adds(d)
                              \/ \E o \in Objs : Open(o) /\ o.msg = n
          /\ Drops(n, d) => \/ DoDec(Parent(d), d) \in Issued /\ DoDec(d, d) \in Issued
                            \/ \E o \in Objs : Drops(o.msg, d)
                            \/ CleansUp(d)
      BY <2>3 DEF CInv, HandledOK
    <3>2. DoDec(Parent(d), d) \in Issued => Parent(d)' = Parent(d)
      BY <1>9, <1>11
    <3> QED BY <3>1, <3>2, <1>7, <1>8, <1>10
  <2> QED BY <2>2, <2>3
<1> QED BY <1>5, <1>12, <1>13, <1>14, <1>15, <1>16, <1>17, <1>18, <1>19, <1>20

-----------------------------------------------------------------------------
(***************************************************************************)
(* The end of a process: by an exit, a cleanup, or a retry of one.         *)
(***************************************************************************)

\* Only one thing that is pending is about the end of a process.
LEMMA OneDrop ==
  ASSUME CInv, NEW k \in Procs
  PROVE  /\ \A o \in Objs : ToDrop(o) /\ o.msg.key = k =>
              /\ \A u \in Objs : Drops(u.msg, k) => u = o
              /\ \A x \in Tasks : ~(x.op = "cleanup" /\ x.key = k) /\ ~(x.op = "go" /\ x.old = k)
         /\ \A x \in Tasks : (x.op = "cleanup" /\ x.key = k) \/ (x.op = "go" /\ x.old = k) =>
              /\ \A u \in Objs : ~Drops(u.msg, k)
              /\ \A y \in Tasks : (y.op = "cleanup" /\ y.key = k) \/ (y.op = "go" /\ y.old = k) => y = x
<1>1. /\ TypeOK /\ PlaceOK /\ SourceOK /\ MsgOK /\ FlagOK /\ received \subseteq All
      /\ Objs \subseteq CacheObjs /\ Tasks \subseteq Calls /\ Tasks \subseteq PendCalls
  BY PendingOnce DEF CInv, IInv, All, Tasks
<1>2. \A u \in Objs : u.msg.type # "cleanup" => u.msg \in received
  BY <1>1 DEF SourceOK
<1>3. \A u \in Objs : Drops(u.msg, k) =>
        \/ u.msg \in received /\ u.msg.type = "exit"
        \/ u.msg \in received /\ u.msg.type = "exec" /\ ~CleansUp(k)
        \/ u.msg = CleanupMsg(k) /\ CleansUp(k)
  <2> SUFFICES ASSUME NEW u \in Objs, Drops(u.msg, k)
               PROVE  \/ u.msg \in received /\ u.msg.type = "exit"
                      \/ u.msg \in received /\ u.msg.type = "exec" /\ ~CleansUp(k)
                      \/ u.msg = CleanupMsg(k) /\ CleansUp(k)
    OBVIOUS
  <2>1. CASE u.msg.type = "cleanup"
    <3>1. u.msg = CleanupMsg(k)
      BY <2>1, <1>1, ObjFields, CleanupMsgs DEF Drops
    <3> QED BY <3>1 DEF CleansUp
  <2>2. CASE u.msg.type = "exit"
    BY <2>2, <1>2
  <2>3. CASE u.msg.type = "exec" /\ u.msg.cleanup = k
    BY <2>3, <1>1, <1>2 DEF FlagOK
  <2> QED BY <2>1, <2>2, <2>3 DEF Drops
<1>4. CleansUp(k) => \E n \in received : n.type = "exec" /\ Drops(n, k)
  BY <1>1 DEF SourceOK, Replaced, Drops
<1>5. \A u, v \in Objs : u.msg = v.msg => u = v
  BY <1>1, PendingOnce
<1>6. \A m, n \in received : Drops(m, k) /\ Drops(n, k) => m = n
  BY <1>1 DEF MsgOK
<1>7. \A x \in Tasks : (x.op = "cleanup" /\ x.key = k) \/ (x.op = "go" /\ x.old = k) =>
        CleansUp(k) /\ Token(x) = MsgToken(CleanupMsg(k))
  BY <1>1, Tokens DEF CleansUp
<1>8. \A x \in Tasks, u \in Objs : Token(x) # MsgToken(u.msg)
  BY <1>1, PendingOnce DEF Tasks
<1>9. ASSUME NEW x \in Tasks, (x.op = "cleanup" /\ x.key = k) \/ (x.op = "go" /\ x.old = k)
      PROVE  /\ \A u \in Objs : ~Drops(u.msg, k)
             /\ \A y \in Tasks : (y.op = "cleanup" /\ y.key = k) \/ (y.op = "go" /\ y.old = k) => y = x
  <2>1. CleansUp(k) /\ Token(x) = MsgToken(CleanupMsg(k))
    BY <1>7, <1>9
  <2>2. \A u \in Objs : ~Drops(u.msg, k)
    BY <2>1, <1>3, <1>4, <1>6, <1>8
  <2> QED BY <2>1, <2>2, <1>1, <1>7, PendingOnce
<1>10. ASSUME NEW o \in Objs, ToDrop(o), o.msg.key = k
       PROVE  /\ \A u \in Objs : Drops(u.msg, k) => u = o
              /\ \A x \in Tasks : ~(x.op = "cleanup" /\ x.key = k) /\ ~(x.op = "go" /\ x.old = k)
  <2>1. Drops(o.msg, k)
    BY <1>10 DEF Drops, ToDrop
  <2>2. \A u \in Objs : Drops(u.msg, k) => u.msg = o.msg
    BY <2>1, <1>3, <1>4, <1>6, <1>10 DEF ToDrop
  <2>3. \A u \in Objs : Drops(u.msg, k) => u = o
    BY <2>2, <1>5
  <2>4. ASSUME NEW x \in Tasks, (x.op = "cleanup" /\ x.key = k) \/ (x.op = "go" /\ x.old = k)
        PROVE  FALSE
    <3>1. \A u \in Objs : ~Drops(u.msg, k)
      BY <2>4, <1>9
    <3> QED BY <3>1, <2>1
  <2> QED BY <2>3, <2>4
<1> QED BY <1>9, <1>10

\* What the event cache knows of an object about the end of a process.
DropFlags(o) ==
  LET c == o.msg.key IN
  /\ o.parentDone => o.procDone /\ DoDec(Parent(c), c) \in Issued
  /\ o.procDone => DoDec(c, c) \in Issued
  /\ ~o.parentDone => \A p \in Procs : DoDec(p, c) \in Issued => p = c
  /\ ~o.procDone => DoDec(c, c) \notin Issued
  /\ o.internal => o.parentDone

\* k is dropped: what is found is counted, and the rest waits, or is given up.
DropStep(k, pd, sd) ==
  /\ UNCHANGED <<kernelVars, born, cache>>
  /\ \A d \in Procs : Parent(d)' = Parent(d)
  /\ received \subseteq received' /\ wire' \subseteq wire /\ All' = All
  /\ \A n \in received' \ received : n.type = "exit" /\ n.key = k
  /\ Dropped(k)' /\ InTime(k) /\ (pd => Known(k)) /\ (sd => k \in cache)
  /\ \A r, d \in Procs : DoDec(r, d) \in Issued' <=>
       DoDec(r, d) \in Issued \/ (d = k /\ ((pd /\ r = Parent(k)) \/ (sd /\ r = k)))
  /\ \A r, d \in Procs : DoInc(r, d) \in Issued' <=> DoInc(r, d) \in Issued
  /\ Tasks' \subseteq Tasks
  /\ \A x \in Tasks \ Tasks' : x.op = "cleanup" /\ x.key = k
  /\ \A x \in Tasks' : ~(x.op = "cleanup" /\ x.key = k) /\ ~(x.op = "go" /\ x.old = k)
  /\ \A o \in Objs : o \in Objs' \/ (ToDrop(o) /\ o.msg.key = k)
  /\ \A o \in Objs' : Drops(o.msg, k) =>
       /\ ToDrop(o) /\ o.msg.key = k
       /\ DropFlags(o)'
       /\ o.msg.type = "exit" => o.msg \in received'
       /\ o.msg.type = "cleanup" => o.msg = CleanupMsg(k) /\ \E j \in Keys : Replaced(j, k)
  /\ \A o \in Objs' : ~Drops(o.msg, k) => o \in Objs
  /\ unsettled \subseteq unsettled' /\ \A n \in unsettled' : n.type = "exec" => n \in unsettled
  /\ \/ DoDec(Parent(k), k) \in Issued' /\ DoDec(k, k) \in Issued'
     \/ \E o \in Objs' : Drops(o.msg, k)
     \/ unsettled' # {}

\* The end of a process, and of what it references, keeps the parts of the invariant.
LEMMA DropOK ==
  ASSUME CInv, NEW k \in Keys, NEW pd \in BOOLEAN, NEW sd \in BOOLEAN, DropStep(k, pd, sd)
  PROVE  /\ MsgOK' /\ SentOK' /\ SourceOK' /\ BornOK' /\ FlagOK' /\ CleanupOK' /\ RaisedOK'
         /\ GivenUpOK' /\ CachedOK' /\ HandledOK'
         /\ \A q : Gone(q) => Gone(q)'
<1>1. /\ IInv /\ TypeOK /\ MsgOK /\ SentOK /\ SourceOK /\ BornOK /\ k \in Procs /\ k # Root
      /\ Objs \subseteq CacheObjs /\ Tasks \subseteq Calls /\ \A d \in Procs : Parent(d) \in Procs
  BY PendingOnce, KeyFacts, ParentIn DEF CInv, IInv, Keys, Root
<1>2. /\ Alive' = Alive /\ nextKey' = nextKey /\ task' = task /\ lost' = lost /\ All' = All
      /\ born' = born /\ cache' = cache /\ Live' = Live
  BY DEF DropStep, kernelVars, Alive, Live
<1>3. MsgOK' /\ SentOK'
  BY <1>1, <1>2 DEF MsgOK, SentOK, Creates, Drops, Origin, ExecParent
<1>4. /\ \A d, r : Stems(d, r)' <=> Stems(d, r)
      /\ \A d : Dropped(d) => Dropped(d)'
      /\ \A j, d : Replaced(j, d)' <=> Replaced(j, d)
  <2>1. received \subseteq received' /\ \A n \in received' \ received : n.type = "exit"
    BY DEF DropStep
  <2>2. \A d, r : Stems(d, r)' <=> Stems(d, r)
    BY <2>1 DEF Stems, Creates, Origin, ExecParent
  <2>3. \A d : Dropped(d) => Dropped(d)'
    BY <2>1 DEF Dropped, Drops
  <2>4. \A j, d : Replaced(j, d)' <=> Replaced(j, d)
    BY <2>1 DEF Replaced
  <2> QED BY <2>2, <2>3, <2>4
<1>5. /\ Tasks' \subseteq Tasks
      /\ \A x \in Tasks \ Tasks' : x.op = "cleanup" /\ x.key = k
      /\ \A x \in Tasks' : ~(x.op = "cleanup" /\ x.key = k) /\ ~(x.op = "go" /\ x.old = k)
      /\ \A o \in Objs : o \in Objs' \/ (ToDrop(o) /\ o.msg.key = k)
      /\ \A o \in Objs' : ~Drops(o.msg, k) => o \in Objs
      /\ \A o \in Objs' : Drops(o.msg, k) => ToDrop(o) /\ o.msg.key = k /\ DropFlags(o)'
      /\ \A r, d \in Procs : DoDec(r, d) \in Issued' <=>
           DoDec(r, d) \in Issued \/ (d = k /\ ((pd /\ r = Parent(k)) \/ (sd /\ r = k)))
      /\ \A r, d \in Procs : DoInc(r, d) \in Issued' <=> DoInc(r, d) \in Issued
      /\ \A d \in Procs : Parent(d)' = Parent(d)
  BY DEF DropStep
<1>6. /\ \A d : Adds(d)' <=> Adds(d)
      /\ \A d \in Procs : NoInc(d)' <=> NoInc(d)
      /\ \A d \in Procs : NoDec(d) /\ d # k => NoDec(d)'
      /\ \A d \in Procs : CleansUp(d)' => CleansUp(d) \/ d = k
      /\ \A d \in Procs : CleansUp(d) => CleansUp(d)' \/ d = k
  <2>1. \A d : Adds(d)' <=> Adds(d)
    BY <1>5 DEF Adds
  <2>2. \A d \in Procs : NoInc(d)' <=> NoInc(d)
    BY <1>5 DEF NoInc
  <2>3. \A d \in Procs : NoDec(d) /\ d # k => NoDec(d)'
    BY <1>5 DEF NoDec
  <2>4. \A d \in Procs : CleanupMsg(d).key = d
    BY CleanupMsgs
  <2>5. \A d \in Procs : CleansUp(d)' => CleansUp(d) \/ d = k
    BY <2>4, <1>5 DEF CleansUp
  <2>6. \A d \in Procs : CleansUp(d) => CleansUp(d)' \/ d = k
    BY <2>4, <1>5 DEF CleansUp
  <2> QED BY <2>1, <2>2, <2>3, <2>5, <2>6
<1>7. SourceOK'
  <2>1. \A o \in Objs' : o.msg.type # "cleanup" => o.msg \in received'
    <3> SUFFICES ASSUME NEW o \in Objs', o.msg.type # "cleanup"
                 PROVE  o.msg \in received'
      OBVIOUS
    <3>1. CASE Drops(o.msg, k)
      BY <3>1 DEF DropStep, ToDrop
    <3>2. CASE ~Drops(o.msg, k)
      BY <3>2, <1>1 DEF DropStep, SourceOK
    <3> QED BY <3>1, <3>2
  <2>2. ASSUME NEW d \in Procs, CleansUp(d)'
        PROVE  \E j \in Keys : Replaced(j, d)'
    <3>1. CASE CleansUp(d)
      BY <3>1, <1>1, <1>4 DEF SourceOK
    <3>2. CASE ~CleansUp(d)
      <4>1. d = k
        BY <3>2, <2>2, <1>6
      <4>2. PICK o \in Objs' : o.msg = CleanupMsg(k)
        BY <4>1, <2>2, <1>5 DEF CleansUp
      <4>3. o.msg.type = "cleanup" /\ Drops(o.msg, k)
        BY <4>2, CleanupMsgs DEF Drops
      <4> QED BY <4>1, <4>2, <4>3, <1>4 DEF DropStep
    <3> QED BY <3>1, <3>2
  <2>3. \A x \in Tasks' : x.op = "go" => Replaced(x.key, x.old)'
    BY <1>1, <1>4, <1>5 DEF SourceOK
  <2> QED BY <2>1, <2>2, <2>3 DEF SourceOK
<1>8. BornOK'
  <2>1. ASSUME NEW d \in born' \ {Root}
        PROVE  Stems(d, Parent(d))'
    <3>1. PICK r : r = Parent(d)'
      OBVIOUS
    <3>2. d \in Procs /\ r = Parent(d)
      BY <3>1, <1>1, <1>2, <1>5 DEF TypeOK
    <3>3. Stems(d, r)'
      BY <3>2, <1>1, <1>2, <1>4 DEF BornOK
    <3> QED BY <3>1, <3>3 DEF Stems
  <2>2. \A x \in Tasks' : x.op = "add" =>
          x.key \notin born' /\ DoInc(x.fields.parent, x.key) \in Issued'
    <3> SUFFICES ASSUME NEW x \in Tasks', x.op = "add"
                 PROVE  x.key \notin born' /\ DoInc(x.fields.parent, x.key) \in Issued'
      OBVIOUS
    <3>1. x \in Tasks /\ x.key \in Procs /\ x.fields.parent \in Procs
      BY <1>1, <1>5, CallFields, KeyFacts DEF Fields
    <3> QED BY <3>1, <1>1, <1>2, <1>5 DEF BornOK
  <2>3. \A r, d \in Procs : DoInc(r, d) \in Issued' => r \in born' /\ Stems(d, r)'
    BY <1>1, <1>2, <1>4, <1>5 DEF BornOK
  <2>4. ASSUME NEW r \in Procs, NEW d \in Procs, DoDec(r, d) \in Issued'
        PROVE  d \in born' \ {Root} /\ r \in born' /\ r \in {d, Parent(d)'} /\ Dropped(d)'
    <3>1. CASE DoDec(r, d) \in Issued
      BY <3>1, <1>1, <1>2, <1>4, <1>5 DEF BornOK
    <3>2. CASE d = k /\ ((pd /\ r = Parent(k)) \/ (sd /\ r = k))
      BY <3>2, <1>1, <1>2, <1>5 DEF DropStep, Known, TypeOK
    <3> QED BY <3>1, <3>2, <2>4, <1>5
  <2> QED BY <2>1, <2>2, <2>3, <2>4, <1>1, <1>2 DEF BornOK
<1>9. FlagOK'
  <2> SUFFICES ASSUME NEW o \in Objs', NEW d, d = o.msg.key
               PROVE  /\ Open(o) => d \notin born' /\ NoInc(d)' /\ ~Adds(d)' /\ o.msg.parent # Root
                      /\ o.msg.type = "exec" =>
                           /\ d \in born' /\ ~o.parentDone /\ NoInc(d)'
                           /\ NoDec(o.msg.cleanup)' /\ ~CleansUp(o.msg.cleanup)'
                      /\ ToDrop(o) => DropFlags(o)'
    BY DEF FlagOK, Open, ToDrop, DropFlags
  <2>1. CASE Drops(o.msg, k)
    BY <2>1, <1>5 DEF ToDrop, Open
  <2>2. CASE ~Drops(o.msg, k)
    <3>1. o \in Objs /\ d \in Procs
      BY <2>2, <1>1, <1>5, ObjFields, MsgFields
    <3>2. /\ Open(o) => d \notin born /\ NoInc(d) /\ ~Adds(d) /\ o.msg.parent # Root
          /\ o.msg.type = "exec" =>
               /\ d \in born /\ ~o.parentDone /\ NoInc(d)
               /\ NoDec(o.msg.cleanup) /\ ~CleansUp(o.msg.cleanup)
          /\ ToDrop(o) => DropFlags(o)
      BY <3>1 DEF CInv, FlagOK, DropFlags
    <3>3. o.msg.type = "exec" => o.msg.cleanup \in Procs /\ o.msg.cleanup # k
      BY <2>2, <3>1, <1>1, ObjFields, MsgFields DEF Drops
    <3>4. ToDrop(o) => d # k
      BY <2>2 DEF Drops, ToDrop
    <3>5. ToDrop(o) => DropFlags(o)'
      <4> SUFFICES ASSUME ToDrop(o)
                   PROVE  DropFlags(o)'
        OBVIOUS
      <4>1. \A r \in Procs : DoDec(r, d) \in Issued' <=> DoDec(r, d) \in Issued
        BY <3>1, <3>4, <1>5
      <4>2. Parent(d)' = Parent(d) /\ Parent(d) \in Procs
        BY <3>1, <1>1, <1>5
      <4> QED BY <4>1, <4>2, <3>1, <3>2 DEF DropFlags
    <3> QED BY <3>1, <3>2, <3>3, <3>5, <1>2, <1>6
  <2> QED BY <2>1, <2>2
<1>10. CleanupOK'
  <2>1. \A x \in Tasks : /\ x.op = "cleanup" => x.key \in Procs /\ NoDec(x.key)
                         /\ x.op = "go" => x.old \in Procs /\ NoDec(x.old)
    BY <1>1, CallFields DEF CInv, CleanupOK
  <2> QED BY <2>1, <1>5, <1>6 DEF CleanupOK
<1>11. RaisedOK'
  <2> SUFFICES ASSUME NEW d \in born \ {Root}
               PROVE  \/ DoInc(Parent(d)', d) \in Issued'
                      \/ \E o \in Objs' : o.msg.type = "exec" /\ o.msg.key = d
                      \/ \E n \in unsettled' : n.type = "exec" /\ n.key = d
    BY <1>2 DEF RaisedOK
  <2>1. d \in Procs /\ Parent(d)' = Parent(d) /\ Parent(d) \in Procs
    BY <1>1, <1>5 DEF TypeOK
  <2>2. CASE DoInc(Parent(d), d) \in Issued
    BY <2>1, <2>2, <1>5
  <2>3. CASE \E o \in Objs : o.msg.type = "exec" /\ o.msg.key = d
    BY <2>3, <1>5 DEF ToDrop
  <2>4. CASE \E n \in unsettled : n.type = "exec" /\ n.key = d
    BY <2>4 DEF DropStep
  <2> QED BY <2>2, <2>3, <2>4 DEF CInv, RaisedOK
<1>12. \A q : Gone(q) => Gone(q)'
  <2>1. \A o \in Objs' : Open(o) => o \in Objs
    BY <1>5 DEF Open, ToDrop
  <2>2. nextKey \in Int
    BY <1>1 DEF TypeOK
  <2> SUFFICES ASSUME NEW q, Gone(q)
               PROVE  Gone(q)'
    OBVIOUS
  <2>3. PICK G \in SUBSET Procs : q \in G /\ Dead(G)
    BY DEF Gone
  <2>4. Dead(G)'
    BY <2>1, <2>3, <1>2, <1>6 DEF DropStep, Dead, Creates, Open
  <2> QED BY <2>3, <2>4 DEF Gone
<1>13. GivenUpOK'
  <2> SUFFICES ASSUME NEW n \in unsettled', n.type = "exec"
               PROVE  n \in received' /\ Gone(Origin(n))' /\ DoDec(Origin(n), n.key) \notin Issued'
    BY DEF GivenUpOK, Origin, ExecParent
  <2>1. n \in unsettled /\ n \in received /\ Gone(Origin(n)) /\ DoDec(Origin(n), n.key) \notin Issued
    BY DEF DropStep, CInv, GivenUpOK
  <2>2. Origin(n) \notin cache
    BY <2>1 DEF Gone, Dead
  <2>3. n \in All /\ n.key \in Procs /\ Creates(n, n.key)
    BY <2>1, <1>1, AllMsgs DEF All, Creates
  <2>4. Origin(n) \in Procs
    BY <2>3, <1>1 DEF MsgOK
  <2>5. pd => Parent(k) \in cache
    BY DEF DropStep, Known
  <2>6. DoDec(Origin(n), n.key) \notin Issued'
    BY <2>1, <2>2, <2>3, <2>4, <2>5, <1>5 DEF DropStep
  <2>7. PICK p : p = Origin(n)
    OBVIOUS
  <2>8. Gone(p)'
    BY <2>1, <2>7, <1>12
  <2>9. Gone(Origin(n))'
    BY <2>7, <2>8 DEF Origin, ExecParent
  <2> QED BY <2>1, <2>6, <2>9 DEF DropStep
<1>14. CachedOK'
  <2>1. \A d : InTime(d)' <=> InTime(d)
    BY <1>2 DEF InTime
  <2>2. LiveCached'
    BY <1>2 DEF CInv, CachedOK, LiveCached
  <2>3. InTime(k)
    BY DEF DropStep
  <2>4. \A o \in Objs' : /\ Open(o) \/ o.msg.type = "exec" => InTime(Origin(o.msg))
                         /\ \A d \in Procs : Drops(o.msg, d) => InTime(d)
    <3> SUFFICES ASSUME NEW o \in Objs'
                 PROVE  /\ Open(o) \/ o.msg.type = "exec" => InTime(Origin(o.msg))
                        /\ \A d \in Procs : Drops(o.msg, d) => InTime(d)
      OBVIOUS
    <3>1. CASE Drops(o.msg, k)
      BY <3>1, <2>3, <1>5 DEF ToDrop, Open, Drops
    <3>2. CASE ~Drops(o.msg, k)
      BY <3>2, <1>5 DEF CInv, CachedOK
    <3> QED BY <3>1, <3>2
  <2>5. \A d \in Procs : CleansUp(d)' => InTime(d)
    BY <2>3, <1>6 DEF CInv, CachedOK
  <2>6. \A r, d \in Procs : DoInc(r, d) \in Issued' /\ DoDec(r, d) \notin Issued' => r \in cache'
    BY <1>2, <1>5 DEF CInv, CachedOK
  <2>7. \A n \in wire', d \in Procs : /\ Creates(n, d) => InTime(Origin(n))
                                      /\ Drops(n, d) => InTime(d)
    BY DEF DropStep, CInv, CachedOK
  <2> QED BY <2>1, <2>2, <2>4, <2>5, <2>6, <2>7
          DEF CachedOK, Creates, Drops, Origin, ExecParent, Open
<1>15. HandledOK'
  <2> SUFFICES ASSUME unsettled' = {}, NEW n \in received', NEW d \in Procs
               PROVE  /\ Creates(n, d) => \/ d \in born' \/ Adds(d)'
                                          \/ \E o \in Objs' : Open(o) /\ o.msg = n
                      /\ Drops(n, d) => \/ DoDec(Parent(d)', d) \in Issued' /\ DoDec(d, d) \in Issued'
                                        \/ \E o \in Objs' : Drops(o.msg, d)
                                        \/ CleansUp(d)'
    BY DEF HandledOK, Creates, Drops, Open
  <2>1. unsettled = {} /\ Parent(d)' = Parent(d) /\ Parent(d) \in Procs
    BY <1>1, <1>5 DEF DropStep
  <2>2. CASE n.type = "exit" /\ n.key = k
    <3>1. ~Creates(n, d) /\ (Drops(n, d) => d = k)
      BY <2>2 DEF Creates, Drops
    <3> QED BY <2>1, <3>1 DEF DropStep
  <2>3. CASE n \in received
    <3>1. /\ Creates(n, d) => \/ d \in born \/ Adds(d)
                              \/ \E o \in Objs : Open(o) /\ o.msg = n
          /\ Drops(n, d) => \/ DoDec(Parent(d), d) \in Issued /\ DoDec(d, d) \in Issued
                            \/ \E o \in Objs : Drops(o.msg, d)
                            \/ CleansUp(d)
      BY <2>1, <2>3 DEF CInv, HandledOK
    <3>2. Creates(n, d) => \/ d \in born' \/ Adds(d)'
                           \/ \E o \in Objs' : Open(o) /\ o.msg = n
      BY <3>1, <1>2, <1>5, <1>6 DEF Open, ToDrop
    <3>3. CASE d = k
      BY <3>2, <3>3, <2>1 DEF DropStep
    <3>4. CASE d # k
      <4>1. \A o \in Objs : Drops(o.msg, d) => o \in Objs'
        BY <3>4, <1>5 DEF Drops, ToDrop
      <4> QED BY <3>1, <3>2, <3>4, <4>1, <2>1, <1>5, <1>6
    <3> QED BY <3>3, <3>4
  <2> QED BY <2>2, <2>3 DEF DropStep
<1> QED BY <1>3, <1>7, <1>8, <1>9, <1>10, <1>11, <1>12, <1>13, <1>14, <1>15

\* Three calls.
LEMMA ThreeElems ==
  ASSUME NEW x, NEW y, NEW z
  PROVE  /\ Elems(<<x, y, z>>) = {x, y, z}
         /\ CallTokens(<<x, y, z>>) = {Token(x), Token(y), Token(z)}
         /\ Token(x) # Token(y) /\ Token(x) # Token(z) /\ Token(y) # Token(z)
              => CallsDiffer(<<x, y, z>>)
<1> DEFINE s == <<x, y, z>>
<1>1. DOMAIN s = {1, 2, 3} /\ s[1] = x /\ s[2] = y /\ s[3] = z
  OBVIOUS
<1> HIDE DEF s
<1>2. Elems(s) = {x, y, z}
  BY <1>1 DEF Elems
<1>3. CallTokens(s) = {Token(x), Token(y), Token(z)}
  BY <1>2 DEF CallTokens
<1>4. Token(x) # Token(y) /\ Token(x) # Token(z) /\ Token(y) # Token(z) => CallsDiffer(s)
  BY <1>1 DEF CallsDiffer
<1> QED BY <1>2, <1>3, <1>4 DEF s

\* The handler of m starts with the calls s.
Handles(m, s) ==
  /\ s \in Seq(Calls) /\ prog' = [prog EXCEPT ![Observer] = s]
  /\ CallsDiffer(s) /\ CallTokens(s) \cap Pending = {}
  /\ \A x \in Elems(s) : /\ x.op = "notify" => x.msg = m
                         /\ x.op = "enqueue" => x.obj.color = 0 /\ x.obj.msg = m
                         /\ x.op # "go"
                         /\ x.op \in {"inc", "dec"} => x \notin Issued

\* What is pending after the observer has started a handler.
LEMMA HandlesSets ==
  ASSUME CInv, NEW m \in wire, Receive(m), NEW s, Handles(m, s)
  PROVE  /\ PlaceOK' /\ PendCalls' = PendCalls \cup Elems(s)
         /\ Tasks' = Tasks \cup {x \in Elems(s) : x.op \in {"add", "cleanup", "go"}}
         /\ Objs' = Objs \cup {x.obj : x \in {y \in Elems(s) : y.op = "enqueue"}}
         /\ Issued' = Issued \cup {x \in Elems(s) : x.op \in {"inc", "dec"}}
<1>1. /\ TypeOK /\ PlaceOK /\ Observer \in Goroutines /\ prog[Observer] = << >>
      /\ waiting' = waiting /\ walk' = walk /\ counted' = counted
  BY KeyFacts DEF CInv, IInv, Receive, Idle, ecVars
<1>2. Elems(s) \in SUBSET Calls
  BY ElemTypes DEF Handles
<1>3. PlaceOK' /\ PendCalls' = PendCalls \cup Elems(s)
  BY <1>1, Starts DEF Handles
<1> QED BY <1>1, <1>2, <1>3, SetsBefore

\* A handler that keeps these parts of the invariant keeps it all.
LEMMA Received ==
  ASSUME CInv, IInv', NEW m \in wire, Receive(m), NEW s, Handles(m, s),
         MsgOK', SentOK', SourceOK', BornOK', FlagOK', CleanupOK', RaisedOK',
         GivenUpOK', CachedOK', HandledOK', NothingUnsettled',
         \A q : Gone(q) => Gone(q)',
         \/ born' = born /\ refcnt' = refcnt
         \/ /\ m.key \notin born /\ born' = born \cup {m.key}
            /\ refcnt' = [refcnt EXCEPT ![m.key] = 1]
  PROVE  CInv'
<1>1. /\ TypeOK /\ PlaceOK /\ StartOK /\ CountOK /\ IInv /\ MsgOK /\ m \in All
      /\ m.key \in Keys /\ m.key \in Procs
      /\ waiting' = waiting /\ walk' = walk /\ counted' = counted /\ podKnown' = podKnown
      /\ received' = received \cup {m} /\ wire' = wire \ {m} /\ lost' = lost
  BY AllMsgs DEF CInv, IInv, Receive, Idle, ecVars, kernelVars, All
<1>2. /\ PlaceOK' /\ PendCalls' = PendCalls \cup Elems(s)
      /\ Tasks' = Tasks \cup {x \in Elems(s) : x.op \in {"add", "cleanup", "go"}}
      /\ Objs' = Objs \cup {x.obj : x \in {y \in Elems(s) : y.op = "enqueue"}}
  BY HandlesSets
<1>3. /\ \A g \in Goroutines \ {Observer} : prog'[g] = prog[g]
      /\ \A k \in Keys : prog'[k] = prog[k] /\ prog'[Loop] = prog[Loop]
  BY <1>1, KeyFacts DEF Handles, TypeOK
<1>4. StartOK'
  <2>1. \A x \in PendCalls' : x.op = "notify" => x.msg \in received'
    BY <1>1, <1>2 DEF StartOK, Handles
  <2>2. \A x \in Sends' : x.obj.color = 0
    BY <1>1, <1>2 DEF StartOK, Handles, Sends
  <2>3. \A k, c : Replaced(k, c) => Replaced(k, c)'
    BY <1>1 DEF Replaced
  <2>4. \A k \in Keys : prog'[k] # << >> => \E c \in Procs : Replaced(k, c)'
    BY <2>3, <1>1, <1>3 DEF StartOK
  <2>5. \A x \in Tasks : x.op = "go" => x.key \in Keys
    BY <1>1, PendingOnce, CallFields
  <2>6. \A x \in Tasks' : x.op = "go" => prog'[x.key] = << >>
    BY <2>5, <1>1, <1>2, <1>3 DEF StartOK, Handles
  <2>7. m.type = "exec" => prog[m.key] = << >>
    BY <1>1, FirstToTell DEF StartOK
  <2>8. \A o \in Objs : o.msg.type = "exec" => o.msg.key \in Keys
    BY <1>1, PendingOnce, ObjFields, MsgFields
  <2>9. \A o \in Objs' : o.msg.type = "exec" => prog'[o.msg.key] = << >>
    BY <2>7, <2>8, <1>1, <1>2, <1>3 DEF StartOK, Handles
  <2> QED BY <2>1, <2>2, <2>4, <2>6, <2>9 DEF StartOK
<1>5. CountOK'
  <2>1. \A x \in Elems(s) : x.op \in {"inc", "dec"} => x \notin Issued
    BY DEF Handles
  <2> QED BY <2>1, <1>1, <1>2, CountsSame, CountsNew
<1>6. WalkOK'
  <2>1. born \subseteq born' /\ \A q : LoopAdds(q) => LoopAdds(q)'
    BY <1>1, <1>3, KeyFacts DEF LoopAdds
  <2>2. \A q \in Keys : Fixed(q) => Fixed(q)'
    BY <2>1, <1>1 DEF Fixed
  <2>3. All \subseteq All'
    BY <1>1 DEF All
  <2> QED BY <2>2, <2>3, <1>1, KeepsWalk DEF CInv
<1> QED BY <1>2, <1>4, <1>5, <1>6 DEF CInv
\* Calls one after the other.
LEMMA Joins ==
  ASSUME NEW x \in Calls, NEW y \in Calls, NEW z \in Calls
  PROVE  /\ <<x>> \o <<y>> = <<x, y>>
         /\ <<x, y>> \o <<z>> = <<x, y, z>>
<1>1. /\ <<x>> \in Seq(Calls) /\ <<y>> \in Seq(Calls) /\ <<z>> \in Seq(Calls)
      /\ <<x, y>> \in Seq(Calls) /\ <<x, y, z>> \in Seq(Calls)
  OBVIOUS
<1>2. PICK a, b, c, d : /\ a = <<x>> \o <<y>> /\ b = <<x, y>>
                        /\ c = <<x, y>> \o <<z>> /\ d = <<x, y, z>>
  OBVIOUS
<1>3. /\ a \in Seq(Calls) /\ Len(a) = 2 /\ a[1] = x /\ a[2] = y
      /\ b \in Seq(Calls) /\ Len(b) = 2 /\ b[1] = x /\ b[2] = y
  BY <1>1, <1>2, ConcatProperties
<1>4. /\ c \in Seq(Calls) /\ Len(c) = 3 /\ c[1] = x /\ c[2] = y /\ c[3] = z
      /\ d \in Seq(Calls) /\ Len(d) = 3 /\ d[1] = x /\ d[2] = y /\ d[3] = z
  BY <1>1, <1>2, ConcatProperties
<1>5. Len(a) = Len(b) /\ \A i \in 1 .. Len(a) : a[i] = b[i]
  BY <1>3
<1>6. Len(c) = Len(d) /\ \A i \in 1 .. Len(c) : c[i] = d[i]
  BY <1>4
<1>7. a = b
  BY ONLY <1>3, <1>5, SeqEqual
<1>8. c = d
  BY ONLY <1>4, <1>6, SeqEqual
<1> QED BY <1>2, <1>7, <1>8

\* The handler of a clone message keeps the invariant.
LEMMA CloneCounts ==
  ASSUME CInv, IInv', NEW m \in wire, Receive(m), m.type = "clone", HandleClone(m)
  PROVE  CInv'
<1>0. PICK p, c, f, o0, o1 :
        /\ p = m.parent /\ c = m.key /\ f = CloneFields(m)
        /\ o0 = CacheObj(m, FALSE) /\ o1 = CacheObj(m, TRUE)
  OBVIOUS
<1>1. /\ TypeOK /\ m \in All /\ m \in WireMsg /\ m \in Msgs /\ p \in Procs /\ c \in Keys /\ c \in Procs
      /\ Creates(m, c) /\ f \in Fields /\ f.parent = p
  <2>1. TypeOK /\ m \in All
    BY DEF CInv, IInv, All
  <2>2. m \in WireMsg /\ m \in Msgs /\ c \in Keys /\ c \in Procs /\ p \in Procs
    BY <2>1, <1>0, AllMsgs, MsgFields
  <2> QED BY <2>1, <2>2, <1>0, CloneCalls DEF Creates, CloneFields
<1>2. /\ wire' = wire \ {m} /\ received' = received \cup {m} /\ refcnt' = refcnt
      /\ UNCHANGED <<kernelVars, born, cache, object, unsettled>>
  BY DEF Receive, HandleClone, absVars, ecVars
<1>3. /\ NoInc(c) /\ ~Adds(c) /\ <<"add", c>> \notin Pending
      /\ <<"count", DoInc(p, c)>> \notin Pending /\ MsgToken(m) \notin Pending
  BY <1>1, FreshMsg
<1>4. /\ o0 \in CacheObjs /\ o0.msg = m /\ o0.color = 0
      /\ o1 \in CacheObjs /\ o1.msg = m /\ o1.color = 0
  BY <1>0, <1>1, NewObj DEF CacheObj
<1>5. /\ DoInc(p, c) \in Calls /\ DoAdd(c, f) \in Calls
      /\ DoEnqueue(o0) \in Calls /\ DoEnqueue(o1) \in Calls
  BY <1>1, <1>4, CallTypes
<1>6. CASE p \notin cache
  <2> DEFINE s == <<DoEnqueue(o0)>>
  <2>1. prog' = [prog EXCEPT ![Observer] = s]
    BY <1>0, <1>6 DEF HandleClone
  <2>2. Elems(s) = {DoEnqueue(o0)} /\ CallTokens(s) = {MsgToken(m)} /\ CallsDiffer(s)
    BY <1>4, OneElem, NewTokens
  <2>3. s \in Seq(Calls)
    BY <1>5, OneCall
  <2> HIDE DEF s
  <2>4. Handles(m, s)
    BY <2>1, <2>2, <2>3, <1>3, <1>4, CallParts DEF Handles
  <2>5. /\ Tasks' = Tasks \cup {x \in Elems(s) : x.op \in {"add", "cleanup", "go"}}
        /\ Objs' = Objs \cup {x.obj : x \in {y \in Elems(s) : y.op = "enqueue"}}
        /\ Issued' = Issued \cup {x \in Elems(s) : x.op \in {"inc", "dec"}}
    BY <2>4, HandlesSets
  <2>6. Tasks' = Tasks /\ Issued' = Issued /\ Objs' = Objs \cup {o0}
    BY <2>2, <2>5, CallParts
  <2>7. /\ MsgOK' /\ SentOK' /\ SourceOK' /\ BornOK' /\ FlagOK' /\ CleanupOK' /\ RaisedOK'
        /\ GivenUpOK' /\ CachedOK' /\ HandledOK' /\ NothingUnsettled'
        /\ \A q : Gone(q) => Gone(q)'
    BY <2>6, <1>0, <1>2, <1>6, CloneWaits
  <2> QED BY <2>4, <2>7, <1>2, Received
<1>7. CASE p \in cache
  <2>0. PICK s : s = AddCloneEvent(m) \o
                      (IF Needed(CloneFields(m)) THEN <<DoEnqueue(o1)>> ELSE << >>)
    OBVIOUS
  <2>1. prog' = [prog EXCEPT ![Observer] = s]
    BY <2>0, <1>0, <1>7 DEF HandleClone
  <2>2. AddCloneEvent(m) = <<DoInc(p, c), DoAdd(c, f)>>
    BY <1>0 DEF AddCloneEvent
  <2>3. CASE s = <<DoInc(p, c), DoAdd(c, f), DoEnqueue(o1)>>
    <3>1. /\ Token(DoInc(p, c)) = <<"count", DoInc(p, c)>>
          /\ Token(DoAdd(c, f)) = <<"add", c>> /\ Token(DoEnqueue(o1)) = MsgToken(m)
      BY <1>4, NewTokens
    <3>2. /\ <<"count", DoInc(p, c)>> # <<"add", c>>
          /\ <<"count", DoInc(p, c)>> # MsgToken(m) /\ <<"add", c>> # MsgToken(m)
      BY DEF MsgToken
    <3>3. /\ Elems(s) = {DoInc(p, c), DoAdd(c, f), DoEnqueue(o1)} /\ CallsDiffer(s)
          /\ CallTokens(s) = {<<"count", DoInc(p, c)>>, <<"add", c>>, MsgToken(m)}
      BY <2>3, <3>1, <3>2, ThreeElems
    <3>4. s \in Seq(Calls)
      BY <2>3, <1>5
    <3>5. Handles(m, s)
      BY <2>1, <3>3, <3>4, <1>1, <1>3, <1>4, CallParts DEF Handles, NoInc
    <3>6. /\ Tasks' = Tasks \cup {x \in Elems(s) : x.op \in {"add", "cleanup", "go"}}
          /\ Objs' = Objs \cup {x.obj : x \in {y \in Elems(s) : y.op = "enqueue"}}
          /\ Issued' = Issued \cup {x \in Elems(s) : x.op \in {"inc", "dec"}}
      BY <3>5, HandlesSets
    <3>7. Tasks' = Tasks \cup {DoAdd(c, f)} /\ Issued' = Issued \cup {DoInc(p, c)}
      BY <3>3, <3>6, CallParts
    <3>8. Objs \subseteq Objs' /\ \A o \in Objs' : o \in Objs \/ o = o1
      BY <3>3, <3>6, CallParts
    <3>9. /\ MsgOK' /\ SentOK' /\ SourceOK' /\ BornOK' /\ FlagOK' /\ CleanupOK' /\ RaisedOK'
          /\ GivenUpOK' /\ CachedOK' /\ HandledOK' /\ NothingUnsettled'
          /\ \A q : Gone(q) => Gone(q)'
      BY <3>7, <3>8, <1>0, <1>1, <1>2, <1>7, CloneTaken
    <3> QED BY <3>5, <3>9, <1>2, Received
  <2>4. CASE s = <<DoInc(p, c), DoAdd(c, f)>>
    <3>1. /\ Token(DoInc(p, c)) = <<"count", DoInc(p, c)>>
          /\ Token(DoAdd(c, f)) = <<"add", c>>
      BY NewTokens
    <3>2. <<"count", DoInc(p, c)>> # <<"add", c>>
      OBVIOUS
    <3>3. /\ Elems(s) = {DoInc(p, c), DoAdd(c, f)} /\ CallsDiffer(s)
          /\ CallTokens(s) = {<<"count", DoInc(p, c)>>, <<"add", c>>}
      BY <2>4, <3>1, <3>2, TwoElems
    <3>4. s \in Seq(Calls)
      BY <2>4, <1>5
    <3>5. Handles(m, s)
      BY <2>1, <3>3, <3>4, <1>1, <1>3, CallParts, SMTT(30) DEF Handles, NoInc
    <3>6. /\ Tasks' = Tasks \cup {x \in Elems(s) : x.op \in {"add", "cleanup", "go"}}
          /\ Objs' = Objs \cup {x.obj : x \in {y \in Elems(s) : y.op = "enqueue"}}
          /\ Issued' = Issued \cup {x \in Elems(s) : x.op \in {"inc", "dec"}}
      BY <3>5, HandlesSets
    <3>7. Tasks' = Tasks \cup {DoAdd(c, f)} /\ Issued' = Issued \cup {DoInc(p, c)}
      BY <3>3, <3>6, CallParts
    <3>8. Objs \subseteq Objs' /\ \A o \in Objs' : o \in Objs \/ o = o1
      BY <3>3, <3>6, CallParts
    <3>9. /\ MsgOK' /\ SentOK' /\ SourceOK' /\ BornOK' /\ FlagOK' /\ CleanupOK' /\ RaisedOK'
          /\ GivenUpOK' /\ CachedOK' /\ HandledOK' /\ NothingUnsettled'
          /\ \A q : Gone(q) => Gone(q)'
      BY <3>7, <3>8, <1>0, <1>1, <1>2, <1>7, CloneTaken
    <3> QED BY <3>5, <3>9, <1>2, Received
  <2>5. s = <<DoInc(p, c), DoAdd(c, f), DoEnqueue(o1)>> \/ s = <<DoInc(p, c), DoAdd(c, f)>>
    <3>1. <<DoInc(p, c), DoAdd(c, f)>> \o <<DoEnqueue(o1)>>
            = <<DoInc(p, c), DoAdd(c, f), DoEnqueue(o1)>>
      BY <1>5, Joins
    <3>2. <<DoInc(p, c), DoAdd(c, f)>> \o << >> = <<DoInc(p, c), DoAdd(c, f)>>
      OBVIOUS
    <3> QED BY <2>0, <2>2, <3>1, <3>2
  <2> QED BY <2>3, <2>4, <2>5
<1> QED BY <1>6, <1>7

\* The handler of an exec message keeps the invariant.
LEMMA ExecCounts ==
  ASSUME CInv, IInv', NEW m \in wire, Receive(m), m.type = "exec", HandleExec(m)
  PROVE  CInv'
<1>0. PICK p, c, f, o1, old :
        /\ p = ExecParent(m) /\ c = m.key /\ f = ExecFields(m)
        /\ o1 = CacheObj(m, TRUE) /\ old = m.cleanup
  OBVIOUS
<1>1. /\ TypeOK /\ m \in All /\ m \in WireMsg /\ m \in Msgs /\ p \in Procs /\ c \in Keys /\ c \in Procs
      /\ Creates(m, c) /\ Drops(m, old) /\ f \in Fields /\ f.parent = p /\ old \in Keys /\ old \in Procs
      /\ Origin(m) = p
  <2>1. TypeOK /\ m \in All
    BY DEF CInv, IInv, All
  <2>2. m \in WireMsg /\ m \in Msgs /\ c \in Keys /\ c \in Procs /\ old \in Keys
    BY <2>1, <1>0, AllMsgs, MsgFields DEF CInv, MsgOK
  <2>3. p \in Procs
    BY <2>1, <2>2, <1>0, MsgFields DEF ExecParent
  <2>4. f \in Fields /\ f.parent = p
    BY <2>1, <2>3, <1>0, OptionsAssumption DEF ExecFields, Fields, TypeOK
  <2> QED BY <2>1, <2>2, <2>3, <2>4, <1>0, KeyFacts DEF Creates, Drops, Origin
<1>2. /\ wire' = wire \ {m} /\ received' = received \cup {m}
      /\ refcnt' = [refcnt EXCEPT ![c] = 1] /\ born' = born \cup {c} /\ cache' = cache \cup {c}
      /\ object' = [object EXCEPT ![c] = f]
      /\ UNCHANGED <<kernelVars, unsettled>>
  BY <1>0 DEF Receive, HandleExec, ecVars
<1>3. /\ NoInc(c) /\ c \notin born /\ MsgToken(CleanupMsg(old)) \notin Pending
      /\ <<"count", DoInc(p, c)>> \notin Pending /\ MsgToken(m) \notin Pending
  BY <1>1, FreshMsg
<1>4. o1 \in CacheObjs /\ o1.msg = m /\ o1.color = 0
  BY <1>0, <1>1, NewObj DEF CacheObj
<1>5. /\ DoInc(p, c) \in Calls /\ DoCleanup(old) \in Calls
      /\ DoNotify(m) \in Calls /\ DoEnqueue(o1) \in Calls
  BY <1>1, <1>4, CallTypes
<1>6. CASE prog' = [prog EXCEPT ![Observer] = <<DoEnqueue(o1)>>]
  <2> DEFINE s == <<DoEnqueue(o1)>>
  <2>2. Elems(s) = {DoEnqueue(o1)} /\ CallTokens(s) = {MsgToken(m)} /\ CallsDiffer(s)
    BY <1>4, OneElem, NewTokens
  <2>3. s \in Seq(Calls)
    BY <1>5, OneCall
  <2>4. prog' = [prog EXCEPT ![Observer] = s]
    BY <1>6
  <2> HIDE DEF s
  <2>5. Handles(m, s)
    BY <2>2, <2>3, <2>4, <1>3, <1>4, CallParts DEF Handles
  <2>6. /\ Tasks' = Tasks \cup {x \in Elems(s) : x.op \in {"add", "cleanup", "go"}}
        /\ Objs' = Objs \cup {x.obj : x \in {y \in Elems(s) : y.op = "enqueue"}}
        /\ Issued' = Issued \cup {x \in Elems(s) : x.op \in {"inc", "dec"}}
    BY <2>5, HandlesSets
  <2>7. Tasks' = Tasks /\ Issued' = Issued /\ Objs' = Objs \cup {o1}
    BY <2>2, <2>6, CallParts
  <2>8. /\ MsgOK' /\ SentOK' /\ SourceOK' /\ BornOK' /\ FlagOK' /\ CleanupOK' /\ RaisedOK'
        /\ GivenUpOK' /\ CachedOK' /\ HandledOK' /\ NothingUnsettled'
        /\ \A q : Gone(q) => Gone(q)'
    BY <2>7, <1>0, <1>1, <1>2, ExecReceived DEF ExecWaits
  <2> QED BY <2>5, <2>8, <1>0, <1>2, <1>3, Received
<1>7. CASE /\ prog' = [prog EXCEPT ![Observer] = <<DoInc(p, c), DoCleanup(old), DoNotify(m)>>]
           /\ p \in cache
  <2> DEFINE s == <<DoInc(p, c), DoCleanup(old), DoNotify(m)>>
  <2>1. /\ Token(DoInc(p, c)) = <<"count", DoInc(p, c)>>
        /\ Token(DoCleanup(old)) = MsgToken(CleanupMsg(old)) /\ Token(DoNotify(m)) = MsgToken(m)
    BY NewTokens
  <2>2. /\ <<"count", DoInc(p, c)>> # MsgToken(m)
        /\ <<"count", DoInc(p, c)>> # MsgToken(CleanupMsg(old))
        /\ MsgToken(m) # MsgToken(CleanupMsg(old))
    <3>1. m # CleanupMsg(old)
      BY CleanupMsgs
    <3>2. MsgToken(m) # MsgToken(CleanupMsg(old))
      BY <3>1, MsgTokens
    <3> QED BY <3>2 DEF MsgToken
  <2>3. /\ Elems(s) = {DoInc(p, c), DoCleanup(old), DoNotify(m)} /\ CallsDiffer(s)
        /\ CallTokens(s) = {<<"count", DoInc(p, c)>>, MsgToken(CleanupMsg(old)), MsgToken(m)}
    BY <2>1, <2>2, ThreeElems
  <2>4. s \in Seq(Calls)
    BY <1>5
  <2>5. prog' = [prog EXCEPT ![Observer] = s]
    BY <1>7
  <2> HIDE DEF s
  <2>6. Handles(m, s)
    BY <2>3, <2>4, <2>5, <1>1, <1>3, CallParts DEF Handles, NoInc
  <2>7. /\ Tasks' = Tasks \cup {x \in Elems(s) : x.op \in {"add", "cleanup", "go"}}
        /\ Objs' = Objs \cup {x.obj : x \in {y \in Elems(s) : y.op = "enqueue"}}
        /\ Issued' = Issued \cup {x \in Elems(s) : x.op \in {"inc", "dec"}}
    BY <2>6, HandlesSets
  <2>8. Tasks' = Tasks \cup {DoCleanup(old)} /\ Issued' = Issued \cup {DoInc(p, c)} /\ Objs' = Objs
    BY <2>3, <2>7, CallParts
  <2>9. ExecTaken(m)
    BY <2>8, <1>0, <1>1, <1>7 DEF ExecTaken
  <2>10. /\ MsgOK' /\ SentOK' /\ SourceOK' /\ BornOK' /\ FlagOK' /\ CleanupOK' /\ RaisedOK'
         /\ GivenUpOK' /\ CachedOK' /\ HandledOK' /\ NothingUnsettled'
         /\ \A q : Gone(q) => Gone(q)'
    BY <2>9, <1>0, <1>1, <1>2, ExecReceived
  <2> QED BY <2>6, <2>10, <1>0, <1>2, <1>3, Received
<1>8. <<DoInc(p, c)>> \o CleanupOf(m) \o <<DoNotify(m)>> = <<DoInc(p, c), DoCleanup(old), DoNotify(m)>>
  <2>1. CleanupOf(m) = <<DoCleanup(old)>>
    BY <1>0, <1>1, KeyFacts DEF CleanupOf
  <2>2. /\ <<DoInc(p, c)>> \o <<DoCleanup(old)>> = <<DoInc(p, c), DoCleanup(old)>>
        /\ <<DoInc(p, c), DoCleanup(old)>> \o <<DoNotify(m)>>
             = <<DoInc(p, c), DoCleanup(old), DoNotify(m)>>
    BY <1>5, Joins
  <2> QED BY <2>1, <2>2
<1> QED BY <1>0, <1>6, <1>7, <1>8 DEF HandleExec

\* The handler of an exit message keeps the invariant.
LEMMA ExitCounts ==
  ASSUME CInv, IInv', NEW m \in wire, Receive(m), m.type = "exit", HandleExit(m)
  PROVE  CInv'
<1>0. PICK k, p, o0 : k = m.key /\ p = Parent(k) /\ o0 = CacheObj(m, FALSE)
  OBVIOUS
<1>1. /\ TypeOK /\ m \in All /\ m \in WireMsg /\ m \in Msgs /\ p \in Procs /\ k \in Keys /\ k \in Procs
      /\ Drops(m, k) /\ \A d : Drops(m, d) <=> d = k
  <2>1. TypeOK /\ m \in All
    BY DEF CInv, IInv, All
  <2>2. m \in WireMsg /\ m \in Msgs /\ k \in Keys /\ k \in Procs
    BY <2>1, <1>0, AllMsgs, MsgFields
  <2> QED BY <2>1, <2>2, <1>0, ParentIn DEF Drops
<1>2. /\ wire' = wire \ {m} /\ received' = received \cup {m} /\ refcnt' = refcnt
      /\ UNCHANGED <<kernelVars, born, cache, object, unsettled>>
  BY DEF Receive, HandleExit, absVars, ecVars
<1>3. /\ NoDec(k) /\ ~CleansUp(k) /\ \A o \in Objs : ~Drops(o.msg, k)
      /\ <<"count", DoDec(p, k)>> \notin Pending /\ <<"count", DoDec(k, k)>> \notin Pending
      /\ MsgToken(m) \notin Pending
  BY <1>1, FreshMsg
<1>4. /\ o0 \in CacheObjs /\ o0.msg = m /\ o0.color = 0 /\ ~o0.parentDone /\ ~o0.procDone
      /\ ~o0.internal /\ ToDrop(o0)
  BY <1>0, <1>1, NewObj DEF CacheObj, ToDrop
<1>5. /\ DoDec(p, k) \in Calls /\ DoDec(k, k) \in Calls /\ DoNotify(m) \in Calls
      /\ DoEnqueue(o0) \in Calls
  BY <1>1, <1>4, CallTypes
<1>6. /\ Dropped(k)' /\ InTime(k) /\ All' = All
      /\ \A d \in Procs : Parent(d)' = Parent(d)
  <2>1. Dropped(k)'
    BY <1>1, <1>2 DEF Dropped, Drops
  <2>2. InTime(k)
    BY <1>1 DEF CInv, CachedOK
  <2> QED BY <2>1, <2>2, <1>2 DEF All, Parent
<1>7. CASE prog' = [prog EXCEPT ![Observer] = <<DoEnqueue(o0)>>]
  <2> DEFINE s == <<DoEnqueue(o0)>>
  <2>2. Elems(s) = {DoEnqueue(o0)} /\ CallTokens(s) = {MsgToken(m)} /\ CallsDiffer(s)
    BY <1>4, OneElem, NewTokens
  <2>3. s \in Seq(Calls)
    BY <1>5, OneCall
  <2>4. prog' = [prog EXCEPT ![Observer] = s]
    BY <1>7
  <2> HIDE DEF s
  <2>5. Handles(m, s)
    BY <2>2, <2>3, <2>4, <1>3, <1>4, CallParts DEF Handles
  <2>6. /\ Tasks' = Tasks \cup {x \in Elems(s) : x.op \in {"add", "cleanup", "go"}}
        /\ Objs' = Objs \cup {x.obj : x \in {y \in Elems(s) : y.op = "enqueue"}}
        /\ Issued' = Issued \cup {x \in Elems(s) : x.op \in {"inc", "dec"}}
    BY <2>5, HandlesSets
  <2>7. Tasks' = Tasks /\ Issued' = Issued /\ Objs' = Objs \cup {o0}
    BY <2>2, <2>6, CallParts
  <2>8. DropFlags(o0)'
    BY <2>7, <1>0, <1>1, <1>3, <1>4 DEF DropFlags, NoDec
  <2>9. DropStep(k, FALSE, FALSE)
    <3>1. \A o \in Objs' : Drops(o.msg, k) => o = o0
      BY <2>7, <1>3
    <3>2. \A o \in Objs' : Drops(o.msg, k) =>
            /\ ToDrop(o) /\ o.msg.key = k
            /\ DropFlags(o)'
            /\ o.msg.type = "exit" => o.msg \in received'
            /\ o.msg.type = "cleanup" => o.msg = CleanupMsg(k) /\ \E j \in Keys : Replaced(j, k)
      BY <3>1, <2>8, <1>0, <1>2, <1>4
    <3>3. \A x \in Tasks' : ~(x.op = "cleanup" /\ x.key = k) /\ ~(x.op = "go" /\ x.old = k)
      BY <2>7, <1>3 DEF CleansUp
    <3>4. \A o \in Objs' : ~Drops(o.msg, k) => o \in Objs
      BY <2>7, <1>1, <1>4
    <3> QED BY <3>2, <3>3, <3>4, <2>7, <1>0, <1>1, <1>2, <1>4, <1>6 DEF DropStep
  <2>10. /\ MsgOK' /\ SentOK' /\ SourceOK' /\ BornOK' /\ FlagOK' /\ CleanupOK' /\ RaisedOK'
         /\ GivenUpOK' /\ CachedOK' /\ HandledOK' /\ \A q : Gone(q) => Gone(q)'
    BY <2>9, <1>1, DropOK
  <2>11. NothingUnsettled'
    BY <1>2 DEF CInv, NothingUnsettled, kernelVars
  <2> QED BY <2>5, <2>10, <2>11, <1>2, Received
<1>8. CASE /\ prog' = [prog EXCEPT ![Observer] = <<DoDec(p, k), DoDec(k, k), DoNotify(m)>>]
           /\ Known(k)
  <2> DEFINE s == <<DoDec(p, k), DoDec(k, k), DoNotify(m)>>
  <2>0. p # k /\ k \in born
    <3>1. k \in born \ {Root}
      BY <1>1, <1>8, KeyFacts DEF Known, TypeOK, Keys, Root
    <3> QED BY <3>1, <1>0, BornFacts DEF CInv
  <2>1. /\ Token(DoDec(p, k)) = <<"count", DoDec(p, k)>>
        /\ Token(DoDec(k, k)) = <<"count", DoDec(k, k)>> /\ Token(DoNotify(m)) = MsgToken(m)
    BY NewTokens
  <2>2. /\ <<"count", DoDec(p, k)>> # MsgToken(m)
        /\ <<"count", DoDec(k, k)>> # MsgToken(m)
        /\ <<"count", DoDec(p, k)>> # <<"count", DoDec(k, k)>>
    <3>1. DoDec(p, k) # DoDec(k, k)
      BY <2>0, CountCalls
    <3> QED BY <3>1 DEF MsgToken
  <2>3. /\ Elems(s) = {DoDec(p, k), DoDec(k, k), DoNotify(m)} /\ CallsDiffer(s)
        /\ CallTokens(s) = {<<"count", DoDec(p, k)>>, <<"count", DoDec(k, k)>>, MsgToken(m)}
    BY <2>1, <2>2, ThreeElems
  <2>4. s \in Seq(Calls)
    BY <1>5
  <2>5. prog' = [prog EXCEPT ![Observer] = s]
    BY <1>8
  <2> HIDE DEF s
  <2>6. Handles(m, s)
    BY <2>3, <2>4, <2>5, <1>1, <1>3, CallParts DEF Handles, NoDec
  <2>7. /\ Tasks' = Tasks \cup {x \in Elems(s) : x.op \in {"add", "cleanup", "go"}}
        /\ Objs' = Objs \cup {x.obj : x \in {y \in Elems(s) : y.op = "enqueue"}}
        /\ Issued' = Issued \cup {x \in Elems(s) : x.op \in {"inc", "dec"}}
    BY <2>6, HandlesSets
  <2>8. Tasks' = Tasks /\ Issued' = Issued \cup {DoDec(p, k), DoDec(k, k)} /\ Objs' = Objs
    BY <2>3, <2>7, CallParts
  <2>9. DropStep(k, TRUE, TRUE)
    <3>1. /\ \A r, d \in Procs : DoDec(r, d) \in Issued' <=>
               DoDec(r, d) \in Issued \/ (d = k /\ ((TRUE /\ r = Parent(k)) \/ (TRUE /\ r = k)))
          /\ \A r, d \in Procs : DoInc(r, d) \in Issued' <=> DoInc(r, d) \in Issued
      BY <2>8, <1>0, CountCalls
    <3>2. \A o \in Objs' : ~Drops(o.msg, k)
      BY <2>8, <1>3
    <3>3. \A x \in Tasks' : ~(x.op = "cleanup" /\ x.key = k) /\ ~(x.op = "go" /\ x.old = k)
      BY <2>8, <1>3 DEF CleansUp
    <3>4. DoDec(Parent(k), k) \in Issued' /\ DoDec(k, k) \in Issued'
      BY <2>8, <1>0
    <3> QED BY <3>1, <3>2, <3>3, <3>4, <2>8, <1>0, <1>1, <1>2, <1>6, <1>8 DEF DropStep, Known
  <2>10. /\ MsgOK' /\ SentOK' /\ SourceOK' /\ BornOK' /\ FlagOK' /\ CleanupOK' /\ RaisedOK'
         /\ GivenUpOK' /\ CachedOK' /\ HandledOK' /\ \A q : Gone(q) => Gone(q)'
    BY <2>9, <1>1, DropOK
  <2>11. NothingUnsettled'
    BY <1>2 DEF CInv, NothingUnsettled, kernelVars
  <2> QED BY <2>6, <2>10, <2>11, <1>2, Received
<1> QED BY <1>0, <1>7, <1>8 DEF HandleExit

\* Every handler of the observer keeps the invariant.
LEMMA ReceiveCounts ==
  ASSUME CInv, IInv', NEW m \in wire, Receive(m)
  PROVE  CInv'
BY CloneCounts, ExecCounts, ExitCounts DEF Receive

-----------------------------------------------------------------------------
(***************************************************************************)
(* The other calls: a process is added, or the old image of an exec taken  *)
(* care of.                                                                *)
(***************************************************************************)

\* Steps of the agent leave the messages alone.
LEMMA SameMsgs ==
  ASSUME MsgOK, SentOK, UNCHANGED <<kernelVars, wire, received>>
  PROVE  /\ MsgOK' /\ SentOK' /\ Live' = Live /\ All' = All
         /\ \A c, p : Stems(c, p)' <=> Stems(c, p)
         /\ \A c : Dropped(c)' <=> Dropped(c)
         /\ \A k, c : Replaced(k, c)' <=> Replaced(k, c)
<1>1. Alive' = Alive /\ All' = All /\ nextKey' = nextKey /\ task' = task /\ lost' = lost
  BY DEF Alive, All, kernelVars
<1>2. MsgOK' /\ SentOK'
  BY <1>1 DEF MsgOK, SentOK, Creates, Drops, Origin, ExecParent
<1>3. /\ \A c, p : Stems(c, p)' <=> Stems(c, p)
      /\ \A c : Dropped(c)' <=> Dropped(c)
      /\ \A k, c : Replaced(k, c)' <=> Replaced(k, c)
  BY DEF Stems, Dropped, Replaced, Creates, Drops, Origin, ExecParent
<1> QED BY <1>1, <1>2, <1>3 DEF Live

\* The creation of a clone keeps the invariant.
LEMMA AddCounts ==
  ASSUME CInv, IInv', NEW g \in Goroutines, StepAdd(g),
         UNCHANGED <<kernelVars, wire, podKnown, received>>
  PROVE  CInv'
<1>0. PICK h, k, f : h = Head(prog[g]) /\ k = h.key /\ f = h.fields
  OBVIOUS
<1>1. /\ prog[g] # << >> /\ Return(g) /\ h.op = "add"
      /\ born' = born \cup {k} /\ cache' = cache \cup {k}
      /\ refcnt' = [refcnt EXCEPT ![k] = 1] /\ object' = [object EXCEPT ![k] = f]
      /\ UNCHANGED <<ecVars, notified, counted>>
  BY <1>0 DEF StepAdd, At, Idle
<1>2. /\ IInv /\ TypeOK /\ PlaceOK /\ MsgOK /\ SentOK /\ SourceOK /\ BornOK /\ StartOK
      /\ UNCHANGED <<waiting, walk, unsettled, nextKey, lost>>
  BY <1>1 DEF CInv, IInv, ecVars, kernelVars
<1>3. PlaceOK' /\ h \in PendCalls /\ PendCalls' = PendCalls \ {h}
  BY <1>0, <1>1, <1>2, MakesLast
<1>4. Tasks' = Tasks \ {h} /\ Objs' = Objs /\ Issued' = Issued /\ h \in Tasks
  <2>0. PendCalls' = (PendCalls \ {h}) \cup {} /\ {} \in SUBSET Calls
    BY <1>3
  <2>1. /\ Tasks' = (Tasks \ {h}) \cup {x \in {} : x.op \in {"add", "cleanup", "go"}}
        /\ Objs' = Objs \cup {x.obj : x \in {y \in {} : y.op = "enqueue"}}
        /\ Issued' = Issued \cup {x \in {} : x.op \in {"inc", "dec"}}
    BY <2>0, <1>1, <1>2, <1>3, SetsAfter
  <2>2. h \in Tasks
    BY <1>1, <1>3 DEF Tasks
  <2> QED BY <2>1, <2>2
<1>5. /\ k \in Keys /\ k \in Procs /\ f \in Fields /\ f.parent \in Procs /\ k # Root
      /\ k \notin born /\ DoInc(f.parent, k) \in Issued /\ f.parent \in born /\ Stems(k, f.parent)
      /\ Adds(k)
  <2>1. h \in Calls
    BY <1>2, <1>3, PendingOnce
  <2>2. k \in Keys /\ k \in Procs /\ f \in Fields /\ f.parent \in Procs /\ k # Root
    BY <2>1, <1>0, <1>1, CallFields, KeyFacts DEF Fields, Keys, Root
  <2> QED BY <2>2, <1>0, <1>1, <1>2, <1>4 DEF BornOK, Adds
<1>6. \A x \in Tasks : x.op = "add" /\ x.key = k => x = h
  <2>1. /\ \A x \in Tasks : x \in Calls /\ x \in PendCalls
        /\ \A x, y \in PendCalls : Token(x) = Token(y) => x = y
    BY <1>2, PendingOnce DEF Tasks
  <2>2. \A x \in Tasks : x.op = "add" /\ x.key = k => Token(x) = <<"add", k>>
    BY <2>1, Tokens
  <2> QED BY <2>1, <2>2, <1>0, <1>1, <1>4
<1>7. /\ \A d : Adds(d)' <=> Adds(d) /\ d # k
      /\ \A d : CleansUp(d)' <=> CleansUp(d)
      /\ \A d : NoInc(d)' <=> NoInc(d)
      /\ \A d : NoDec(d)' <=> NoDec(d)
  <2>1. \A d : Adds(d)' <=> Adds(d) /\ d # k
    BY <1>0, <1>4, <1>6 DEF Adds
  <2>2. \A d : CleansUp(d)' <=> CleansUp(d)
    BY <1>1, <1>4 DEF CleansUp
  <2> QED BY <2>1, <2>2, <1>4 DEF NoInc, NoDec
<1>8. /\ Parent(k)' = f.parent
      /\ \A d \in Procs \ {k} : Parent(d)' = Parent(d)
      /\ \A d \in born : d # k /\ Parent(d)' = Parent(d)
  BY <1>1, <1>2, <1>5 DEF Parent, TypeOK
<1>9. \A d, r \in Procs : DoDec(r, d) \in Issued => d \in born
  BY <1>2 DEF BornOK
<1>10. /\ MsgOK' /\ SentOK' /\ Live' = Live /\ All' = All
       /\ \A c, p : Stems(c, p)' <=> Stems(c, p)
       /\ \A c : Dropped(c)' <=> Dropped(c)
       /\ \A j, c : Replaced(j, c)' <=> Replaced(j, c)
  BY <1>2, SameMsgs
<1>11. SourceOK' /\ CleanupOK'
  BY <1>2, <1>4, <1>7, <1>10 DEF CInv, SourceOK, CleanupOK
<1>12. BornOK'
  <2>1. ASSUME NEW d \in born' \ {Root}
        PROVE  Stems(d, Parent(d))'
    <3>1. PICK r : r = Parent(d)'
      OBVIOUS
    <3>2. Stems(d, r)'
      BY <3>1, <1>1, <1>2, <1>5, <1>8, <1>10 DEF BornOK
    <3> QED BY <3>1, <3>2 DEF Stems
  <2>2. \A x \in Tasks' : x.op = "add" =>
          x.key \notin born' /\ DoInc(x.fields.parent, x.key) \in Issued'
    BY <1>1, <1>2, <1>4, <1>6 DEF BornOK
  <2>3. \A r, d \in Procs : DoInc(r, d) \in Issued' => r \in born' /\ Stems(d, r)'
    BY <1>1, <1>2, <1>4, <1>10 DEF BornOK
  <2>4. \A r, d \in Procs : DoDec(r, d) \in Issued' =>
          d \in born' \ {Root} /\ r \in born' /\ r \in {d, Parent(d)'} /\ Dropped(d)'
    BY <1>1, <1>2, <1>4, <1>8, <1>10 DEF BornOK
  <2> QED BY <2>1, <2>2, <2>3, <2>4, <1>1, <1>2 DEF BornOK
<1>13. FlagOK'
  <2> SUFFICES ASSUME NEW o \in Objs, NEW d, d = o.msg.key
               PROVE  /\ Open(o) => d \notin born' /\ NoInc(d)' /\ ~Adds(d)' /\ o.msg.parent # Root
                      /\ o.msg.type = "exec" =>
                           /\ d \in born' /\ ~o.parentDone /\ NoInc(d)'
                           /\ NoDec(o.msg.cleanup)' /\ ~CleansUp(o.msg.cleanup)'
                      /\ ToDrop(o) => DropFlags(o)'
    BY <1>4 DEF FlagOK, Open, ToDrop, DropFlags
  <2>1. /\ Open(o) => d \notin born /\ NoInc(d) /\ ~Adds(d) /\ o.msg.parent # Root
        /\ o.msg.type = "exec" =>
             /\ d \in born /\ ~o.parentDone /\ NoInc(d)
             /\ NoDec(o.msg.cleanup) /\ ~CleansUp(o.msg.cleanup)
        /\ ToDrop(o) => DropFlags(o)
    BY DEF CInv, FlagOK, DropFlags
  <2>2. Open(o) => d # k
    BY <2>1, <1>5
  <2>3. d \in Procs
    BY <1>2, PendingOnce, ObjFields, MsgFields
  <2>4. ToDrop(o) => DropFlags(o)'
    <3> SUFFICES ASSUME ToDrop(o)
                 PROVE  DropFlags(o)'
      OBVIOUS
    <3>1. DoDec(Parent(d), d) \in Issued => Parent(d)' = Parent(d)
      BY <2>3, <1>2, <1>8, <1>9, ParentIn
    <3> QED BY <3>1, <2>1, <1>4 DEF DropFlags
  <2> QED BY <2>1, <2>2, <2>4, <1>1, <1>7
<1>14. CountOK'
  <2>0. PICK S : S = {}
    OBVIOUS
  <2>1. PendCalls' \subseteq PendCalls \cup S /\ \A x \in S : x \notin Issued
    BY <2>0, <1>3
  <2> QED BY <2>1, <1>1, <1>5, CountsNew
<1>15. RaisedOK'
  <2> SUFFICES ASSUME NEW d \in born' \ {Root}
               PROVE  \/ DoInc(Parent(d)', d) \in Issued'
                      \/ \E o \in Objs' : o.msg.type = "exec" /\ o.msg.key = d
                      \/ \E n \in unsettled' : n.type = "exec" /\ n.key = d
    BY DEF RaisedOK
  <2> QED BY <1>1, <1>2, <1>4, <1>5, <1>8 DEF CInv, RaisedOK
<1>16. \A q : Gone(q) => Gone(q)'
  <2> SUFFICES ASSUME NEW q, Gone(q)
               PROVE  Gone(q)'
    OBVIOUS
  <2>1. PICK G \in SUBSET Procs : q \in G /\ Dead(G)
    BY DEF Gone
  <2>2. k \notin G
    BY <2>1, <1>5 DEF Dead
  <2>3. Dead(G)'
    BY <2>1, <2>2, <1>1, <1>2, <1>4, <1>7 DEF Dead, Creates, Open
  <2> QED BY <2>1, <2>3 DEF Gone
<1>17. GivenUpOK'
  BY <1>2, <1>4, <1>16 DEF CInv, GivenUpOK, Origin, ExecParent
<1>18. CachedOK'
  <2>1. \A d : InTime(d) => InTime(d)'
    BY <1>1 DEF InTime
  <2>2. LiveCached'
    BY <1>1, <1>10 DEF CInv, CachedOK, LiveCached
  <2> QED BY <2>1, <2>2, <1>1, <1>4, <1>7
          DEF CInv, CachedOK, Creates, Drops, Origin, ExecParent, Open
<1>19. HandledOK' /\ NothingUnsettled'
  <2>1. NothingUnsettled'
    BY <1>2 DEF CInv, NothingUnsettled
  <2> SUFFICES ASSUME unsettled = {}, NEW n \in received, NEW d \in Procs
               PROVE  /\ Creates(n, d) => \/ d \in born' \/ Adds(d)'
                                          \/ \E o \in Objs' : Open(o) /\ o.msg = n
                      /\ Drops(n, d) => \/ DoDec(Parent(d)', d) \in Issued' /\ DoDec(d, d) \in Issued'
                                        \/ \E o \in Objs' : Drops(o.msg, d)
                                        \/ CleansUp(d)'
    BY <2>1, <1>2 DEF HandledOK, Creates, Drops, Open
  <2>2. DoDec(Parent(d), d) \in Issued => Parent(d)' = Parent(d)
    BY <1>2, <1>8, <1>9, ParentIn
  <2> QED BY <2>2, <1>1, <1>4, <1>7 DEF CInv, HandledOK
<1>20. StartOK'
  BY <1>1, <1>2, <1>3, <1>4, StartKeeps, ReturnFacts
<1>21. WalkOK'
  <2>1. \A q \in Keys : Fixed(q) => Fixed(q)'
    BY <1>0, <1>1, <1>2, <1>16, ReturnFacts DEF Fixed
  <2> QED BY <2>1, <1>2, <1>10, KeepsWalk DEF CInv
<1> QED BY <1>3, <1>10, <1>11, <1>12, <1>13, <1>14, <1>15, <1>17, <1>18, <1>19, <1>20, <1>21
        DEF CInv

\* The lookups for a cleanup keep the invariant.
LEMMA CleanupCounts ==
  ASSUME CInv, IInv', NEW g \in Goroutines, StepCleanup(g),
         UNCHANGED <<kernelVars, wire, podKnown, received>>
  PROVE  CInv'
<1>0. PICK h, k, p, o0 : /\ h = Head(prog[g]) /\ k = h.key /\ p = Parent(k)
                         /\ o0 = CacheObj(CleanupMsg(k), FALSE)
  OBVIOUS
<1>1. /\ prog[g] # << >> /\ h.op = "cleanup"
      /\ prog' = [prog EXCEPT ![g] =
           (IF Known(k) THEN <<DoDec(p, k), DoDec(k, k)>> ELSE <<DoEnqueue(o0)>>) \o Tail(prog[g])]
      /\ UNCHANGED <<absVars, object, ecVars, notified, counted>>
  BY <1>0 DEF StepCleanup, At, Idle
<1>2. /\ IInv /\ TypeOK /\ PlaceOK /\ MsgOK /\ SentOK /\ SourceOK /\ BornOK /\ StartOK /\ CountOK
      /\ UNCHANGED <<waiting, walk, unsettled, nextKey, lost, born, cache, refcnt>>
  BY <1>1 DEF CInv, IInv, ecVars, kernelVars, absVars
<1>3. h \in Elems(prog[g]) /\ h \in PendCalls /\ h \in Tasks /\ h \in Calls /\ prog[g] \in Seq(Calls)
  <2>1. prog[g] \in Seq(Calls)
    BY <1>2 DEF TypeOK
  <2>2. h \in Elems(prog[g]) /\ h \in Calls
    BY <2>1, <1>0, <1>1, ElemTypes
  <2> QED BY <2>1, <2>2, <1>1 DEF PendCalls, Tasks
<1>4. /\ k \in Procs /\ p \in Procs /\ CleansUp(k) /\ NoDec(k) /\ InTime(k)
      /\ \E j \in Keys : Replaced(j, k)
  <2>1. k \in Procs /\ p \in Procs /\ CleansUp(k)
    BY <1>0, <1>1, <1>2, <1>3, CallFields, ParentIn DEF CleansUp
  <2> QED BY <2>1, <1>0, <1>1, <1>3 DEF CInv, CleanupOK, CachedOK, SourceOK
<1>5. Dropped(k) /\ k \in Keys
  BY <1>2, <1>4, Origins
<1>6. /\ \A u \in Objs : ~Drops(u.msg, k)
      /\ \A y \in Tasks : (y.op = "cleanup" /\ y.key = k) \/ (y.op = "go" /\ y.old = k) => y = h
  BY <1>0, <1>1, <1>3, <1>4, OneDrop
<1>7. /\ <<"count", DoDec(p, k)>> \notin Pending /\ <<"count", DoDec(k, k)>> \notin Pending
      /\ Token(h) = MsgToken(CleanupMsg(k))
  BY <1>0, <1>1, <1>2, <1>3, <1>4, InPending, Tokens DEF NoDec
<1>8. /\ o0 \in CacheObjs /\ o0.msg = CleanupMsg(k) /\ o0.color = 0 /\ ~o0.parentDone
      /\ ~o0.procDone /\ ~o0.internal /\ ToDrop(o0) /\ o0.msg.key = k /\ o0.msg.type = "cleanup"
      /\ Drops(o0.msg, k)
  BY <1>0, <1>4, NewObj, CleanupMsgs DEF CacheObj, ToDrop, Drops
<1>9. DoDec(p, k) \in Calls /\ DoDec(k, k) \in Calls /\ DoEnqueue(o0) \in Calls
  BY <1>4, <1>8, CallTypes
<1>10. PICK s \in Seq(Calls) :
         /\ prog' = [prog EXCEPT ![g] = s \o Tail(prog[g])]
         /\ CallsDiffer(s)
         /\ \A t \in CallTokens(s) : t = Token(h) \/ t \notin Pending
         /\ \/ Known(k) /\ Elems(s) = {DoDec(p, k), DoDec(k, k)}
            \/ ~Known(k) /\ Elems(s) = {DoEnqueue(o0)}
  <2>1. CASE Known(k)
    <3>1. p # k
      <4>1. k \in born \ {Root}
        BY <2>1, <1>2, <1>5, KeyFacts DEF Known, TypeOK, Keys, Root
      <4> QED BY <4>1, <1>0, <1>2, BornFacts
    <3>2. Token(DoDec(p, k)) # Token(DoDec(k, k))
      BY <3>1, NewTokens, CountCalls
    <3>3. <<DoDec(p, k), DoDec(k, k)>> \in Seq(Calls)
      BY <1>9
    <3>4. PICK a : a = <<DoDec(p, k), DoDec(k, k)>>
      OBVIOUS
    <3>5. /\ a \in Seq(Calls) /\ CallsDiffer(a) /\ Elems(a) = {DoDec(p, k), DoDec(k, k)}
          /\ CallTokens(a) = {<<"count", DoDec(p, k)>>, <<"count", DoDec(k, k)>>}
      BY <3>2, <3>3, <3>4, TwoElems, NewTokens
    <3>6. prog' = [prog EXCEPT ![g] = a \o Tail(prog[g])]
      BY <2>1, <3>4, <1>1
    <3> QED BY <2>1, <3>5, <3>6, <1>7
  <2>2. CASE ~Known(k)
    <3>1. <<DoEnqueue(o0)>> \in Seq(Calls)
      BY <1>9
    <3>2. PICK a : a = <<DoEnqueue(o0)>>
      OBVIOUS
    <3>3. /\ a \in Seq(Calls) /\ CallsDiffer(a) /\ Elems(a) = {DoEnqueue(o0)}
          /\ CallTokens(a) = {Token(h)}
      BY <3>1, <3>2, <1>7, <1>8, OneElem, NewTokens
    <3>4. prog' = [prog EXCEPT ![g] = a \o Tail(prog[g])]
      BY <2>2, <3>2, <1>1
    <3> QED BY <2>2, <3>3, <3>4
  <2> QED BY <2>1, <2>2
<1>11. PlaceOK' /\ PendCalls' = (PendCalls \ {h}) \cup Elems(s)
  BY <1>0, <1>1, <1>2, <1>10, MakesCall
<1>12. Elems(s) \in SUBSET Calls
  BY ElemTypes
<1>13. /\ Tasks' = (Tasks \ {h}) \cup {x \in Elems(s) : x.op \in {"add", "cleanup", "go"}}
       /\ Objs' = Objs \cup {x.obj : x \in {y \in Elems(s) : y.op = "enqueue"}}
       /\ Issued' = Issued \cup {x \in Elems(s) : x.op \in {"inc", "dec"}}
  BY <1>1, <1>2, <1>3, <1>11, <1>12, SetsAfter
<1>14. Tasks' = Tasks \ {h}
  BY <1>10, <1>13, CallParts
<1>15. /\ \A x \in Tasks \ Tasks' : x.op = "cleanup" /\ x.key = k
       /\ \A x \in Tasks' : ~(x.op = "cleanup" /\ x.key = k) /\ ~(x.op = "go" /\ x.old = k)
  BY <1>0, <1>1, <1>6, <1>14
<1>16. /\ \A d \in Procs : Parent(d)' = Parent(d)
       /\ All' = All /\ Dropped(k)' /\ received' = received /\ wire' = wire
  BY <1>1, <1>5 DEF Parent, All, Dropped
<1>17. \E pd, sd \in BOOLEAN : DropStep(k, pd, sd)
  <2>1. CASE Known(k)
    <3>1. Issued' = Issued \cup {DoDec(p, k), DoDec(k, k)} /\ Objs' = Objs
      BY <2>1, <1>10, <1>13, CallParts
    <3>2. /\ \A r, d \in Procs : DoDec(r, d) \in Issued' <=>
               DoDec(r, d) \in Issued \/ (d = k /\ ((TRUE /\ r = Parent(k)) \/ (TRUE /\ r = k)))
          /\ \A r, d \in Procs : DoInc(r, d) \in Issued' <=> DoInc(r, d) \in Issued
      BY <3>1, <1>0, CountCalls
    <3>3. \A o \in Objs' : ~Drops(o.msg, k)
      BY <3>1, <1>6
    <3>4. DoDec(Parent(k), k) \in Issued' /\ DoDec(k, k) \in Issued'
      BY <3>1, <1>0
    <3>5. DropStep(k, TRUE, TRUE)
      BY <2>1, <3>1, <3>2, <3>3, <3>4, <1>2, <1>4, <1>14, <1>15, <1>16 DEF DropStep, Known
    <3> QED BY <3>5
  <2>2. CASE ~Known(k)
    <3>1. Issued' = Issued /\ Objs' = Objs \cup {o0}
      BY <2>2, <1>10, <1>13, CallParts
    <3>2. DropFlags(o0)'
      BY <3>1, <1>4, <1>8 DEF DropFlags, NoDec
    <3>3. \A o \in Objs' : Drops(o.msg, k) => o = o0
      BY <3>1, <1>6
    <3>4. \A o \in Objs' : Drops(o.msg, k) =>
            /\ ToDrop(o) /\ o.msg.key = k
            /\ DropFlags(o)'
            /\ o.msg.type = "exit" => o.msg \in received'
            /\ o.msg.type = "cleanup" => o.msg = CleanupMsg(k) /\ \E j \in Keys : Replaced(j, k)
      BY <3>2, <3>3, <1>4, <1>8
    <3>5. \A o \in Objs' : ~Drops(o.msg, k) => o \in Objs
      BY <3>1, <1>8
    <3>6. \E o \in Objs' : Drops(o.msg, k)
      BY <3>1, <1>8
    <3>7. DropStep(k, FALSE, FALSE)
      BY <3>1, <3>4, <3>5, <3>6, <1>2, <1>4, <1>14, <1>15, <1>16 DEF DropStep
    <3> QED BY <3>7
  <2> QED BY <2>1, <2>2
<1>18. /\ MsgOK' /\ SentOK' /\ SourceOK' /\ BornOK' /\ FlagOK' /\ CleanupOK' /\ RaisedOK'
       /\ GivenUpOK' /\ CachedOK' /\ HandledOK' /\ \A q : Gone(q) => Gone(q)'
  BY <1>5, <1>17, DropOK
<1>19. NothingUnsettled'
  BY <1>2 DEF CInv, NothingUnsettled
<1>20. CountOK'
  <2>1. \A x \in Elems(s) : x.op \in {"inc", "dec"} => x \notin Issued
    BY <1>4, <1>10, CallParts DEF NoDec
  <2>2. PendCalls' \subseteq PendCalls \cup Elems(s)
    BY <1>11
  <2> QED BY <2>1, <2>2, <1>1, <1>2, CountsSame
<1>21. /\ \A j \in Goroutines : prog[j] = << >> => prog'[j] = << >>
       /\ \A q : LoopAdds(q) => LoopAdds(q)'
  <2>1. prog'[g] = s \o Tail(prog[g]) /\ \A j \in Goroutines \ {g} : prog'[j] = prog[j]
    BY <1>2, <1>10 DEF TypeOK
  <2>2. Tail(prog[g]) \in Seq(Calls)
    BY <1>1, <1>3, HeadTailProperties
  <2>3. Elems(s \o Tail(prog[g])) = Elems(s) \cup Elems(Tail(prog[g]))
    <3>1. s \in Seq(Calls)
      OBVIOUS
    <3>2. PICK r : r = Tail(prog[g])
      OBVIOUS
    <3>3. r \in Seq(Calls)
      BY <3>2, <2>2
    <3>4. Elems(s \o r) = Elems(s) \cup Elems(r)
      BY ONLY <3>1, <3>3, ConcatElems
    <3> QED BY <3>2, <3>4
  <2>4. Elems(prog[g]) = {h} \cup Elems(Tail(prog[g]))
    BY <1>0, <1>1, <1>3, TailElems
  <2>5. \A x \in Elems(prog[g]) : x.op = "add" => x \in Elems(prog'[g])
    BY <2>1, <2>3, <2>4, <1>1
  <2> QED BY <2>1, <2>5, <1>1, KeyFacts DEF LoopAdds
<1>22. StartOK'
  <2>1. \A x \in PendCalls' : x.op = "notify" => x.msg \in received'
    BY <1>2, <1>10, <1>11, <1>16, CallParts DEF StartOK
  <2>2. \A x \in Sends' : x.obj.color = 0
    BY <1>2, <1>8, <1>10, <1>11, CallParts DEF StartOK, Sends
  <2>3. \A j, c : Replaced(j, c)' <=> Replaced(j, c)
    BY <1>16 DEF Replaced
  <2>4. \A j \in Keys : prog'[j] # << >> => \E c \in Procs : Replaced(j, c)'
    BY <2>3, <1>2, <1>21, KeyFacts DEF StartOK
  <2>5. \A x \in Tasks : x.op = "go" => x.key \in Goroutines
    BY <1>2, PendingOnce, CallFields, KeyFacts
  <2>6. \A x \in Tasks' : x.op = "go" => prog'[x.key] = << >>
    BY <2>5, <1>2, <1>14, <1>21 DEF StartOK
  <2>7. \A o \in Objs : o.msg.type = "exec" => o.msg.key \in Goroutines
    BY <1>2, PendingOnce, ObjFields, MsgFields, KeyFacts
  <2>8. \A o \in Objs' : o.msg.type = "exec" => o \in Objs
    BY <1>8, <1>10, <1>13, CallParts
  <2>9. \A o \in Objs' : o.msg.type = "exec" => prog'[o.msg.key] = << >>
    BY <2>7, <2>8, <1>2, <1>21 DEF StartOK
  <2> QED BY <2>1, <2>2, <2>4, <2>6, <2>9 DEF StartOK
<1>23. WalkOK'
  <2>1. \A q \in Keys : Fixed(q) => Fixed(q)'
    BY <1>2, <1>18, <1>21 DEF Fixed
  <2> QED BY <2>1, <1>2, <1>16, KeepsWalk DEF CInv
<1> QED BY <1>11, <1>18, <1>19, <1>20, <1>22, <1>23 DEF CInv

\* The start of a cleanup goroutine keeps the invariant.
LEMMA GoCounts ==
  ASSUME CInv, IInv', NEW g \in Goroutines, StepGo(g),
         UNCHANGED <<kernelVars, wire, podKnown, received>>
  PROVE  CInv'
<1>0. PICK h, j, old : h = Head(prog[g]) /\ j = h.key /\ old = h.old
  OBVIOUS
<1>1. /\ prog[g] # << >> /\ h.op = "go"
      /\ UNCHANGED <<absVars, object, ecVars, notified, counted>>
  BY <1>0 DEF StepGo, At, Idle
<1>2. /\ IInv /\ TypeOK /\ PlaceOK /\ MsgOK /\ SentOK /\ SourceOK /\ BornOK /\ StartOK /\ CountOK
      /\ UNCHANGED <<waiting, walk, unsettled, nextKey, lost, born, cache, refcnt>>
  BY <1>1 DEF CInv, IInv, ecVars, kernelVars, absVars
<1>3. h \in PendCalls /\ h \in Tasks /\ h \in Calls /\ prog[g] \in Seq(Calls)
  <2>1. prog[g] \in Seq(Calls)
    BY <1>2 DEF TypeOK
  <2>2. h \in Elems(prog[g]) /\ h \in Calls
    BY <2>1, <1>0, <1>1, ElemTypes
  <2> QED BY <2>1, <2>2, <1>1 DEF PendCalls, Tasks
<1>4. j \in Keys /\ j \in Procs /\ old \in Procs /\ Replaced(j, old) /\ prog[j] = << >> /\ CleansUp(old)
  BY <1>0, <1>1, <1>2, <1>3, CallFields, KeyFacts DEF SourceOK, StartOK, CleansUp
<1>5. /\ PlaceOK' /\ j # g
      /\ prog'[g] = Tail(prog[g]) /\ prog'[j] # << >>
      /\ \A k \in Goroutines \ {g, j} : prog'[k] = prog[k]
      /\ PendCalls' = (PendCalls \ {h}) \cup {DoCleanup(old)}
      /\ Objs' = Objs /\ Issued' = Issued
      /\ Tasks' = (Tasks \ {h}) \cup {DoCleanup(old)}
  BY <1>0, <1>2, <1>4, GoEffect
<1>6. DoCleanup(old).op = "cleanup" /\ DoCleanup(old).key = old
  BY CallParts
<1>7. /\ \A d : Adds(d)' <=> Adds(d)
      /\ \A d : CleansUp(d)' <=> CleansUp(d)
      /\ \A d : NoInc(d)' <=> NoInc(d)
      /\ \A d : NoDec(d)' <=> NoDec(d)
      /\ \A d : Parent(d)' = Parent(d)
  <2>1. \A d : Adds(d)' <=> Adds(d)
    BY <1>1, <1>5, <1>6 DEF Adds
  <2>2. \A d : CleansUp(d)' => CleansUp(d)
    BY <1>4, <1>5, <1>6 DEF CleansUp
  <2>3. \A d : CleansUp(d) => CleansUp(d)'
    BY <1>0, <1>1, <1>5, <1>6 DEF CleansUp
  <2> QED BY <2>1, <2>2, <2>3, <1>1, <1>5 DEF NoInc, NoDec, Parent
<1>8. /\ MsgOK' /\ SentOK' /\ Live' = Live /\ All' = All
      /\ \A c, p : Stems(c, p)' <=> Stems(c, p)
      /\ \A c : Dropped(c)' <=> Dropped(c)
      /\ \A k, c : Replaced(k, c)' <=> Replaced(k, c)
  BY <1>2, SameMsgs
<1>9. SourceOK'
  BY <1>2, <1>5, <1>6, <1>7, <1>8 DEF SourceOK
<1>10. BornOK'
  BY <1>2, <1>5, <1>6, <1>7, <1>8 DEF BornOK
<1>11. FlagOK' /\ RaisedOK'
  BY <1>2, <1>5, <1>7 DEF CInv, FlagOK, RaisedOK, Open, ToDrop
<1>12. CleanupOK'
  <2>1. NoDec(old)
    BY <1>0, <1>1, <1>3 DEF CInv, CleanupOK
  <2> QED BY <2>1, <1>5, <1>6, <1>7 DEF CInv, CleanupOK
<1>13. \A q : Gone(q)' <=> Gone(q)
  BY <1>2, <1>5, <1>7 DEF Gone, Dead, Creates, Open
<1>14. GivenUpOK'
  BY <1>2, <1>5, <1>13 DEF CInv, GivenUpOK, Origin, ExecParent
<1>15. CachedOK'
  BY <1>2, <1>5, <1>7, <1>8
     DEF CInv, CachedOK, LiveCached, InTime, Creates, Drops, Origin, ExecParent, Open
<1>16. HandledOK' /\ NothingUnsettled'
  BY <1>2, <1>5, <1>7 DEF CInv, HandledOK, NothingUnsettled, Creates, Drops, Open
<1>17. CountOK'
  <2>0. PICK S : S = {DoCleanup(old)}
    OBVIOUS
  <2>1. \A x \in S : x.op \in {"inc", "dec"} => x \notin Issued
    BY <2>0, <1>6
  <2>2. PendCalls' \subseteq PendCalls \cup S
    BY <2>0, <1>5
  <2> QED BY <2>1, <2>2, <1>1, <1>2, CountsSame
<1>18. StartOK'
  <2>1. \A x \in PendCalls' : x.op = "notify" => x.msg \in received'
    BY <1>2, <1>5, <1>6 DEF StartOK
  <2>2. \A x \in Sends' : x.obj.color = 0
    BY <1>2, <1>5, <1>6 DEF StartOK, Sends
  <2>3. ASSUME NEW k \in Keys, prog'[k] # << >>
        PROVE  \E c \in Procs : Replaced(k, c)'
    <3>1. CASE k = j
      BY <3>1, <1>4, <1>8
    <3>2. CASE k # j
      BY <3>2, <2>3, <1>1, <1>2, <1>5, <1>8, KeyFacts DEF StartOK
    <3> QED BY <3>1, <3>2
  <2>4. ASSUME NEW x \in Tasks, x.op = "go", x # h
        PROVE  prog'[x.key] = << >>
    <3>1. x.key \in Keys /\ x.old \in Procs /\ prog[x.key] = << >> /\ Replaced(x.key, x.old)
      BY <2>4, <1>2, PendingOnce, CallFields DEF StartOK, SourceOK
    <3>2. x.key # g
      BY <3>1, <1>1
    <3>3. x.key # j
      <4> SUFFICES ASSUME x.key = j
                   PROVE  FALSE
        OBVIOUS
      <4>1. x.old = old
        BY <3>1, <1>2, <1>4, Origins
      <4> QED BY <4>1, <2>4, <1>0, <1>1, <1>3, <1>4, OneDrop
    <3> QED BY <3>1, <3>2, <3>3, <1>5, KeyFacts
  <2>5. \A x \in Tasks' : x.op = "go" => prog'[x.key] = << >>
    BY <2>4, <1>5, <1>6
  <2>6. ASSUME NEW o \in Objs, o.msg.type = "exec"
        PROVE  prog'[o.msg.key] = << >>
    <3>1. /\ o.msg.key \in Keys /\ o.msg.cleanup \in Procs /\ prog[o.msg.key] = << >>
          /\ o.msg \in received /\ ~CleansUp(o.msg.cleanup)
      BY <2>6, <1>2, PendingOnce, ObjFields, MsgFields DEF StartOK, SourceOK, CInv, FlagOK
    <3>2. o.msg.key # g
      BY <3>1, <1>1
    <3>3. o.msg.key # j
      <4> SUFFICES ASSUME o.msg.key = j
                   PROVE  FALSE
        OBVIOUS
      <4>1. Replaced(j, o.msg.cleanup)
        BY <2>6, <3>1 DEF Replaced
      <4>2. o.msg.cleanup = old
        BY <3>1, <4>1, <1>2, <1>4, Origins
      <4> QED BY <3>1, <4>2, <1>4
    <3> QED BY <3>1, <3>2, <3>3, <1>5, KeyFacts
  <2> QED BY <2>1, <2>2, <2>3, <2>5, <2>6, <1>5 DEF StartOK
<1>19. WalkOK'
  <2>1. Elems(prog[g]) = {h} \cup Elems(prog'[g])
    BY <1>0, <1>1, <1>3, <1>5, TailElems
  <2>2. \A q : LoopAdds(q) => LoopAdds(q)'
    BY <2>1, <1>1, <1>4, <1>5, KeyFacts DEF LoopAdds
  <2>3. \A q \in Keys : Fixed(q) => Fixed(q)'
    BY <2>2, <1>2, <1>13 DEF Fixed
  <2> QED BY <2>3, <1>2, <1>8, KeepsWalk DEF CInv
<1> QED BY <1>5, <1>8, <1>9, <1>10, <1>11, <1>12, <1>14, <1>15, <1>16, <1>17, <1>18, <1>19
        DEF CInv

\* Every call keeps the invariant.
LEMMA CallCounts ==
  ASSUME CInv, IInv', NEW g \in Goroutines, Step(g)
  PROVE  CInv'
BY CountCounts, AddCounts, EnqueueCounts, NotifyCounts, CleanupCounts, GoCounts DEF Step

-----------------------------------------------------------------------------
(***************************************************************************)
(* The event cache starts a walk.                                          *)
(***************************************************************************)

\* When all is quiet, what is pending waits in the event cache.
LEMMA QuietFacts ==
  ASSUME Quiet
  PROVE  PendCalls = {} /\ Tasks = {} /\ Sends = {} /\ Objs = Elems(waiting) \cup Elems(walk)
<1>1. \A g \in Goroutines : Elems(prog[g]) = {}
  BY NoElems DEF Quiet, Idle
<1>2. PendCalls = {}
  BY <1>1 DEF PendCalls
<1>3. Tasks = {} /\ Sends = {}
  BY <1>2 DEF Tasks, Sends
<1>4. {x.obj : x \in Sends} = {}
  BY <1>3
<1> QED BY <1>2, <1>3, <1>4 DEF Objs

\* The key of an object was handed out.
LEMMA ObjKeys ==
  ASSUME CInv, NEW o \in Objs
  PROVE  /\ o \in CacheObjs /\ o.msg \in Msgs /\ o.msg.key \in Procs /\ o.msg.key < nextKey
         /\ o.msg.type # "cleanup" => o.msg \in received /\ o.msg \in All /\ o.msg.key \in Keys
<1>1. /\ IInv /\ TypeOK /\ MsgOK /\ SourceOK /\ o \in CacheObjs /\ o.msg \in Msgs
      /\ o.msg.key \in Procs /\ received \subseteq All
  BY PendingOnce, ObjFields, MsgFields DEF CInv, IInv, All
<1>2. CASE o.msg.type # "cleanup"
  <2>1. o.msg \in received
    BY <1>1, <1>2 DEF SourceOK
  <2> QED BY <2>1, <1>1, AllMsgs DEF IInv, WireOK
<1>3. CASE o.msg.type = "cleanup"
  <2>1. o.msg = CleanupMsg(o.msg.key)
    BY <1>1, <1>3, CleanupMsgs
  <2>2. CleansUp(o.msg.key)
    BY <2>1 DEF CleansUp
  <2> QED BY <2>2, <1>1, <1>3, Origins DEF SourceOK
<1> QED BY <1>2, <1>3

\* When all is quiet before a walk, a key that was handed out is known, waits, or
\* is gone.
LEMMA AllTold ==
  ASSUME CInv, Quiet, walk = << >>, NEW q \in Keys, q < nextKey
  PROVE  q \in born \/ OpenIn(waiting, q) \/ (lost > 0 /\ Gone(q))
<1>1. /\ TypeOK /\ PendCalls = {} /\ Tasks = {} /\ Objs = Elems(waiting) /\ wire = {} /\ q \in Procs
      /\ lost \in Nat
  <2>1. TypeOK /\ lost \in Nat /\ q \in Procs /\ wire = {}
    BY KeyFacts, OptionsAssumption DEF Quiet, CInv, IInv, TypeOK
  <2>2. /\ PendCalls = {} /\ Tasks = {} /\ Objs = Elems(waiting) \cup Elems(walk)
        /\ Elems(walk) = {}
    BY QuietFacts, NoElems
  <2> QED BY <2>1, <2>2
<1>2. ~Adds(q)
  BY <1>1 DEF Adds
<1>3. CASE lost = 0
  <2>1. unsettled = {}
    BY <1>3 DEF CInv, NothingUnsettled
  <2>2. PICK m \in received : Creates(m, q)
    BY <1>1, <1>3 DEF CInv, SentOK, All
  <2>3. q \in born \/ \E o \in Objs : Open(o) /\ o.msg = m
    BY <1>1, <1>2, <2>1, <2>2 DEF CInv, HandledOK
  <2> QED BY <1>1, <2>2, <2>3 DEF OpenIn, Creates
<1>4. CASE lost > 0
  <2> SUFFICES ASSUME q \notin born, ~OpenIn(waiting, q)
               PROVE  Gone(q)
    BY <1>4
  <2>1. Dead({q})
    BY <1>1, <1>2 DEF Dead, OpenIn, TypeOK
  <2> QED BY <1>1, <2>1 DEF Gone
<1> QED BY <1>1, <1>3, <1>4

\* The start of a walk keeps the invariant.
LEMMA TickCounts ==
  ASSUME CInv, IInv', PodInTime, ecTick,
         UNCHANGED <<kernelVars, wire, podKnown, notified, received, counted>>
  PROVE  CInv'
<1>1. /\ walk = << >> /\ walk' = waiting /\ waiting' = << >> /\ prog' = prog
      /\ UNCHANGED <<born, cache, refcnt, object, unsettled, lost, nextKey>>
      /\ IInv /\ TypeOK /\ PlaceOK /\ StartOK /\ CountOK /\ MsgOK /\ SentOK
  BY DEF ecTick, CInv, IInv, ProgOK, absVars, kernelVars
<1>2. /\ PlaceOK' /\ PendCalls' = PendCalls
      /\ Objs' = Objs /\ Issued' = Issued /\ Tasks' = Tasks
  BY <1>1, TickEffect
<1>3. StartOK'
  BY <1>1, <1>2, StartKeeps
<1>4. CountOK'
  BY <1>1, <1>2 DEF CountOK, IncBy, DecBy
<1>5. /\ MsgOK' /\ SentOK' /\ SourceOK' /\ BornOK' /\ FlagOK' /\ CleanupOK' /\ RaisedOK'
      /\ GivenUpOK' /\ CachedOK' /\ HandledOK' /\ NothingUnsettled'
  BY <1>1, <1>2, LeavesAll DEF CInv
<1>6. /\ Elems(walk') = Elems(waiting) /\ Elems(waiting') = {} /\ Elems(walk) = {}
      /\ \A q : ~OpenIn(walk, q)
  BY <1>1, NoElems DEF OpenIn
<1>7. \A o \in Elems(waiting) : Walks(o) >= 0 => Quiet /\ (K8s => podKnown)
  <2> SUFFICES ASSUME NEW o \in Elems(waiting), Walks(o) >= 0
               PROVE  Quiet /\ (K8s => podKnown)
    OBVIOUS
  <2>1. o \in CacheObjs
    BY <1>1, ElemTypes DEF TypeOK
  <2>2. Urgent(o)
    BY <2>1, ObjFields, OptionsAssumption DEF Urgent, Walks
  <2>3. \E i \in DOMAIN waiting : Urgent(waiting[i])
    BY <2>2 DEF Elems
  <2> QED BY <2>3 DEF ecTick
<1>8. \A q : Fixed(q) => Fixed(q)'
  <2>1. \A q : Gone(q)' <=> Gone(q)
    BY <1>1, <1>2 DEF Gone, Dead, Adds, Creates, Open
  <2> QED BY <2>1, <1>1 DEF Fixed, LoopAdds
<1>9. \A rank \in Ranks : Valid(rank)' <=> Valid(rank)
  BY SameMsgs, <1>1 DEF Valid, Waits
<1>10. ASSUME NEW rank \in Ranks, Valid(rank), NEW o \in Elems(waiting), Walks(o) >= 0
       PROVE  Claim(rank, o.msg.key, Walks(o))'
  <2>1. PICK n, k : n = Walks(o) /\ k = o.msg.key
    OBVIOUS
  <2>2. /\ o \in Objs /\ o \in CacheObjs /\ k \in Procs /\ k < nextKey
    BY <2>1, ObjKeys DEF Objs
  <2>3. n \in Nat /\ Procs \subseteq Nat /\ nextKey \in Nat /\ \A q \in Procs : rank[q] \in Nat
    <3>1. o.color \in Nat /\ NumRetries \in Nat /\ Reserve \in Nat
      BY <2>2, ObjFields, OptionsAssumption
    <3>2. n \in Nat
      BY <3>1, <2>1, <1>10 DEF Walks
    <3>3. Procs \subseteq Nat /\ nextKey \in Nat
      BY <1>1, KeysAssumption DEF Keys, Root, TypeOK
    <3>4. \A q \in Procs : rank[q] \in Nat
      BY <3>1 DEF Ranks
    <3> QED BY <3>2, <3>3, <3>4
  <2>4. ASSUME NEW q \in Keys, q <= k
        PROVE  Fixed(q)' \/ (OpenIn(waiting, q) /\ rank[q] >= n)
    <3>1. CASE n = 0
      <4>1. q < nextKey /\ rank[q] >= 0
        BY <2>2, <2>3, <2>4, KeyFacts
      <4>2. q \in born \/ OpenIn(waiting, q) \/ (lost > 0 /\ Gone(q))
        BY <4>1, <2>1, <1>1, <1>7, <1>10, AllTold
      <4> QED BY <3>1, <4>1, <4>2, <1>8 DEF Fixed
    <3>2. CASE n # 0
      <4>1. Claim(rank, k, n - 1)
        BY <3>2, <2>1, <2>3, <1>10 DEF CInv, WalkOK
      <4>2. Fixed(q) \/ (OpenIn(waiting, q) /\ rank[q] >= (n - 1) + 1)
        BY <4>1, <2>4, <1>6 DEF Claim
      <4>3. (n - 1) + 1 = n
        BY <2>3
      <4> QED BY <4>2, <4>3, <1>8
    <3> QED BY <3>1, <3>2
  <2>5. \A q \in Keys : q <= k => Fixed(q)' \/ (OpenIn(walk', q) /\ rank[q] >= n)
    BY <2>4, <1>1
  <2>6. Claim(rank, k, n)'
    BY <2>5 DEF Claim, OpenIn, Open
  <2> QED BY <2>1, <2>6 DEF Walks, Claim
<1>11. WalkOK'
  BY <1>1, <1>6, <1>7, <1>9, <1>10 DEF WalkOK, Walks
<1> QED BY <1>2, <1>3, <1>4, <1>5, <1>11 DEF CInv

-----------------------------------------------------------------------------
(***************************************************************************)
(* The event cache retries an object.                                      *)
(***************************************************************************)

\* What waits for a process that is gone is gone.
LEMMA GoneToo ==
  ASSUME CInv, NEW o \in Objs, Open(o), Gone(o.msg.parent)
  PROVE  Gone(o.msg.key)
<1>0. PICK m, c, p : m = o.msg /\ c = m.key /\ p = m.parent
  OBVIOUS
<1>1. PICK G \in SUBSET Procs : p \in G /\ Dead(G)
  BY <1>0 DEF Gone
<1>2. /\ m.type = "clone" /\ m \in received /\ m \in All /\ c \in Procs /\ c < nextKey /\ Creates(m, c)
      /\ c \notin born /\ ~Adds(c) /\ received \subseteq All /\ wire \subseteq All
  BY <1>0, ObjKeys, KeyFacts DEF Open, CInv, FlagOK, Creates, All
<1>3. MsgOK /\ SourceOK /\ wire \cap received = {} /\ cache \subseteq born
  BY DEF CInv, IInv, WireOK, TypeOK
<1>4. \A n \in wire : ~Creates(n, c)
  BY <1>2, <1>3 DEF MsgOK
<1>5. \A u \in Objs : Open(u) /\ u.msg.key = c => u.msg.parent = p
  <2> SUFFICES ASSUME NEW u \in Objs, Open(u), u.msg.key = c
               PROVE  u.msg.parent = p
    OBVIOUS
  <2>1. u.msg \in received /\ Creates(u.msg, c)
    BY <1>3 DEF Open, SourceOK, Creates
  <2>2. u.msg = m
    BY <2>1, <1>2, <1>3 DEF MsgOK
  <2> QED BY <2>2, <1>0
<1>6. Dead(G \cup {c})
  BY <1>1, <1>2, <1>3, <1>4, <1>5 DEF Dead
<1>7. (G \cup {c}) \in SUBSET Procs
  BY <1>2
<1> QED BY <1>0, <1>6, <1>7 DEF Gone

\* At the last retry of an object, all that is older is known, or gone.
LEMMA LastChance ==
  ASSUME CInv, Shallow, NEW o \in Elems(walk), LastTry(o), prog[Loop] = << >>
  PROVE  /\ K8s => podKnown
         /\ \A q \in Keys : q <= o.msg.key => q \in born \/ (lost > 0 /\ Gone(q))
<1>1. PICK rank \in Ranks : Valid(rank)
  BY DEF Shallow
<1>2. o \in CacheObjs /\ TypeOK
  BY ElemTypes DEF CInv, IInv, TypeOK
<1>3. Walks(o) = Reserve - 1 /\ Walks(o) >= 0 /\ Reserve \in Nat
  BY <1>2, ObjFields, OptionsAssumption DEF Walks, LastTry
<1>4. (K8s => podKnown) /\ Claim(rank, o.msg.key, Walks(o))
  BY <1>1, <1>3 DEF CInv, WalkOK
<1>5. ASSUME NEW u \in Elems(walk) \cup Elems(waiting), Open(u)
      PROVE  u.msg.key \in Procs /\ rank[u.msg.key] \in Nat /\ rank[u.msg.key] + 1 < Reserve
  <2>1. u \in Objs
    BY DEF Objs
  <2>2. u.msg \in All /\ u.msg.key \in Procs
    BY <2>1, <1>5, ObjKeys DEF Open
  <2>3. Waits(u.msg)
    BY <2>1, <1>5 DEF CInv, FlagOK, Open, Waits
  <2> QED BY <2>2, <2>3, <1>1, <1>3 DEF Valid, Ranks
<1>6. ASSUME NEW q \in Keys, q <= o.msg.key
      PROVE  q \in born \/ (lost > 0 /\ Gone(q))
  <2>1. ~LoopAdds(q)
    BY NoElems DEF LoopAdds
  <2>2. ~(OpenIn(walk, q) /\ rank[q] >= Reserve - 1)
    BY <1>3, <1>5 DEF OpenIn
  <2>3. ~(OpenIn(waiting, q) /\ rank[q] >= Reserve - 1 + 1)
    BY <1>3, <1>5 DEF OpenIn
  <2> QED BY <2>1, <2>2, <2>3, <1>3, <1>4, <1>6 DEF Claim, Fixed
<1> QED BY <1>4, <1>6

\* What a retry leaves alone.
RetryFrame ==
  /\ UNCHANGED <<kernelVars, wire, received, born, cache>>
  /\ \A d \in Procs : Parent(d)' = Parent(d)

\* An object is retried again later, or was complete.
Same(u, v) ==
  /\ u.msg = v.msg /\ u.internal = v.internal
  /\ u.parentDone = v.parentDone /\ u.procDone = v.procDone

\* A retry that makes no call keeps the parts of the invariant.
LEMMA TriedAgain ==
  ASSUME CInv, RetryFrame, Issued' = Issued, Tasks' = Tasks, unsettled' = unsettled,
         \A u \in Objs' : \E v \in Objs : Same(u, v),
         \A v \in Objs : (v.msg.type = "clone" /\ v.internal) \/ \E u \in Objs' : Same(u, v)
  PROVE  /\ MsgOK' /\ SentOK' /\ SourceOK' /\ BornOK' /\ FlagOK' /\ CleanupOK' /\ RaisedOK'
         /\ GivenUpOK' /\ CachedOK' /\ HandledOK' /\ NothingUnsettled'
         /\ \A q : Gone(q) => Gone(q)'
<1>1. /\ IInv /\ TypeOK /\ MsgOK /\ SentOK /\ SourceOK /\ BornOK /\ Tasks \subseteq Calls
      /\ Objs \subseteq CacheObjs /\ \A d \in Procs : Parent(d) \in Procs
      /\ UNCHANGED <<born, cache, lost, nextKey, received, wire>>
      /\ \A d \in Procs : Parent(d)' = Parent(d)
  BY PendingOnce, ParentIn DEF CInv, IInv, RetryFrame, kernelVars
<1>2. /\ MsgOK' /\ SentOK' /\ Live' = Live
      /\ \A c, p : Stems(c, p)' <=> Stems(c, p)
      /\ \A c : Dropped(c)' <=> Dropped(c)
      /\ \A k, c : Replaced(k, c)' <=> Replaced(k, c)
  BY <1>1, SameMsgs DEF RetryFrame
<1>3. \A u, v : Same(u, v) => /\ u.msg = v.msg /\ (Open(u) <=> Open(v))
                              /\ (ToDrop(u) <=> ToDrop(v))
  BY DEF Same, Open, ToDrop
<1>4. /\ \A d : Adds(d)' <=> Adds(d)
      /\ \A d : CleansUp(d)' <=> CleansUp(d)
      /\ \A d : NoInc(d)' <=> NoInc(d)
      /\ \A d : NoDec(d)' <=> NoDec(d)
  <2>1. \A d : CleanupMsg(d).type # "clone"
    BY CleanupMsgs
  <2>2. \A d : CleansUp(d)' => CleansUp(d)
    BY <1>3 DEF CleansUp
  <2>3. \A d : CleansUp(d) => CleansUp(d)'
    BY <2>1, <1>3 DEF CleansUp
  <2> QED BY <2>2, <2>3 DEF Adds, NoInc, NoDec
<1>5. SourceOK' /\ CleanupOK'
  BY <1>1, <1>2, <1>3, <1>4 DEF CInv, SourceOK, CleanupOK
<1>6. BornOK'
  <2>1. ASSUME NEW d \in born' \ {Root}
        PROVE  Stems(d, Parent(d))'
    <3>1. PICK r : r = Parent(d)'
      OBVIOUS
    <3>2. d \in Procs /\ r = Parent(d)
      BY <3>1, <1>1 DEF TypeOK
    <3>3. Stems(d, r)'
      BY <3>2, <1>1, <1>2 DEF BornOK
    <3> QED BY <3>1, <3>3 DEF Stems
  <2> QED BY <2>1, <1>1, <1>2, <1>4 DEF BornOK
<1>7. FlagOK'
  <2> SUFFICES ASSUME NEW u \in Objs', NEW d, d = u.msg.key
               PROVE  /\ Open(u) => d \notin born' /\ NoInc(d)' /\ ~Adds(d)' /\ u.msg.parent # Root
                      /\ u.msg.type = "exec" =>
                           /\ d \in born' /\ ~u.parentDone /\ NoInc(d)'
                           /\ NoDec(u.msg.cleanup)' /\ ~CleansUp(u.msg.cleanup)'
                      /\ ToDrop(u) => DropFlags(u)'
    BY DEF FlagOK, Open, ToDrop, DropFlags
  <2>1. PICK v \in Objs : Same(u, v)
    OBVIOUS
  <2>2. /\ Open(v) => d \notin born /\ NoInc(d) /\ ~Adds(d) /\ v.msg.parent # Root
        /\ v.msg.type = "exec" =>
             /\ d \in born /\ ~v.parentDone /\ NoInc(d)
             /\ NoDec(v.msg.cleanup) /\ ~CleansUp(v.msg.cleanup)
        /\ ToDrop(v) => DropFlags(v)
    BY <2>1 DEF CInv, FlagOK, DropFlags, Same
  <2>3. d \in Procs /\ Parent(d)' = Parent(d)
    BY <2>1, <1>1, ObjFields, MsgFields DEF Same
  <2>4. DropFlags(v) => DropFlags(u)'
    BY <2>1, <2>3 DEF DropFlags, Same
  <2> QED BY <2>1, <2>2, <2>4, <1>1, <1>3, <1>4 DEF Same
<1>8. RaisedOK'
  <2> SUFFICES ASSUME NEW d \in born \ {Root}
               PROVE  \/ DoInc(Parent(d)', d) \in Issued'
                      \/ \E u \in Objs' : u.msg.type = "exec" /\ u.msg.key = d
                      \/ \E n \in unsettled' : n.type = "exec" /\ n.key = d
    BY <1>1 DEF RaisedOK
  <2>1. Parent(d)' = Parent(d)
    BY <1>1 DEF TypeOK
  <2>2. (\E v \in Objs : v.msg.type = "exec" /\ v.msg.key = d)
          => \E u \in Objs' : u.msg.type = "exec" /\ u.msg.key = d
    BY <1>3
  <2> QED BY <2>1, <2>2 DEF CInv, RaisedOK
<1>9. \A q : Gone(q) => Gone(q)'
  <2> SUFFICES ASSUME NEW q, Gone(q)
               PROVE  Gone(q)'
    OBVIOUS
  <2>1. PICK G \in SUBSET Procs : q \in G /\ Dead(G)
    BY DEF Gone
  <2>2. \A r \in G : \A u \in Objs' : Open(u) /\ u.msg.key = r => u.msg.parent \in G
    BY <2>1, <1>3 DEF Dead
  <2>3. Dead(G)'
    BY <2>1, <2>2, <1>1, <1>4 DEF Dead, Creates, Open
  <2> QED BY <2>1, <2>3 DEF Gone
<1>10. GivenUpOK'
  BY <1>1, <1>9 DEF CInv, GivenUpOK, Origin, ExecParent
<1>11. CachedOK'
  <2>1. \A d : InTime(d)' <=> InTime(d)
    BY <1>1 DEF InTime
  <2>2. LiveCached'
    BY <1>1, <1>2 DEF CInv, CachedOK, LiveCached
  <2>3. \A u \in Objs' : /\ Open(u) \/ u.msg.type = "exec" => InTime(Origin(u.msg))
                         /\ \A d \in Procs : Drops(u.msg, d) => InTime(d)
    <3> SUFFICES ASSUME NEW u \in Objs'
                 PROVE  /\ Open(u) \/ u.msg.type = "exec" => InTime(Origin(u.msg))
                        /\ \A d \in Procs : Drops(u.msg, d) => InTime(d)
      OBVIOUS
    <3>1. PICK v \in Objs : Same(u, v)
      OBVIOUS
    <3> QED BY <3>1, <1>3 DEF CInv, CachedOK
  <2> QED BY <2>1, <2>2, <2>3, <1>1, <1>4
          DEF CInv, CachedOK, Creates, Drops, Origin, ExecParent, Open
<1>12. HandledOK' /\ NothingUnsettled'
  <2>1. NothingUnsettled'
    BY <1>1 DEF CInv, NothingUnsettled
  <2> SUFFICES ASSUME unsettled = {}, NEW n \in received, NEW d \in Procs
               PROVE  /\ Creates(n, d) => \/ d \in born' \/ Adds(d)'
                                          \/ \E u \in Objs' : Open(u) /\ u.msg = n
                      /\ Drops(n, d) => \/ DoDec(Parent(d)', d) \in Issued' /\ DoDec(d, d) \in Issued'
                                        \/ \E u \in Objs' : Drops(u.msg, d)
                                        \/ CleansUp(d)'
    BY <2>1, <1>1 DEF HandledOK, Creates, Drops, Open
  <2>2. /\ Creates(n, d) => \/ d \in born \/ Adds(d)
                            \/ \E v \in Objs : Open(v) /\ v.msg = n
        /\ Drops(n, d) => \/ DoDec(Parent(d), d) \in Issued /\ DoDec(d, d) \in Issued
                          \/ \E v \in Objs : Drops(v.msg, d)
                          \/ CleansUp(d)
    BY DEF CInv, HandledOK
  <2>3. (\E v \in Objs : Open(v) /\ v.msg = n) => \E u \in Objs' : Open(u) /\ u.msg = n
    BY <1>3 DEF Open
  <2>4. (\E v \in Objs : Drops(v.msg, d)) => \E u \in Objs' : Drops(u.msg, d)
    BY <1>3 DEF Drops
  <2> QED BY <2>2, <2>3, <2>4, <1>1, <1>4
<1> QED BY <1>2, <1>5, <1>6, <1>7, <1>8, <1>9, <1>10, <1>11, <1>12

\* The objects of a new process, and its parent.
LEMMA OneCreate ==
  ASSUME CInv, NEW o \in Objs, Open(o) \/ o.msg.type = "exec"
  PROVE  /\ o.msg \in received /\ o.msg \in All /\ o.msg.key \in Keys /\ o.msg.key \in Procs
         /\ Creates(o.msg, o.msg.key)
         /\ \A d : Creates(o.msg, d) <=> d = o.msg.key
         /\ Stems(o.msg.key, Origin(o.msg)) /\ Origin(o.msg) \in Procs /\ Origin(o.msg) < o.msg.key
         /\ \A u \in Objs : Open(u) \/ u.msg.type = "exec" =>
              /\ u.msg.key = o.msg.key => u = o
              /\ o.msg.type = "exec" /\ u.msg.type = "exec" /\ u.msg.cleanup = o.msg.cleanup => u = o
         /\ o.msg.type = "exec" =>
              /\ Parent(o.msg.key) = Origin(o.msg)
              /\ o.msg.cleanup \in Keys /\ o.msg.cleanup \in Procs
              /\ Drops(o.msg, o.msg.cleanup) /\ \A d : Drops(o.msg, d) <=> d = o.msg.cleanup
         /\ o.msg.type = "clone" => \A d : ~Drops(o.msg, d)
<1>1. /\ IInv /\ MsgOK /\ TypeOK /\ BornOK /\ received \subseteq All
      /\ o.msg \in received /\ o.msg \in All /\ o.msg.key \in Keys /\ o.msg.key \in Procs
  BY ObjKeys DEF CInv, IInv, Open, All
<1>2. Creates(o.msg, o.msg.key) /\ \A d : Creates(o.msg, d) <=> d = o.msg.key
  BY DEF Creates, Open
<1>3. Stems(o.msg.key, Origin(o.msg)) /\ Origin(o.msg) \in Procs /\ Origin(o.msg) < o.msg.key
  BY <1>1, <1>2 DEF Stems, MsgOK
<1>4. ASSUME NEW u \in Objs, Open(u) \/ u.msg.type = "exec"
      PROVE  /\ u.msg.key = o.msg.key => u = o
             /\ o.msg.type = "exec" /\ u.msg.type = "exec" /\ u.msg.cleanup = o.msg.cleanup => u = o
  <2>1. u.msg \in All /\ Creates(u.msg, u.msg.key) /\ u.msg.key \in Procs
    BY <1>4, ObjKeys DEF Open, Creates
  <2>2. \A v \in Objs : v.msg = u.msg => v = u
    BY <1>1, PendingOnce DEF CInv
  <2>3. u.msg.key = o.msg.key => u.msg = o.msg
    BY <2>1, <1>1, <1>2 DEF MsgOK
  <2>4. o.msg.type = "exec" /\ u.msg.type = "exec" /\ u.msg.cleanup = o.msg.cleanup =>
          /\ u.msg.cleanup \in Procs /\ Drops(u.msg, u.msg.cleanup)
          /\ Drops(o.msg, u.msg.cleanup)
    BY <2>1, <1>1, KeyFacts DEF MsgOK, Drops
  <2>5. o.msg.type = "exec" /\ u.msg.type = "exec" /\ u.msg.cleanup = o.msg.cleanup => u.msg = o.msg
    BY <2>1, <2>4, <1>1 DEF MsgOK
  <2> QED BY <2>2, <2>3, <2>5
<1>5. ASSUME o.msg.type = "exec"
      PROVE  /\ Parent(o.msg.key) = Origin(o.msg)
             /\ o.msg.cleanup \in Keys /\ o.msg.cleanup \in Procs
             /\ Drops(o.msg, o.msg.cleanup) /\ \A d : Drops(o.msg, d) <=> d = o.msg.cleanup
  <2>1. o.msg.key \in born \ {Root}
    BY <1>1, <1>5, KeyFacts, KeysAssumption DEF CInv, FlagOK, Keys, Root
  <2>2. Stems(o.msg.key, Parent(o.msg.key))
    BY <2>1, <1>1 DEF BornOK
  <2>3. Parent(o.msg.key) = Origin(o.msg)
    BY <2>2, <1>1, <1>3, Origins
  <2> QED BY <2>3, <1>1, <1>5, KeyFacts DEF MsgOK, Drops
<1>6. o.msg.type = "clone" => \A d : ~Drops(o.msg, d)
  BY DEF Drops
<1> QED BY <1>1, <1>2, <1>3, <1>4, <1>5, <1>6

\* A new process is given up: its parent is not known and never will be.
LEMMA GivesUp ==
  ASSUME CInv, RetryFrame, NEW o \in Objs, Issued' = Issued, Tasks' = Tasks,
         Objs' = Objs \ {o}, unsettled' = unsettled \cup {o.msg}, lost > 0,
         \/ Open(o)
         \/ o.msg.type = "exec" /\ Gone(Origin(o.msg)) /\ DoDec(Origin(o.msg), o.msg.key) \notin Issued
  PROVE  /\ MsgOK' /\ SentOK' /\ SourceOK' /\ BornOK' /\ FlagOK' /\ CleanupOK' /\ RaisedOK'
         /\ GivenUpOK' /\ CachedOK' /\ HandledOK' /\ NothingUnsettled'
         /\ \A q : Gone(q) => Gone(q)'
<1>1. /\ IInv /\ TypeOK /\ MsgOK /\ SentOK /\ SourceOK /\ BornOK /\ Tasks \subseteq Calls
      /\ Objs \subseteq CacheObjs /\ \A d \in Procs : Parent(d) \in Procs
      /\ UNCHANGED <<born, cache, lost, nextKey, received, wire>>
      /\ \A d \in Procs : Parent(d)' = Parent(d)
  BY PendingOnce, ParentIn DEF CInv, IInv, RetryFrame, kernelVars
<1>2. /\ MsgOK' /\ SentOK' /\ Live' = Live
      /\ \A c, p : Stems(c, p)' <=> Stems(c, p)
      /\ \A c : Dropped(c)' <=> Dropped(c)
      /\ \A k, c : Replaced(k, c)' <=> Replaced(k, c)
  BY <1>1, SameMsgs DEF RetryFrame
<1>3. o.msg \in received /\ Objs' \subseteq Objs /\ o.msg.type # "cleanup"
  BY OneCreate DEF Open
<1>4. /\ \A d : Adds(d)' <=> Adds(d)
      /\ \A d : CleansUp(d)' <=> CleansUp(d)
      /\ \A d : NoInc(d)' <=> NoInc(d)
      /\ \A d : NoDec(d)' <=> NoDec(d)
  <2>1. \A d : CleanupMsg(d) # o.msg
    BY <1>3, CleanupMsgs
  <2>2. \A d : CleansUp(d)' => CleansUp(d)
    BY <1>3 DEF CleansUp
  <2>3. \A d : CleansUp(d) => CleansUp(d)'
    BY <2>1 DEF CleansUp
  <2> QED BY <2>2, <2>3 DEF Adds, NoInc, NoDec
<1>5. SourceOK' /\ CleanupOK'
  BY <1>1, <1>2, <1>3, <1>4 DEF CInv, SourceOK, CleanupOK
<1>6. BornOK'
  <2>1. ASSUME NEW d \in born' \ {Root}
        PROVE  Stems(d, Parent(d))'
    <3>1. PICK r : r = Parent(d)'
      OBVIOUS
    <3>2. d \in Procs /\ r = Parent(d)
      BY <3>1, <1>1 DEF TypeOK
    <3>3. Stems(d, r)'
      BY <3>2, <1>1, <1>2 DEF BornOK
    <3> QED BY <3>1, <3>3 DEF Stems
  <2> QED BY <2>1, <1>1, <1>2, <1>4 DEF BornOK
<1>7. FlagOK'
  <2> SUFFICES ASSUME NEW u \in Objs', NEW d, d = u.msg.key
               PROVE  /\ Open(u) => d \notin born' /\ NoInc(d)' /\ ~Adds(d)' /\ u.msg.parent # Root
                      /\ u.msg.type = "exec" =>
                           /\ d \in born' /\ ~u.parentDone /\ NoInc(d)'
                           /\ NoDec(u.msg.cleanup)' /\ ~CleansUp(u.msg.cleanup)'
                      /\ ToDrop(u) => DropFlags(u)'
    BY DEF FlagOK, Open, ToDrop, DropFlags
  <2>1. u \in Objs
    BY <1>3
  <2>2. /\ Open(u) => d \notin born /\ NoInc(d) /\ ~Adds(d) /\ u.msg.parent # Root
        /\ u.msg.type = "exec" =>
             /\ d \in born /\ ~u.parentDone /\ NoInc(d)
             /\ NoDec(u.msg.cleanup) /\ ~CleansUp(u.msg.cleanup)
        /\ ToDrop(u) => DropFlags(u)
    BY <2>1 DEF CInv, FlagOK, DropFlags
  <2>3. d \in Procs /\ Parent(d)' = Parent(d)
    BY <2>1, <1>1, ObjFields, MsgFields
  <2>4. DropFlags(u) => DropFlags(u)'
    BY <2>3 DEF DropFlags
  <2> QED BY <2>2, <2>4, <1>1, <1>4
<1>8. RaisedOK'
  <2> SUFFICES ASSUME NEW d \in born \ {Root}
               PROVE  \/ DoInc(Parent(d)', d) \in Issued'
                      \/ \E u \in Objs' : u.msg.type = "exec" /\ u.msg.key = d
                      \/ \E n \in unsettled' : n.type = "exec" /\ n.key = d
    BY <1>1 DEF RaisedOK
  <2>1. Parent(d)' = Parent(d)
    BY <1>1 DEF TypeOK
  <2>2. (\E v \in Objs : v.msg.type = "exec" /\ v.msg.key = d)
          => \/ \E u \in Objs' : u.msg.type = "exec" /\ u.msg.key = d
             \/ \E n \in unsettled' : n.type = "exec" /\ n.key = d
    OBVIOUS
  <2> QED BY <2>1, <2>2 DEF CInv, RaisedOK
<1>9. \A q : Gone(q) => Gone(q)'
  <2> SUFFICES ASSUME NEW q, Gone(q)
               PROVE  Gone(q)'
    OBVIOUS
  <2>1. PICK G \in SUBSET Procs : q \in G /\ Dead(G)
    BY DEF Gone
  <2>3. Dead(G)'
    BY <2>1, <1>1, <1>3, <1>4 DEF Dead, Creates, Open
  <2> QED BY <2>1, <2>3 DEF Gone
<1>10. GivenUpOK'
  <2>1. \A n \in unsettled' : n.type = "exec" =>
          n \in received /\ Gone(Origin(n)) /\ DoDec(Origin(n), n.key) \notin Issued
    BY <1>3 DEF CInv, GivenUpOK, Open
  <2> QED BY <2>1, <1>1, <1>9 DEF GivenUpOK, Origin, ExecParent
<1>11. CachedOK'
  <2>1. \A d : InTime(d)' <=> InTime(d)
    BY <1>1 DEF InTime
  <2>2. LiveCached'
    BY <1>1, <1>2 DEF CInv, CachedOK, LiveCached
  <2> QED BY <2>1, <2>2, <1>1, <1>3, <1>4
          DEF CInv, CachedOK, Creates, Drops, Origin, ExecParent, Open
<1>12. HandledOK' /\ NothingUnsettled'
  <2>1. unsettled' # {} /\ lost' # 0
    <3>1. lost \in Nat
      BY <1>1, OptionsAssumption DEF TypeOK
    <3> QED BY <3>1, <1>1
  <2> QED BY <2>1 DEF HandledOK, NothingUnsettled
<1> QED BY <1>2, <1>5, <1>6, <1>7, <1>8, <1>9, <1>10, <1>11, <1>12

\* A clone that waited finds its parent.
LEMMA CloneRetried ==
  ASSUME CInv, RetryFrame, NEW o \in Objs, Open(o),
         NEW p, p = o.msg.parent, NEW c, c = o.msg.key, p \in cache,
         NEW f \in Fields, f.parent = p,
         Issued' = Issued \cup {DoInc(p, c)}, Tasks' = Tasks \cup {DoAdd(c, f)},
         unsettled' = unsettled, Objs \ {o} \subseteq Objs',
         \A u \in Objs' : (u \in Objs /\ u # o) \/ (u.msg = o.msg /\ u.internal)
  PROVE  /\ MsgOK' /\ SentOK' /\ SourceOK' /\ BornOK' /\ FlagOK' /\ CleanupOK' /\ RaisedOK'
         /\ GivenUpOK' /\ CachedOK' /\ HandledOK' /\ NothingUnsettled'
         /\ \A q : Gone(q) => Gone(q)'
<1>1. /\ IInv /\ TypeOK /\ MsgOK /\ SentOK /\ SourceOK /\ BornOK /\ Tasks \subseteq Calls
      /\ Objs \subseteq CacheObjs /\ \A d \in Procs : Parent(d) \in Procs
      /\ UNCHANGED <<born, cache, lost, nextKey, received, wire>>
      /\ \A d \in Procs : Parent(d)' = Parent(d)
  BY PendingOnce, ParentIn DEF CInv, IInv, RetryFrame, kernelVars
<1>2. /\ MsgOK' /\ SentOK' /\ Live' = Live
      /\ \A d, r : Stems(d, r)' <=> Stems(d, r)
      /\ \A d : Dropped(d)' <=> Dropped(d)
      /\ \A k, d : Replaced(k, d)' <=> Replaced(k, d)
  BY <1>1, SameMsgs DEF RetryFrame
<1>3. /\ o.msg \in received /\ c \in Keys /\ c \in Procs /\ p \in Procs /\ p \in born /\ Stems(c, p)
      /\ o.msg.type = "clone" /\ \A d : Creates(o.msg, d) <=> d = c
      /\ \A d : ~Drops(o.msg, d) /\ CleanupMsg(d) # o.msg
      /\ \A u \in Objs : Open(u) \/ u.msg.type = "exec" => (u.msg.key = c => u = o)
  BY <1>1, OneCreate, CleanupMsgs DEF Open, Origin, TypeOK
<1>4. /\ NoInc(c) /\ ~Adds(c) /\ c \notin born /\ c # Root
  BY <1>3, KeysAssumption DEF CInv, FlagOK, Keys, Root
<1>5. \A u \in Objs' : (u \in Objs /\ u # o) \/
        (u.msg = o.msg /\ ~Open(u) /\ ~ToDrop(u) /\ u.msg.type = "clone")
  BY <1>3 DEF Open, ToDrop
<1>7. /\ DoAdd(c, f).op = "add" /\ DoAdd(c, f).key = c /\ DoAdd(c, f).fields = f
      /\ \A d, r \in Procs : DoInc(d, r) \in Issued' <=> DoInc(d, r) \in Issued \/ (d = p /\ r = c)
      /\ \A d, r : DoDec(d, r) \in Issued' <=> DoDec(d, r) \in Issued
  BY CallParts, CountCalls
<1>8. /\ \A d : Adds(d)' <=> Adds(d) \/ d = c
      /\ \A d : CleansUp(d)' <=> CleansUp(d)
      /\ \A d \in Procs : NoInc(d)' <=> NoInc(d) /\ d # c
      /\ \A d : NoDec(d)' <=> NoDec(d)
  <2>1. \A d : Adds(d)' <=> Adds(d) \/ d = c
    BY <1>7 DEF Adds
  <2>2. \A d : CleansUp(d)' => CleansUp(d)
    BY <1>3, <1>5, <1>7 DEF CleansUp
  <2>3. \A d : CleansUp(d) => CleansUp(d)'
    BY <1>3 DEF CleansUp
  <2>4. \A d \in Procs : NoInc(d)' <=> NoInc(d) /\ d # c
    BY <1>3, <1>7 DEF NoInc
  <2> QED BY <2>1, <2>2, <2>3, <2>4, <1>7 DEF NoDec
<1>10. SourceOK'
  BY <1>1, <1>2, <1>3, <1>5, <1>7, <1>8 DEF SourceOK
<1>11. BornOK'
  <2>1. ASSUME NEW d \in born' \ {Root}
        PROVE  Stems(d, Parent(d))'
    <3>1. PICK r : r = Parent(d)'
      OBVIOUS
    <3>2. d \in Procs /\ r = Parent(d)
      BY <3>1, <1>1 DEF TypeOK
    <3>3. Stems(d, r)'
      BY <3>2, <1>1, <1>2 DEF BornOK
    <3> QED BY <3>1, <3>3 DEF Stems
  <2>2. \A r, d \in Procs : DoDec(r, d) \in Issued' =>
          d \in born' \ {Root} /\ r \in born' /\ r \in {d, Parent(d)'} /\ Dropped(d)'
    BY <1>1, <1>2, <1>7 DEF BornOK
  <2> QED BY <2>1, <2>2, <1>1, <1>2, <1>3, <1>4, <1>7 DEF BornOK
<1>12. FlagOK'
  <2> SUFFICES ASSUME NEW u \in Objs', NEW d, d = u.msg.key
               PROVE  /\ Open(u) => d \notin born' /\ NoInc(d)' /\ ~Adds(d)' /\ u.msg.parent # Root
                      /\ u.msg.type = "exec" =>
                           /\ d \in born' /\ ~u.parentDone /\ NoInc(d)'
                           /\ NoDec(u.msg.cleanup)' /\ ~CleansUp(u.msg.cleanup)'
                      /\ ToDrop(u) => DropFlags(u)'
    BY DEF FlagOK, Open, ToDrop, DropFlags
  <2>1. CASE u \in Objs /\ u # o
    <3>1. /\ Open(u) => d \notin born /\ NoInc(d) /\ ~Adds(d) /\ u.msg.parent # Root
          /\ u.msg.type = "exec" =>
               /\ d \in born /\ ~u.parentDone /\ NoInc(d)
               /\ NoDec(u.msg.cleanup) /\ ~CleansUp(u.msg.cleanup)
          /\ ToDrop(u) => DropFlags(u)
      BY <2>1 DEF CInv, FlagOK, DropFlags
    <3>2. d \in Procs /\ Parent(d)' = Parent(d)
      BY <2>1, <1>1, ObjFields, MsgFields
    <3>3. DropFlags(u) => DropFlags(u)'
      BY <3>2, <1>7 DEF DropFlags
    <3>4. Open(u) \/ u.msg.type = "exec" => d # c
      BY <2>1, <1>3
    <3> QED BY <3>1, <3>2, <3>3, <3>4, <1>1, <1>8
  <2>2. CASE ~(u \in Objs /\ u # o)
    BY <2>2, <1>5
  <2> QED BY <2>1, <2>2
<1>13. CleanupOK'
  BY <1>7, <1>8 DEF CInv, CleanupOK
<1>14. RaisedOK'
  <2> SUFFICES ASSUME NEW d \in born \ {Root}
               PROVE  \/ DoInc(Parent(d)', d) \in Issued'
                      \/ \E u \in Objs' : u.msg.type = "exec" /\ u.msg.key = d
                      \/ \E n \in unsettled' : n.type = "exec" /\ n.key = d
    BY <1>1 DEF RaisedOK
  <2>1. Parent(d)' = Parent(d)
    BY <1>1 DEF TypeOK
  <2>2. (\E v \in Objs : v.msg.type = "exec" /\ v.msg.key = d)
          => \E u \in Objs' : u.msg.type = "exec" /\ u.msg.key = d
    BY <1>3
  <2> QED BY <2>1, <2>2 DEF CInv, RaisedOK
<1>15. \A q : Gone(q) => Gone(q)'
  <2> SUFFICES ASSUME NEW q, Gone(q)
               PROVE  Gone(q)'
    OBVIOUS
  <2>1. PICK G \in SUBSET Procs : q \in G /\ Dead(G)
    BY DEF Gone
  <2>2. c \notin G
    BY <2>1 DEF Dead
  <2>3. \A r \in G : \A u \in Objs' : Open(u) /\ u.msg.key = r => u.msg.parent \in G
    BY <2>1, <1>5 DEF Dead
  <2>4. Dead(G)'
    BY <2>1, <2>2, <2>3, <1>1, <1>8 DEF Dead, Creates, Open
  <2> QED BY <2>1, <2>4 DEF Gone
<1>16. GivenUpOK'
  BY <1>1, <1>7, <1>15 DEF CInv, GivenUpOK, Origin, ExecParent
<1>17. CachedOK'
  <2>1. \A d : InTime(d)' <=> InTime(d)
    BY <1>1 DEF InTime
  <2>2. LiveCached'
    BY <1>1, <1>2 DEF CInv, CachedOK, LiveCached
  <2>3. \A u \in Objs' : \/ u \in Objs
                         \/ ~Open(u) /\ u.msg.type # "exec" /\ \A d : ~Drops(u.msg, d)
    BY <1>3, <1>5
  <2> QED BY <2>1, <2>2, <2>3, <1>1, <1>7, <1>8
          DEF CInv, CachedOK, Creates, Drops, Origin, ExecParent, Open
<1>18. HandledOK' /\ NothingUnsettled'
  <2>1. NothingUnsettled'
    BY <1>1 DEF CInv, NothingUnsettled
  <2> SUFFICES ASSUME unsettled = {}, NEW n \in received, NEW d \in Procs
               PROVE  /\ Creates(n, d) => \/ d \in born' \/ Adds(d)'
                                          \/ \E u \in Objs' : Open(u) /\ u.msg = n
                      /\ Drops(n, d) => \/ DoDec(Parent(d)', d) \in Issued' /\ DoDec(d, d) \in Issued'
                                        \/ \E u \in Objs' : Drops(u.msg, d)
                                        \/ CleansUp(d)'
    BY <2>1, <1>1 DEF HandledOK, Creates, Drops, Open
  <2>2. /\ Creates(n, d) => \/ d \in born \/ Adds(d)
                            \/ \E v \in Objs : Open(v) /\ v.msg = n
        /\ Drops(n, d) => \/ DoDec(Parent(d), d) \in Issued /\ DoDec(d, d) \in Issued
                          \/ \E v \in Objs : Drops(v.msg, d)
                          \/ CleansUp(d)
    BY DEF CInv, HandledOK
  <2>3. Creates(n, d) => ((\E v \in Objs : Open(v) /\ v.msg = n)
                            => Adds(d)' \/ \E u \in Objs' : Open(u) /\ u.msg = n)
    BY <1>3, <1>8
  <2>4. (\E v \in Objs : Drops(v.msg, d)) => \E u \in Objs' : Drops(u.msg, d)
    BY <1>3
  <2> QED BY <2>2, <2>3, <2>4, <1>1, <1>7, <1>8
<1> QED BY <1>2, <1>10, <1>11, <1>12, <1>13, <1>14, <1>15, <1>16, <1>17, <1>18

\* An exec that waited finds its parent, and the old image is cleaned up.
LEMMA ExecRetried ==
  ASSUME CInv, RetryFrame, NEW o \in Objs, o.msg.type = "exec",
         NEW p, p = Parent(o.msg.key), NEW c, c = o.msg.key, NEW old, old = o.msg.cleanup, p \in cache,
         Issued' = Issued \cup {DoInc(p, c)}, Tasks' = Tasks \cup {DoGo(c, old)},
         unsettled' = unsettled, Objs' = Objs \ {o}
  PROVE  /\ MsgOK' /\ SentOK' /\ SourceOK' /\ BornOK' /\ FlagOK' /\ CleanupOK' /\ RaisedOK'
         /\ GivenUpOK' /\ CachedOK' /\ HandledOK' /\ NothingUnsettled'
         /\ \A q : Gone(q) => Gone(q)'
<1>1. /\ IInv /\ TypeOK /\ MsgOK /\ SentOK /\ SourceOK /\ BornOK /\ Tasks \subseteq Calls
      /\ Objs \subseteq CacheObjs /\ \A d \in Procs : Parent(d) \in Procs
      /\ UNCHANGED <<born, cache, lost, nextKey, received, wire>>
      /\ \A d \in Procs : Parent(d)' = Parent(d)
  BY PendingOnce, ParentIn DEF CInv, IInv, RetryFrame, kernelVars
<1>2. /\ MsgOK' /\ SentOK' /\ Live' = Live
      /\ \A d, r : Stems(d, r)' <=> Stems(d, r)
      /\ \A d : Dropped(d)' <=> Dropped(d)
      /\ \A k, d : Replaced(k, d)' <=> Replaced(k, d)
  BY <1>1, SameMsgs DEF RetryFrame
<1>3. /\ o.msg \in received /\ c \in Keys /\ c \in Procs /\ p \in Procs /\ p \in born /\ Stems(c, p)
      /\ old \in Keys /\ old \in Procs /\ \A d : Creates(o.msg, d) <=> d = c
      /\ \A d : Drops(o.msg, d) <=> d = old
      /\ \A u \in Objs : Open(u) \/ u.msg.type = "exec" => (u.msg.key = c => u = o)
      /\ \A u \in Objs : u.msg.type = "exec" => (u.msg.cleanup = old => u = o)
      /\ Replaced(c, old)
  <2>1. /\ o.msg \in received /\ c \in Keys /\ c \in Procs /\ p \in Procs /\ Stems(c, p)
        /\ old \in Keys /\ old \in Procs /\ \A d : Creates(o.msg, d) <=> d = c
        /\ \A d : Drops(o.msg, d) <=> d = old
    BY OneCreate
  <2>2. \A u \in Objs : Open(u) \/ u.msg.type = "exec" =>
          /\ u.msg.key = c => u = o
          /\ u.msg.type = "exec" /\ u.msg.cleanup = old => u = o
    BY OneCreate
  <2> QED BY <2>1, <2>2, <1>1 DEF TypeOK, Replaced
<1>4. NoInc(c) /\ c \in born /\ NoDec(old) /\ ~CleansUp(old) /\ InTime(old)
  BY <1>3 DEF CInv, FlagOK, CachedOK
<1>5. Objs' \subseteq Objs /\ \A d : CleanupMsg(d) # o.msg
  BY CleanupMsgs
<1>7. /\ DoGo(c, old).op = "go" /\ DoGo(c, old).key = c /\ DoGo(c, old).old = old
      /\ \A d, r \in Procs : DoInc(d, r) \in Issued' <=> DoInc(d, r) \in Issued \/ (d = p /\ r = c)
      /\ \A d, r : DoDec(d, r) \in Issued' <=> DoDec(d, r) \in Issued
  BY CallParts, CountCalls
<1>8. /\ \A d : Adds(d)' <=> Adds(d)
      /\ \A d : CleansUp(d)' <=> CleansUp(d) \/ d = old
      /\ \A d \in Procs : NoInc(d)' <=> NoInc(d) /\ d # c
      /\ \A d : NoDec(d)' <=> NoDec(d)
  <2>1. \A d : Adds(d)' <=> Adds(d)
    BY <1>7 DEF Adds
  <2>2. \A d : CleansUp(d)' => CleansUp(d) \/ d = old
    BY <1>5, <1>7 DEF CleansUp
  <2>3. \A d : CleansUp(d) \/ d = old => CleansUp(d)'
    BY <1>5, <1>7 DEF CleansUp
  <2>4. \A d \in Procs : NoInc(d)' <=> NoInc(d) /\ d # c
    BY <1>3, <1>7 DEF NoInc
  <2> QED BY <2>1, <2>2, <2>3, <2>4, <1>7 DEF NoDec
<1>10. SourceOK'
  <2>1. \A u \in Objs' : u.msg.type # "cleanup" => u.msg \in received'
    BY <1>1, <1>5 DEF SourceOK
  <2>2. \A d \in Procs : CleansUp(d)' => \E k \in Keys : Replaced(k, d)'
    BY <1>1, <1>2, <1>3, <1>8 DEF SourceOK
  <2>3. \A x \in Tasks' : x.op = "go" => Replaced(x.key, x.old)'
    BY <1>1, <1>2, <1>3, <1>7 DEF SourceOK
  <2> QED BY <2>1, <2>2, <2>3 DEF SourceOK
<1>11. BornOK'
  <2>1. ASSUME NEW d \in born' \ {Root}
        PROVE  Stems(d, Parent(d))'
    <3>1. PICK r : r = Parent(d)'
      OBVIOUS
    <3>2. d \in Procs /\ r = Parent(d)
      BY <3>1, <1>1 DEF TypeOK
    <3>3. Stems(d, r)'
      BY <3>2, <1>1, <1>2 DEF BornOK
    <3> QED BY <3>1, <3>3 DEF Stems
  <2>2. \A r, d \in Procs : DoDec(r, d) \in Issued' =>
          d \in born' \ {Root} /\ r \in born' /\ r \in {d, Parent(d)'} /\ Dropped(d)'
    BY <1>1, <1>2, <1>7 DEF BornOK
  <2> QED BY <2>1, <2>2, <1>1, <1>2, <1>3, <1>4, <1>7 DEF BornOK
<1>12. FlagOK'
  <2> SUFFICES ASSUME NEW u \in Objs', NEW d, d = u.msg.key
               PROVE  /\ Open(u) => d \notin born' /\ NoInc(d)' /\ ~Adds(d)' /\ u.msg.parent # Root
                      /\ u.msg.type = "exec" =>
                           /\ d \in born' /\ ~u.parentDone /\ NoInc(d)'
                           /\ NoDec(u.msg.cleanup)' /\ ~CleansUp(u.msg.cleanup)'
                      /\ ToDrop(u) => DropFlags(u)'
    BY DEF FlagOK, Open, ToDrop, DropFlags
  <2>1. u \in Objs /\ u # o
    OBVIOUS
  <2>2. /\ Open(u) => d \notin born /\ NoInc(d) /\ ~Adds(d) /\ u.msg.parent # Root
        /\ u.msg.type = "exec" =>
             /\ d \in born /\ ~u.parentDone /\ NoInc(d)
             /\ NoDec(u.msg.cleanup) /\ ~CleansUp(u.msg.cleanup)
        /\ ToDrop(u) => DropFlags(u)
    BY <2>1 DEF CInv, FlagOK, DropFlags
  <2>3. d \in Procs /\ Parent(d)' = Parent(d)
    BY <2>1, <1>1, ObjFields, MsgFields
  <2>4. DropFlags(u) => DropFlags(u)'
    BY <2>3, <1>7 DEF DropFlags
  <2>5. Open(u) \/ u.msg.type = "exec" => d # c
    BY <2>1, <1>3
  <2>6. u.msg.type = "exec" => u.msg.cleanup # old
    BY <2>1, <1>3
  <2> QED BY <2>2, <2>3, <2>4, <2>5, <2>6, <1>1, <1>8
<1>13. CleanupOK'
  BY <1>4, <1>7, <1>8 DEF CInv, CleanupOK
<1>14. RaisedOK'
  <2> SUFFICES ASSUME NEW d \in born \ {Root}
               PROVE  \/ DoInc(Parent(d)', d) \in Issued'
                      \/ \E u \in Objs' : u.msg.type = "exec" /\ u.msg.key = d
                      \/ \E n \in unsettled' : n.type = "exec" /\ n.key = d
    BY <1>1 DEF RaisedOK
  <2>1. Parent(d)' = Parent(d)
    BY <1>1 DEF TypeOK
  <2>2. CASE d = c
    BY <2>1, <2>2
  <2>3. CASE d # c
    BY <2>1, <2>3 DEF CInv, RaisedOK
  <2> QED BY <2>2, <2>3
<1>15. \A q : Gone(q) => Gone(q)'
  <2> SUFFICES ASSUME NEW q, Gone(q)
               PROVE  Gone(q)'
    OBVIOUS
  <2>1. PICK G \in SUBSET Procs : q \in G /\ Dead(G)
    BY DEF Gone
  <2>4. Dead(G)'
    BY <2>1, <1>1, <1>5, <1>8 DEF Dead, Creates, Open
  <2> QED BY <2>1, <2>4 DEF Gone
<1>16. GivenUpOK'
  BY <1>1, <1>7, <1>15 DEF CInv, GivenUpOK, Origin, ExecParent
<1>17. CachedOK'
  <2>1. \A d : InTime(d)' <=> InTime(d)
    BY <1>1 DEF InTime
  <2>2. LiveCached'
    BY <1>1, <1>2 DEF CInv, CachedOK, LiveCached
  <2> QED BY <2>1, <2>2, <1>1, <1>4, <1>5, <1>7, <1>8
          DEF CInv, CachedOK, Creates, Drops, Origin, ExecParent, Open
<1>18. HandledOK' /\ NothingUnsettled'
  <2>1. NothingUnsettled'
    BY <1>1 DEF CInv, NothingUnsettled
  <2> SUFFICES ASSUME unsettled = {}, NEW n \in received, NEW d \in Procs
               PROVE  /\ Creates(n, d) => \/ d \in born' \/ Adds(d)'
                                          \/ \E u \in Objs' : Open(u) /\ u.msg = n
                      /\ Drops(n, d) => \/ DoDec(Parent(d)', d) \in Issued' /\ DoDec(d, d) \in Issued'
                                        \/ \E u \in Objs' : Drops(u.msg, d)
                                        \/ CleansUp(d)'
    BY <2>1, <1>1 DEF HandledOK, Creates, Drops, Open
  <2>2. /\ Creates(n, d) => \/ d \in born \/ Adds(d)
                            \/ \E v \in Objs : Open(v) /\ v.msg = n
        /\ Drops(n, d) => \/ DoDec(Parent(d), d) \in Issued /\ DoDec(d, d) \in Issued
                          \/ \E v \in Objs : Drops(v.msg, d)
                          \/ CleansUp(d)
    BY DEF CInv, HandledOK
  <2>3. (\E v \in Objs : Open(v) /\ v.msg = n) => \E u \in Objs' : Open(u) /\ u.msg = n
    BY DEF Open
  <2>4. (\E v \in Objs : Drops(v.msg, d)) => CleansUp(d)' \/ \E u \in Objs' : Drops(u.msg, d)
    BY <1>3, <1>8
  <2> QED BY <2>2, <2>3, <2>4, <1>1, <1>7, <1>8
<1> QED BY <1>2, <1>10, <1>11, <1>12, <1>13, <1>14, <1>15, <1>16, <1>17, <1>18

\* The end of a process is tried again.
LEMMA DropRetried ==
  ASSUME CInv, RetryFrame, NEW o \in Objs, ToDrop(o), NEW k, k = o.msg.key,
         NEW pd \in BOOLEAN, NEW sd \in BOOLEAN, pd => Known(k), sd => k \in cache,
         \A r, d \in Procs : DoDec(r, d) \in Issued' <=>
           DoDec(r, d) \in Issued \/ (d = k /\ ((pd /\ r = Parent(k)) \/ (sd /\ r = k))),
         \A r, d \in Procs : DoInc(r, d) \in Issued' <=> DoInc(r, d) \in Issued,
         Tasks' = Tasks, Objs \ {o} \subseteq Objs',
         \A u \in Objs' : (u \in Objs /\ u # o) \/ (u.msg = o.msg /\ DropFlags(u)'),
         unsettled' = unsettled \/ unsettled' = unsettled \cup {o.msg},
         \/ DoDec(Parent(k), k) \in Issued' /\ DoDec(k, k) \in Issued'
         \/ \E u \in Objs' : u.msg = o.msg
         \/ unsettled' # {}
  PROVE  /\ MsgOK' /\ SentOK' /\ SourceOK' /\ BornOK' /\ FlagOK' /\ CleanupOK' /\ RaisedOK'
         /\ GivenUpOK' /\ CachedOK' /\ HandledOK'
         /\ \A q : Gone(q) => Gone(q)'
<1>1. /\ IInv /\ TypeOK /\ MsgOK /\ SourceOK /\ k \in Procs
      /\ o.msg.type # "cleanup" => o.msg \in received /\ o.msg.type = "exit"
      /\ o.msg.type = "cleanup" => o.msg = CleanupMsg(k) /\ \E j \in Keys : Replaced(j, k)
      /\ Drops(o.msg, k) /\ \A d : Drops(o.msg, d) <=> d = k
  <2>1. IInv /\ TypeOK /\ MsgOK /\ SourceOK /\ k \in Procs /\ o \in CacheObjs
    BY ObjKeys DEF CInv, IInv
  <2>2. o.msg.type # "cleanup" => o.msg \in received /\ o.msg.type = "exit"
    BY <2>1 DEF SourceOK, ToDrop
  <2>3. o.msg.type = "cleanup" => o.msg = CleanupMsg(k)
    BY <2>1, ObjFields, CleanupMsgs
  <2>4. o.msg.type = "cleanup" => \E j \in Keys : Replaced(j, k)
    BY <2>1, <2>3 DEF SourceOK, CleansUp
  <2> QED BY <2>1, <2>2, <2>3, <2>4 DEF Drops, ToDrop
<1>2. Dropped(k)
  BY <1>1, Origins DEF Dropped
<1>3. k \in Keys
  BY <1>1, <1>2, Origins
<1>4. InTime(k)
  BY <1>1 DEF CInv, CachedOK
<1>5. /\ UNCHANGED <<kernelVars, born, cache>> /\ received' = received /\ wire' = wire
      /\ All' = All /\ Dropped(k)' /\ \A d \in Procs : Parent(d)' = Parent(d)
  BY <1>2 DEF RetryFrame, All, Dropped, Drops
<1>6. /\ \A u \in Objs : Drops(u.msg, k) => u = o
      /\ \A x \in Tasks : ~(x.op = "cleanup" /\ x.key = k) /\ ~(x.op = "go" /\ x.old = k)
  BY <1>1, OneDrop
<1>7. \A u \in Objs' : Drops(u.msg, k) => u.msg = o.msg /\ DropFlags(u)'
  BY <1>6
<1>8. \A u \in Objs' : Drops(u.msg, k) =>
        /\ ToDrop(u) /\ u.msg.key = k
        /\ DropFlags(u)'
        /\ u.msg.type = "exit" => u.msg \in received'
        /\ u.msg.type = "cleanup" => u.msg = CleanupMsg(k) /\ \E j \in Keys : Replaced(j, k)
  BY <1>1, <1>5, <1>7 DEF ToDrop
<1>9. \A u \in Objs' : ~Drops(u.msg, k) => u \in Objs
  BY <1>1
<1>10. /\ unsettled \subseteq unsettled' /\ \A n \in unsettled' : n.type = "exec" => n \in unsettled
  BY DEF ToDrop
<1>11. (\E u \in Objs' : u.msg = o.msg) => \E u \in Objs' : Drops(u.msg, k)
  BY <1>1
<1>12. DropStep(k, pd, sd)
  BY <1>4, <1>5, <1>6, <1>8, <1>9, <1>10, <1>11 DEF DropStep
<1> QED BY <1>3, <1>12, DropOK

\* At its last retry the end of a process finds all, unless something was lost.
LEMMA DropKnown ==
  ASSUME CInv, Shallow, NEW o \in Elems(walk), LastTry(o), prog[Loop] = << >>,
         ToDrop(o), ~o.parentDone, lost = 0
  PROVE  Known(o.msg.key)
<1>0. PICK k, p : k = o.msg.key /\ p = Parent(k)
  OBVIOUS
<1>1. /\ o \in Objs /\ IInv /\ TypeOK /\ MsgOK /\ BornOK /\ k \in Procs /\ unsettled = {} /\ Drops(o.msg, k)
      /\ Procs \subseteq Nat
  <2>1. o \in Objs /\ Drops(o.msg, k)
    BY <1>0 DEF Objs, Drops, ToDrop
  <2> QED BY <2>1, <1>0, ObjKeys, KeysAssumption DEF CInv, IInv, NothingUnsettled, Keys, Root
<1>2. \A q \in Keys : q <= k => q \in born
  BY <1>0, LastChance
<1>3. k \in Keys
  <2>1. CASE o.msg.type = "cleanup"
    <3>1. o.msg = CleanupMsg(k)
      BY <2>1, <1>0, <1>1, ObjKeys, CleanupMsgs
    <3>2. CleansUp(k)
      BY <3>1, <1>1 DEF CleansUp
    <3> QED BY <3>2, <1>1, Origins DEF CInv, SourceOK
  <2>2. CASE o.msg.type # "cleanup"
    BY <2>2, <1>0, <1>1, ObjKeys
  <2> QED BY <2>1, <2>2
<1>4. k \in born \ {Root} /\ k \in cache
  BY <1>1, <1>2, <1>3, KeysAssumption DEF CInv, CachedOK, InTime, Keys, Root
<1>5. p \in Procs /\ p < k /\ p # k /\ Stems(k, p)
  BY <1>0, <1>1, <1>4, BornFacts
<1>6. p \in born
  <2>1. CASE p = Root
    BY <2>1, <1>1 DEF BornOK
  <2>2. CASE p # Root
    <3>1. p \in Keys
      BY <2>2, <1>5, KeysAssumption
    <3>2. p <= k
      BY <1>1, <1>5
    <3> QED BY <3>1, <3>2, <1>2
  <2> QED BY <2>1, <2>2
<1>7. CASE DoInc(p, k) \in Issued
  <2>1. DoDec(p, k) \notin Issued
    BY <1>0, <1>1, <1>5 DEF CInv, FlagOK
  <2> QED BY <1>7, <2>1, <1>0, <1>1, <1>4, <1>5 DEF CInv, CachedOK, Known
<1>8. CASE \E u \in Objs : u.msg.type = "exec" /\ u.msg.key = k
  <2>1. PICK u \in Objs : u.msg.type = "exec" /\ u.msg.key = k
    BY <1>8
  <2>2. Origin(u.msg) = p /\ InTime(Origin(u.msg))
    BY <2>1, <1>0, OneCreate DEF CInv, CachedOK
  <2> QED BY <2>2, <1>0, <1>4, <1>6 DEF InTime, Known
<1> QED BY <1>0, <1>1, <1>4, <1>7, <1>8 DEF CInv, RaisedOK

\* The calls that a retry may make: none that is under way already.
FreshCall(o, x) ==
  /\ x.op \in {"inc", "dec", "add", "go"}
  /\ x.op \in {"inc", "dec"} => x \notin Issued
  /\ x.op = "go" => o.msg.type = "exec" /\ x.key = o.msg.key

NewCalls(o, do) ==
  /\ CallsDiffer(do) /\ CallTokens(do) \cap Pending = {}
  /\ \A x \in Elems(do) : FreshCall(o, x)

\* A retry of o makes the calls do, leaves the object as kept, and is done or not.
RetryMade(o, do, kept, done) ==
  /\ walk # << >> /\ o = Head(walk) /\ walk' = Tail(walk) /\ prog[Loop] = << >>
  /\ prog' = [prog EXCEPT ![Loop] = do \o Tell(o.msg, done)]
  /\ waiting' = IF done THEN waiting ELSE Append(waiting, kept)
  /\ done \/ (kept \in CacheObjs /\ kept.msg = o.msg /\ kept.color = o.color + 1)
  /\ do \in Seq(Calls) /\ CallsDiffer(do) /\ CallTokens(do) \cap Pending = {}
  /\ \A x \in Elems(do) :
       /\ x.op \in {"inc", "dec", "add", "go"}
       /\ x.op \in {"inc", "dec"} => x \notin Issued
       /\ x.op = "go" => o.msg.type = "exec" /\ x.key = o.msg.key
  /\ UNCHANGED <<kernelVars, wire, podKnown, received, counted, born, cache, refcnt>>

\* What is pending after a retry.
LEMMA RetrySets ==
  ASSUME CInv, NEW o, NEW do, NEW kept, NEW done \in BOOLEAN, RetryMade(o, do, kept, done)
  PROVE  /\ PlaceOK' /\ o \in Objs /\ o \in CacheObjs /\ o \in Elems(walk)
         /\ Elems(do) \subseteq Elems(prog'[Loop])
         /\ PendCalls' = PendCalls \cup Elems(do)
                           \cup (IF done /\ Notifies(o.msg) THEN {DoNotify(o.msg)} ELSE {})
         /\ Elems(walk) = {o} \cup Elems(walk')
         /\ Elems(waiting') = Elems(waiting) \cup (IF done THEN {} ELSE {kept})
         /\ Objs' = (Objs \ {o}) \cup (IF done THEN {} ELSE {kept})
         /\ Issued' = Issued \cup {x \in Elems(do) : x.op \in {"inc", "dec"}}
         /\ Tasks' = Tasks \cup {x \in Elems(do) : x.op \in {"add", "go"}}
<1>1. TypeOK /\ PlaceOK /\ walk \in Seq(CacheObjs) /\ waiting \in Seq(CacheObjs)
  BY DEF CInv, IInv, TypeOK
<1>2. o \in Elems(walk) /\ o \in CacheObjs /\ o.msg \in Msgs
  BY <1>1, ElemTypes, ObjFields DEF RetryMade
<1>3. MsgToken(o.msg) \in Pending
  BY <1>2 DEF Pending, ObjTokens
<1>4. PICK t : t = Tell(o.msg, done)
  OBVIOUS
<1>5. PICK s : s = do \o t
  OBVIOUS
<1>6. PICK T : T = IF done /\ Notifies(o.msg) THEN {DoNotify(o.msg)} ELSE {}
  OBVIOUS
<1>7. /\ t \in Seq(Calls) /\ Elems(t) = T /\ CallsDiffer(t)
      /\ CallTokens(t) \subseteq {MsgToken(o.msg)} /\ (~done => CallTokens(t) = {})
  <2>1. t \in Seq(Calls)
    BY <1>2, <1>4, TellCalls
  <2>2. CASE done /\ Notifies(o.msg)
    <3>1. t = <<DoNotify(o.msg)>>
      BY <2>2, <1>4 DEF Tell
    <3> QED BY <2>1, <2>2, <3>1, <1>6, OneElem, NewTokens
  <2>3. CASE ~(done /\ Notifies(o.msg))
    <3>1. t = << >>
      BY <2>3, <1>4 DEF Tell
    <3> QED BY <2>1, <2>3, <3>1, <1>6, NoElems
  <2> QED BY <2>2, <2>3
<1>8. do \in Seq(Calls) /\ CallsDiffer(do) /\ CallTokens(do) \cap CallTokens(t) = {}
  BY <1>3, <1>7 DEF RetryMade
<1>9. /\ Elems(s) = Elems(do) \cup Elems(t) /\ CallTokens(s) = CallTokens(do) \cup CallTokens(t)
      /\ CallsDiffer(s) /\ s \in Seq(Calls)
  <2>1. /\ Elems(do \o t) = Elems(do) \cup Elems(t)
        /\ CallTokens(do \o t) = CallTokens(do) \cup CallTokens(t)
        /\ CallsDiffer(do \o t)
    BY ONLY <1>7, <1>8, ConcatElems
  <2>2. do \o t \in Seq(Calls)
    BY ONLY <1>7, <1>8, ConcatProperties
  <2> QED BY <2>1, <2>2, <1>5
<1>10. \A x \in Elems(s) : x.op # "enqueue"
  BY <1>6, <1>7, <1>9, CallParts DEF RetryMade
<1>11. \A u \in CallTokens(s) : u = MsgToken(o.msg) \/ u \notin Pending
  BY <1>7, <1>9 DEF RetryMade
<1>12. ~done => MsgToken(o.msg) \notin CallTokens(s)
  BY <1>3, <1>7, <1>9 DEF RetryMade
<1>13. waiting' = waiting <=> done
  <2>1. ASSUME ~done
        PROVE  waiting' # waiting
    <3>1. waiting' = Append(waiting, kept) /\ kept \in CacheObjs
      BY <2>1 DEF RetryMade
    <3>2. Len(Append(waiting, kept)) = Len(waiting) + 1 /\ Len(waiting) \in Nat
      BY <3>1, <1>1, AppendProperties, LenProperties
    <3> QED BY <3>1, <3>2
  <2>2. done => waiting' = waiting
    BY DEF RetryMade
  <2> QED BY <2>1, <2>2
<1>14. /\ prog[Loop] = << >> /\ walk # << >> /\ counted' = counted /\ o = Head(walk)
       /\ prog' = [prog EXCEPT ![Loop] = s] /\ walk' = Tail(walk)
       /\ \/ waiting' = waiting
          \/ /\ kept \in CacheObjs /\ kept.msg = o.msg
             /\ waiting' = Append(waiting, kept) /\ MsgToken(o.msg) \notin CallTokens(s)
  BY <1>4, <1>5, <1>12 DEF RetryMade
<1>15. /\ PlaceOK' /\ PendCalls' = PendCalls \cup Elems(s)
       /\ o \in Objs /\ Elems(walk) = {o} \cup Elems(walk')
       /\ Elems(waiting') = Elems(waiting) \cup (IF waiting' = waiting THEN {} ELSE {kept})
       /\ Objs' = (Objs \ {o}) \cup (IF waiting' = waiting THEN {} ELSE {kept})
       /\ Issued' = Issued \cup {x \in Elems(s) : x.op \in {"inc", "dec"}}
       /\ Tasks' = Tasks \cup {x \in Elems(s) : x.op \in {"add", "cleanup", "go"}}
  BY <1>1, <1>9, <1>10, <1>11, <1>14, RetryEffect, ZenonT(40)
<1>16. /\ {x \in Elems(s) : x.op \in {"inc", "dec"}} = {x \in Elems(do) : x.op \in {"inc", "dec"}}
       /\ {x \in Elems(s) : x.op \in {"add", "cleanup", "go"}}
            = {x \in Elems(do) : x.op \in {"add", "go"}}
  BY <1>6, <1>7, <1>9, CallParts DEF RetryMade
<1>17. Elems(do) \subseteq Elems(prog'[Loop])
  BY <1>1, <1>9, <1>14, KeyFacts DEF TypeOK
<1> QED BY <1>2, <1>6, <1>7, <1>9, <1>13, <1>15, <1>16, <1>17

\* The walks go on.
LEMMA RetryWalks ==
  ASSUME CInv, NEW o, NEW do, NEW kept, NEW done \in BOOLEAN, RetryMade(o, do, kept, done),
         \A q : Gone(q) => Gone(q)',
         Open(o) => Fixed(o.msg.key)' \/ (~done /\ Open(kept) /\ o.msg.parent \notin cache)
  PROVE  WalkOK'
<1>0. PICK c, p, k0 : c = o.msg.key /\ p = o.msg.parent /\ k0 = kept
  OBVIOUS
<1>1. /\ TypeOK /\ IInv /\ MsgOK /\ prog[Loop] = << >> /\ born' = born /\ lost' = lost /\ podKnown' = podKnown
      /\ received' = received /\ wire' = wire /\ Reserve \in Nat /\ NumRetries \in Nat
  BY OptionsAssumption DEF CInv, IInv, RetryMade, kernelVars
<1>2. /\ o \in Objs /\ o \in CacheObjs /\ o \in Elems(walk) /\ Elems(walk) = {o} \cup Elems(walk')
      /\ Elems(waiting') = Elems(waiting) \cup (IF done THEN {} ELSE {kept})
      /\ Elems(waiting) \subseteq Objs /\ Elems(walk) \subseteq Objs
      /\ Elems(waiting) \subseteq CacheObjs /\ Elems(walk) \subseteq CacheObjs
  BY <1>1, RetrySets, PendingOnce DEF Objs, CInv
<1>3. \A q : Fixed(q) => Fixed(q)'
  <2>1. \A q : ~LoopAdds(q)
    BY <1>1, NoElems DEF LoopAdds
  <2> QED BY <2>1, <1>1 DEF Fixed
<1>4. \A rank \in Ranks : Valid(rank)' <=> Valid(rank)
  BY <1>1 DEF Valid, Waits, All
<1>5. ASSUME NEW rank \in Ranks, Valid(rank), NEW k \in Int, NEW n \in Nat, Claim(rank, k, n),
             NEW q \in Keys, q <= k
      PROVE  \/ Fixed(q)'
             \/ OpenIn(walk', q) /\ rank[q] >= n
             \/ OpenIn(waiting', q) /\ rank[q] >= n + 1
  <2>1. CASE Fixed(q)
    BY <2>1, <1>3
  <2>2. CASE OpenIn(waiting, q) /\ rank[q] >= n + 1
    BY <2>2, <1>2 DEF OpenIn
  <2>3. CASE OpenIn(walk, q) /\ rank[q] >= n
    <3>1. PICK u \in Elems(walk) : Open(u) /\ u.msg.key = q
      BY <2>3 DEF OpenIn
    <3>2. CASE u \in Elems(walk')
      BY <2>3, <3>1, <3>2 DEF OpenIn
    <3>3. CASE u = o
      <4>1. Open(o) /\ c = q
        BY <3>1, <3>3, <1>0
      <4>2. CASE Fixed(c)'
        BY <4>1, <4>2
      <4>3. CASE ~done /\ Open(k0) /\ p \notin cache
        <5>1. /\ o.msg \in All /\ c \in Procs /\ p \in Procs /\ p < c /\ p # Root
              /\ Waits(o.msg) /\ InTime(p) /\ \A r \in Procs : rank[r] \in Nat
          <6>1. o.msg \in All /\ c \in Procs /\ p \in Procs /\ p < c
            BY <4>1, <1>0, <1>2, OneCreate DEF Origin, Open
          <6>2. p # Root /\ Waits(o.msg) /\ InTime(p)
            BY <4>1, <1>0, <1>2 DEF CInv, FlagOK, CachedOK, Waits, Open, Origin
          <6> QED BY <6>1, <6>2, <1>1 DEF Ranks
        <5>2. p \in Keys
          BY <5>1, KeysAssumption
        <5>3. p <= k
          <6>1. p \in Int /\ c \in Int
            BY <5>1, KeysAssumption DEF Keys, Root
          <6> QED BY <6>1, <5>1, <4>1, <1>5
        <5>4. \/ Fixed(p)
              \/ OpenIn(walk, p) /\ rank[p] >= n
              \/ OpenIn(waiting, p) /\ rank[p] >= n + 1
          BY <5>2, <5>3, <1>5 DEF Claim
        <5>5. CASE Fixed(p)
          <6>1. ~LoopAdds(p)
            BY <1>1, NoElems DEF LoopAdds
          <6>2. lost > 0 /\ Gone(p)
            BY <5>1, <5>5, <6>1, <4>3 DEF Fixed, InTime
          <6>3. Gone(c)
            BY <6>2, <4>1, <1>0, <1>2, GoneToo
          <6> QED BY <6>2, <6>3, <4>1, <1>3 DEF Fixed
        <5>6. ASSUME NEW v \in Elems(walk) \cup Elems(waiting), Open(v), v.msg.key = p
              PROVE  rank[p] < rank[c]
          <6>1. v \in Objs
            BY <1>2
          <6>2. v.msg \in All
            BY <6>1, <5>6, OneCreate
          <6>3. Waits(v.msg)
            BY <6>1, <5>6 DEF CInv, FlagOK, Waits, Open
          <6> QED BY <6>2, <6>3, <5>1, <5>6, <1>0, <1>5 DEF Valid
        <5>7. CASE (OpenIn(walk, p) \/ OpenIn(waiting, p)) /\ rank[p] >= n
          <6>1. rank[p] < rank[c]
            BY <5>6, <5>7 DEF OpenIn
          <6>2. rank[c] >= n + 1
            BY <6>1, <5>1, <5>7, <1>5
          <6>3. k0 \in Elems(waiting') /\ k0.msg.key = c
            BY <4>3, <1>0, <1>2 DEF RetryMade
          <6>4. OpenIn(waiting', q)
            BY <6>3, <4>1, <4>3 DEF OpenIn
          <6> QED BY <6>2, <6>4, <4>1
        <5>8. OpenIn(waiting, p) /\ rank[p] >= n + 1 => rank[p] >= n
          BY <5>1, <1>5
        <5> QED BY <5>4, <5>5, <5>7, <5>8
      <4> QED BY <4>1, <4>2, <4>3, <1>0
    <3> QED BY <3>1, <3>2, <3>3, <1>2
  <2> QED BY <2>1, <2>2, <2>3, <1>5 DEF Claim
<1>6. ASSUME NEW rank \in Ranks, Valid(rank), NEW k \in Int, NEW n \in Nat, Claim(rank, k, n)
      PROVE  Claim(rank, k, n)'
  BY <1>5, <1>6 DEF Claim, OpenIn, Open
<1>7. \A u \in Elems(walk) \cup Elems(waiting) : u.msg.key \in Int /\ Walks(u) \in Int
  <2> SUFFICES ASSUME NEW u \in Objs
               PROVE  u.msg.key \in Int /\ Walks(u) \in Int
    BY <1>2
  <2>1. u.msg.key \in Procs /\ u \in CacheObjs
    BY ObjKeys
  <2>2. u.msg.key \in Int
    BY <2>1, KeysAssumption DEF Keys, Root
  <2>3. u.color \in Int
    BY <2>1, ObjFields
  <2> QED BY <2>2, <2>3, <1>1 DEF Walks
<1>8. \A u \in Elems(walk') : Walks(u) >= 0 => (K8s => podKnown')
  BY <1>1, <1>2 DEF CInv, WalkOK
<1>9. ASSUME NEW rank \in Ranks, Valid(rank), NEW u \in Elems(walk), Walks(u) >= 0
      PROVE  Claim(rank, u.msg.key, Walks(u))'
  <2>1. PICK k, n : k = u.msg.key /\ n = Walks(u)
    OBVIOUS
  <2>2. Claim(rank, k, n) /\ k \in Int /\ n \in Nat
    BY <2>1, <1>7, <1>9 DEF CInv, WalkOK
  <2>3. Claim(rank, k, n)'
    BY <2>2, <1>6, <1>9
  <2> QED BY <2>1, <2>3 DEF Claim, Walks
<1>10. ASSUME NEW rank \in Ranks, Valid(rank), NEW u \in Elems(waiting'), Walks(u) >= 1
       PROVE  Claim(rank, u.msg.key, Walks(u) - 1)'
  <2>0. PICK k, n : k = u.msg.key /\ n = Walks(u) - 1
    OBVIOUS
  <2>1. CASE u \in Elems(waiting)
    <3>1. Claim(rank, k, n) /\ k \in Int /\ n \in Nat
      BY <2>0, <2>1, <1>7, <1>10 DEF CInv, WalkOK
    <3>2. Claim(rank, k, n)'
      BY <3>1, <1>6, <1>10
    <3> QED BY <2>0, <3>2 DEF Claim, Walks
  <2>2. CASE ~done /\ u = kept
    <3>1. k = c /\ u.color = o.color + 1
      BY <2>0, <2>2, <1>0 DEF RetryMade
    <3>2. o.color \in Int
      BY <1>2, ObjFields
    <3>3. n = Walks(o) /\ n >= 0
      BY <3>1, <3>2, <2>0, <1>1, <1>10 DEF Walks
    <3>4. Claim(rank, k, n) /\ k \in Int /\ n \in Nat
      BY <3>1, <3>3, <1>0, <1>2, <1>7, <1>10 DEF CInv, WalkOK
    <3>5. Claim(rank, k, n)'
      BY <3>4, <1>6, <1>10
    <3> QED BY <2>0, <3>5 DEF Claim, Walks
  <2> QED BY <2>1, <2>2, <1>2
<1>11. Elems(walk') \subseteq Elems(walk)
  BY <1>2
<1> QED BY <1>4, <1>8, <1>9, <1>10, <1>11 DEF WalkOK, Walks

\* A retry that keeps the parts keeps the whole.
LEMMA RetryParts ==
  ASSUME CInv, IInv', NEW o, NEW do, NEW kept, NEW done \in BOOLEAN, RetryMade(o, do, kept, done),
         MsgOK', SentOK', SourceOK', BornOK', FlagOK', CleanupOK', RaisedOK',
         GivenUpOK', CachedOK', HandledOK', NothingUnsettled',
         \A q : Gone(q) => Gone(q)',
         Open(o) => Fixed(o.msg.key)' \/ (~done /\ Open(kept) /\ o.msg.parent \notin cache)
  PROVE  CInv'
<1>0. PICK T : T = IF done /\ Notifies(o.msg) THEN {DoNotify(o.msg)} ELSE {}
  OBVIOUS
<1>1. /\ PlaceOK' /\ o \in Objs /\ o \in CacheObjs
      /\ PendCalls' = PendCalls \cup Elems(do) \cup T
      /\ Objs' = (Objs \ {o}) \cup (IF done THEN {} ELSE {kept})
      /\ Tasks' = Tasks \cup {x \in Elems(do) : x.op \in {"add", "go"}}
      /\ \A x \in T : x.op = "notify" /\ x.msg = o.msg /\ Notifies(o.msg)
  BY <1>0, RetrySets, CallParts
<1>2. /\ TypeOK /\ PlaceOK /\ StartOK /\ CountOK /\ WalkOK' /\ received' = received /\ counted' = counted
      /\ born' = born /\ refcnt' = refcnt
      /\ \A x \in Elems(do) : x.op \in {"inc", "dec", "add", "go"}
      /\ \A x \in Elems(do) : x.op \in {"inc", "dec"} => x \notin Issued
      /\ \A x \in Elems(do) : x.op = "go" => o.msg.type = "exec" /\ x.key = o.msg.key
      /\ \A k \in Keys : prog'[k] = prog[k]
  BY RetryWalks, KeyFacts DEF CInv, IInv, RetryMade, TypeOK
<1>3. StartOK'
  <2>1. Notifies(o.msg) => o.msg \in received
    BY <1>1, ObjKeys DEF Notifies
  <2>2. \A x \in PendCalls' : x.op = "notify" => x.msg \in received'
    BY <2>1, <1>1, <1>2 DEF StartOK
  <2>3. Sends' = Sends
    BY <1>1, <1>2 DEF Sends
  <2>4. \A x \in Sends' : x.obj.color = 0
    BY <2>3, <1>2 DEF StartOK
  <2>5. \A k \in Keys : prog'[k] # << >> => \E c \in Procs : Replaced(k, c)'
    BY <1>2 DEF StartOK, Replaced
  <2>6. o.msg.type = "exec" => o.msg.key \in Keys /\ prog[o.msg.key] = << >>
    BY <1>1, <1>2, ObjKeys DEF StartOK
  <2>7. \A x \in Tasks : x.op = "go" => x.key \in Keys
    BY <1>2, PendingOnce, CallFields
  <2>8. \A x \in Tasks' : x.op = "go" => prog'[x.key] = << >>
    BY <2>6, <2>7, <1>1, <1>2 DEF StartOK
  <2>9. \A u \in Objs : u.msg.type = "exec" => u.msg.key \in Keys
    BY ObjKeys
  <2>10. ~done => kept.msg = o.msg
    BY DEF RetryMade
  <2>11. \A u \in Objs' : u.msg.type = "exec" => prog'[u.msg.key] = << >>
    BY <2>6, <2>9, <2>10, <1>1, <1>2 DEF StartOK
  <2> QED BY <2>2, <2>4, <2>5, <2>8, <2>11 DEF StartOK
<1>4. CountOK'
  <2>1. PICK S : S = Elems(do) \cup T
    OBVIOUS
  <2>2. PendCalls' \subseteq PendCalls \cup S /\ \A x \in S : x.op \in {"inc", "dec"} => x \notin Issued
    BY <2>1, <1>1, <1>2
  <2> QED BY <2>2, <1>2, CountsSame
<1> QED BY <1>1, <1>2, <1>3, <1>4 DEF CInv

\* The event cache retries o.
Retrying(o, r, done, kept) ==
  /\ ecRetry /\ UNCHANGED <<kernelVars, wire, podKnown, notified, received, counted>>
  /\ o = Head(walk) /\ r = RetryObj(o)
  /\ done = (~r.err \/ LastTry(o)) /\ kept = [r.obj EXCEPT !.color = @ + 1]

\* The object at the head of the walk.
LEMMA RetryFacts ==
  ASSUME CInv, NEW o, NEW r, NEW done, NEW kept, Retrying(o, r, done, kept)
  PROVE  /\ o \in CacheObjs /\ o \in Objs /\ o \in Elems(walk) /\ prog[Loop] = << >>
         /\ done \in BOOLEAN /\ r.err \in BOOLEAN /\ RetryFrame /\ r.do \in Seq(Calls)
         /\ kept.msg = o.msg /\ r.obj.msg = o.msg /\ kept.internal = r.obj.internal
         /\ kept.parentDone = r.obj.parentDone /\ kept.procDone = r.obj.procDone
         /\ unsettled' = IF r.err /\ LastTry(o) /\ ~Settled(r.obj)
                           THEN unsettled \cup {o.msg} ELSE unsettled
         /\ lost' = lost
         /\ NewCalls(o, r.do) => RetryMade(o, r.do, kept, done)
<1>1. TypeOK /\ walk \in Seq(CacheObjs) /\ walk # << >> /\ prog[Loop] = << >> /\ lost' = lost
  BY DEF CInv, IInv, TypeOK, Retrying, ecRetry, Idle, kernelVars
<1>2. o \in CacheObjs /\ o \in Elems(walk) /\ o \in Objs
  BY <1>1, ElemTypes DEF Retrying, Objs
<1>3. RetryOK(o, r)
  BY <1>1, <1>2, Retries DEF Retrying
<1>4. /\ r.do \in Seq(Calls) /\ r.obj \in CacheObjs /\ r.obj.msg = o.msg /\ r.obj.color = o.color
      /\ r.err \in BOOLEAN
  BY <1>3 DEF RetryOK
<1>5. done \in BOOLEAN
  BY <1>4 DEF Retrying
<1>6. /\ kept.msg = o.msg /\ kept.internal = r.obj.internal /\ kept.color = o.color + 1
      /\ kept.parentDone = r.obj.parentDone /\ kept.procDone = r.obj.procDone
  BY <1>4 DEF Retrying, CacheObjs
<1>7. ~done => kept \in CacheObjs
  <2>1. o.color \in 0 .. NumRetries - 1 /\ NumRetries \in Nat
    BY <1>2, ObjFields, OptionsAssumption
  <2>2. ~LastTry(o) => o.color + 1 \in 0 .. NumRetries - 1
    BY <2>1 DEF LastTry
  <2>3. ~done => ~LastTry(o)
    BY DEF Retrying
  <2> QED BY <2>2, <2>3, <1>4 DEF Retrying, CacheObjs
<1>8. RetryFrame
  <2>1. o.msg.key \in Procs /\ object \in [Procs -> Fields]
    BY <1>1, <1>2, ObjFields, MsgFields DEF TypeOK
  <2>2. \A d \in Procs : object'[d].parent = object[d].parent
    <3>1. CASE object' = object
      BY <3>1
    <3>2. CASE object' # object
      <4>1. object' = [object EXCEPT ![o.msg.key].pod = K8s /\ object[o.msg.key].docker]
        BY <3>2 DEF Retrying, ecRetry
      <4> QED BY <4>1, <2>1 DEF Fields
    <3> QED BY <3>1, <3>2
  <2> QED BY <2>2 DEF RetryFrame, Parent, Retrying, ecRetry, absVars
<1>9. unsettled' = IF r.err /\ LastTry(o) /\ ~Settled(r.obj)
                     THEN unsettled \cup {o.msg} ELSE unsettled
  BY DEF Retrying, ecRetry
<1>10. /\ walk' = Tail(walk) /\ prog' = [prog EXCEPT ![Loop] = r.do \o Tell(o.msg, done)]
       /\ waiting' = IF done THEN waiting ELSE Append(waiting, kept)
       /\ UNCHANGED <<kernelVars, wire, podKnown, received, counted, born, cache, refcnt>>
  BY DEF Retrying, ecRetry, absVars
<1> QED BY <1>1, <1>2, <1>4, <1>5, <1>6, <1>7, <1>8, <1>9, <1>10 DEF RetryMade, NewCalls, FreshCall, Retrying

\* A retry that makes no call: the object waits on, or is no more.
LEMMA NoCalls ==
  ASSUME CInv, NEW o, NEW r, NEW done, NEW kept, Retrying(o, r, done, kept), r.do = << >>
  PROVE  /\ RetryMade(o, r.do, kept, done) /\ Issued' = Issued /\ Tasks' = Tasks
         /\ Objs' = (Objs \ {o}) \cup (IF done THEN {} ELSE {kept})
<1>1. Elems(r.do) = {} /\ CallTokens(r.do) = {} /\ CallsDiffer(r.do)
  BY NoElems
<1>2. RetryMade(o, r.do, kept, done) /\ done \in BOOLEAN
  <2>1. NewCalls(o, r.do)
    BY <1>1 DEF NewCalls
  <2> QED BY <2>1, RetryFacts
<1>3. /\ Objs' = (Objs \ {o}) \cup (IF done THEN {} ELSE {kept})
      /\ Issued' = Issued \cup {x \in Elems(r.do) : x.op \in {"inc", "dec"}}
      /\ Tasks' = Tasks \cup {x \in Elems(r.do) : x.op \in {"add", "go"}}
  BY <1>2, RetrySets
<1> QED BY <1>1, <1>2, <1>3

\* An object that waits on as it was.
LEMMA WaitsOn ==
  ASSUME CInv, IInv', NEW o, NEW r, NEW done, NEW kept, Retrying(o, r, done, kept), r.do = << >>,
         Same(kept, o), unsettled' = unsettled,
         ~done \/ (o.msg.type = "clone" /\ o.internal), Open(o) => o.msg.parent \notin cache
  PROVE  CInv'
<1>1. /\ RetryMade(o, r.do, kept, done) /\ Issued' = Issued /\ Tasks' = Tasks
      /\ Objs' = (Objs \ {o}) \cup (IF done THEN {} ELSE {kept})
  BY NoCalls
<1>2. RetryFrame /\ o \in Objs /\ done \in BOOLEAN
  BY RetryFacts
<1>3. \A u \in Objs' : \E v \in Objs : Same(u, v)
  BY <1>1, <1>2 DEF Same
<1>4. \A v \in Objs : (v.msg.type = "clone" /\ v.internal) \/ \E u \in Objs' : Same(u, v)
  BY <1>1, <1>2 DEF Same
<1>5. /\ MsgOK' /\ SentOK' /\ SourceOK' /\ BornOK' /\ FlagOK' /\ CleanupOK' /\ RaisedOK'
      /\ GivenUpOK' /\ CachedOK' /\ HandledOK' /\ NothingUnsettled'
      /\ \A q : Gone(q) => Gone(q)'
  BY <1>1, <1>2, <1>3, <1>4, TriedAgain
<1>6. Open(o) => ~done /\ Open(kept) /\ o.msg.parent \notin cache
  BY DEF Open, Same
<1> QED BY <1>1, <1>2, <1>5, <1>6, RetryParts

\* The retry of a clone keeps the invariant.
LEMMA CloneAgain ==
  ASSUME CInv, IInv', Shallow, NEW o, NEW r, NEW done, NEW kept, Retrying(o, r, done, kept),
         o.msg.type = "clone"
  PROVE  CInv'
<1>0. PICK m, c, p, f : m = o.msg /\ c = m.key /\ p = m.parent /\ f = CloneFields(m)
  OBVIOUS
<1>1. /\ o \in CacheObjs /\ o \in Objs /\ o \in Elems(walk) /\ prog[Loop] = << >> /\ RetryFrame
      /\ kept.msg = o.msg /\ r.obj.msg = o.msg /\ kept.internal = r.obj.internal
      /\ kept.parentDone = r.obj.parentDone /\ kept.procDone = r.obj.procDone
      /\ unsettled' = (IF r.err /\ LastTry(o) /\ ~Settled(r.obj)
                         THEN unsettled \cup {o.msg} ELSE unsettled)
      /\ lost' = lost /\ done \in BOOLEAN
  BY RetryFacts
<1>2. r = RetryClone(o)
  BY DEF Retrying, RetryObj
<1>3. CASE Open(o) /\ p \notin cache
  <2>1. r = Retried(<< >>, o, TRUE)
    BY <1>0, <1>2, <1>3 DEF RetryClone, Open
  <2>2. r.do = << >> /\ r.obj = o /\ r.err = TRUE
    BY <2>1 DEF Retried
  <2>3. Same(kept, o)
    BY <2>2, <1>1 DEF Same
  <2>4. CASE ~done
    <3>1. ~LastTry(o)
      BY <2>4 DEF Retrying
    <3> QED BY <2>2, <2>3, <2>4, <3>1, <1>0, <1>1, <1>3, WaitsOn
  <2>5. CASE done
    <3>1. LastTry(o) /\ ~Settled(o)
      BY <2>2, <2>5, <1>3 DEF Retrying, Settled, Open
    <3>2. c \in Keys /\ c \in Procs /\ c \notin born
      <4>1. c \in Keys /\ c \in Procs
        BY <1>0, <1>1, <1>3, OneCreate
      <4> QED BY <4>1, <1>0, <1>1, <1>3 DEF CInv, FlagOK
    <3>3. lost > 0 /\ Gone(c)
      <4>1. c <= c
        BY <3>2, KeysAssumption DEF Keys
      <4> QED BY <4>1, <3>1, <3>2, <1>0, <1>1, LastChance
    <3>4. /\ RetryMade(o, r.do, kept, done) /\ Issued' = Issued /\ Tasks' = Tasks
          /\ Objs' = (Objs \ {o}) \cup (IF done THEN {} ELSE {kept})
      BY <2>2, NoCalls
    <3>5. Objs' = Objs \ {o} /\ unsettled' = unsettled \cup {o.msg}
      BY <2>2, <2>5, <3>1, <3>4, <1>1
    <3>6. /\ MsgOK' /\ SentOK' /\ SourceOK' /\ BornOK' /\ FlagOK' /\ CleanupOK' /\ RaisedOK'
          /\ GivenUpOK' /\ CachedOK' /\ HandledOK' /\ NothingUnsettled'
          /\ \A q : Gone(q) => Gone(q)'
      BY <3>3, <3>4, <3>5, <1>1, <1>3, GivesUp
    <3>7. Fixed(c)'
      BY <3>3, <3>6, <1>1 DEF Fixed
    <3> QED BY <3>4, <3>6, <3>7, <1>0, <1>1, RetryParts
  <2> QED BY <2>4, <2>5, <1>1
<1>4. CASE o.internal
  <2>1. \E err : r = Retried(<< >>, [o EXCEPT !.internal = TRUE], err)
    BY <1>0, <1>2, <1>4 DEF RetryClone
  <2>2. r.do = << >> /\ r.obj = [o EXCEPT !.internal = TRUE]
    BY <2>1 DEF Retried
  <2>3. r.obj = o
    BY <2>2, <1>1, <1>4 DEF CacheObjs
  <2>4. Same(kept, o) /\ Settled(r.obj)
    BY <2>3, <1>1, <1>4 DEF Same, Settled
  <2>5. unsettled' = unsettled /\ ~Open(o)
    BY <2>4, <1>1, <1>4 DEF Open
  <2> QED BY <2>2, <2>4, <2>5, <1>4, WaitsOn
<1>5. CASE Open(o) /\ p \in cache
  <2>1. \E err : r = Retried(<<DoInc(p, c), DoAdd(c, f)>>, [o EXCEPT !.internal = TRUE], err)
    BY <1>0, <1>2, <1>5 DEF RetryClone, Open, AddCloneEvent
  <2>2. r.do = <<DoInc(p, c), DoAdd(c, f)>> /\ r.obj = [o EXCEPT !.internal = TRUE]
    BY <2>1 DEF Retried
  <2>3. r.obj.internal = TRUE /\ r.obj.msg = o.msg /\ kept.internal = TRUE
    BY <2>2, <1>1 DEF CacheObjs
  <2>4. unsettled' = unsettled
    BY <2>3, <1>1 DEF Settled
  <2>5. /\ TypeOK /\ PlaceOK /\ c \in Procs /\ c \in Keys /\ p \in Procs /\ m \in received /\ m \in WireMsg
        /\ Creates(m, c) /\ NoInc(c) /\ ~Adds(c) /\ c \notin born
    <3>1. c \in Procs /\ c \in Keys /\ m \in received /\ p \in Procs /\ Creates(m, c)
      BY <1>0, <1>1, <1>5, OneCreate DEF Origin, Open
    <3>2. NoInc(c) /\ ~Adds(c) /\ c \notin born
      BY <1>0, <1>1, <1>5 DEF CInv, FlagOK
    <3> QED BY <3>1, <3>2 DEF CInv, IInv, TypeOK
  <2>6. f \in Fields /\ f.parent = p
    BY <2>5, <1>0, CloneCalls DEF CloneFields
  <2>7. /\ <<"count", DoInc(p, c)>> \notin Pending /\ <<"add", c>> \notin Pending
        /\ DoInc(p, c) \notin Issued
    BY <2>5, InPending DEF NoInc
  <2>8. /\ Token(DoInc(p, c)) = <<"count", DoInc(p, c)>>
        /\ Token(DoAdd(c, f)) = <<"add", c>>
        /\ <<"count", DoInc(p, c)>> # <<"add", c>>
    BY NewTokens
  <2>9. /\ Elems(r.do) = {DoInc(p, c), DoAdd(c, f)} /\ CallsDiffer(r.do)
        /\ CallTokens(r.do) = {<<"count", DoInc(p, c)>>, <<"add", c>>}
    BY <2>2, <2>8, TwoElems
  <2>10. RetryMade(o, r.do, kept, done)
    <3>1. CallTokens(r.do) \cap Pending = {}
      BY <2>7, <2>9
    <3>2. \A x \in Elems(r.do) : FreshCall(o, x)
      BY <2>7, <2>9, CallParts DEF FreshCall
    <3>3. NewCalls(o, r.do)
      <4>1. CallsDiffer(r.do)
        BY <2>9
      <4> QED BY <3>1, <3>2, <4>1, Zenon DEF NewCalls
    <3> QED BY <3>3, RetryFacts
  <2>11. /\ Objs' = (Objs \ {o}) \cup (IF done THEN {} ELSE {kept})
         /\ Issued' = Issued \cup {x \in Elems(r.do) : x.op \in {"inc", "dec"}}
         /\ Tasks' = Tasks \cup {x \in Elems(r.do) : x.op \in {"add", "go"}}
         /\ Elems(r.do) \subseteq Elems(prog'[Loop])
    BY <2>10, <1>1, RetrySets
  <2>12. Tasks' = Tasks \cup {DoAdd(c, f)} /\ Issued' = Issued \cup {DoInc(p, c)}
    BY <2>9, <2>11, CallParts
  <2>13. \A u \in Objs' : (u \in Objs /\ u # o) \/ (u.msg = o.msg /\ u.internal)
    BY <2>3, <2>11, <1>1
  <2>14. /\ MsgOK' /\ SentOK' /\ SourceOK' /\ BornOK' /\ FlagOK' /\ CleanupOK' /\ RaisedOK'
         /\ GivenUpOK' /\ CachedOK' /\ HandledOK' /\ NothingUnsettled'
         /\ \A q : Gone(q) => Gone(q)'
    BY <2>4, <2>6, <2>11, <2>12, <2>13, <1>0, <1>1, <1>5, CloneRetried
  <2>15. Fixed(c)'
    BY <2>9, <2>11, CallParts DEF Fixed, LoopAdds
  <2> QED BY <2>10, <2>14, <2>15, <1>0, <1>1, RetryParts
<1>6. o.internal \/ ~o.internal
  OBVIOUS
<1> QED BY <1>3, <1>4, <1>5, <1>6 DEF Open

\* The retry of an exec keeps the invariant.
LEMMA ExecAgain ==
  ASSUME CInv, IInv', Shallow, NEW o, NEW r, NEW done, NEW kept, Retrying(o, r, done, kept),
         o.msg.type = "exec"
  PROVE  CInv'
<1>0. PICK m, c, p, old : m = o.msg /\ c = m.key /\ p = Parent(c) /\ old = m.cleanup
  OBVIOUS
<1>1. /\ o \in CacheObjs /\ o \in Objs /\ o \in Elems(walk) /\ prog[Loop] = << >> /\ RetryFrame
      /\ kept.msg = o.msg /\ r.obj.msg = o.msg /\ kept.internal = r.obj.internal
      /\ kept.parentDone = r.obj.parentDone /\ kept.procDone = r.obj.procDone
      /\ unsettled' = (IF r.err /\ LastTry(o) /\ ~Settled(r.obj)
                         THEN unsettled \cup {o.msg} ELSE unsettled)
      /\ lost' = lost /\ done \in BOOLEAN /\ ~Open(o)
  BY RetryFacts DEF Open
<1>2. r = RetryExec(o)
  BY DEF Retrying, RetryObj
<1>3. /\ IInv /\ TypeOK /\ PlaceOK /\ MsgOK /\ BornOK /\ c \in Keys /\ c \in Procs /\ p = Origin(m) /\ p \in Procs /\ p < c
      /\ old \in Keys /\ old \in Procs /\ m \in received
      /\ c \in born /\ o.parentDone = FALSE /\ NoInc(c) /\ ~CleansUp(old) /\ InTime(p)
  <2>1. /\ c \in Keys /\ c \in Procs /\ p = Origin(m) /\ p \in Procs /\ p < c
        /\ old \in Keys /\ old \in Procs /\ m \in received
    BY <1>0, <1>1, OneCreate
  <2>2. o.parentDone \in BOOLEAN
    BY <1>1, ObjFields
  <2>3. c \in born /\ o.parentDone = FALSE /\ NoInc(c) /\ ~CleansUp(old) /\ InTime(p)
    BY <2>1, <2>2, <1>0, <1>1 DEF CInv, FlagOK, CachedOK
  <2> QED BY <2>1, <2>3 DEF CInv, IInv
<1>4. CASE (K8s /\ object[c].docker /\ ~podKnown) \/ p \notin cache
  <2>1. r = Retried(<< >>, o, TRUE)
    BY <1>0, <1>2, <1>3, <1>4 DEF RetryExec
  <2>2. r.do = << >> /\ r.obj = o /\ r.err = TRUE
    BY <2>1 DEF Retried
  <2>3. Same(kept, o)
    BY <2>2, <1>1 DEF Same
  <2>4. CASE ~done
    <3>1. ~LastTry(o)
      BY <2>4 DEF Retrying
    <3> QED BY <2>2, <2>3, <2>4, <3>1, <1>1, WaitsOn
  <2>5. CASE done
    <3>1. LastTry(o) /\ ~Settled(o)
      BY <2>2, <2>5, <1>3 DEF Retrying, Settled
    <3>2. (K8s => podKnown) /\ \A q \in Keys : q <= c => q \in born \/ (lost > 0 /\ Gone(q))
      BY <3>1, <1>0, <1>1, LastChance
    <3>3. p \notin cache
      BY <3>2, <1>4
    <3>4. p \notin born
      BY <3>3, <1>3 DEF InTime
    <3>5. p \in Keys
      BY <3>4, <1>3, KeysAssumption DEF BornOK
    <3>6. p <= c
      BY <3>5, <1>3, KeysAssumption DEF Keys
    <3>7. lost > 0 /\ Gone(p)
      BY <3>2, <3>4, <3>5, <3>6
    <3>8. DoDec(p, c) \notin Issued
      BY <3>4, <1>3 DEF BornOK
    <3>9. /\ RetryMade(o, r.do, kept, done) /\ Issued' = Issued /\ Tasks' = Tasks
          /\ Objs' = (Objs \ {o}) \cup (IF done THEN {} ELSE {kept})
      BY <2>2, NoCalls
    <3>10. Objs' = Objs \ {o} /\ unsettled' = unsettled \cup {o.msg}
      BY <2>2, <2>5, <3>1, <3>9, <1>1
    <3>11. /\ MsgOK' /\ SentOK' /\ SourceOK' /\ BornOK' /\ FlagOK' /\ CleanupOK' /\ RaisedOK'
           /\ GivenUpOK' /\ CachedOK' /\ HandledOK' /\ NothingUnsettled'
           /\ \A q : Gone(q) => Gone(q)'
      BY <3>7, <3>8, <3>9, <3>10, <1>0, <1>1, <1>3, GivesUp
    <3> QED BY <3>9, <3>11, <1>1, RetryParts
  <2> QED BY <2>4, <2>5, <1>1
<1>5. CASE ~(K8s /\ object[c].docker /\ ~podKnown) /\ p \in cache
  <2>0. DoInc(p, c) \in Calls /\ DoGo(c, old) \in Calls
    BY <1>3, CallTypes
  <2>1. \E obj : r = Retried(<<DoInc(p, c), DoGo(c, old)>>, obj, FALSE)
    <3>1. <<DoInc(p, c)>> \o <<DoGo(c, old)>> = <<DoInc(p, c), DoGo(c, old)>>
      BY <2>0, Joins
    <3>2. old # None
      BY <1>3, KeyFacts
    <3> QED BY <3>1, <3>2, <1>0, <1>2, <1>3, <1>5 DEF RetryExec, Once
  <2>2. r.do = <<DoInc(p, c), DoGo(c, old)>> /\ r.err = FALSE
    BY <2>1 DEF Retried
  <2>3. unsettled' = unsettled /\ done
    BY <2>2, <1>1 DEF Retrying
  <2>4. /\ <<"count", DoInc(p, c)>> \notin Pending /\ DoInc(p, c) \notin Issued
    BY <1>3, InPending DEF NoInc
  <2>5. MsgToken(CleanupMsg(old)) \notin Pending
    <3>1. \A u \in Objs : u.msg # CleanupMsg(old)
      BY <1>3 DEF CleansUp
    <3>2. \A x \in PendCalls : x.op = "notify" => x.msg # CleanupMsg(old)
      <4>1. \A n \in received : n.type # "cleanup"
        BY <1>3, AllMsgs DEF All
      <4> QED BY <4>1, <1>3, CleanupMsgs DEF CInv, StartOK
    <3>3. \A d \in Procs : CleanupMsg(old) = CleanupMsg(d) => ~CleansUp(d)
      BY <1>3, CleanupMsgs
    <3> QED BY <3>1, <3>2, <3>3, <1>3, InPending
  <2>6. /\ Token(DoInc(p, c)) = <<"count", DoInc(p, c)>>
        /\ Token(DoGo(c, old)) = MsgToken(CleanupMsg(old))
        /\ <<"count", DoInc(p, c)>> # MsgToken(CleanupMsg(old))
    BY NewTokens DEF MsgToken
  <2>7. /\ Elems(r.do) = {DoInc(p, c), DoGo(c, old)} /\ CallsDiffer(r.do)
        /\ CallTokens(r.do) = {<<"count", DoInc(p, c)>>, MsgToken(CleanupMsg(old))}
    BY <2>2, <2>6, TwoElems
  <2>8. RetryMade(o, r.do, kept, done)
    <3>1. CallTokens(r.do) \cap Pending = {}
      BY <2>4, <2>5, <2>7
    <3>2. \A x \in Elems(r.do) : FreshCall(o, x)
      BY <2>4, <2>7, <1>0, CallParts DEF FreshCall
    <3>3. NewCalls(o, r.do)
      <4>1. CallsDiffer(r.do)
        BY <2>7
      <4> QED BY <3>1, <3>2, <4>1, Zenon DEF NewCalls
    <3> QED BY <3>3, RetryFacts
  <2>9. /\ Objs' = (Objs \ {o}) \cup (IF done THEN {} ELSE {kept})
        /\ Issued' = Issued \cup {x \in Elems(r.do) : x.op \in {"inc", "dec"}}
        /\ Tasks' = Tasks \cup {x \in Elems(r.do) : x.op \in {"add", "go"}}
    BY <2>8, <1>1, RetrySets
  <2>10. /\ Tasks' = Tasks \cup {DoGo(c, old)} /\ Issued' = Issued \cup {DoInc(p, c)}
         /\ Objs' = Objs \ {o}
    BY <2>3, <2>7, <2>9, CallParts
  <2>11. /\ MsgOK' /\ SentOK' /\ SourceOK' /\ BornOK' /\ FlagOK' /\ CleanupOK' /\ RaisedOK'
         /\ GivenUpOK' /\ CachedOK' /\ HandledOK' /\ NothingUnsettled'
         /\ \A q : Gone(q) => Gone(q)'
    BY <2>3, <2>10, <1>0, <1>1, <1>5, ExecRetried
  <2> QED BY <2>8, <2>11, <1>1, RetryParts
<1> QED BY <1>4, <1>5

\* What a retry of the end of a process does, whoever asks for it.
LEMMA DropAgain ==
  ASSUME CInv, IInv', Shallow, NEW o, NEW r, NEW done, NEW kept, Retrying(o, r, done, kept),
         ToDrop(o), r.do = RetryDrop(o).do, r.obj = RetryDrop(o).obj,
         ~Known(o.msg.key) => r.err
  PROVE  CInv'
<1>0. PICK k, p : k = o.msg.key /\ p = Parent(k)
  OBVIOUS
<1>1. /\ o \in CacheObjs /\ o \in Objs /\ o \in Elems(walk) /\ prog[Loop] = << >> /\ RetryFrame
      /\ kept.msg = o.msg /\ r.obj.msg = o.msg /\ kept.internal = r.obj.internal
      /\ kept.parentDone = r.obj.parentDone /\ kept.procDone = r.obj.procDone
      /\ unsettled' = (IF r.err /\ LastTry(o) /\ ~Settled(r.obj)
                         THEN unsettled \cup {o.msg} ELSE unsettled)
      /\ lost' = lost /\ done \in BOOLEAN /\ r.err \in BOOLEAN /\ ~Open(o)
  BY RetryFacts DEF Open, ToDrop
<1>2. PICK pd, sd, kn, ca :
        /\ kn = Known(k) /\ ca = (k \in cache)
        /\ pd = (Known(k) /\ ~o.parentDone) /\ sd = (k \in cache /\ ~o.procDone)
        /\ pd \in BOOLEAN /\ sd \in BOOLEAN /\ kn \in BOOLEAN /\ ca \in BOOLEAN
  <2>1. Known(k) \in BOOLEAN /\ (k \in cache) \in BOOLEAN
    BY DEF Known
  <2>2. (Known(k) /\ ~o.parentDone) \in BOOLEAN /\ (k \in cache /\ ~o.procDone) \in BOOLEAN
    OBVIOUS
  <2> QED BY <2>1, <2>2, Zenon
<1>3. /\ IInv /\ TypeOK /\ PlaceOK /\ MsgOK /\ BornOK /\ k \in Procs /\ p \in Procs
      /\ (kn => ca) /\ o.parentDone \in BOOLEAN /\ o.procDone \in BOOLEAN
      /\ (pd => kn /\ ~o.parentDone) /\ (sd => ca /\ ~o.procDone)
      /\ (kn => pd \/ o.parentDone) /\ (ca => sd \/ o.procDone)
  BY <1>0, <1>1, <1>2, ObjKeys, ObjFields, ParentIn DEF CInv, IInv, Known
<1>4. DropFlags(o)
  BY <1>1 DEF CInv, FlagOK, DropFlags
<1>5. ca => k # Root /\ k \in born /\ p # k
  <2>1. k \in Keys
    <3>1. CASE o.msg.type = "cleanup"
      <4>1. o.msg = CleanupMsg(k)
        BY <3>1, <1>0, <1>1, ObjFields, CleanupMsgs
      <4>2. CleansUp(k)
        BY <4>1, <1>1 DEF CleansUp
      <4> QED BY <4>2, <1>3, Origins DEF CInv, SourceOK
    <3>2. CASE o.msg.type # "cleanup"
      BY <3>2, <1>0, <1>1, ObjKeys
    <3> QED BY <3>1, <3>2
  <2>2. k # Root
    BY <2>1, KeysAssumption DEF Keys, Root
  <2>3. ca => k \in born \ {Root}
    BY <2>2, <1>2, <1>3 DEF TypeOK
  <2> QED BY <2>2, <2>3, <1>0, <1>3, BornFacts
<1>6. /\ r.obj.parentDone = (o.parentDone \/ kn) /\ r.obj.procDone = (o.procDone \/ ca)
      /\ r.obj.internal = kn /\ r.obj.msg = o.msg
  <2>1. r.obj = [o EXCEPT !.parentDone = @ \/ Known(k), !.procDone = @ \/ (k \in cache),
                          !.internal = Known(k)]
    BY <1>0 DEF RetryDrop, Retried
  <2>2. r.obj = [o EXCEPT !.parentDone = @ \/ kn, !.procDone = @ \/ ca, !.internal = kn]
    BY <2>1, <1>2
  <2> QED BY <2>2, <1>1, <1>3 DEF CacheObjs
<1>7. PICK a, b : /\ a = (IF pd THEN <<DoDec(p, k)>> ELSE << >>)
                  /\ b = (IF sd THEN <<DoDec(k, k)>> ELSE << >>)
  OBVIOUS
<1>8. r.do = a \o b
  <2>1. r.do = (IF Known(k) THEN Once(o.parentDone, DoDec(Parent(k), k)) ELSE << >>) \o
               (IF k \in cache THEN Once(o.procDone, DoDec(k, k)) ELSE << >>)
    BY <1>0 DEF RetryDrop, Retried
  <2>2. (IF Known(k) THEN Once(o.parentDone, DoDec(Parent(k), k)) ELSE << >>) = a
    BY <1>0, <1>2, <1>3, <1>7 DEF Once
  <2>3. (IF k \in cache THEN Once(o.procDone, DoDec(k, k)) ELSE << >>) = b
    BY <1>2, <1>3, <1>7 DEF Once
  <2> QED BY <2>1, <2>2, <2>3
<1>9. /\ a \in Seq(Calls) /\ Elems(a) = (IF pd THEN {DoDec(p, k)} ELSE {}) /\ CallsDiffer(a)
      /\ CallTokens(a) = (IF pd THEN {<<"count", DoDec(p, k)>>} ELSE {})
  <2>1. DoDec(p, k) \in Calls
    BY <1>3, CallTypes
  <2>2. CASE pd
    BY <2>1, <2>2, <1>7, OneCall, OneElem, NewTokens
  <2>3. CASE ~pd
    BY <2>3, <1>7, EmptyCalls, NoElems
  <2> QED BY <2>2, <2>3
<1>10. /\ b \in Seq(Calls) /\ Elems(b) = (IF sd THEN {DoDec(k, k)} ELSE {}) /\ CallsDiffer(b)
       /\ CallTokens(b) = (IF sd THEN {<<"count", DoDec(k, k)>>} ELSE {})
  <2>1. DoDec(k, k) \in Calls
    BY <1>3, CallTypes
  <2>2. CASE sd
    BY <2>1, <2>2, <1>7, OneCall, OneElem, NewTokens
  <2>3. CASE ~sd
    BY <2>3, <1>7, EmptyCalls, NoElems
  <2> QED BY <2>2, <2>3
<1>11. CallTokens(a) \cap CallTokens(b) = {}
  <2>1. pd => DoDec(p, k) # DoDec(k, k)
    BY <1>3, <1>5, CountCalls
  <2>2. pd => <<"count", DoDec(p, k)>> # <<"count", DoDec(k, k)>>
    BY <2>1
  <2> QED BY <2>2, <1>9, <1>10
<1>12. /\ Elems(r.do) = Elems(a) \cup Elems(b) /\ CallTokens(r.do) = CallTokens(a) \cup CallTokens(b)
       /\ CallsDiffer(r.do)
  <2>1. /\ Elems(a \o b) = Elems(a) \cup Elems(b) /\ CallTokens(a \o b) = CallTokens(a) \cup CallTokens(b)
        /\ CallsDiffer(a \o b)
    BY ONLY <1>9, <1>10, <1>11, ConcatElems
  <2> QED BY <2>1, <1>8
<1>13. /\ pd => DoDec(p, k) \notin Issued /\ <<"count", DoDec(p, k)>> \notin Pending
       /\ sd => DoDec(k, k) \notin Issued /\ <<"count", DoDec(k, k)>> \notin Pending
  <2>1. pd => DoDec(p, k) \notin Issued
    BY <1>0, <1>3, <1>4, <1>5 DEF DropFlags
  <2>2. sd => DoDec(k, k) \notin Issued
    BY <1>0, <1>3, <1>4 DEF DropFlags
  <2> QED BY <2>1, <2>2, <1>3, InPending
<1>14. CallTokens(r.do) \cap Pending = {}
  BY <1>9, <1>10, <1>12, <1>13
<1>15. \A x \in Elems(r.do) : x.op = "dec" /\ x \notin Issued
  BY <1>9, <1>10, <1>12, <1>13, CallParts
<1>16. RetryMade(o, r.do, kept, done)
  <2>1. \A x \in Elems(r.do) : FreshCall(o, x)
    BY <1>15 DEF FreshCall
  <2>2. CallsDiffer(r.do)
    BY <1>12
  <2>3. NewCalls(o, r.do)
    BY <1>14, <2>1, <2>2, Zenon DEF NewCalls
  <2> QED BY <2>3, RetryFacts
<1>17. /\ Objs' = (Objs \ {o}) \cup (IF done THEN {} ELSE {kept})
       /\ Issued' = Issued \cup {x \in Elems(r.do) : x.op \in {"inc", "dec"}}
       /\ Tasks' = Tasks \cup {x \in Elems(r.do) : x.op \in {"add", "go"}}
  BY <1>16, <1>1, RetrySets
<1>18. Tasks' = Tasks /\ Issued' = Issued \cup Elems(a) \cup Elems(b)
  BY <1>12, <1>15, <1>17
<1>19. /\ \A s, d \in Procs : DoDec(s, d) \in Issued' <=>
            DoDec(s, d) \in Issued \/ (d = k /\ ((pd /\ s = Parent(k)) \/ (sd /\ s = k)))
       /\ \A s, d \in Procs : DoInc(s, d) \in Issued' <=> DoInc(s, d) \in Issued
  BY <1>0, <1>9, <1>10, <1>18, CountCalls
<1>20. DropFlags(kept)'
  <2>1. kept.msg.key = k /\ Parent(k)' = p
    BY <1>0, <1>1, <1>3 DEF RetryFrame
  <2>2. /\ o.parentDone => o.procDone /\ DoDec(p, k) \in Issued
        /\ o.procDone => DoDec(k, k) \in Issued
        /\ ~o.parentDone => \A s \in Procs : DoDec(s, k) \in Issued => s = k
        /\ ~o.procDone => DoDec(k, k) \notin Issued
    BY <1>0, <1>4 DEF DropFlags
  <2>3. /\ kept.parentDone = (o.parentDone \/ kn) /\ kept.procDone = (o.procDone \/ ca)
        /\ kept.internal = kn
    BY <1>1, <1>6
  <2>4. (o.parentDone \/ kn) => (o.procDone \/ ca) /\ DoDec(p, k) \in Issued'
    BY <2>2, <1>0, <1>3, <1>19
  <2>5. (o.procDone \/ ca) => DoDec(k, k) \in Issued'
    BY <2>2, <1>0, <1>3, <1>19
  <2>6. ~(o.parentDone \/ kn) => \A s \in Procs : DoDec(s, k) \in Issued' => s = k
    BY <2>2, <1>0, <1>3, <1>19
  <2>7. ~(o.procDone \/ ca) => DoDec(k, k) \notin Issued'
    BY <2>2, <1>0, <1>3, <1>5, <1>19
  <2> QED BY <2>1, <2>3, <2>4, <2>5, <2>6, <2>7 DEF DropFlags
<1>21. /\ Objs \ {o} \subseteq Objs'
       /\ \A u \in Objs' : (u \in Objs /\ u # o) \/ (u.msg = o.msg /\ DropFlags(u)')
       /\ unsettled' = unsettled \/ unsettled' = unsettled \cup {o.msg}
  BY <1>1, <1>17, <1>20
<1>22. o.parentDone \/ kn => DoDec(Parent(k), k) \in Issued' /\ DoDec(k, k) \in Issued'
  BY <1>0, <1>3, <1>4, <1>19 DEF DropFlags
<1>23. unsettled' # unsettled => ~o.parentDone /\ ~kn /\ LastTry(o)
  BY <1>1, <1>3, <1>4, <1>6 DEF Settled, ToDrop, DropFlags
<1>24. ~(o.parentDone \/ kn) => (\E u \in Objs' : u.msg = o.msg) \/ unsettled' # {}
  <2>1. CASE ~done
    <3>1. kept \in Objs'
      BY <2>1, <1>17
    <3> QED BY <3>1, <1>1
  <2>2. CASE done /\ ~(o.parentDone \/ kn)
    <3>1. r.err
      BY <2>2, <1>0, <1>2
    <3>2. LastTry(o)
      BY <2>2, <3>1 DEF Retrying
    <3>3. ~Settled(r.obj)
      BY <2>2, <1>6 DEF Settled, ToDrop
    <3>4. unsettled' = unsettled \cup {o.msg}
      BY <3>1, <3>2, <3>3, <1>1
    <3> QED BY <3>4
  <2> QED BY <2>1, <2>2, <1>1
<1>25. /\ MsgOK' /\ SentOK' /\ SourceOK' /\ BornOK' /\ FlagOK' /\ CleanupOK' /\ RaisedOK'
       /\ GivenUpOK' /\ CachedOK' /\ HandledOK' /\ \A q : Gone(q) => Gone(q)'
  <2>1. (pd => Known(k)) /\ (sd => k \in cache) /\ pd \in BOOLEAN /\ sd \in BOOLEAN
    BY <1>2
  <2>2. \/ DoDec(Parent(k), k) \in Issued' /\ DoDec(k, k) \in Issued'
        \/ \E u \in Objs' : u.msg = o.msg
        \/ unsettled' # {}
    BY <1>22, <1>24
  <2> QED BY <2>1, <2>2, <1>0, <1>1, <1>18, <1>19, <1>21, DropRetried
<1>26. NothingUnsettled'
  <2>1. CASE unsettled' = unsettled
    BY <2>1, <1>1 DEF CInv, NothingUnsettled
  <2>2. CASE unsettled' # unsettled
    <3>1. lost = 0 => Known(k)
      BY <2>2, <1>0, <1>1, <1>23, DropKnown
    <3> QED BY <3>1, <2>2, <1>1, <1>2, <1>23 DEF NothingUnsettled
  <2> QED BY <2>1, <2>2
<1> QED BY <1>1, <1>16, <1>25, <1>26, RetryParts

\* An exit that was counted and waits for its pod.
LEMMA ExitWaits ==
  ASSUME CInv, IInv', NEW o, NEW r, NEW done, NEW kept, Retrying(o, r, done, kept),
         o.msg.type = "exit", o.internal, r.do = << >>, r.obj = o
  PROVE  CInv'
<1>0. PICK k : k = o.msg.key
  OBVIOUS
<1>1. /\ o \in CacheObjs /\ o \in Objs /\ RetryFrame /\ k \in Procs /\ Parent(k) \in Procs
      /\ kept.msg = o.msg /\ kept.internal = o.internal
      /\ kept.parentDone = o.parentDone /\ kept.procDone = o.procDone
      /\ unsettled' = (IF r.err /\ LastTry(o) /\ ~Settled(r.obj)
                         THEN unsettled \cup {o.msg} ELSE unsettled)
      /\ lost' = lost /\ done \in BOOLEAN /\ ~Open(o) /\ ToDrop(o)
  <2>1. /\ o \in CacheObjs /\ o \in Objs /\ RetryFrame
        /\ kept.msg = o.msg /\ kept.internal = o.internal
        /\ kept.parentDone = o.parentDone /\ kept.procDone = o.procDone
        /\ unsettled' = (IF r.err /\ LastTry(o) /\ ~Settled(r.obj)
                           THEN unsettled \cup {o.msg} ELSE unsettled)
        /\ lost' = lost /\ done \in BOOLEAN
    <3>1. /\ o \in CacheObjs /\ o \in Objs /\ RetryFrame
          /\ kept.msg = o.msg /\ kept.internal = r.obj.internal
          /\ kept.parentDone = r.obj.parentDone /\ kept.procDone = r.obj.procDone
          /\ unsettled' = (IF r.err /\ LastTry(o) /\ ~Settled(r.obj)
                             THEN unsettled \cup {o.msg} ELSE unsettled)
          /\ lost' = lost /\ done \in BOOLEAN
      BY RetryFacts
    <3> QED BY <3>1
  <2>2. k \in Procs /\ Parent(k) \in Procs
    BY <2>1, <1>0, ObjKeys, ParentIn DEF CInv, IInv
  <2> QED BY <2>1, <2>2 DEF Open, ToDrop
<1>2. DropFlags(o)
  BY <1>1 DEF CInv, FlagOK, DropFlags
<1>3. o.parentDone /\ o.procDone /\ DoDec(Parent(k), k) \in Issued /\ DoDec(k, k) \in Issued
  BY <1>0, <1>2 DEF DropFlags
<1>4. unsettled' = unsettled
  BY <1>1, <1>3 DEF Settled
<1>5. /\ RetryMade(o, r.do, kept, done) /\ Issued' = Issued /\ Tasks' = Tasks
      /\ Objs' = (Objs \ {o}) \cup (IF done THEN {} ELSE {kept})
  BY NoCalls
<1>6. DropFlags(kept)'
  <2>1. Parent(k)' = Parent(k) /\ kept.msg.key = k
    BY <1>0, <1>1 DEF RetryFrame
  <2> QED BY <2>1, <1>1, <1>3, <1>5 DEF DropFlags
<1>7. /\ MsgOK' /\ SentOK' /\ SourceOK' /\ BornOK' /\ FlagOK' /\ CleanupOK' /\ RaisedOK'
      /\ GivenUpOK' /\ CachedOK' /\ HandledOK' /\ \A q : Gone(q) => Gone(q)'
  <2>1. PICK pd \in BOOLEAN, sd \in BOOLEAN : pd = FALSE /\ sd = FALSE
    OBVIOUS
  <2>2. \A s, d \in Procs : DoDec(s, d) \in Issued' <=>
          DoDec(s, d) \in Issued \/ (d = k /\ ((pd /\ s = Parent(k)) \/ (sd /\ s = k)))
    BY <2>1, <1>5
  <2>3. /\ Objs \ {o} \subseteq Objs'
        /\ \A u \in Objs' : (u \in Objs /\ u # o) \/ (u.msg = o.msg /\ DropFlags(u)')
    BY <1>1, <1>5, <1>6
  <2>4. /\ \A s, d \in Procs : DoInc(s, d) \in Issued' <=> DoInc(s, d) \in Issued
        /\ (pd => Known(k)) /\ (sd => k \in cache)
        /\ DoDec(Parent(k), k) \in Issued' /\ DoDec(k, k) \in Issued'
    BY <2>1, <1>3, <1>5
  <2> QED BY <2>2, <2>3, <2>4, <1>0, <1>1, <1>4, <1>5, DropRetried
<1>8. NothingUnsettled'
  BY <1>1, <1>4 DEF CInv, NothingUnsettled
<1> QED BY <1>1, <1>5, <1>7, <1>8, RetryParts

\* Every retry keeps the invariant.
LEMMA RetryCounts ==
  ASSUME CInv, IInv', Shallow, ecRetry,
         UNCHANGED <<kernelVars, wire, podKnown, notified, received, counted>>
  PROVE  CInv'
<1>1. PICK o, r, done, kept : Retrying(o, r, done, kept)
  BY DEF Retrying
<1>2. o \in CacheObjs /\ o.msg.type \in {"clone", "exec", "exit", "cleanup"}
  BY <1>1, RetryFacts, ObjFields, MsgFields
<1>3. CASE o.msg.type = "clone"
  BY <1>1, <1>3, CloneAgain
<1>4. CASE o.msg.type = "exec"
  BY <1>1, <1>4, ExecAgain
<1>5. /\ RetryDrop(o).err = ~Known(o.msg.key)
      /\ \E a, b, c : RetryDrop(o) = Retried(a, b, c)
  BY DEF RetryDrop, Retried
<1>6. CASE o.msg.type = "cleanup"
  <2>1. r = RetryDrop(o)
    BY <1>1, <1>6 DEF Retrying, RetryObj
  <2> QED BY <2>1, <1>1, <1>5, <1>6, DropAgain DEF ToDrop
<1>7. CASE o.msg.type = "exit"
  <2>1. r = RetryExit(o)
    BY <1>1, <1>7 DEF Retrying, RetryObj
  <2>2. CASE o.internal
    <3>1. \E err : r = Retried(<< >>, o, err)
      BY <2>1, <2>2 DEF RetryExit, Retried
    <3>2. r.do = << >> /\ r.obj = o
      BY <3>1 DEF Retried
    <3> QED BY <2>2, <3>2, <1>1, <1>7, ExitWaits
  <2>3. CASE ~o.internal
    <3>1. PICK a, b, c : RetryDrop(o) = Retried(a, b, c)
      BY <1>5
    <3>2. r = [RetryDrop(o) EXCEPT !.err = @ \/ (K8s /\ ~object[o.msg.key].pod)]
      BY <2>1, <2>3 DEF RetryExit
    <3>3. r = Retried(a, b, c \/ (K8s /\ ~object[o.msg.key].pod))
      BY <3>1, <3>2 DEF Retried
    <3>4. r.do = RetryDrop(o).do /\ r.obj = RetryDrop(o).obj
      BY <3>1, <3>3 DEF Retried
    <3>5. c = ~Known(o.msg.key) /\ r.err = (c \/ (K8s /\ ~object[o.msg.key].pod))
      BY <3>1, <3>3, <1>5 DEF Retried
    <3>6. ~Known(o.msg.key) => r.err
      BY <3>5
    <3> QED BY <3>4, <3>6, <1>1, <1>7, DropAgain DEF ToDrop
  <2> QED BY <2>2, <2>3
<1> QED BY <1>2, <1>3, <1>4, <1>6, <1>7

-----------------------------------------------------------------------------
(***************************************************************************)
(* Once everything is handled, and the collector.                          *)
(***************************************************************************)

\* When all is handled, nothing is pending.
LEMMA DrainedFacts ==
  ASSUME IInv, Drained
  PROVE  /\ wire = {} /\ waiting = << >> /\ walk = << >> /\ Elems(waiting) = {} /\ Elems(walk) = {}
         /\ PendCalls = {} /\ Tasks = {} /\ Objs = {} /\ Issued = counted
         /\ \A c : ~Adds(c) /\ ~CleansUp(c)
<1>1. wire = {} /\ waiting = << >> /\ walk = << >> /\ Quiet
  BY DEF Drained, Quiet, IInv, ProgOK
<1>2. Elems(waiting) = {} /\ Elems(walk) = {}
  BY <1>1, NoElems
<1>3. PendCalls = {} /\ Tasks = {} /\ Objs = {}
  BY <1>1, <1>2, QuietFacts
<1>4. Issued = counted
  BY <1>3 DEF Issued
<1>5. \A c : ~Adds(c) /\ ~CleansUp(c)
  BY <1>3 DEF Adds, CleansUp
<1> QED BY <1>1, <1>2, <1>3, <1>4, <1>5

\* When all is handled, a process is dropped by itself, and by those that
\* referenced it.
LEMMA DrainedCounts ==
  ASSUME CInv, Drained, NEW k \in born
  PROVE  /\ k \in Procs /\ k \notin IncBy(k) /\ DecBy(k) \subseteq IncBy(k) \cup {k}
         /\ k \in DecBy(k) => k \notin Live /\ k # Root
<1>1. /\ IInv /\ TypeOK /\ MsgOK /\ BornOK /\ RaisedOK /\ GivenUpOK /\ Issued = counted
      /\ Objs = {} /\ k \in Procs
  BY DrainedFacts DEF CInv, IInv, TypeOK
<1>2. k \notin IncBy(k)
  <2> SUFFICES ASSUME k \in IncBy(k)
               PROVE  FALSE
    OBVIOUS
  <2>1. Stems(k, k)
    BY <1>1 DEF IncBy, BornOK
  <2>2. k < k /\ k \in Int
    BY <2>1, <1>1, Origins, KeysAssumption DEF Keys
  <2> QED BY <2>2
<1>3. ASSUME NEW c \in DecBy(k), c # k
      PROVE  c \in IncBy(k)
  <2>1. c \in Procs /\ DoDec(k, c) \in Issued
    BY <1>1 DEF DecBy
  <2>2. c \in born \ {Root} /\ k = Parent(c)
    BY <2>1, <1>1, <1>3 DEF BornOK
  <2>3. Stems(c, k)
    BY <2>2, <1>1 DEF BornOK
  <2>4. ASSUME NEW n \in unsettled, n.type = "exec", n.key = c
        PROVE  FALSE
    <3>1. n \in received /\ DoDec(Origin(n), c) \notin Issued
      BY <2>4, <1>1 DEF GivenUpOK
    <3>2. Stems(c, Origin(n))
      BY <3>1, <2>4 DEF Stems, Creates
    <3>3. Origin(n) = k
      BY <3>2, <2>3, <2>1, <1>1, Origins
    <3> QED BY <3>1, <3>3, <2>1
  <2>5. DoInc(k, c) \in Issued
    BY <2>2, <2>4, <1>1 DEF RaisedOK
  <2> QED BY <2>5, <2>1, <1>1 DEF IncBy
<1>4. ASSUME k \in DecBy(k)
      PROVE  k \notin Live /\ k # Root
  <2>1. Dropped(k)
    BY <1>4, <1>1 DEF DecBy, BornOK
  <2>2. k \in Keys /\ \A pid \in Alive : task[pid].key # k
    BY <2>1, <1>1, Origins
  <2>3. k # Root
    BY <2>2 DEF Keys, Root
  <2> QED BY <2>2, <2>3 DEF Live
<1> QED BY <1>1, <1>2, <1>3, <1>4

\* The collector removes what nothing references any longer.
LEMMA CollectCounts ==
  ASSUME CInv, IInv', NEW k \in Procs, Collect(k)
  PROVE  CInv'
<1>1. /\ IInv /\ TypeOK /\ PlaceOK /\ StartOK /\ CountOK /\ Drained /\ k \in born /\ refcnt[k] = 0
      /\ cache' = cache \ {k} /\ TypeOK'
      /\ UNCHANGED <<born, refcnt, task, nextKey, lost, kernelVars, wire, object, podKnown, prog,
                     waiting, walk, unsettled, received, counted>>
  BY DEF Collect, Expire, CInv, IInv, TypeOK, ecVars, kernelVars
<1>2. /\ wire = {} /\ Tasks = {} /\ Objs = {} /\ Issued = counted /\ PendCalls = {}
      /\ Elems(waiting) = {} /\ Elems(walk) = {} /\ \A c : ~CleansUp(c)
  BY <1>1, DrainedFacts
<1>3. PendCalls' = PendCalls
  BY <1>1 DEF PendCalls
<1>4. Sends' = Sends /\ Tasks' = Tasks /\ Issued' = Issued
  BY <1>1, <1>3 DEF Sends, Tasks, Issued
<1>5. Objs' = Objs
  BY <1>1, <1>4 DEF Objs
<1>6. PlaceOK' /\ CountOK'
  BY <1>1, <1>3 DEF PlaceOK, CountOK, IncBy, DecBy
<1>7. StartOK'
  BY <1>1, <1>3, <1>5, StartKeeps
<1>8. Alive' = Alive /\ All' = All
  BY <1>1 DEF Alive, All
<1>9. MsgOK' /\ SentOK'
  BY <1>1, <1>8 DEF CInv, MsgOK, SentOK, Creates, Drops, Origin, ExecParent
<1>10. /\ \A c, p : Stems(c, p)' <=> Stems(c, p)
       /\ \A c : Dropped(c)' <=> Dropped(c)
       /\ \A l, c : Replaced(l, c)' <=> Replaced(l, c)
  BY <1>1 DEF Stems, Dropped, Replaced, Creates, Drops, Origin, ExecParent
<1>11. /\ \A c : Adds(c)' <=> Adds(c)
       /\ \A c : CleansUp(c)' <=> CleansUp(c)
       /\ \A c : NoInc(c)' <=> NoInc(c)
       /\ \A c : NoDec(c)' <=> NoDec(c)
       /\ \A c : Parent(c)' = Parent(c)
  BY <1>1, <1>4, <1>5 DEF Adds, CleansUp, NoInc, NoDec, Parent
<1>12. SourceOK' /\ BornOK'
  BY <1>1, <1>4, <1>5, <1>10, <1>11 DEF CInv, SourceOK, BornOK
<1>13. FlagOK' /\ CleanupOK' /\ RaisedOK'
  <2>1. FlagOK'
    BY <1>2, <1>5 DEF FlagOK
  <2>2. CleanupOK'
    BY <1>2, <1>4 DEF CleanupOK
  <2>3. RaisedOK'
    BY <1>1, <1>4, <1>5, <1>11 DEF CInv, RaisedOK
  <2> QED BY <2>1, <2>2, <2>3
<1>14. GivenUpOK'
  <2>1. ASSUME NEW q, Gone(q)
        PROVE  Gone(q)'
    <3>1. nextKey <= nextKey' /\ cache' \subseteq cache /\ wire' \subseteq wire
      BY <1>1 DEF TypeOK
    <3>2. (\A x \in Tasks' : x.op = "add" => x \in Tasks) /\ \A o \in Objs' : Open(o) => o \in Objs
      BY <1>4, <1>5
    <3> QED BY <2>1, <3>1, <3>2, <1>1, StaysGone
  <2> QED BY <2>1, <1>1, <1>4 DEF CInv, GivenUpOK, Origin, ExecParent
<1>15. HandledOK' /\ NothingUnsettled'
  BY <1>1, <1>4, <1>5, <1>11 DEF CInv, HandledOK, NothingUnsettled, Creates, Drops, Open
<1>16. DecBy(k) = IncBy(k) \cup {k} /\ k \notin Live
  <2>1. /\ k \notin IncBy(k) /\ DecBy(k) \subseteq IncBy(k) \cup {k}
        /\ k \in DecBy(k) => k \notin Live
    BY <1>1, DrainedCounts
  <2>2. 0 = 1 + Cardinality(IncBy(k)) - Cardinality(DecBy(k))
    BY <1>1 DEF CountOK
  <2>3. Cardinality(IncBy(k) \cup {k}) = Cardinality(IncBy(k)) + 1
    BY <2>1, FiniteCounts, OneMore
  <2>4. Cardinality(IncBy(k)) \in Nat /\ Cardinality(DecBy(k)) \in Nat
    BY FiniteCounts
  <2>5. Cardinality(IncBy(k) \cup {k}) = Cardinality(DecBy(k))
    BY <2>2, <2>3, <2>4
  <2>6. IsFiniteSet(IncBy(k) \cup {k})
    BY FiniteCounts, FS_AddElement
  <2>7. DecBy(k) = IncBy(k) \cup {k}
    BY <2>1, <2>5, <2>6, FS_Subset
  <2> QED BY <2>1, <2>7
<1>17. CachedOK'
  <2>1. LiveCached'
    <3>1. Live' = Live
      BY <1>1, <1>8 DEF Live
    <3> QED BY <3>1, <1>1, <1>16 DEF CInv, CachedOK, LiveCached
  <2>2. ASSUME NEW p \in Procs, NEW c \in Procs, DoInc(p, c) \in Issued', DoDec(p, c) \notin Issued'
        PROVE  p \in cache'
    <3>1. p \in cache
      BY <2>2, <1>4 DEF CInv, CachedOK
    <3>2. p # k
      BY <2>2, <1>2, <1>4, <1>16 DEF IncBy, DecBy
    <3> QED BY <3>1, <3>2, <1>1
  <2>3. wire' = {} /\ Objs' = {} /\ \A c \in Procs : ~CleansUp(c)'
    BY <1>1, <1>2, <1>5, <1>11
  <2> QED BY <2>1, <2>2, <2>3 DEF CachedOK
<1>18. WalkOK'
  BY <1>1, <1>2 DEF WalkOK, Elems
<1> QED BY <1>6, <1>7, <1>9, <1>12, <1>13, <1>14, <1>15, <1>17, <1>18 DEF CInv

-----------------------------------------------------------------------------
(***************************************************************************)
(* The invariant holds initially, and every step keeps it.                 *)
(***************************************************************************)
\* The invariant holds before anything has happened.
LEMMA InitCounts ==
  ASSUME Init
  PROVE  CInv
<1>1. IInv
  BY InitOK
<1>2. /\ wire = {} /\ received = {} /\ counted = {} /\ unsettled = {} /\ waiting = << >>
      /\ walk = << >> /\ born = {Root} /\ cache = {Root} /\ nextKey = 1 /\ Alive = {}
      /\ \A g \in Goroutines : prog[g] = << >>
      /\ refcnt[Root] = 1
  BY KeyFacts DEF Init, Alive
<1>3. Drained
  BY <1>2 DEF Init, Drained, Quiet, Idle
<1>4. /\ PendCalls = {} /\ Tasks = {} /\ Objs = {} /\ Issued = {} /\ All = {} /\ Sends = {}
      /\ Elems(waiting) = {} /\ Elems(walk) = {} /\ \A c : ~CleansUp(c)
  BY <1>1, <1>2, <1>3, DrainedFacts DEF All, Sends
<1>5. MsgOK /\ SentOK
  <2>1. \A c \in Keys : ~(c < nextKey)
    BY <1>2 DEF Keys
  <2> QED BY <1>4, <2>1 DEF MsgOK, SentOK
<1>6. PlaceOK
  <2>1. \A g \in Goroutines : CallsDiffer(prog[g]) /\ CallTokens(prog[g]) = {}
    BY <1>2 DEF CallsDiffer, CallTokens, Elems
  <2>2. /\ ObjsDiffer(waiting) /\ ObjsDiffer(walk) /\ ObjTokens(waiting) = {}
        /\ ObjTokens(walk) = {}
    BY <1>2 DEF ObjsDiffer, ObjTokens, Elems
  <2> QED BY <2>1, <2>2 DEF PlaceOK
<1>7. StartOK /\ SourceOK
  <2>1. \A k \in Keys : prog[k] = << >>
    BY <1>2, KeyFacts
  <2> QED BY <2>1, <1>4 DEF StartOK, SourceOK
<1>8. BornOK /\ FlagOK /\ CleanupOK /\ RaisedOK
  BY <1>2, <1>4 DEF BornOK, FlagOK, CleanupOK, RaisedOK
<1>9. CountOK
  <2>1. IncBy(Root) = {} /\ DecBy(Root) = {}
    BY <1>2 DEF IncBy, DecBy
  <2>2. Cardinality(IncBy(Root)) = 0 /\ Cardinality(DecBy(Root)) = 0
    BY <2>1, FS_EmptySet
  <2> QED BY <2>2, <1>2, <1>4 DEF CountOK
<1>10. GivenUpOK /\ HandledOK /\ NothingUnsettled
  BY <1>2 DEF GivenUpOK, HandledOK, NothingUnsettled
<1>11. CachedOK
  BY <1>2, <1>4 DEF CachedOK, LiveCached
<1>12. WalkOK
  BY <1>4 DEF WalkOK
<1> QED BY <1>1, <1>5, <1>6, <1>7, <1>8, <1>9, <1>10, <1>11, <1>12 DEF CInv

\* Every step keeps the invariant.
LEMMA CStep ==
  ASSUME CInv, Shallow, PodInTime, [Next]_vars
  PROVE  CInv'
<1>0. IInv /\ IInv'
  BY StepOK DEF CInv
<1>1. CASE Kernel
  BY <1>0, <1>1, KernelCounts
<1>2. ASSUME NEW m \in wire, Receive(m)
      PROVE  CInv'
  BY <1>0, <1>2, ReceiveCounts
<1>3. ASSUME NEW g \in Goroutines, Step(g)
      PROVE  CInv'
  BY <1>0, <1>3, CallCounts
<1>4. CASE EventCache
  <2>1. UNCHANGED <<kernelVars, wire, podKnown, notified, received, counted>>
    BY <1>4 DEF EventCache
  <2>2. CASE ecTick
    BY <1>0, <2>1, <2>2, TickCounts
  <2>3. CASE ecRetry
    BY <1>0, <2>1, <2>3, RetryCounts
  <2>4. CASE ecEnd
    <3>1. UNCHANGED <<born, cache, refcnt, object, unsettled, prog, waiting, walk>>
      BY <2>4 DEF ecEnd, absVars
    <3>2. /\ podKnown => podKnown'
          /\ UNCHANGED <<kernelVars, wire, received, born, cache, refcnt, object, unsettled,
                         counted, prog, waiting, walk>>
      BY <2>1, <3>1
    <3> QED BY <1>0, <3>2, IdleCounts
  <2> QED BY <1>4, <2>2, <2>3, <2>4 DEF EventCache
<1>5. CASE PodArrives
  <2>1. /\ podKnown => podKnown'
        /\ UNCHANGED <<kernelVars, wire, received, born, cache, refcnt, object, unsettled,
                       counted, prog, waiting, walk>>
    BY <1>5 DEF PodArrives, absVars, ecVars
  <2> QED BY <1>0, <2>1, IdleCounts
<1>6. ASSUME NEW k \in Procs, Collect(k)
      PROVE  CInv'
  BY <1>0, <1>6, CollectCounts
<1>7. CASE UNCHANGED vars
  <2>1. /\ podKnown => podKnown'
        /\ UNCHANGED <<kernelVars, wire, received, born, cache, refcnt, object, unsettled,
                       counted, prog, waiting, walk>>
    BY <1>7 DEF vars, absVars, ecVars
  <2> QED BY <1>0, <2>1, IdleCounts
<1> QED BY <1>1, <1>2, <1>3, <1>4, <1>5, <1>6, <1>7 DEF Next

\* The invariant holds while chains of clones are short.
LEMMA CountInvariance ==
  ASSUME PodInTime
  PROVE  Spec /\ []Shallow => []CInv
<1>1. Init => CInv
  BY InitCounts
<1>2. CInv /\ Shallow /\ [Next]_vars => CInv'
  BY CStep
<1> QED BY <1>1, <1>2, PTL DEF Spec

\* With no more keys than retries in reserve, no chain of clones is too long: a
\* clone of a clone of the root has key 2 at least, and so on.
LEMMA ShallowEnough ==
  ASSUME CInv, MaxKey <= Reserve
  PROVE  Shallow
<1>1. PICK rank : rank = [c \in Procs |-> IF c < 2 THEN 0 ELSE c - 2]
  OBVIOUS
<1>2. MaxKey \in Nat /\ Reserve \in Nat /\ Procs \subseteq 0 .. MaxKey
  BY KeysAssumption, OptionsAssumption DEF Keys, Root
<1>3. rank \in Ranks
  <2>1. \A c \in Procs : (IF c < 2 THEN 0 ELSE c - 2) \in 0 .. Reserve
    BY <1>2
  <2> QED BY <2>1, <1>1 DEF Ranks
<1>4. ASSUME NEW m \in All, Waits(m)
      PROVE  m.key \in Procs /\ m.parent \in Procs /\ 1 <= m.parent /\ m.parent < m.key
  <2>1. m.key \in Procs /\ m.type = "clone" /\ m.parent # Root
    BY <1>4, AllMsgs DEF Waits, CInv, IInv
  <2>2. Creates(m, m.key) /\ Origin(m) = m.parent
    BY <2>1 DEF Creates, Origin
  <2>3. m.parent \in Procs /\ m.parent < m.key
    BY <2>1, <2>2 DEF CInv, MsgOK
  <2>4. PICK a \in 0 .. MaxKey : a = m.parent
    BY <2>3, <1>2
  <2>5. 1 <= a
    BY <2>1, <2>4, <1>2 DEF Root
  <2> QED BY <2>1, <2>3, <2>4, <2>5
<1>5. Valid(rank)
  <2> SUFFICES ASSUME NEW m \in All, Waits(m)
               PROVE  /\ rank[m.key] + 1 < Reserve
                      /\ \A n \in All : Waits(n) /\ n.key = m.parent => rank[n.key] < rank[m.key]
    BY DEF Valid
  <2>1. m.key \in Procs /\ m.parent \in Procs /\ 1 <= m.parent /\ m.parent < m.key
    BY <1>4
  <2>2. PICK a \in 0 .. MaxKey, b \in 0 .. MaxKey : a = m.key /\ b = m.parent
    BY <2>1, <1>2
  <2>3. rank[a] = a - 2 /\ 1 <= b /\ b < a
    <3>1. 1 <= b /\ b < a /\ a \in Procs
      BY <2>2, <2>1
    <3>2. rank[a] = IF a < 2 THEN 0 ELSE a - 2
      BY <3>1, <1>1
    <3> QED BY <3>1, <3>2, <1>2
  <2>4. ASSUME NEW n \in All, Waits(n), n.key = m.parent
        PROVE  rank[n.key] < rank[m.key]
    <3>1. n.key \in Procs /\ n.parent \in Procs /\ 1 <= n.parent /\ n.parent < n.key
      BY <2>4, <1>4
    <3>2. PICK d \in 0 .. MaxKey : d = n.parent
      BY <3>1, <1>2
    <3>3. b \in Procs /\ n.key = b /\ 1 <= d /\ d < b
      BY <3>1, <3>2, <2>2, <2>4
    <3>4. rank[b] = IF b < 2 THEN 0 ELSE b - 2
      BY <3>3, <1>1
    <3>5. rank[b] = b - 2
      BY <3>3, <3>4, <1>2
    <3>6. rank[b] < rank[a]
      BY <3>5, <2>3, <1>2
    <3> QED BY <3>3, <3>6, <2>2
  <2>5. rank[a] + 1 < Reserve
    BY <2>3, <1>2
  <2> QED BY <2>2, <2>4, <2>5
<1> QED BY <1>3, <1>5 DEF Shallow

\* With few keys they always are.
LEMMA SmallInvariance ==
  ASSUME PodInTime, MaxKey <= Reserve
  PROVE  Spec => []CInv
<1>1. Init => CInv
  BY InitCounts
<1>2. CInv /\ [Next]_vars => CInv'
  BY CStep, ShallowEnough
<1> QED BY <1>1, <1>2, PTL DEF Spec

-----------------------------------------------------------------------------
(***************************************************************************)
(* What follows from the invariant.                                        *)
(***************************************************************************)
\* What the invariant says of live processes once all is handled ...
LEMMA DrainedReferenced ==
  ASSUME CInv
  PROVE  LiveReferenced
<1> SUFFICES ASSUME Drained, NEW k \in born
             PROVE  (k \in Live => refcnt[k] > 0) /\ refcnt[k] >= 0
  BY DEF LiveReferenced
<1>1. /\ k \in Procs /\ k \notin IncBy(k) /\ DecBy(k) \subseteq IncBy(k) \cup {k}
      /\ k \in DecBy(k) => k \notin Live /\ k # Root
  BY DrainedCounts
<1>2. refcnt[k] = 1 + Cardinality(IncBy(k)) - Cardinality(DecBy(k))
  BY DEF CInv, CountOK
<1>3. /\ IsFiniteSet(IncBy(k)) /\ Cardinality(IncBy(k)) \in Nat /\ Cardinality(DecBy(k)) \in Nat
  BY FiniteCounts
<1>4. Cardinality(IncBy(k) \cup {k}) = Cardinality(IncBy(k)) + 1 /\ IsFiniteSet(IncBy(k) \cup {k})
  BY <1>1, <1>3, OneMore, FS_AddElement
<1>5. Cardinality(DecBy(k)) <= Cardinality(IncBy(k)) + 1
  BY <1>1, <1>4, FS_Subset
<1>6. CASE k \in Live
  <2>1. DecBy(k) \subseteq IncBy(k)
    BY <1>1, <1>6
  <2>2. Cardinality(DecBy(k)) <= Cardinality(IncBy(k))
    BY <2>1, <1>3, FS_Subset
  <2> QED BY <2>2, <1>2, <1>3
<1>7. CASE k \notin Live
  BY <1>7, <1>2, <1>3, <1>5
<1> QED BY <1>6, <1>7

\* When all messages came and all are handled, every process is known, and is
\* dropped unless it lives.
LEMMA AllHandled ==
  ASSUME CInv, Drained, lost = 0, NEW c \in Keys, c < nextKey
  PROVE  /\ c \in born \ {Root} /\ DoInc(Parent(c), c) \in counted
         /\ c \notin Live => DoDec(Parent(c), c) \in counted /\ DoDec(c, c) \in counted
         /\ c \in Live => \A p \in Procs : DoDec(p, c) \notin counted
<1>1. /\ IInv /\ MsgOK /\ BornOK /\ wire = {} /\ Objs = {} /\ Issued = counted /\ unsettled = {}
      /\ c \in Procs /\ c # Root /\ (\A d : ~Adds(d) /\ ~CleansUp(d)) /\ All = received
  BY DrainedFacts, KeyFacts DEF CInv, NothingUnsettled, All, Keys, Root
<1>2. PICK m \in received : Creates(m, c)
  BY <1>1 DEF CInv, SentOK
<1>3. c \in born
  BY <1>1, <1>2 DEF CInv, HandledOK
<1>4. DoInc(Parent(c), c) \in counted
  BY <1>1, <1>3 DEF CInv, RaisedOK
<1>5. ASSUME c \notin Live
      PROVE  DoDec(Parent(c), c) \in counted /\ DoDec(c, c) \in counted
  <2>1. \A pid \in Alive : task[pid].key # c
    BY <1>5 DEF Live
  <2>2. PICK n \in received : Drops(n, c)
    BY <1>1, <2>1 DEF CInv, SentOK
  <2> QED BY <1>1, <2>2 DEF CInv, HandledOK
<1>6. ASSUME c \in Live, NEW p \in Procs
      PROVE  DoDec(p, c) \notin counted
  <2>1. \E pid \in Alive : task[pid].key = c
    BY <1>1, <1>6 DEF Live
  <2>2. ~Dropped(c)
    BY <1>1, <2>1, Origins
  <2> QED BY <1>1, <2>2 DEF BornOK
<1> QED BY <1>1, <1>3, <1>4, <1>5, <1>6

\* ... and of all counts if nothing was lost.
LEMMA DrainedBalanced ==
  ASSUME CInv
  PROVE  Balanced
<1> SUFFICES ASSUME Drained, lost = 0, NEW k \in born
             PROVE  refcnt[k] = Cardinality({k} \cap Live)
                                + Cardinality({c \in Live \ {Root} : Parent(c) = k})
  BY DEF Balanced
<1> DEFINE L == {c \in Live \ {Root} : Parent(c) = k}
<1>1. /\ k \in Procs /\ k \notin IncBy(k) /\ DecBy(k) \subseteq IncBy(k) \cup {k}
      /\ k \in DecBy(k) => k \notin Live /\ k # Root
  BY DrainedCounts
<1>2. refcnt[k] = 1 + Cardinality(IncBy(k)) - Cardinality(DecBy(k))
  BY DEF CInv, CountOK
<1>3. /\ IsFiniteSet(IncBy(k)) /\ Cardinality(IncBy(k)) \in Nat /\ IsFiniteSet(DecBy(k))
      /\ Cardinality(DecBy(k)) \in Nat
  BY FiniteCounts
<1>4. IInv /\ MsgOK /\ BornOK /\ Issued = counted
  BY DrainedFacts DEF CInv
<1>5. \A c \in Live \ {Root} : c \in Keys /\ c < nextKey /\ c \in Procs
  BY <1>4, LiveFacts, KeyFacts
<1>6. ASSUME NEW c \in IncBy(k)
      PROVE  c \in Keys /\ c < nextKey /\ Parent(c) = k /\ c \in Procs /\ c # Root
  <2>1. c \in Procs /\ Stems(c, k)
    BY <1>1, <1>4 DEF IncBy, BornOK
  <2>2. c \in Keys /\ c < nextKey
    BY <2>1, <1>4, Origins
  <2>3. c \in born \ {Root}
    BY <2>2, AllHandled
  <2>4. Stems(c, Parent(c))
    BY <2>3, <1>4 DEF BornOK
  <2>5. Parent(c) = k
    BY <2>1, <2>4, <1>4, Origins
  <2> QED BY <2>1, <2>2, <2>3, <2>5
<1>7. L = IncBy(k) \ DecBy(k)
  <2>1. ASSUME NEW c \in L
        PROVE  c \in IncBy(k) /\ c \notin DecBy(k)
    <3>1. c \in Keys /\ c < nextKey /\ c \in Procs /\ Parent(c) = k /\ c \in Live
      BY <1>5
    <3>2. DoInc(k, c) \in counted /\ DoDec(k, c) \notin counted
      BY <3>1, <1>1, AllHandled
    <3> QED BY <3>1, <3>2 DEF IncBy, DecBy
  <2>2. ASSUME NEW c \in IncBy(k), c \notin DecBy(k)
        PROVE  c \in L
    <3>1. c \in Keys /\ c < nextKey /\ Parent(c) = k /\ c \in Procs /\ c # Root
      BY <1>6, <2>2
    <3>2. DoDec(k, c) \notin counted
      BY <2>2, <3>1 DEF DecBy
    <3>3. c \in Live
      BY <3>1, <3>2, AllHandled
    <3> QED BY <3>1, <3>3
  <2> QED BY <2>1, <2>2
<1>8. CASE k \in Live
  <2>1. DecBy(k) \subseteq IncBy(k)
    BY <1>1, <1>8
  <2>2. Cardinality(IncBy(k) \ DecBy(k)) = Cardinality(IncBy(k)) - Cardinality(IncBy(k) \cap DecBy(k))
    BY <1>3, FS_Difference
  <2>3. IncBy(k) \cap DecBy(k) = DecBy(k) /\ {k} \cap Live = {k}
    BY <2>1, <1>8
  <2>4. Cardinality({k}) = 1
    BY FS_Singleton
  <2>5. Cardinality(L) = Cardinality(IncBy(k)) - Cardinality(DecBy(k)) /\ Cardinality({k} \cap Live) = 1
    BY <2>2, <2>3, <2>4, <1>7
  <2> HIDE DEF L
  <2>6. refcnt[k] = Cardinality({k} \cap Live) + Cardinality(L)
    BY <2>5, <1>2, <1>3
  <2> QED BY <2>6 DEF L
<1>9. CASE k \notin Live
  <2>1. k \in DecBy(k)
    <3>1. k # Root
      BY <1>9 DEF Live
    <3>2. k \in Keys /\ k < nextKey
      BY <3>1, <1>4, BornFacts
    <3> QED BY <3>2, <1>1, <1>9, AllHandled DEF DecBy
  <2>2. /\ IsFiniteSet(IncBy(k) \cup {k})
        /\ Cardinality(IncBy(k) \cup {k}) = Cardinality(IncBy(k)) + 1
    BY <1>1, <1>3, OneMore, FS_AddElement
  <2>3. /\ (IncBy(k) \cup {k}) \ DecBy(k) = L
        /\ (IncBy(k) \cup {k}) \cap DecBy(k) = DecBy(k)
    BY <2>1, <1>1, <1>7
  <2>4. Cardinality((IncBy(k) \cup {k}) \ DecBy(k)) =
          Cardinality(IncBy(k) \cup {k}) - Cardinality((IncBy(k) \cup {k}) \cap DecBy(k))
    BY <2>2, FS_Difference
  <2>5. {k} \cap Live = {} /\ Cardinality({}) = 0
    BY <1>9, FS_EmptySet
  <2> HIDE DEF L
  <2>6. Cardinality(L) = (Cardinality(IncBy(k)) + 1) - Cardinality(DecBy(k))
    BY <2>2, <2>3, <2>4
  <2>7. Cardinality({k} \cap Live) = 0
    BY <2>5
  <2>8. refcnt[k] = Cardinality({k} \cap Live) + Cardinality(L)
    BY <2>6, <2>7, <1>2, <1>3
  <2> QED BY <2>8 DEF L
<1> QED BY <1>8, <1>9

\* No message is given up before its references are settled, unless a message
\* was lost: every clone, exec, exit and cleanup finds what it waits for within
\* EventCacheNumRetries retries, whatever order the messages arrive in, while
\* pods are known in time and chains of clones are shorter than Reserve.
THEOREM NothingUnsettledCorrect ==
  ASSUME PodInTime
  PROVE  Spec /\ []Shallow => []NothingUnsettled
<1>1. CInv => NothingUnsettled
  BY DEF CInv
<1> QED BY <1>1, CountInvariance, PTL

\* Once everything is handled and nothing was lost, the count of every process
\* is one for its own life and one for each live process that has it as its
\* parent: the increments and decrements of the handlers and of the retries
\* pair up on every interleaving.
THEOREM BalancedCorrect ==
  ASSUME PodInTime
  PROVE  Spec /\ []Shallow => []Balanced
<1>1. CInv => Balanced
  BY DrainedBalanced
<1> QED BY <1>1, CountInvariance, PTL

\* Whatever messages were lost, once everything is handled a live process the
\* cache has learnt of is referenced and no count has gone below zero.
THEOREM LiveReferencedCorrect ==
  ASSUME PodInTime
  PROVE  Spec /\ []Shallow => []LiveReferenced
<1>1. CInv => LiveReferenced
  BY DrainedReferenced
<1> QED BY <1>1, CountInvariance, PTL

\* The same for every number of pids, retries and lost messages when no more
\* exec ids are handed out than there are retries in reserve: then no chain of
\* clones is too long, and the three properties hold of the specification alone.
THEOREM FewKeysCorrect ==
  ASSUME PodInTime, MaxKey <= Reserve
  PROVE  Spec => [](NothingUnsettled /\ Balanced /\ LiveReferenced)
<1>1. CInv => NothingUnsettled /\ Balanced /\ LiveReferenced
  BY DrainedBalanced, DrainedReferenced DEF CInv
<1> QED BY <1>1, SmallInvariance, PTL

=============================================================================
