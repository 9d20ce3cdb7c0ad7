---------------------------- MODULE EnforcerProofs ----------------------------
(***************************************************************************)
(* Proofs about Enforcer, for every finite set of threads, every set of    *)
(* elements and of requests and every size of the map of counters; and     *)
(* about MatchBinaries, at the end.                                        *)
(***************************************************************************)
EXTENDS Integers, Enforcer, MatchBinaries, FiniteSetTheorems,
        WellFoundedInduction, TLAPS

-----------------------------------------------------------------------------
(***************************************************************************)
(* The inductive invariant.                                                *)
(***************************************************************************)
Counting == {"lookup", "create", "retry"}

(* No two threads have the same element, and what a thread has is a        *)
(* request.                                                                *)
Exclusive ==
    /\ \A t, u \in Threads : enforcer_data[t] = enforcer_data[u]
                              /\ enforcer_data[t] # None => t = u
    /\ \A t \in Threads : enforcer_data[t] # None => element[enforcer_data[t]] \in Records

(* The entry is what was last asked for.                                   *)
Holds(t) ==
    want[t] = IF enforcer_data[t] = None THEN Nothing ELSE element[enforcer_data[t]]

(* Before the enforced function nothing was done to the call, and what is  *)
(* wanted is of this call or was left by one without a cleanup.            *)
Fresh(t) ==
    /\ got[t] = Nothing /\ owed[t] = Nothing
    /\ want[t] # Nothing => t \in own \cup bare

(* While it counts, a thread has the entry it counts, and knows what to do *)
(* next.                                                                   *)
Counts(t) ==
    /\ enforcer_data[t] # None /\ pc[t].then \in {"store", "delete"}
    /\ \E r \in Reasons : pc[t].key = <<element[enforcer_data[t]].info, r>>
    /\ pc[t].then = "store" => pc[t].data \in Records /\ Fresh(t)

(* What is known of a thread by where it is.  An element that a thread has *)
(* deleted and reads is free as long as no one has taken it.               *)
PlaceOK(t) ==
    /\ Holds(t)
    /\ At(t, "user") /\ want[t] # Nothing => t \in bare
    /\ At(t, "enter") => Fresh(t)
    /\ pc[t].at \in Counting => Counts(t)
    /\ At(t, "store") => /\ enforcer_data[t] # None /\ pc[t].data \in Records
                         /\ pc[t].then = "store" /\ Fresh(t)
    /\ At(t, "delete") => enforcer_data[t] # None
    /\ At(t, "read") =>
          /\ enforcer_data[t] = None /\ pc[t].elem \in Elements
          /\ got[t].signal = owed[t].signal
          /\ owed[t] # Nothing => t \in own \cup bare
          /\ t \notin taken =>
                /\ element[pc[t].elem].error = owed[t].error
                /\ \A u \in Threads : enforcer_data[u] # pc[t].elem
    /\ At(t, "exit") => /\ got[t].signal = owed[t].signal
                        /\ t \in taken \/ got[t].error = owed[t].error
                        /\ owed[t] # Nothing => t \in own \cup bare

IInv ==
    /\ TypeOK /\ Exclusive /\ Accounted
    /\ \A t \in Threads : PlaceOK(t)

-----------------------------------------------------------------------------
(***************************************************************************)
(* Counting.                                                               *)
(***************************************************************************)
Waits(t, i) ==
    /\ enforcer_data[t] # None /\ ~At(t, "store") /\ ~At(t, "delete")
    /\ element[enforcer_data[t]].info = i
Replaces(t, i) ==
    /\ pc[t].at \in Counting \cup {"store"}
    /\ pc[t].then = "store" /\ pc[t].data.info = i

(* The requests that are still at a thread, and what the maps say of all.  *)
Weight(t, i) == (IF Waits(t, i) THEN 1 ELSE 0) + (IF Replaces(t, i) THEN 1 ELSE 0)
Open(i) == notes[i] - done[i] - dropped[i] - Missed(i)

(* Two sets that differ in one element at most.                            *)
LEMMA CardStep ==
  ASSUME NEW A, NEW B, NEW t, IsFiniteSet(A), IsFiniteSet(B), A \ {t} = B \ {t}
  PROVE  /\ Cardinality(A) \in Nat /\ Cardinality(B) \in Nat
         /\ Cardinality(B) - Cardinality(A) =
              (IF t \in B THEN 1 ELSE 0) - (IF t \in A THEN 1 ELSE 0)
<1>1. Cardinality(A) \in Nat /\ Cardinality(B) \in Nat
  BY FS_CardinalityType
<1>2. /\ IsFiniteSet(A \ {t}) /\ Cardinality(A \ {t}) \in Nat
      /\ Cardinality(A \ {t}) = IF t \in A THEN Cardinality(A) - 1 ELSE Cardinality(A)
      /\ Cardinality(B \ {t}) = IF t \in B THEN Cardinality(B) - 1 ELSE Cardinality(B)
  BY FS_RemoveElement, FS_CardinalityType
<1> QED BY <1>1, <1>2

LEMMA MissedNat ==
  ASSUME TypeOK
  PROVE  \A i \in Infos : Missed(i) \in Nat
BY DEF TypeOK, Missed, Counter

(* A thread's step leaves the rest alone.                                  *)
Same(u) ==
    /\ want'[u] = want[u] /\ owed'[u] = owed[u] /\ got'[u] = got[u]
    /\ (u \in own <=> u \in own') /\ (u \in bare <=> u \in bare')
Alone(t) ==
    \A u \in Threads \ {t} :
        /\ pc'[u] = pc[u] /\ enforcer_data'[u] = enforcer_data[u]
        /\ Same(u) /\ (u \in taken => u \in taken')
        /\ enforcer_data[u] # None =>
              element'[enforcer_data[u]] = element[enforcer_data[u]]
        /\ At(u, "read") /\ u \notin taken' =>
              /\ element'[pc[u].elem] = element[pc[u].elem]
              /\ enforcer_data'[t] # pc[u].elem

(* The books balance after a step if they do for the thread that takes it. *)
LEMMA Balance ==
  ASSUME IInv, TypeOK', NEW t \in Threads, Alone(t),
         \A i \in Infos : Open(i)' - Open(i) = Weight(t, i)' - Weight(t, i)
  PROVE  Accounted'
<1>1. SUFFICES ASSUME NEW i \in Infos
               PROVE  notes'[i] = done'[i] + dropped'[i] + Missed(i)'
                                    + Cardinality(Pending(i)') + Cardinality(Replacing(i)')
  BY DEF Accounted
<1>2. \A u \in Threads \ {t} : /\ Waits(u, i)' <=> Waits(u, i)
                               /\ Replaces(u, i)' <=> Replaces(u, i)
  BY DEF Alone, Waits, Replaces, At
<1>3. /\ Pending(i) = {u \in Threads : Waits(u, i)}
      /\ Replacing(i) = {u \in Threads : Replaces(u, i)}
      /\ Pending(i)' = {u \in Threads : Waits(u, i)'}
      /\ Replacing(i)' = {u \in Threads : Replaces(u, i)'}
  BY DEF Pending, Replacing, Waits, Replaces, Counting
<1>4. /\ IsFiniteSet(Pending(i)) /\ IsFiniteSet(Pending(i)')
      /\ IsFiniteSet(Replacing(i)) /\ IsFiniteSet(Replacing(i)')
  BY <1>3, ThreadsAssumption, FS_Subset
<1>5. Pending(i) \ {t} = Pending(i)' \ {t} /\ Replacing(i) \ {t} = Replacing(i)' \ {t}
  BY <1>2, <1>3
<1>6. /\ Cardinality(Pending(i)) \in Nat /\ Cardinality(Pending(i)') \in Nat
      /\ Cardinality(Pending(i)') - Cardinality(Pending(i)) =
           (IF t \in Pending(i)' THEN 1 ELSE 0) - (IF t \in Pending(i) THEN 1 ELSE 0)
  BY <1>4, <1>5, CardStep
<1>7. /\ Cardinality(Replacing(i)) \in Nat /\ Cardinality(Replacing(i)') \in Nat
      /\ Cardinality(Replacing(i)') - Cardinality(Replacing(i)) =
           (IF t \in Replacing(i)' THEN 1 ELSE 0) - (IF t \in Replacing(i) THEN 1 ELSE 0)
  BY <1>4, <1>5, CardStep
<1>8. /\ Weight(t, i) = (IF t \in Pending(i) THEN 1 ELSE 0)
                          + (IF t \in Replacing(i) THEN 1 ELSE 0)
      /\ Weight(t, i)' = (IF t \in Pending(i)' THEN 1 ELSE 0)
                           + (IF t \in Replacing(i)' THEN 1 ELSE 0)
  BY <1>3 DEF Weight
<1>9. /\ notes[i] \in Nat /\ done[i] \in Nat /\ dropped[i] \in Nat /\ Missed(i) \in Nat
      /\ notes'[i] \in Nat /\ done'[i] \in Nat /\ dropped'[i] \in Nat /\ Missed(i)' \in Nat
  BY MissedNat DEF IInv, TypeOK, Missed, Counter
<1>10. notes[i] = done[i] + dropped[i] + Missed(i)
                    + Cardinality(Pending(i)) + Cardinality(Replacing(i))
  BY DEF IInv, Accounted
<1>11. /\ Open(i) = notes[i] - done[i] - dropped[i] - Missed(i)
       /\ Open(i)' = notes'[i] - done'[i] - dropped'[i] - Missed(i)'
       /\ Open(i)' - Open(i) = Weight(t, i)' - Weight(t, i)
  BY DEF Open
<1> QED BY <1>6, <1>7, <1>8, <1>9, <1>10, <1>11

LEMMA Step ==
  ASSUME IInv, NEW t \in Threads, TypeOK', Exclusive', PlaceOK(t)', Alone(t),
         \A i \in Infos : Open(i)' - Open(i) = Weight(t, i)' - Weight(t, i)
  PROVE  IInv'
<1>1. ASSUME NEW u \in Threads, u # t PROVE PlaceOK(u)'
  <2>1. PlaceOK(u)
    BY DEF IInv
  <2>2. /\ pc'[u] = pc[u] /\ enforcer_data'[u] = enforcer_data[u]
        /\ Same(u) /\ (u \in taken => u \in taken')
        /\ enforcer_data[u] # None =>
              element'[enforcer_data[u]] = element[enforcer_data[u]]
        /\ At(u, "read") /\ u \notin taken' =>
              /\ element'[pc[u].elem] = element[pc[u].elem]
              /\ enforcer_data'[t] # pc[u].elem
    BY <1>1 DEF Alone
  <2>3. (Holds(u)' <=> Holds(u)) /\ (Fresh(u)' <=> Fresh(u)) /\ (Counts(u) => Counts(u)')
    BY <2>2 DEF Holds, Counts, Fresh, Same
  <2>4. At(u, "read") /\ u \notin taken' =>
          \A w \in Threads : enforcer_data'[w] # pc[u].elem
    BY <2>1, <2>2 DEF PlaceOK, Alone
  <2> QED BY <2>1, <2>2, <2>3, <2>4 DEF PlaceOK, At, Same
<1> QED BY <1>1, Balance DEF IInv

-----------------------------------------------------------------------------
(***************************************************************************)
(* The steps that leave the maps alone.                                    *)
(***************************************************************************)
LEMMA Goes ==
  ASSUME TypeOK, NEW t \in Threads, NEW place \in Places, Goto(t, place)
  PROVE  /\ pc' \in [Threads -> Place] /\ pc'[t].at = place
         /\ pc'[t].then = pc[t].then /\ pc'[t].data = pc[t].data
         /\ pc'[t].key = pc[t].key /\ pc'[t].elem = pc[t].elem
         /\ \A u \in Threads \ {t} : pc'[u] = pc[u]
<1> DEFINE q == [pc[t] EXCEPT !.at = place]
<1>1. pc \in [Threads -> Place] /\ pc[t] \in Place
  BY DEF TypeOK
<1>2. /\ q \in Place /\ q.at = place /\ q.then = pc[t].then /\ q.data = pc[t].data
      /\ q.key = pc[t].key /\ q.elem = pc[t].elem
  BY <1>1 DEF Place
<1>3. pc' = [pc EXCEPT ![t] = q]
  BY DEF Goto
<1> HIDE DEF q
<1> QED BY <1>1, <1>2, <1>3

LEMMA Ints ==
  ASSUME TypeOK, NEW t \in Threads
  PROVE  \A i \in Infos : Open(i) \in Int /\ Weight(t, i) \in Int
<1>1. \A i \in Infos : /\ notes[i] \in Nat /\ done[i] \in Nat /\ dropped[i] \in Nat
                       /\ Missed(i) \in Nat
  BY MissedNat DEF TypeOK
<1> QED BY <1>1 DEF Open, Weight

LEMMA Asked ==
  /\ Records \subseteq [info : Nat, error : Int, signal : Int]
  /\ \A r \in Records : r.info \in Infos
  /\ \A r \in Requests : Data(r) \in Records /\ Data(r).info = r.info /\ r.info \in Infos
<1>1. \A x \in Int : S16(x) \in Int
  BY DEF S16
<1> QED BY <1>1, EnforcerAssumption DEF Records, Data, Infos

LEMMA Types ==
  ASSUME TypeOK
  PROVE  /\ enforcer_data \in [Threads -> Elements \cup {None}]
         /\ element \in [Elements -> Records \cup {Nothing}]
         /\ notes \in [Infos -> Nat] /\ done \in [Infos -> Nat] /\ dropped \in [Infos -> Nat]
         /\ want \in [Threads -> Records \cup {Nothing}]
         /\ owed \in [Threads -> Records \cup {Nothing}]
         /\ got \in [Threads -> [info : Nat, error : Int, signal : Int]]
         /\ Nothing \in [info : Nat, error : Int, signal : Int]
         /\ Records \subseteq [info : Nat, error : Int, signal : Int]
         /\ \A r \in Records : r.info \in Infos
         /\ taken \subseteq Threads /\ own \subseteq Threads /\ bare \subseteq Threads
BY Asked DEF TypeOK, Nothing

(* The types of what a call is known by, after a step.                     *)
CallsOK ==
    /\ want \in [Threads -> Records \cup {Nothing}]
    /\ owed \in [Threads -> Records \cup {Nothing}]
    /\ got \in [Threads -> [info : Nat, error : Int, signal : Int]]
    /\ taken \subseteq Threads /\ own \subseteq Threads /\ bare \subseteq Threads

(* A step that changes neither the requests nor the counters.              *)
LEMMA Still ==
  ASSUME IInv, NEW t \in Threads, pc' \in [Threads -> Place],
         \A u \in Threads \ {t} : pc'[u] = pc[u] /\ Same(u) /\ (u \in taken => u \in taken'),
         CallsOK', PlaceOK(t)',
         \A i \in Infos : Weight(t, i)' = Weight(t, i),
         UNCHANGED <<enforcer_data, element, missed, notes, done, dropped>>
  PROVE  IInv'
<1>1. TypeOK'
  BY DEF IInv, TypeOK, CallsOK
<1>2. Exclusive'
  BY DEF IInv, Exclusive
<1>3. Alone(t)
  BY DEF Alone, IInv, PlaceOK
<1>4. \A i \in Infos : Open(i)' = Open(i)
  BY DEF Open, Missed, Counter
<1>5. \A i \in Infos : Open(i) \in Int /\ Weight(t, i) \in Int
  BY Ints DEF IInv
<1>6. \A i \in Infos : Open(i)' - Open(i) = Weight(t, i)' - Weight(t, i)
  BY <1>4, <1>5
<1> QED BY <1>1, <1>2, <1>3, <1>6, Step

LEMMA EnterIInv ==
  ASSUME IInv, NEW t \in Threads, Enter(t)
  PROVE  IInv'
<1>1. TypeOK /\ PlaceOK(t) /\ Holds(t) /\ pc[t].at = "user" /\ (want[t] # Nothing => t \in bare)
  BY DEF IInv, PlaceOK, Enter, At
<1>2. /\ pc' \in [Threads -> Place] /\ pc'[t].at = "enter"
      /\ \A u \in Threads \ {t} : pc'[u] = pc[u]
  BY <1>1, Goes DEF Enter, Places
<1>3. /\ owed'[t] = Nothing /\ got'[t] = Nothing
      /\ \A u \in Threads \ {t} : owed'[u] = owed[u] /\ got'[u] = got[u]
      /\ owed' \in [Threads -> Records \cup {Nothing}]
      /\ got' \in [Threads -> [info : Nat, error : Int, signal : Int]]
      /\ taken' = taken \ {t} /\ own' = own \ {t}
      /\ UNCHANGED <<enforcer_data, element, missed, notes, done, dropped, want, bare>>
  BY <1>1, Types DEF Enter
<1>4. PlaceOK(t)'
  BY <1>1, <1>2, <1>3 DEF PlaceOK, At, Counting, Holds, Fresh
<1>5. \A i \in Infos : Weight(t, i)' = Weight(t, i)
  BY <1>1, <1>2, <1>3 DEF Weight, Waits, Replaces, Counting, At
<1>6. CallsOK'
  BY <1>1, <1>3, Types DEF CallsOK
<1>7. \A u \in Threads \ {t} : Same(u) /\ (u \in taken => u \in taken')
  BY <1>3 DEF Same
<1> QED BY <1>2, <1>3, <1>4, <1>5, <1>6, <1>7, Still

LEMMA SkipIInv ==
  ASSUME IInv, NEW t \in Threads, Skip(t)
  PROVE  IInv'
<1>1. TypeOK /\ pc[t].at = "enter" /\ Holds(t) /\ Fresh(t)
  BY DEF IInv, PlaceOK, Skip, At
<1>2. /\ pc' \in [Threads -> Place] /\ pc'[t].at = "exit"
      /\ \A u \in Threads \ {t} : pc'[u] = pc[u]
  BY <1>1, Goes DEF Skip, Places
<1>3. UNCHANGED <<enforcer_data, element, missed, notes, got, done, dropped, taken,
                  want, owed, own, bare>>
  BY DEF Skip, calls
<1>4. PlaceOK(t)'
  BY <1>1, <1>2, <1>3 DEF PlaceOK, At, Counting, Holds, Fresh
<1>5. \A i \in Infos : Weight(t, i)' = Weight(t, i)
  BY <1>1, <1>2, <1>3 DEF Weight, Waits, Replaces, Counting, At
<1>6. CallsOK' /\ \A u \in Threads \ {t} : Same(u)
  BY <1>1, <1>3, Types DEF CallsOK, Same
<1> QED BY <1>2, <1>3, <1>4, <1>5, <1>6, Still

LEMMA ReturnIInv ==
  ASSUME IInv, NEW t \in Threads, Return(t)
  PROVE  IInv'
<1>1. TypeOK /\ pc[t].at = "exit" /\ Holds(t)
  BY DEF IInv, PlaceOK, Return, At
<1>2. /\ pc' \in [Threads -> Place] /\ pc'[t].at = "user"
      /\ \A u \in Threads \ {t} : pc'[u] = pc[u]
  BY <1>1, Goes DEF Return, Places
<1>3. /\ UNCHANGED <<enforcer_data, element, missed, notes, got, done, dropped, taken,
                     want, owed, own>>
      /\ bare' = bare \cup {t}
  BY DEF Return
<1>4. PlaceOK(t)'
  BY <1>1, <1>2, <1>3 DEF PlaceOK, At, Counting, Holds
<1>5. \A i \in Infos : Weight(t, i)' = Weight(t, i)
  BY <1>1, <1>2, <1>3 DEF Weight, Waits, Replaces, Counting, At
<1>6. CallsOK' /\ \A u \in Threads \ {t} : Same(u)
  BY <1>1, <1>3, Types DEF CallsOK, Same
<1> QED BY <1>2, <1>3, <1>4, <1>5, <1>6, Still

LEMMA ReadErrorIInv ==
  ASSUME IInv, NEW t \in Threads, ReadError(t)
  PROVE  IInv'
<1>1. TypeOK /\ PlaceOK(t) /\ pc[t].at = "read" /\ enforcer_data[t] = None
  BY DEF IInv, PlaceOK, ReadError, At
<1>2. /\ pc' \in [Threads -> Place] /\ pc'[t].at = "exit"
      /\ \A u \in Threads \ {t} : pc'[u] = pc[u]
  BY <1>1, Goes DEF ReadError, Places
<1>3. PICK e \in Elements : e = pc[t].elem
  BY <1>1 DEF PlaceOK, At
<1>4. element[e].error \in Int
  BY <1>1, Types
<1>5. /\ got'[t].signal = got[t].signal /\ got'[t].error = element[e].error
      /\ \A u \in Threads \ {t} : got'[u] = got[u]
      /\ got' \in [Threads -> [info : Nat, error : Int, signal : Int]]
  BY <1>1, <1>3, <1>4, Types DEF ReadError
<1>6. UNCHANGED <<enforcer_data, element, missed, notes, done, dropped, taken,
                  want, owed, own, bare>>
  BY DEF ReadError, calls
<1>7. PlaceOK(t)'
  BY <1>1, <1>2, <1>3, <1>5, <1>6 DEF PlaceOK, At, Counting, Holds
<1>8. \A i \in Infos : Weight(t, i)' = Weight(t, i)
  BY <1>1, <1>2, <1>6 DEF Weight, Waits, Replaces, Counting
<1>9. CallsOK' /\ \A u \in Threads \ {t} : Same(u)
  BY <1>1, <1>5, <1>6, Types DEF CallsOK, Same
<1> QED BY <1>2, <1>6, <1>7, <1>8, <1>9, Still

LEMMA do_enforcer_cleanupIInv ==
  ASSUME IInv, NEW t \in Threads, do_enforcer_cleanup(t)
  PROVE  IInv'
<1>1. TypeOK /\ PlaceOK(t) /\ pc[t].at = "exit"
  BY DEF IInv, PlaceOK, do_enforcer_cleanup, At
<1>2. /\ UNCHANGED <<enforcer_data, element, missed, notes, got, done, dropped, taken,
                     want, owed, own>>
      /\ bare' \in {bare, bare \ {t}} /\ (enforcer_data[t] # None => bare' = bare)
  BY DEF do_enforcer_cleanup
<1>3. CallsOK' /\ \A u \in Threads \ {t} : Same(u)
  BY <1>1, <1>2, Types DEF CallsOK, Same
<1>4. CASE enforcer_data[t] = None
  <2>1. /\ pc' \in [Threads -> Place] /\ pc'[t].at = "user"
        /\ \A u \in Threads \ {t} : pc'[u] = pc[u]
    BY <1>1, <1>4, Goes DEF do_enforcer_cleanup, Places
  <2>2. PlaceOK(t)'
    BY <1>1, <1>2, <1>4, <2>1 DEF PlaceOK, At, Counting, Holds
  <2>3. \A i \in Infos : Weight(t, i)' = Weight(t, i)
    BY <1>1, <1>2, <1>4, <2>1 DEF Weight, Waits, Replaces, Counting
  <2> QED BY <1>2, <1>3, <2>1, <2>2, <2>3, Still
<1>5. CASE enforcer_data[t] # None
  <2>1. PICK j \in Infos : j = element[enforcer_data[t]].info
    BY <1>1, <1>5, Types DEF IInv, Exclusive
  <2> DEFINE q == [pc[t] EXCEPT !.at = "lookup", !.then = "delete", !.key = <<j, "noaction">>]
  <2>2. pc \in [Threads -> Place] /\ pc[t] \in Place /\ pc' = [pc EXCEPT ![t] = q]
    BY <1>5, <2>1 DEF do_enforcer_cleanup, Count, IInv, TypeOK
  <2>3. /\ q \in Place /\ q.at = "lookup" /\ q.then = "delete" /\ q.key = <<j, "noaction">>
    BY <2>2 DEF Place, Places, Reasons
  <2> HIDE DEF q
  <2>4. /\ pc' \in [Threads -> Place] /\ pc'[t] = q
        /\ \A u \in Threads \ {t} : pc'[u] = pc[u]
    BY <2>2, <2>3
  <2>5. Counts(t)'
    BY <1>2, <1>5, <2>1, <2>3, <2>4 DEF Counts, Reasons
  <2>6. PlaceOK(t)'
    BY <1>1, <1>2, <2>3, <2>4, <2>5 DEF PlaceOK, At, Counting, Holds
  <2>7. \A i \in Infos : Weight(t, i)' = Weight(t, i)
    BY <1>1, <1>2, <2>3, <2>4 DEF Weight, Waits, Replaces, Counting, At
  <2> QED BY <1>2, <1>3, <2>4, <2>6, <2>7, Still
<1> QED BY <1>4, <1>5

-----------------------------------------------------------------------------
(***************************************************************************)
(* The counting of missed requests.                                        *)
(***************************************************************************)
MissedOK ==
    /\ DOMAIN missed \subseteq Infos \X Reasons /\ missed \in [DOMAIN missed -> Nat]
    /\ IsFiniteSet(DOMAIN missed) /\ Cardinality(DOMAIN missed) <= MissedMax

(* One counter goes up by one.                                             *)
LEMMA Counted ==
  ASSUME TypeOK, NEW j \in Infos, NEW r \in Reasons,
         Counter(<<j, r>>)' = Counter(<<j, r>>) + 1,
         \A i \in Infos, s \in Reasons :
            <<i, s>> # <<j, r>> => Counter(<<i, s>>)' = Counter(<<i, s>>)
  PROVE  \A i \in Infos : Missed(i)' - Missed(i) = IF i = j THEN 1 ELSE 0
<1>1. \A i \in Infos : /\ Counter(<<i, "overwritten">>) \in Nat
                       /\ Counter(<<i, "noaction">>) \in Nat
  BY DEF TypeOK, Counter
<1>2. \A i \in Infos \ {j} : Missed(i)' = Missed(i)
  BY DEF Missed, Reasons
<1>3. Missed(j)' = Missed(j) + 1
  <2>1. CASE r = "overwritten"
    <3>1. Counter(<<j, "noaction">>)' = Counter(<<j, "noaction">>)
      BY <2>1 DEF Reasons
    <3> QED BY <1>1, <2>1, <3>1 DEF Missed
  <2>2. CASE r = "noaction"
    <3>1. Counter(<<j, "overwritten">>)' = Counter(<<j, "overwritten">>)
      BY <2>2 DEF Reasons
    <3> QED BY <1>1, <2>2, <3>1 DEF Missed
  <2> QED BY <2>1, <2>2 DEF Reasons
<1>4. \A i \in Infos : Missed(i) \in Int
  BY MissedNat
<1> QED BY <1>2, <1>3, <1>4

(* What a thread that counts counts.                                       *)
LEMMA Key ==
  ASSUME IInv, NEW t \in Threads, pc[t].at \in Counting
  PROVE  \E j \in Infos, r \in Reasons : /\ j = element[enforcer_data[t]].info
                                         /\ pc[t].key = <<j, r>>
<1>1. Counts(t)
  BY DEF IInv, PlaceOK
<1> QED BY <1>1, Types DEF Counts, IInv, Exclusive

(* A thread is through with counting: its request is counted or dropped.   *)
LEMMA CountDone ==
  ASSUME IInv, NEW t \in Threads, pc[t].at \in Counting, Goto(t, pc[t].then), MissedOK',
         dropped' \in [Infos -> Nat], NEW j \in Infos, j = element[enforcer_data[t]].info,
         \A i \in Infos : (dropped'[i] - dropped[i]) + (Missed(i)' - Missed(i))
                            = IF i = j THEN 1 ELSE 0,
         UNCHANGED <<enforcer_data, element, notes, got, done, taken, calls>>
  PROVE  IInv'
<1>1. TypeOK /\ PlaceOK(t) /\ Counts(t) /\ pc[t].then \in {"store", "delete"}
  BY DEF IInv, PlaceOK, Counts
<1>2. /\ pc' \in [Threads -> Place] /\ pc'[t].at = pc[t].then
      /\ pc'[t].then = pc[t].then /\ pc'[t].data = pc[t].data
      /\ \A u \in Threads \ {t} : pc'[u] = pc[u]
  <2>1. pc[t].then \in Places
    BY <1>1 DEF Places
  <2> QED BY <1>1, <2>1, Goes
<1>3. TypeOK'
  BY <1>1, <1>2 DEF TypeOK, MissedOK, calls
<1>4. Exclusive'
  BY DEF IInv, Exclusive
<1>5. PlaceOK(t)'
  <2>1. (Holds(t)' <=> Holds(t)) /\ (Fresh(t)' <=> Fresh(t))
    BY DEF Holds, Fresh, calls
  <2> QED BY <1>1, <1>2, <2>1 DEF PlaceOK, At, Counting, Counts
<1>6. Alone(t)
  BY <1>1, <1>2 DEF Alone, Same, IInv, PlaceOK, calls
<1>7. ASSUME NEW i \in Infos PROVE Open(i)' - Open(i) = Weight(t, i)' - Weight(t, i)
  <2>1. Waits(t, i) <=> i = j
    BY <1>1 DEF Waits, Counts, At, Counting
  <2>2. ~Waits(t, i)'
    BY <1>1, <1>2 DEF Waits, At
  <2>3. Replaces(t, i)' <=> Replaces(t, i)
    BY <1>1, <1>2 DEF Replaces, Counting
  <2>4. Weight(t, i)' - Weight(t, i) = IF i = j THEN -1 ELSE 0
    BY <2>1, <2>2, <2>3 DEF Weight
  <2>5. /\ notes[i] \in Int /\ done[i] \in Int /\ dropped[i] \in Int /\ Missed(i) \in Int
        /\ dropped'[i] \in Int /\ Missed(i)' \in Int
    BY <1>1, <1>3, MissedNat, Types DEF Missed, Counter, TypeOK
  <2>6. (dropped'[i] - dropped[i]) + (Missed(i)' - Missed(i)) = IF i = j THEN 1 ELSE 0
    OBVIOUS
  <2>7. /\ Open(i) = notes[i] - done[i] - dropped[i] - Missed(i)
        /\ Open(i)' = notes[i] - done[i] - dropped'[i] - Missed(i)'
    BY DEF Open
  <2> QED BY <2>4, <2>5, <2>6, <2>7
<1> QED BY <1>3, <1>4, <1>5, <1>6, <1>7, Step

(* The counter was there.                                                  *)
LEMMA AddedCounts ==
  ASSUME IInv, NEW t \in Threads, pc[t].at \in Counting, Goto(t, pc[t].then),
         pc[t].key \in DOMAIN missed, missed' = Added(pc[t].key),
         UNCHANGED <<enforcer_data, element, notes, got, done, dropped, taken, calls>>
  PROVE  IInv'
<1>1. PICK j \in Infos, r \in Reasons : /\ j = element[enforcer_data[t]].info
                                        /\ pc[t].key = <<j, r>>
  BY Key
<1>2. TypeOK /\ MissedOK /\ dropped \in [Infos -> Nat]
  BY DEF IInv, TypeOK, MissedOK
<1>3. missed' = [missed EXCEPT ![<<j, r>>] = @ + 1] /\ <<j, r>> \in DOMAIN missed
  BY <1>1 DEF Added
<1>4. DOMAIN missed' = DOMAIN missed /\ missed' \in [DOMAIN missed -> Nat]
  BY <1>2, <1>3 DEF MissedOK
<1>5. MissedOK'
  BY <1>2, <1>4 DEF MissedOK
<1>6. Counter(<<j, r>>)' = Counter(<<j, r>>) + 1
  BY <1>2, <1>3, <1>4 DEF Counter, MissedOK
<1>7. \A i \in Infos, s \in Reasons :
         <<i, s>> # <<j, r>> => Counter(<<i, s>>)' = Counter(<<i, s>>)
  BY <1>2, <1>3, <1>4 DEF Counter, MissedOK
<1>8. \A i \in Infos : Missed(i)' - Missed(i) = IF i = j THEN 1 ELSE 0
  BY <1>2, <1>6, <1>7, Counted
<1>9. \A i \in Infos : (dropped'[i] - dropped[i]) + (Missed(i)' - Missed(i))
                         = IF i = j THEN 1 ELSE 0
  BY <1>2, <1>8
<1> QED BY <1>1, <1>2, <1>5, <1>9, CountDone

(* The counter is not there, or could not be made: look further.           *)
LEMMA LooksOn ==
  ASSUME IInv, NEW t \in Threads, pc[t].at \in Counting, NEW place \in Counting,
         Goto(t, place),
         UNCHANGED <<enforcer_data, element, missed, notes, got, done, dropped, taken, calls>>
  PROVE  IInv'
<1>1. TypeOK /\ PlaceOK(t) /\ Counts(t) /\ place \in Places
  BY DEF IInv, PlaceOK, Places, Counting
<1>2. /\ pc' \in [Threads -> Place] /\ pc'[t].at = place
      /\ pc'[t].then = pc[t].then /\ pc'[t].data = pc[t].data /\ pc'[t].key = pc[t].key
      /\ \A u \in Threads \ {t} : pc'[u] = pc[u]
  BY <1>1, Goes
<1>3. Counts(t)'
  BY <1>1, <1>2 DEF Counts, Fresh, calls
<1>4. PlaceOK(t)'
  BY <1>1, <1>2, <1>3 DEF PlaceOK, At, Counting, Holds, calls
<1>5. \A i \in Infos : Weight(t, i)' = Weight(t, i)
  BY <1>2 DEF Weight, Waits, Replaces, Counting, At
<1>6. CallsOK' /\ \A u \in Threads \ {t} : Same(u)
  BY <1>1, Types DEF CallsOK, Same, calls
<1> QED BY <1>2, <1>4, <1>5, <1>6, Still

LEMMA MissedLookupIInv ==
  ASSUME IInv, NEW t \in Threads, MissedLookup(t)
  PROVE  IInv'
<1>1. pc[t].at \in Counting /\ "create" \in Counting
  BY DEF MissedLookup, At, Counting
<1>2. CASE pc[t].key \in DOMAIN missed
  BY <1>1, <1>2, AddedCounts DEF MissedLookup
<1>3. CASE pc[t].key \notin DOMAIN missed
  BY <1>1, <1>3, LooksOn DEF MissedLookup
<1> QED BY <1>2, <1>3

LEMMA MissedCreateIInv ==
  ASSUME IInv, NEW t \in Threads, MissedCreate(t)
  PROVE  IInv'
<1>1. pc[t].at \in Counting /\ "retry" \in Counting
  BY DEF MissedCreate, At, Counting
<1>2. UNCHANGED <<enforcer_data, element, notes, got, done, dropped, taken, calls>>
  BY DEF MissedCreate
<1>3. PICK j \in Infos, r \in Reasons : /\ j = element[enforcer_data[t]].info
                                        /\ pc[t].key = <<j, r>>
  BY <1>1, Key
<1>4. CASE pc[t].key \notin DOMAIN missed /\ Cardinality(DOMAIN missed) < MissedMax
  <2>1. TypeOK /\ MissedOK /\ dropped \in [Infos -> Nat] /\ MissedMax \in Nat
    BY EnforcerAssumption DEF IInv, TypeOK, MissedOK
  <2>2. /\ missed' = [k \in DOMAIN missed \cup {<<j, r>>} |->
                         IF k = <<j, r>> THEN 1 ELSE missed[k]]
        /\ Goto(t, pc[t].then) /\ <<j, r>> \notin DOMAIN missed
    BY <1>3, <1>4 DEF MissedCreate
  <2>3. DOMAIN missed' = DOMAIN missed \cup {<<j, r>>}
    BY <2>2
  <2>4. missed' \in [DOMAIN missed' -> Nat] /\ DOMAIN missed' \subseteq Infos \X Reasons
    BY <2>1, <2>2, <2>3 DEF MissedOK
  <2>5. IsFiniteSet(DOMAIN missed') /\ Cardinality(DOMAIN missed') = Cardinality(DOMAIN missed) + 1
    BY <2>1, <2>2, <2>3, FS_AddElement DEF MissedOK
  <2>6. Cardinality(DOMAIN missed) \in Nat
    BY <2>1, FS_CardinalityType DEF MissedOK
  <2>7. MissedOK'
    BY <1>4, <2>1, <2>4, <2>5, <2>6 DEF MissedOK
  <2>8. Counter(<<j, r>>)' = Counter(<<j, r>>) + 1
    BY <2>2, <2>3 DEF Counter
  <2>9. \A i \in Infos, s \in Reasons :
           <<i, s>> # <<j, r>> => Counter(<<i, s>>)' = Counter(<<i, s>>)
    BY <2>2, <2>3 DEF Counter
  <2>10. \A i \in Infos : Missed(i)' - Missed(i) = IF i = j THEN 1 ELSE 0
    BY <2>1, <2>8, <2>9, Counted
  <2>11. \A i \in Infos : (dropped'[i] - dropped[i]) + (Missed(i)' - Missed(i))
                            = IF i = j THEN 1 ELSE 0
    BY <1>2, <2>1, <2>10
  <2> QED BY <1>1, <1>2, <1>3, <2>1, <2>2, <2>7, <2>11, CountDone
<1>5. CASE ~(pc[t].key \notin DOMAIN missed /\ Cardinality(DOMAIN missed) < MissedMax)
  BY <1>1, <1>5, LooksOn DEF MissedCreate
<1> QED BY <1>4, <1>5

LEMMA MissedRetryIInv ==
  ASSUME IInv, NEW t \in Threads, MissedRetry(t)
  PROVE  IInv'
<1>1. pc[t].at \in Counting
  BY DEF MissedRetry, At, Counting
<1>2. UNCHANGED <<enforcer_data, element, notes, got, done, taken, calls>>
      /\ Goto(t, pc[t].then)
  BY DEF MissedRetry
<1>3. CASE pc[t].key \in DOMAIN missed
  BY <1>1, <1>2, <1>3, AddedCounts DEF MissedRetry
<1>4. CASE pc[t].key \notin DOMAIN missed
  <2>1. PICK j \in Infos, r \in Reasons : /\ j = element[enforcer_data[t]].info
                                          /\ pc[t].key = <<j, r>>
    BY <1>1, Key
  <2>2. dropped' = [dropped EXCEPT ![j] = @ + 1] /\ missed' = missed
    BY <1>4, <2>1 DEF MissedRetry
  <2>3. TypeOK /\ dropped \in [Infos -> Nat]
    BY DEF IInv, TypeOK
  <2>4. MissedOK'
    BY <2>2, <2>3 DEF TypeOK, MissedOK
  <2>5. \A i \in Infos : Missed(i)' = Missed(i) /\ Missed(i) \in Int
    <3>1. \A i \in Infos : Missed(i)' = Missed(i)
      BY <2>2 DEF Missed, Counter
    <3> QED BY <2>3, <3>1, MissedNat
  <2>6. /\ dropped' \in [Infos -> Nat]
        /\ \A i \in Infos : dropped'[i] - dropped[i] = IF i = j THEN 1 ELSE 0
    BY <2>2, <2>3
  <2>7. \A i \in Infos : dropped'[i] \in Int /\ dropped[i] \in Int
    BY <2>3, <2>6
  <2>8. \A i \in Infos : (dropped'[i] - dropped[i]) + (Missed(i)' - Missed(i))
                           = IF i = j THEN 1 ELSE 0
    BY <2>5, <2>6, <2>7
  <2> QED BY <1>1, <1>2, <2>1, <2>4, <2>6, <2>8, CountDone
<1> QED BY <1>3, <1>4

-----------------------------------------------------------------------------
(***************************************************************************)
(* The steps that change the entries.                                      *)
(***************************************************************************)
LEMMA StoreIInv ==
  ASSUME IInv, NEW t \in Threads, Store(t)
  PROVE  IInv'
<1>1. /\ TypeOK /\ pc[t].at = "store" /\ pc[t].then = "store"
      /\ enforcer_data[t] # None /\ got[t] = Nothing /\ owed[t] = Nothing
  BY DEF IInv, PlaceOK, Store, At, Fresh
<1>2. PICK d \in Records : d = pc[t].data
  BY DEF IInv, PlaceOK, Store, At
<1>3. PICK e \in Elements : e = enforcer_data[t]
  BY <1>1, Types
<1>4. /\ element' = [element EXCEPT ![e] = d]
      /\ want' = [want EXCEPT ![t] = d] /\ own' = own \cup {t}
      /\ UNCHANGED <<enforcer_data, missed, notes, got, done, dropped, taken, owed, bare>>
  BY <1>2, <1>3 DEF Store
<1>5. /\ pc' \in [Threads -> Place] /\ pc'[t].at = "enter"
      /\ \A u \in Threads \ {t} : pc'[u] = pc[u]
  BY <1>1, Goes DEF Store, Places
<1>6. /\ element'[e] = d /\ \A f \in Elements \ {e} : element'[f] = element[f]
      /\ element' \in [Elements -> Records \cup {Nothing}]
      /\ want'[t] = d /\ \A u \in Threads \ {t} : want'[u] = want[u]
      /\ want' \in [Threads -> Records \cup {Nothing}]
  BY <1>1, <1>4, Types
<1>7. TypeOK'
  BY <1>1, <1>4, <1>5, <1>6 DEF TypeOK
<1>8. \A u \in Threads \ {t} : enforcer_data[u] # e
  BY <1>1, <1>3 DEF IInv, Exclusive
<1>9. Exclusive'
  <2>1. ASSUME NEW u \in Threads, enforcer_data[u] # None
        PROVE  element'[enforcer_data[u]] \in Records
    <3>1. enforcer_data[u] \in Elements /\ element[enforcer_data[u]] \in Records
      BY <1>1, <2>1, Types DEF IInv, Exclusive
    <3> QED BY <1>6, <3>1
  <2> QED BY <1>4, <2>1 DEF IInv, Exclusive
<1>10. PlaceOK(t)'
  BY <1>1, <1>3, <1>4, <1>5, <1>6 DEF PlaceOK, At, Counting, Holds, Fresh
<1>11. Alone(t)
  <2>1. ASSUME NEW u \in Threads \ {t}
        PROVE  /\ enforcer_data[u] # None =>
                     element'[enforcer_data[u]] = element[enforcer_data[u]]
               /\ At(u, "read") /\ u \notin taken' =>
                     /\ element'[pc[u].elem] = element[pc[u].elem]
                     /\ enforcer_data'[t] # pc[u].elem
    <3>1. At(u, "read") /\ u \notin taken =>
            pc[u].elem \in Elements /\ enforcer_data[t] # pc[u].elem
      BY DEF IInv, PlaceOK
    <3>2. enforcer_data[u] # None => enforcer_data[u] \in Elements
      BY <1>1, Types
    <3> QED BY <1>3, <1>4, <1>6, <1>8, <3>1, <3>2
  <2> QED BY <1>4, <1>5, <1>6, <2>1 DEF Alone, Same
<1>12. ASSUME NEW i \in Infos PROVE Open(i)' - Open(i) = Weight(t, i)' - Weight(t, i)
  <2>1. Open(i)' = Open(i) /\ Open(i) \in Int
    BY <1>1, <1>4, Ints DEF Open, Missed, Counter
  <2>2. ~Waits(t, i) /\ ~Replaces(t, i)' /\ (Waits(t, i)' <=> d.info = i)
        /\ (Replaces(t, i) <=> d.info = i)
    BY <1>1, <1>2, <1>3, <1>4, <1>5, <1>6 DEF Waits, Replaces, At, Counting
  <2>3. Weight(t, i)' = Weight(t, i) /\ Weight(t, i) \in Int
    BY <2>2 DEF Weight
  <2> QED BY <2>1, <2>3
<1> QED BY <1>7, <1>9, <1>10, <1>11, <1>12, Step

LEMMA DeleteIInv ==
  ASSUME IInv, NEW t \in Threads, Delete(t)
  PROVE  IInv'
<1>1. TypeOK /\ pc[t].at = "delete"
  BY DEF IInv, Delete, At
<1>2. /\ UNCHANGED <<element, missed, notes, got, done, dropped, taken, owed, own>>
      /\ bare' = bare \ {t}
  BY DEF Delete
<1>3. /\ pc' \in [Threads -> Place] /\ pc'[t].at = "user"
      /\ \A u \in Threads \ {t} : pc'[u] = pc[u]
  BY <1>1, Goes DEF Delete, Places
<1>4. /\ enforcer_data'[t] = None
      /\ \A u \in Threads \ {t} : enforcer_data'[u] = enforcer_data[u]
      /\ enforcer_data' \in [Threads -> Elements \cup {None}]
      /\ want'[t] = Nothing /\ \A u \in Threads \ {t} : want'[u] = want[u]
      /\ want' \in [Threads -> Records \cup {Nothing}]
  BY <1>1, Types DEF Delete
<1>5. TypeOK'
  BY <1>1, <1>2, <1>3, <1>4 DEF TypeOK
<1>6. Exclusive'
  BY <1>2, <1>4 DEF IInv, Exclusive
<1>7. PlaceOK(t)'
  BY <1>3, <1>4 DEF PlaceOK, At, Counting, Holds
<1>8. Alone(t)
  <2>1. \A u \in Threads \ {t} : At(u, "read") => pc[u].elem # None
    BY ThreadsAssumption DEF IInv, PlaceOK
  <2> QED BY <1>2, <1>3, <1>4, <2>1 DEF Alone, Same
<1>9. ASSUME NEW i \in Infos PROVE Open(i)' - Open(i) = Weight(t, i)' - Weight(t, i)
  <2>1. Open(i)' = Open(i) /\ Open(i) \in Int
    BY <1>1, <1>2, Ints DEF Open, Missed, Counter
  <2>2. ~Waits(t, i) /\ ~Replaces(t, i)' /\ ~Waits(t, i)' /\ ~Replaces(t, i)
    BY <1>1, <1>3, <1>4 DEF Waits, Replaces, At, Counting
  <2>3. Weight(t, i)' = Weight(t, i) /\ Weight(t, i) \in Int
    BY <2>2 DEF Weight
  <2> QED BY <2>1, <2>3
<1> QED BY <1>5, <1>6, <1>7, <1>8, <1>9, Step

LEMMA do_enforcerIInv ==
  ASSUME IInv, NEW t \in Threads, do_enforcer(t)
  PROVE  IInv'
<1>1. TypeOK /\ pc[t].at = "enter" /\ Holds(t) /\ Fresh(t)
  BY DEF IInv, PlaceOK, do_enforcer, At
<1>2. /\ UNCHANGED <<element, missed, notes, dropped, taken, own, bare>>
      /\ want'[t] = Nothing /\ \A u \in Threads \ {t} : want'[u] = want[u]
      /\ want' \in [Threads -> Records \cup {Nothing}]
      /\ owed'[t] = want[t] /\ \A u \in Threads \ {t} : owed'[u] = owed[u]
      /\ owed' \in [Threads -> Records \cup {Nothing}]
  BY <1>1, Types DEF do_enforcer
<1>3. CASE enforcer_data[t] = None
  <2>1. UNCHANGED <<enforcer_data, got, done>>
    BY <1>3 DEF do_enforcer
  <2>2. /\ pc' \in [Threads -> Place] /\ pc'[t].at = "exit"
        /\ \A u \in Threads \ {t} : pc'[u] = pc[u]
    BY <1>1, <1>3, Goes DEF do_enforcer, Places
  <2>3. PlaceOK(t)'
    BY <1>1, <1>2, <1>3, <2>1, <2>2 DEF PlaceOK, At, Counting, Holds, Fresh
  <2>4. \A i \in Infos : Weight(t, i)' = Weight(t, i)
    BY <1>1, <1>3, <2>1, <2>2 DEF Weight, Waits, Replaces, Counting
  <2>5. CallsOK' /\ \A u \in Threads \ {t} : Same(u)
    BY <1>1, <1>2, <2>1, Types DEF CallsOK, Same
  <2> QED BY <1>2, <2>1, <2>2, <2>3, <2>4, <2>5, Still
<1>4. CASE enforcer_data[t] # None
  <2>1. PICK e \in Elements : e = enforcer_data[t]
    BY <1>1, <1>4, Types
  <2>2. PICK d \in Records : d = element[e]
    BY <1>4, <2>1 DEF IInv, Exclusive
  <2>3. /\ got' = [got EXCEPT ![t] = [d EXCEPT !.error = 0]]
        /\ enforcer_data' = [enforcer_data EXCEPT ![t] = None]
        /\ pc' = [pc EXCEPT ![t] = [@ EXCEPT !.at = "read", !.elem = e]]
        /\ done' = [done EXCEPT ![d.info] = @ + 1]
    BY <1>4, <2>1, <2>2 DEF do_enforcer
  <2>4. want[t] = d /\ d.info \in Infos
    BY <1>1, <1>4, <2>1, <2>2, Types DEF Holds
  <2>5. /\ pc' \in [Threads -> Place] /\ pc'[t].at = "read" /\ pc'[t].elem = e
        /\ \A u \in Threads \ {t} : pc'[u] = pc[u]
    <3> DEFINE q == [pc[t] EXCEPT !.at = "read", !.elem = e]
    <3>1. pc \in [Threads -> Place] /\ pc[t] \in Place
      BY <1>1 DEF TypeOK
    <3>2. q \in Place /\ q.at = "read" /\ q.elem = e
      BY <3>1 DEF Place, Places
    <3>3. pc' = [pc EXCEPT ![t] = q]
      BY <2>3
    <3> HIDE DEF q
    <3> QED BY <3>1, <3>2, <3>3
  <2>6. /\ got'[t].signal = d.signal /\ \A u \in Threads \ {t} : got'[u] = got[u]
        /\ got' \in [Threads -> [info : Nat, error : Int, signal : Int]]
    <3> DEFINE q == [d EXCEPT !.error = 0]
    <3>1. q \in [info : Nat, error : Int, signal : Int] /\ q.signal = d.signal
      BY <1>1, Types
    <3>2. got' = [got EXCEPT ![t] = q]
      BY <2>3
    <3> HIDE DEF q
    <3> QED BY <1>1, <3>1, <3>2, Types
  <2>7. /\ enforcer_data'[t] = None
        /\ \A u \in Threads \ {t} : enforcer_data'[u] = enforcer_data[u]
        /\ enforcer_data' \in [Threads -> Elements \cup {None}]
    BY <1>1, <2>3, Types
  <2>8. /\ done' \in [Infos -> Nat]
        /\ \A i \in Infos : done'[i] = IF i = d.info THEN done[i] + 1 ELSE done[i]
    BY <1>1, <2>3, <2>4, Types
  <2>9. TypeOK'
    BY <1>1, <1>2, <2>5, <2>6, <2>7, <2>8 DEF TypeOK
  <2>10. Exclusive'
    BY <1>2, <2>7 DEF IInv, Exclusive
  <2>11. \A u \in Threads : enforcer_data'[u] # e
    BY <1>4, <2>1, <2>7, ThreadsAssumption DEF IInv, Exclusive
  <2>12. PlaceOK(t)'
    BY <1>1, <1>2, <2>2, <2>4, <2>5, <2>6, <2>7, <2>11
    DEF PlaceOK, At, Counting, Holds, Fresh
  <2>13. Alone(t)
    <3>1. \A u \in Threads \ {t} : At(u, "read") => pc[u].elem # None
      BY ThreadsAssumption DEF IInv, PlaceOK
    <3> QED BY <1>2, <2>5, <2>6, <2>7, <3>1 DEF Alone, Same
  <2>14. ASSUME NEW i \in Infos PROVE Open(i)' - Open(i) = Weight(t, i)' - Weight(t, i)
    <3>1. (Waits(t, i) <=> i = d.info) /\ ~Waits(t, i)' /\ ~Replaces(t, i) /\ ~Replaces(t, i)'
      BY <1>1, <1>4, <2>1, <2>2, <2>5, <2>7 DEF Waits, Replaces, At, Counting
    <3>2. Weight(t, i)' - Weight(t, i) = IF i = d.info THEN -1 ELSE 0
      BY <3>1 DEF Weight
    <3>3. /\ notes[i] \in Int /\ done[i] \in Int /\ dropped[i] \in Int /\ Missed(i) \in Int
          /\ done'[i] = IF i = d.info THEN done[i] + 1 ELSE done[i]
      BY <1>1, <2>8, MissedNat, Types
    <3>4. /\ Open(i) = notes[i] - done[i] - dropped[i] - Missed(i)
          /\ Open(i)' = notes[i] - done'[i] - dropped[i] - Missed(i)
      BY <1>2 DEF Open, Missed, Counter
    <3> QED BY <3>2, <3>3, <3>4
  <2> QED BY <2>9, <2>10, <2>12, <2>13, <2>14, Step
<1> QED BY <1>3, <1>4

LEMMA do_enforcer_actionIInv ==
  ASSUME IInv, NEW t \in Threads, NEW r \in Requests, do_enforcer_action(t, r)
  PROVE  IInv'
<1>1. /\ TypeOK /\ pc[t].at = "enter" /\ Holds(t) /\ Fresh(t)
      /\ r.info \in Infos /\ Data(r) \in Records /\ Data(r).info = r.info
  BY Asked DEF IInv, PlaceOK, do_enforcer_action, At
<1>2. UNCHANGED <<missed, got, done>> /\ notes' = [notes EXCEPT ![r.info] = @ + 1]
  BY DEF do_enforcer_action
<1>3. /\ notes' \in [Infos -> Nat]
      /\ \A i \in Infos : notes'[i] = IF i = r.info THEN notes[i] + 1 ELSE notes[i]
  BY <1>1, <1>2, Types
<1>4. ASSUME NEW i \in Infos
      PROVE  /\ Open(i) \in Int /\ Missed(i)' = Missed(i)
             /\ notes[i] \in Int /\ done[i] \in Int /\ dropped[i] \in Int /\ Missed(i) \in Int
             /\ dropped' = dropped => Open(i)' - Open(i) = IF i = r.info THEN 1 ELSE 0
  <2>1. /\ notes[i] \in Int /\ done[i] \in Int /\ dropped[i] \in Int /\ Missed(i) \in Int
    BY <1>1, MissedNat, Types
  <2>2. Missed(i)' = Missed(i)
    BY <1>2 DEF Missed, Counter
  <2>3. /\ Open(i) = notes[i] - done[i] - dropped[i] - Missed(i)
        /\ Open(i)' = notes'[i] - done[i] - dropped'[i] - Missed(i)
    BY <1>2, <2>2 DEF Open
  <2> QED BY <1>3, <2>1, <2>2, <2>3
<1>5. CASE /\ enforcer_data[t] # None
           /\ pc' = [pc EXCEPT ![t] = [@ EXCEPT
                 !.at = "lookup", !.then = "store", !.data = Data(r),
                 !.key = <<element[enforcer_data[t]].info, "overwritten">>]]
           /\ UNCHANGED <<enforcer_data, element, dropped, taken, calls>>
  <2>1. PICK j \in Infos : j = element[enforcer_data[t]].info
    BY <1>1, <1>5, Types DEF IInv, Exclusive
  <2> DEFINE q == [pc[t] EXCEPT !.at = "lookup", !.then = "store", !.data = Data(r),
                                !.key = <<j, "overwritten">>]
  <2>2. pc \in [Threads -> Place] /\ pc[t] \in Place /\ pc' = [pc EXCEPT ![t] = q]
    BY <1>5, <2>1 DEF IInv, TypeOK
  <2>3. /\ q \in Place /\ q.at = "lookup" /\ q.then = "store" /\ q.data = Data(r)
        /\ q.key = <<j, "overwritten">>
    BY <1>1, <2>2 DEF Place, Places, Reasons
  <2> HIDE DEF q
  <2>4. /\ pc' \in [Threads -> Place] /\ pc'[t] = q
        /\ \A u \in Threads \ {t} : pc'[u] = pc[u]
    BY <2>2, <2>3
  <2>5. TypeOK'
    BY <1>1, <1>2, <1>3, <1>5, <2>4 DEF TypeOK, calls
  <2>6. Exclusive'
    BY <1>5 DEF IInv, Exclusive
  <2>7. Counts(t)'
    BY <1>1, <1>2, <1>5, <2>1, <2>3, <2>4 DEF Counts, Reasons, Fresh, calls
  <2>8. PlaceOK(t)'
    BY <1>1, <1>5, <2>3, <2>4, <2>7 DEF PlaceOK, At, Counting, Holds, calls
  <2>9. Alone(t)
    BY <1>2, <1>5, <2>4 DEF Alone, Same, IInv, PlaceOK, calls
  <2>10. ASSUME NEW i \in Infos PROVE Open(i)' - Open(i) = Weight(t, i)' - Weight(t, i)
    <3>1. (Waits(t, i)' <=> Waits(t, i)) /\ ~Replaces(t, i) /\ (Replaces(t, i)' <=> i = r.info)
      BY <1>1, <1>5, <2>3, <2>4 DEF Waits, Replaces, At, Counting
    <3>2. Weight(t, i)' - Weight(t, i) = IF i = r.info THEN 1 ELSE 0
      BY <3>1 DEF Weight
    <3> QED BY <1>4, <1>5, <3>2
  <2> QED BY <2>5, <2>6, <2>8, <2>9, <2>10, Step
<1>6. ASSUME NEW e \in Free, enforcer_data[t] = None,
             enforcer_data' = [enforcer_data EXCEPT ![t] = e],
             element' = [element EXCEPT ![e] = Data(r)],
             want' = [want EXCEPT ![t] = Data(r)], own' = own \cup {t},
             taken' = taken \cup Readers(e), UNCHANGED <<pc, dropped, owed, bare>>
      PROVE  IInv'
  <2>1. e \in Elements /\ e # None /\ \A u \in Threads : enforcer_data[u] # e
    BY <1>6, ThreadsAssumption DEF Free
  <2>2. /\ enforcer_data'[t] = e
        /\ \A u \in Threads \ {t} : enforcer_data'[u] = enforcer_data[u]
        /\ enforcer_data' \in [Threads -> Elements \cup {None}]
    BY <1>1, <1>6, <2>1, Types
  <2>3. /\ element'[e] = Data(r) /\ \A f \in Elements \ {e} : element'[f] = element[f]
        /\ element' \in [Elements -> Records \cup {Nothing}]
        /\ want'[t] = Data(r) /\ \A u \in Threads \ {t} : want'[u] = want[u]
        /\ want' \in [Threads -> Records \cup {Nothing}]
    BY <1>1, <1>6, <2>1, Types
  <2>4. TypeOK'
    BY <1>1, <1>2, <1>3, <1>6, <2>2, <2>3 DEF TypeOK, Readers
  <2>5. Exclusive'
    <3>1. ASSUME NEW u \in Threads, enforcer_data'[u] # None
          PROVE  element'[enforcer_data'[u]] \in Records
      <4>1. CASE u = t
        BY <1>1, <2>2, <2>3, <4>1
      <4>2. CASE u # t
        <5>1. /\ enforcer_data'[u] = enforcer_data[u] /\ enforcer_data[u] \in Elements \ {e}
              /\ element[enforcer_data[u]] \in Records
          BY <1>1, <2>1, <2>2, <3>1, <4>2, Types DEF IInv, Exclusive
        <5> QED BY <2>3, <5>1
      <4> QED BY <4>1, <4>2
    <3>2. \A u, v \in Threads : enforcer_data'[u] = enforcer_data'[v]
                                /\ enforcer_data'[u] # None => u = v
      BY <2>1, <2>2 DEF IInv, Exclusive
    <3> QED BY <3>1, <3>2 DEF Exclusive
  <2>6. PlaceOK(t)'
    BY <1>1, <1>2, <1>6, <2>1, <2>2, <2>3 DEF PlaceOK, At, Counting, Holds, Fresh
  <2>7. Alone(t)
    <3>1. ASSUME NEW u \in Threads \ {t}
          PROVE  /\ enforcer_data[u] # None =>
                       element'[enforcer_data[u]] = element[enforcer_data[u]]
                 /\ At(u, "read") /\ u \notin taken' =>
                       /\ element'[pc[u].elem] = element[pc[u].elem]
                       /\ enforcer_data'[t] # pc[u].elem
      <4>1. enforcer_data[u] # None => enforcer_data[u] \in Elements
        BY <1>1, Types
      <4>2. At(u, "read") /\ u \notin taken' => pc[u].elem \in Elements \ {e}
        BY <1>6 DEF IInv, PlaceOK, Readers
      <4> QED BY <2>1, <2>2, <2>3, <4>1, <4>2
    <3> QED BY <1>2, <1>6, <2>2, <2>3, <3>1 DEF Alone, Same
  <2>8. ASSUME NEW i \in Infos PROVE Open(i)' - Open(i) = Weight(t, i)' - Weight(t, i)
    <3>1. ~Waits(t, i) /\ (Waits(t, i)' <=> i = r.info) /\ ~Replaces(t, i) /\ ~Replaces(t, i)'
      BY <1>1, <1>6, <2>1, <2>2, <2>3 DEF Waits, Replaces, At, Counting
    <3>2. Weight(t, i)' - Weight(t, i) = IF i = r.info THEN 1 ELSE 0
      BY <3>1 DEF Weight
    <3> QED BY <1>4, <1>6, <3>2
  <2> QED BY <2>4, <2>5, <2>6, <2>7, <2>8, Step
<1>7. CASE /\ dropped' = [dropped EXCEPT ![r.info] = @ + 1]
           /\ UNCHANGED <<enforcer_data, element, pc, taken, calls>>
  <2>1. /\ dropped' \in [Infos -> Nat]
        /\ \A i \in Infos : dropped'[i] = IF i = r.info THEN dropped[i] + 1 ELSE dropped[i]
    BY <1>1, <1>7, Types
  <2>2. TypeOK'
    BY <1>1, <1>2, <1>3, <1>7, <2>1 DEF TypeOK, calls
  <2>3. Exclusive'
    BY <1>7 DEF IInv, Exclusive
  <2>4. PlaceOK(t)'
    BY <1>1, <1>2, <1>7 DEF PlaceOK, At, Counting, Holds, Fresh, calls
  <2>5. Alone(t)
    BY <1>2, <1>7 DEF Alone, Same, IInv, PlaceOK, calls
  <2>6. ASSUME NEW i \in Infos PROVE Open(i)' - Open(i) = Weight(t, i)' - Weight(t, i)
    <3>1. Weight(t, i)' = Weight(t, i) /\ Weight(t, i) \in Int
      BY <1>1, <1>7, Ints DEF Weight, Waits, Replaces, At
    <3>2. /\ Open(i) = notes[i] - done[i] - dropped[i] - Missed(i)
          /\ Open(i)' = notes'[i] - done[i] - dropped'[i] - Missed(i)
      BY <1>2, <1>4 DEF Open
    <3>3. Open(i)' = Open(i) /\ Open(i) \in Int
      BY <1>3, <1>4, <2>1, <3>2
    <3> QED BY <3>1, <3>3
  <2> QED BY <2>2, <2>3, <2>4, <2>5, <2>6, Step
<1> QED BY <1>5, <1>6, <1>7 DEF do_enforcer_action

-----------------------------------------------------------------------------
(***************************************************************************)
(* The invariant, and what it says.                                        *)
(***************************************************************************)
LEMMA InitIInv ==
  ASSUME Init
  PROVE  IInv
<1>1. DOMAIN missed = {} /\ missed \in [DOMAIN missed -> Nat]
  BY DEF Init
<1>2. IsFiniteSet(DOMAIN missed) /\ Cardinality(DOMAIN missed) <= MissedMax
  BY <1>1, FS_EmptySet, EnforcerAssumption
<1>3. [at |-> "user", then |-> "user", data |-> Nothing, key |-> <<0, "none">>,
       elem |-> None] \in Place
  BY DEF Place, Places
<1>4. TypeOK
  BY <1>1, <1>2, <1>3, EnforcerAssumption DEF Init, TypeOK, Nothing
<1>5. Exclusive
  BY DEF Init, Exclusive
<1>6. Accounted
  <2>1. SUFFICES ASSUME NEW i \in Infos
                 PROVE  notes[i] = done[i] + dropped[i] + Missed(i)
                                     + Cardinality(Pending(i)) + Cardinality(Replacing(i))
    BY DEF Accounted
  <2>2. notes[i] = 0 /\ done[i] = 0 /\ dropped[i] = 0
    BY DEF Init
  <2>3. Missed(i) = 0
    BY <1>1 DEF Missed, Counter
  <2>4. Pending(i) = {} /\ Replacing(i) = {}
    BY DEF Init, Pending, Replacing
  <2> QED BY <2>2, <2>3, <2>4, FS_EmptySet
<1>7. ASSUME NEW t \in Threads PROVE PlaceOK(t)
  BY DEF Init, PlaceOK, At, Counting, Holds
<1> QED BY <1>4, <1>5, <1>6, <1>7 DEF IInv

LEMMA NextIInv ==
  ASSUME IInv, [Next]_vars
  PROVE  IInv'
<1>1. CASE UNCHANGED vars
  <2>1. TypeOK'
    BY <1>1 DEF vars, calls, IInv, TypeOK
  <2>2. Exclusive'
    BY <1>1 DEF vars, IInv, Exclusive
  <2>3. Accounted'
    BY <1>1, Zenon DEF vars, IInv, Accounted, Missed, Counter, Pending, Replacing, At
  <2>4. \A t \in Threads : PlaceOK(t)'
    BY <1>1 DEF vars, calls, IInv, PlaceOK, Counts, Holds, Fresh, At
  <2> QED BY <2>1, <2>2, <2>3, <2>4 DEF IInv
<1>2. CASE Next
  BY <1>2, EnterIInv, StoreIInv, do_enforcerIInv, ReadErrorIInv, SkipIInv, ReturnIInv,
     do_enforcer_cleanupIInv, DeleteIInv, MissedLookupIInv, MissedCreateIInv,
     MissedRetryIInv, do_enforcer_actionIInv DEF Next
<1> QED BY <1>1, <1>2

LEMMA Invariance == Spec => []IInv
BY InitIInv, NextIInv, PTL DEF Spec

(* Every variable keeps its type: the map of counters never has more       *)
(* entries than it was made for.                                           *)
THEOREM EnforcerTypeCorrect == Spec => []TypeOK
<1>1. IInv => TypeOK
  BY DEF IInv
<1> QED BY <1>1, Invariance, PTL

(* do_enforcer does to a call what was last asked for under the thread's   *)
(* id and is not carried out or cleaned up yet, however the threads share  *)
(* the elements of enforcer_data; only the error, read after the entry is  *)
(* deleted, may be another's.  What an earlier call asked for is done to a *)
(* later one only where calls may end without a cleanup.                   *)
THEOREM OwnRequestCorrect == Spec => []OwnRequest
<1>1. IInv => OwnRequest
  BY DEF IInv, PlaceOK, OwnRequest
<1> QED BY <1>1, Invariance, PTL

(* Each request is carried out, pending, counted as missed or dropped by a *)
(* full map, exactly once, whichever threads race to create a counter of   *)
(* enforcer_missed_notifications.                                          *)
THEOREM AccountedCorrect == Spec => []Accounted
<1>1. IInv => Accounted
  BY DEF IInv
<1> QED BY <1>1, Invariance, PTL

(***************************************************************************)
(* MatchBinaries, whose bits the same hooks read, for all sets of          *)
(* processes, paths and policies and any number of ids.                    *)
(***************************************************************************)
Task == [live : BOOLEAN, path : Paths, parent : Pids \cup {NoPid}, bits : SUBSET Ids,
         gen : Nat]
Forking == [at : {"fork"}, bits : SUBSET Ids, gen : Nat]
Execing == [at : {"parent", "path"}, bits : SUBSET Ids, due : SUBSET Policies]
Removing == [at : {"none", "scan", "clear", "run"}, todo : SUBSET Pids, pids : SUBSET Pids,
             tries : 0 .. Tries]
Policy == [st : {"none", "allocated", "installed", "failed", "gone"}, id : Ids \cup {NoId}]

\* The types.
BitType ==
  /\ ids \subseteq Ids /\ policy \in [Policies -> Policy]
  /\ mbset_map \in [Paths -> SUBSET Ids] /\ gen \in Nat
  /\ task \in [Pids -> Task] /\ real \in [Pids -> Pids \cup {NoPid}]
  /\ prog \in [Pids -> {NoProg} \cup Forking \cup Execing]
  /\ removal \in [Policies -> Removing] /\ spoiled \subseteq Policies
  /\ data \in [by : Policies \cup {"none"}, pids : SUBSET Pids]
  /\ ran \in [Pids -> SUBSET Paths] /\ due \in [Pids -> SUBSET Policies]

\* The policies that own an id: they are there or being removed.
Here == {q \in Policies : policy[q].st \in {"allocated", "installed", "failed"}}
Taken == Here \cup {q \in Policies : removal[q].at # "none"}

\* An id belongs to one policy; only a policy that is gone is being removed, and
\* what a removal runs is the batch of one; and only a live process has a program
\* under way.
IdsOK ==
  /\ \A q \in Policies : IF policy[q].st = "none" THEN policy[q].id = NoId
                                               ELSE policy[q].id \in Ids
  /\ \A q \in Taken : policy[q].id \in ids
  /\ \A q, r \in Taken : policy[q].id = policy[r].id => q = r
  /\ \A q \in Policies :
       /\ removal[q].at # "none" => policy[q].st = "gone"
       /\ removal[q].at = "run" => data.by \in Policies /\ policy[data.by].st = "gone"
  /\ \A p \in Pids : ~task[p].live => prog[p].at = "none"

Base == BitType /\ IdsOK

\* A set of numbers has a least element.
LEMMA MinOfNats ==
  ASSUME NEW S \in SUBSET Nat, S # {}
  PROVE  Min(S) \in S
<1> DEFINE R == OpToRel(<, Nat)
<1>1. IsWellFoundedOn(R, Nat)
  BY NatLessThanWellFounded
<1> HIDE DEF R
<1>2. PICK m \in S : \A y \in S : ~(<<y, m>> \in R)
  BY <1>1, WFMin
<1>3. ASSUME NEW y \in S
      PROVE  m <= y
  <2>1. y < m => <<y, m>> \in R
    BY DEF R, OpToRel
  <2> QED BY <2>1, <1>2
<1> DEFINE Least(x) == x \in S /\ \A y \in S : x <= y
<1>4. Least(m)
  BY <1>3
<1>5. Least(CHOOSE x : Least(x))
  BY <1>4
<1>6. Min(S) = CHOOSE x : Least(x)
  BY DEF Min
<1> QED BY <1>5, <1>6

\* Ids are numbers, and AllocID finds a free one if there is one.
LEMMA IdFacts ==
  /\ Ids \subseteq Nat /\ NoId \notin Ids /\ NoPid \notin Pids /\ Root \in Pids
  /\ MaxIDs \in Nat /\ IntBits \in Nat
  /\ Ids \ ids # {} => FreeID \in Ids /\ FreeID \notin ids
<1>1. /\ Ids \subseteq Nat /\ NoId \notin Ids /\ NoPid \notin Pids /\ Root \in Pids
      /\ MaxIDs \in Nat /\ IntBits \in Nat
  BY MatchBinariesAssumption DEF Ids, NoId, NoPid
<1>2. ASSUME Ids \ ids # {}
      PROVE  FreeID \in Ids /\ FreeID \notin ids
  <2>1. Ids \ ids \in SUBSET Nat
    BY <1>1
  <2>2. Min(Ids \ ids) \in Ids \ ids
    BY <2>1, <1>2, MinOfNats
  <2> QED BY <2>2 DEF FreeID
<1> QED BY <1>1, <1>2

\* A goroutine or program record has the fields of its place.
LEMMA ProgFields ==
  ASSUME BitType, NEW p \in Pids
  PROVE  /\ prog[p].at \in {"none", "fork", "parent", "path"}
         /\ prog[p].at = "none" => prog[p] = NoProg
         /\ prog[p].at = "fork" => prog[p] \in Forking
         /\ prog[p].at \in {"parent", "path"} => prog[p] \in Execing
         /\ prog[p].at # "none" => prog[p].bits \in SUBSET Ids
<1>1. prog[p] \in {NoProg} \cup Forking \cup Execing
  BY DEF BitType
<1> QED BY <1>1 DEF NoProg, Forking, Execing

\* What update_mb_task returns: the task with more bits.
LEMMA UpdatedTask ==
  ASSUME BitType, NEW p \in Pids
  PROVE  /\ update_mb_task(p) \in Task
         /\ update_mb_task(p).live = task[p].live /\ update_mb_task(p).path = task[p].path
         /\ update_mb_task(p).parent = task[p].parent
         /\ task[p].bits \subseteq update_mb_task(p).bits
         /\ \A b \in update_mb_task(p).bits :
              b \in task[p].bits \/ \E q \in Ancestors(p) : b \in mbset_map[task[q].path]
<1>1. task[p] \in Task /\ gen \in Nat
  BY DEF BitType
<1>2. PICK B : B = UNION {mbset_map[task[q].path] : q \in Ancestors(p)}
  OBVIOUS
<1>3. B \subseteq Ids
  <2>1. Ancestors(p) \subseteq Pids
    BY DEF Ancestors, Walk
  <2>2. \A q \in Ancestors(p) : task[q].path \in Paths
    BY <2>1 DEF BitType, Task
  <2> QED BY <1>2, <2>2 DEF BitType
<1>4. update_mb_task(p) = IF task[p].gen = gen THEN task[p]
                          ELSE [task[p] EXCEPT !.bits = @ \cup B, !.gen = gen]
  BY <1>2 DEF update_mb_task
<1>5. \A b \in B : \E q \in Ancestors(p) : b \in mbset_map[task[q].path]
  BY <1>2
<1>6. CASE task[p].gen = gen
  BY <1>1, <1>4, <1>6
<1>7. CASE task[p].gen # gen
  BY <1>1, <1>3, <1>4, <1>5, <1>7 DEF Task
<1> QED BY <1>6, <1>7

\* A bitset that is cleared loses bits only.
LEMMA Cleared ==
  ASSUME NEW bits, NEW bit, NEW left1 \in Without(bits, bit)
  PROVE  left1 \subseteq bits
BY DEF Without

\* ... the one that is cleared, and those that its mask hits by mistake.
LEMMA ClearedOne ==
  ASSUME NEW bits \in SUBSET Ids, NEW bit \in Ids, NEW left1 \in Without(bits, bit)
  PROVE  \A b \in bits : b # bit /\ b \notin Misses(bit) => b \in left1
<1>1. bit \in Nat /\ bits \subseteq Nat /\ IntBits \in Nat
  BY IdFacts
<1>2. CASE bit < IntBits - 1
  BY <1>2 DEF Without
<1>3. CASE bit = IntBits - 1
  <2>1. left1 = {b \in bits : b < bit} /\ Misses(bit) = {b \in Ids : b > bit}
    BY <1>3, <1>1 DEF Without, Misses
  <2> QED BY <2>1, <1>1
<1>4. CASE bit > IntBits - 1
  <2>1. left1 \in {bits \ {bit % IntBits}, bits} /\ Misses(bit) = {bit % IntBits}
    BY <1>4, <1>1 DEF Without, Misses
  <2> QED BY <2>1
<1> QED BY <1>1, <1>2, <1>3, <1>4

\* Nothing is allocated, and the root is alone.
LEMMA BaseInit ==
  ASSUME MbInit
  PROVE  Base
<1>1. PICK path \in Paths :
        /\ ids = {} /\ gen = 0
        /\ policy = [q \in Policies |-> [st |-> "none", id |-> NoId]]
        /\ mbset_map = [x \in Paths |-> {}]
        /\ task = [p \in Pids |-> [NoTask(path) EXCEPT !.live = p = Root]]
        /\ real = [p \in Pids |-> NoPid]
        /\ prog = [p \in Pids |-> NoProg]
        /\ removal = [q \in Policies |-> NoRemoval]
        /\ data = [by |-> "none", pids |-> {}]
        /\ spoiled = {}
        /\ ran = [p \in Pids |-> IF p = Root THEN {path} ELSE {}]
        /\ due = [p \in Pids |-> {}]
  BY DEF MbInit
<1>2. \A p \in Pids : [NoTask(path) EXCEPT !.live = p = Root] \in Task
  BY DEF NoTask, Task
<1>3. [st |-> "none", id |-> NoId] \in Policy /\ NoRemoval \in Removing
  BY MatchBinariesAssumption DEF Policy, NoRemoval, Removing
<1>4. BitType
  BY <1>1, <1>2, <1>3 DEF BitType
<1>5. IdsOK
  BY <1>1 DEF IdsOK, Taken, Here, NoProg, NoRemoval
<1> QED BY <1>4, <1>5 DEF Base

\* AllocID gives q an id that nobody has.
LEMMA BaseAlloc ==
  ASSUME Base, NEW q \in Policies, AllocID(q)
  PROVE  /\ Base' /\ policy[q].id \notin Ids
         /\ \A r \in Policies : r # q => policy'[r] = policy[r]
         /\ Installed' = Installed
<1>1. PICK id : id = FreeID
  OBVIOUS
<1>2. /\ id \in Ids /\ id \notin ids /\ policy[q].st = "none"
      /\ ids' = ids \cup {id} /\ policy' = [policy EXCEPT ![q] = [st |-> "allocated", id |-> id]]
      /\ UNCHANGED <<mbset_map, gen, task, real, prog, removal, data, ran, due, spoiled>>
  BY <1>1, IdFacts DEF AllocID
<1>3. /\ policy \in [Policies -> Policy] /\ policy'[q].id = id /\ policy'[q].st = "allocated"
      /\ \A r \in Policies : r # q => policy'[r] = policy[r]
      /\ policy' \in [Policies -> Policy]
  BY <1>2 DEF Base, BitType, Policy
<1>4. BitType'
  BY <1>2, <1>3 DEF Base, BitType
<1>5. Taken' = Taken \cup {q} /\ q \notin Taken
  BY <1>2, <1>3 DEF Taken, Here, Base, IdsOK
<1>6. IdsOK'
  BY <1>2, <1>3, <1>5 DEF Base, IdsOK
<1>7. Installed' = Installed
  BY <1>2, <1>3 DEF Installed
<1> QED BY <1>2, <1>3, <1>4, <1>6, <1>7, IdFacts DEF Base, IdsOK

\* UpdateMap, also one that fails, keeps every id.
LEMMA BaseUpdate ==
  ASSUME Base, NEW q \in Policies, UpdateMap(q)
  PROVE  /\ Base' /\ policy[q].id \in Ids /\ policy[q].st = "allocated"
         /\ \A r \in Policies : policy'[r].id = policy[r].id /\ (r # q => policy'[r] = policy[r])
         /\ \/ Installed' = Installed /\ policy'[q].st = "failed"
            \/ /\ Installed' = Installed \cup {q}
               /\ \A x \in PathsOf[q] : policy[q].id \in mbset_map'[x]
         /\ \A x \in Paths : /\ mbset_map[x] \subseteq mbset_map'[x]
                             /\ \A i \in mbset_map'[x] :
                                  i \in mbset_map[x] \/ (i = policy[q].id /\ x \in PathsOf[q])
         /\ gen' \in {gen, gen + 1}
         /\ UNCHANGED <<ids, task, real, prog, removal, data, ran, due, spoiled>>
<1>1. PICK st \in {"installed", "failed"}, put \in SUBSET PathsOf[q] :
        /\ policy' = [policy EXCEPT ![q].st = st] /\ mbset_map' = Mark(q, put)
        /\ st = "installed" => put = PathsOf[q]
        /\ gen' \in {gen, gen + 1}
  <2>1. CASE /\ policy' = [policy EXCEPT ![q].st = "installed"]
             /\ mbset_map' = Mark(q, PathsOf[q])
             /\ gen' = gen + 1
    BY <2>1
  <2>2. CASE /\ policy' = [policy EXCEPT ![q].st = "failed"]
             /\ \E put \in SUBSET PathsOf[q] : mbset_map' = Mark(q, put)
             /\ UNCHANGED gen
    BY <2>2
  <2> QED BY <2>1, <2>2 DEF UpdateMap
<1>2. /\ policy[q].st = "allocated"
      /\ UNCHANGED <<ids, task, real, prog, removal, data, ran, due, spoiled>>
      /\ policy[q] \in Policy /\ policy \in [Policies -> Policy]
      /\ mbset_map \in [Paths -> SUBSET Ids] /\ gen \in Nat
      /\ PathsOf[q] \subseteq Paths
  BY MatchBinariesAssumption DEF UpdateMap, Base, BitType
<1>3. /\ policy'[q].id = policy[q].id /\ policy'[q].st = st
      /\ \A r \in Policies : r # q => policy'[r] = policy[r]
      /\ policy' \in [Policies -> Policy] /\ policy[q].id \in Ids
  BY <1>1, <1>2 DEF Policy, Base, IdsOK
<1>4. mbset_map' = [x \in Paths |-> IF x \in put THEN mbset_map[x] \cup {policy[q].id}
                                             ELSE mbset_map[x]]
  BY <1>1 DEF Mark
<1>5. /\ mbset_map' \in [Paths -> SUBSET Ids] /\ gen' \in Nat
      /\ \A x \in put : policy[q].id \in mbset_map'[x]
      /\ \A x \in Paths : /\ mbset_map[x] \subseteq mbset_map'[x]
                          /\ \A i \in mbset_map'[x] :
                               i \in mbset_map[x] \/ (i = policy[q].id /\ x \in PathsOf[q])
  BY <1>1, <1>2, <1>3, <1>4
<1>6. BitType'
  BY <1>2, <1>3, <1>5 DEF Base, BitType
<1>7. Taken' = Taken
  BY <1>2, <1>3 DEF Taken, Here
<1>8. IdsOK'
  <2>1. \A r \in Policies : /\ policy'[r].id = policy[r].id
                            /\ policy'[r].st = "none" <=> policy[r].st = "none"
                            /\ policy[r].st = "gone" => policy'[r].st = "gone"
    BY <1>2, <1>3
  <2> QED BY <1>2, <2>1, <1>7 DEF Base, IdsOK, Taken, Here
<1>9. Installed' = IF st = "installed" THEN Installed \cup {q} ELSE Installed
  BY <1>2, <1>3 DEF Installed
<1> QED BY <1>1, <1>2, <1>3, <1>5, <1>6, <1>8, <1>9 DEF Base

\* RemoveID takes one bit out of the map and keeps every id.
LEMMA BaseRemove ==
  ASSUME Base, NEW q \in Policies, RemoveID(q)
  PROVE  /\ Base' /\ policy[q].id \in Ids /\ q \in Here
         /\ \A r \in Policies : policy'[r].id = policy[r].id /\ (r # q => policy'[r] = policy[r])
         /\ Installed' = Installed \ {q} /\ policy'[q].st = "gone"
         /\ due' = [p \in Pids |-> due[p] \ {q}]
         /\ \A x \in Paths : /\ mbset_map'[x] \subseteq mbset_map[x]
                             /\ mbset_map[x] \ {policy[q].id} \subseteq mbset_map'[x]
         /\ UNCHANGED <<ids, gen, task, real, prog, data, ran, spoiled>>
<1> DEFINE begun == [at |-> "scan", todo |-> Alive, pids |-> {}, tries |-> Tries]
<1>1. PICK cleaned \in SUBSET PathsOf[q] :
        /\ policy[q].st \in {"installed", "failed"}
        /\ removal' = IF cleaned # PathsOf[q] THEN removal ELSE [removal EXCEPT ![q] = begun]
        /\ policy' = [policy EXCEPT ![q].st = "gone"]
        /\ mbset_map' = [x \in Paths |->
              IF x \in cleaned THEN mbset_map[x] \ {policy[q].id} ELSE mbset_map[x]]
        /\ due' = [p \in Pids |-> due[p] \ {q}]
        /\ UNCHANGED <<ids, gen, task, real, prog, data, ran, spoiled>>
  BY DEF RemoveID
<1>2. /\ policy[q] \in Policy /\ policy \in [Policies -> Policy]
      /\ mbset_map \in [Paths -> SUBSET Ids] /\ removal \in [Policies -> Removing]
      /\ begun \in Removing /\ begun.at = "scan"
  BY MatchBinariesAssumption DEF Base, BitType, Removing, Alive
<1> HIDE DEF begun
<1>3. /\ policy'[q].id = policy[q].id /\ policy'[q].st = "gone"
      /\ \A r \in Policies : r # q => policy'[r] = policy[r]
      /\ policy' \in [Policies -> Policy] /\ policy[q].id \in Ids
  BY <1>1, <1>2 DEF Policy, Base, IdsOK
<1>4. PICK id : id = policy[q].id
  OBVIOUS
<1>5. /\ mbset_map' \in [Paths -> SUBSET Ids]
      /\ \A x \in Paths : /\ mbset_map'[x] \subseteq mbset_map[x]
                          /\ mbset_map[x] \ {id} \subseteq mbset_map'[x]
  BY <1>1, <1>2, <1>4
<1>6. /\ removal' \in [Policies -> Removing]
      /\ removal'[q].at \in {removal[q].at, "scan"}
      /\ \A r \in Policies : r # q => removal'[r] = removal[r]
  BY <1>1, <1>2
<1>7. due' \in [Pids -> SUBSET Policies]
  BY <1>1 DEF Base, BitType
<1>8. BitType'
  BY <1>1, <1>3, <1>5, <1>6, <1>7 DEF Base, BitType
<1>9. Taken' \subseteq Taken /\ q \in Here /\ q \in Taken
  BY <1>1, <1>3, <1>6 DEF Taken, Here
<1>10. IdsOK'
  <2>1. \A r \in Policies : /\ policy'[r].id = policy[r].id
                            /\ policy'[r].st = "none" <=> policy[r].st = "none"
                            /\ policy[r].st = "gone" => policy'[r].st = "gone"
    BY <1>1, <1>3
  <2>2. Taken \subseteq Policies /\ removal[q].at = "none"
    BY <1>1 DEF Taken, Here, Base, IdsOK
  <2>3. \A r \in Policies :
          /\ removal'[r].at # "none" => policy'[r].st = "gone"
          /\ removal'[r].at = "run" => data'.by \in Policies /\ policy'[data'.by].st = "gone"
    BY <2>1, <2>2, <1>1, <1>3, <1>6 DEF Base, IdsOK
  <2> QED BY <2>1, <2>2, <2>3, <1>1, <1>9 DEF Base, IdsOK
<1>11. Installed' = Installed \ {q}
  BY <1>1, <1>3 DEF Installed
<1> QED BY <1>1, <1>3, <1>4, <1>5, <1>8, <1>9, <1>10, <1>11 DEF Base

\* Steps of a removal that only change its own record, and may free its id.
LEMMA RemovalOK ==
  ASSUME Base, NEW q \in Policies, removal[q].at # "none",
         removal' \in [Policies -> Removing], \A r \in Policies : r # q => removal'[r] = removal[r],
         ids' = ids \/ (ids' = ids \ {policy[q].id} /\ removal'[q].at = "none"),
         data' \in [by : Policies \cup {"none"}, pids : SUBSET Pids],
         UNCHANGED policy, spoiled' \subseteq Policies,
         \/ data'.by = q
         \/ data' = data /\ (removal'[q].at = "run" => removal[q].at = "run")
  PROVE  /\ ids' \subseteq Ids
         /\ (\A p \in Pids : ~task'[p].live => prog'[p].at = "none") => IdsOK'
<1>1. Taken' \subseteq Taken /\ q \in Taken /\ (removal'[q].at = "none" => q \notin Taken')
  BY DEF Taken, Here, Base, IdsOK
<1>2. \A r \in Taken' : policy'[r].id \in ids'
  BY <1>1 DEF Base, IdsOK
<1>3. \A r \in Policies :
        /\ removal'[r].at # "none" => policy'[r].st = "gone"
        /\ removal'[r].at = "run" => data'.by \in Policies /\ policy'[data'.by].st = "gone"
  BY DEF Base, IdsOK
<1> QED BY <1>1, <1>2, <1>3 DEF Base, BitType, IdsOK

\* updatePids changes nothing but what it remembers, and frees the id at the end;
\* the batch is put into the data of the program.
LEMMA BaseScan ==
  ASSUME Base, NEW q \in Policies, ScanPid(q) \/ EndScan(q) \/ FillBatch(q)
  PROVE  /\ Base' /\ UNCHANGED <<policy, mbset_map, gen, task, real, prog, ran, due, spoiled>>
<1>1. /\ removal[q] \in Removing /\ removal \in [Policies -> Removing] /\ removal[q].at # "none"
      /\ data \in [by : Policies \cup {"none"}, pids : SUBSET Pids] /\ spoiled \subseteq Policies
      /\ NoRemoval \in Removing /\ NoRemoval.at = "none"
  BY MatchBinariesAssumption
     DEF ScanPid, EndScan, FillBatch, Base, BitType, NoRemoval, Removing
<1>2. UNCHANGED <<policy, mbset_map, gen, task, real, prog, ran, due, spoiled>>
  BY DEF ScanPid, EndScan, FillBatch
<1>3. PICK new \in Removing :
        /\ removal' = [removal EXCEPT ![q] = new]
        /\ ids' = ids \/ (ids' = ids \ {policy[q].id} /\ new.at = "none")
        /\ data' \in [by : Policies \cup {"none"}, pids : SUBSET Pids]
        /\ data'.by = q \/ (data' = data /\ new.at # "run")
  <2>1. CASE ScanPid(q)
    <3>1. PICK p \in removal[q].todo :
            removal' = [removal EXCEPT
              ![q].todo = @ \ {p},
              ![q].pids = IF task[p].live /\ policy[q].id \in task[p].bits
                          THEN @ \cup {p} ELSE @]
      BY <2>1 DEF ScanPid
    <3>2. PICK seen : seen = IF task[p].live /\ policy[q].id \in task[p].bits
                             THEN removal[q].pids \cup {p} ELSE removal[q].pids
      OBVIOUS
    <3>3. seen \in SUBSET Pids
      BY <3>2, <1>1 DEF Removing
    <3>4. removal' = [removal EXCEPT ![q] =
                        [removal[q] EXCEPT !.todo = @ \ {p}, !.pids = seen]]
      BY <3>1, <3>2, <1>1
    <3>5. /\ [removal[q] EXCEPT !.todo = @ \ {p}, !.pids = seen] \in Removing
          /\ [removal[q] EXCEPT !.todo = @ \ {p}, !.pids = seen].at = removal[q].at
      BY <3>3, <1>1 DEF Removing
    <3> QED BY <2>1, <3>4, <3>5, <1>1 DEF ScanPid
  <2>2. CASE EndScan(q)
    <3>1. CASE removal' = [removal EXCEPT ![q] = NoRemoval] /\ ids' = ids \ {policy[q].id}
      BY <2>2, <3>1, <1>1 DEF EndScan
    <3>2. CASE removal' = [removal EXCEPT ![q].at = "clear"] /\ UNCHANGED ids
      <4>1. /\ removal' = [removal EXCEPT ![q] = [removal[q] EXCEPT !.at = "clear"]]
            /\ [removal[q] EXCEPT !.at = "clear"] \in Removing
            /\ [removal[q] EXCEPT !.at = "clear"].at = "clear"
        BY <3>2, <1>1 DEF Removing
      <4> QED BY <4>1, <2>2, <3>2, <1>1 DEF EndScan
    <3> QED BY <2>2, <3>1, <3>2 DEF EndScan
  <2>3. CASE FillBatch(q)
    <3>1. PICK batch \in SUBSET removal[q].pids, full \in SUBSET removal[q].pids :
            /\ data' = [by |-> q, pids |-> batch]
            /\ removal' = [removal EXCEPT ![q].at = "run", ![q].pids = @ \ (batch \cup full)]
      BY <2>3 DEF FillBatch
    <3>2. PICK rest : rest = removal[q].pids \ (batch \cup full)
      OBVIOUS
    <3>3. /\ removal' = [removal EXCEPT ![q] = [removal[q] EXCEPT !.at = "run", !.pids = rest]]
          /\ [removal[q] EXCEPT !.at = "run", !.pids = rest] \in Removing
          /\ batch \in SUBSET Pids
      BY <3>1, <3>2, <1>1 DEF Removing
    <3> QED BY <2>3, <3>1, <3>3 DEF FillBatch
  <2> QED BY <2>1, <2>2, <2>3
<1>4. /\ removal' \in [Policies -> Removing] /\ removal'[q] = new
      /\ \A r \in Policies : r # q => removal'[r] = removal[r]
  BY <1>1, <1>3
<1>5. \A p \in Pids : ~task'[p].live => prog'[p].at = "none"
  BY <1>2 DEF Base, IdsOK
<1>6. ids' \subseteq Ids /\ IdsOK'
  <2>1. data'.by = q \/ (data' = data /\ (removal'[q].at = "run" => removal[q].at = "run"))
    BY <1>3, <1>4
  <2>2. ids' = ids \/ (ids' = ids \ {policy[q].id} /\ removal'[q].at = "none")
    BY <1>3, <1>4
  <2> QED BY <2>1, <2>2, <1>1, <1>2, <1>3, <1>4, <1>5, RemovalOK
<1>7. BitType'
  BY <1>2, <1>3, <1>4, <1>6 DEF Base, BitType
<1> QED BY <1>2, <1>6, <1>7 DEF Base

\* What a removal goes on with after a run.
LEMMA NextRound ==
  ASSUME NEW r \in Removing
  PROVE  AfterRun(r) \in Removing /\ AfterRun(r).at # "run"
<1>1. Alive \subseteq Pids /\ Tries \in Nat
  BY MatchBinariesAssumption DEF Alive
<1>2. CASE r.pids # {}
  BY <1>2 DEF AfterRun, Removing
<1>3. CASE r.pids = {} /\ r.tries <= 1
  BY <1>1, <1>3 DEF AfterRun, Removing, NoRemoval
<1>4. CASE r.pids = {} /\ ~(r.tries <= 1)
  <2>1. r.tries \in 0 .. Tries /\ r.pids \in SUBSET Pids
    BY DEF Removing
  <2>2. PICK n \in 0 .. Tries : n = r.tries - 1
    BY <2>1, <1>1, <1>4
  <2>3. AfterRun(r) = [r EXCEPT !.at = "scan", !.todo = Alive, !.tries = n]
    BY <2>2, <1>4 DEF AfterRun
  <2> QED BY <2>3, <1>1 DEF Removing
<1> QED BY <1>2, <1>3, <1>4 DEF Removing

\* A run takes bits out of live tasks: the one of the batch, and those that its
\* mask hits by mistake.
LEMMA BaseRun ==
  ASSUME Base, NEW q \in Policies, RunBatch(q)
  PROVE  /\ Base' /\ UNCHANGED <<ids, policy, mbset_map, gen, real, prog, ran, due>>
         /\ Alive' = Alive /\ spoiled \subseteq spoiled'
         /\ data.by \in Policies /\ policy[data.by].st = "gone" /\ q \in Taken
         /\ \A p \in Pids : /\ task'[p].live = task[p].live /\ task'[p].path = task[p].path
                            /\ task'[p].parent = task[p].parent /\ task'[p].gen = task[p].gen
                            /\ task'[p].bits \subseteq task[p].bits
         /\ \/ task' = task
            \/ /\ spoiled' = spoiled \cup Spoils(q)
               /\ \A p \in Pids : \A i \in task[p].bits :
                    i # policy[data.by].id /\ i \notin Misses(policy[data.by].id) => i \in task'[p].bits
<1>1. /\ removal[q].at = "run" /\ removal[q] \in Removing /\ removal \in [Policies -> Removing]
      /\ UNCHANGED <<ids, policy, mbset_map, gen, real, prog, data, ran, due>>
      /\ task \in [Pids -> Task] /\ spoiled \subseteq Policies
      /\ data \in [by : Policies \cup {"none"}, pids : SUBSET Pids]
      /\ NoRemoval \in Removing /\ NoRemoval.at = "none"
  BY MatchBinariesAssumption DEF RunBatch, Base, BitType, NoRemoval, Removing
<1>2. /\ data.by \in Policies /\ policy[data.by].st = "gone" /\ q \in Taken
      /\ policy[data.by].id \in Ids
  BY <1>1 DEF Base, IdsOK, Taken
<1>3. PICK bit : bit = policy[data.by].id
  OBVIOUS
<1>4. /\ \A p \in Pids : /\ task'[p] \in Task
                         /\ task'[p].live = task[p].live /\ task'[p].path = task[p].path
                         /\ task'[p].parent = task[p].parent /\ task'[p].gen = task[p].gen
                         /\ task'[p].bits \subseteq task[p].bits
      /\ task' \in [Pids -> Task]
      /\ \/ task' = task
         \/ \A p \in Pids : \A i \in task[p].bits :
              i # bit /\ i \notin Misses(bit) => i \in task'[p].bits
  <2>1. CASE UNCHANGED task
    BY <2>1, <1>1
  <2>2. CASE \E clear \in [data.pids -> SUBSET Ids] :
               /\ \A p \in data.pids : clear[p] \in Without(task[p].bits, policy[data.by].id)
               /\ task' = [p \in Pids |->
                     IF p \in data.pids /\ task[p].live
                     THEN [task[p] EXCEPT !.bits = clear[p]] ELSE task[p]]
    <3>1. PICK clear \in [data.pids -> SUBSET Ids] :
               /\ \A p \in data.pids : clear[p] \in Without(task[p].bits, bit)
               /\ task' = [p \in Pids |->
                     IF p \in data.pids /\ task[p].live
                     THEN [task[p] EXCEPT !.bits = clear[p]] ELSE task[p]]
      BY <2>2, <1>3
    <3>2. ASSUME NEW p \in Pids
          PROVE  /\ task'[p] \in Task
                 /\ task'[p].live = task[p].live /\ task'[p].path = task[p].path
                 /\ task'[p].parent = task[p].parent /\ task'[p].gen = task[p].gen
                 /\ task'[p].bits \subseteq task[p].bits
                 /\ \A i \in task[p].bits :
                      i # bit /\ i \notin Misses(bit) => i \in task'[p].bits
      <4>0. task[p] \in Task
        BY <1>1
      <4>1. CASE p \in data.pids /\ task[p].live
        <5>1. /\ task'[p] = [task[p] EXCEPT !.bits = clear[p]] /\ clear[p] \in SUBSET Ids
              /\ clear[p] \in Without(task[p].bits, bit)
          BY <4>1, <3>1
        <5>2. /\ task'[p] \in Task /\ task'[p].live = task[p].live
              /\ task'[p].path = task[p].path /\ task'[p].gen = task[p].gen
              /\ task'[p].parent = task[p].parent /\ task'[p].bits = clear[p]
              /\ task[p].bits \in SUBSET Ids
          BY <5>1, <4>0 DEF Task
        <5>3. task'[p].bits \subseteq task[p].bits
          BY <5>1, <5>2, Cleared
        <5>4. \A i \in task[p].bits : i # bit /\ i \notin Misses(bit) => i \in task'[p].bits
          BY <5>1, <5>2, <1>2, <1>3, ClearedOne
        <5> QED BY <5>2, <5>3, <5>4
      <4>2. CASE ~(p \in data.pids /\ task[p].live)
        BY <4>0, <4>2, <3>1
      <4> QED BY <4>1, <4>2
    <3>3. task' \in [Pids -> Task]
      BY <3>1, <3>2
    <3> QED BY <3>2, <3>3
  <2> QED BY <2>1, <2>2 DEF RunBatch
<1>5. /\ spoiled' \subseteq Policies /\ spoiled \subseteq spoiled'
      /\ task' = task \/ spoiled' = spoiled \cup Spoils(q)
  <2>1. Spoils(q) \subseteq Policies
    BY DEF Spoils, Installed
  <2> QED BY <2>1, <1>1 DEF RunBatch
<1>6. PICK new \in Removing : removal' = [removal EXCEPT ![q] = new] /\ new.at # "run"
  <2>1. CASE removal' = [removal EXCEPT ![q] = NoRemoval]
    BY <2>1, <1>1
  <2>2. CASE removal' = [removal EXCEPT ![q] = AfterRun(@)]
    <3>1. removal' = [removal EXCEPT ![q] = AfterRun(removal[q])]
      BY <2>2
    <3> QED BY <3>1, <1>1, NextRound
  <2> QED BY <2>1, <2>2 DEF RunBatch
<1>7. /\ removal' \in [Policies -> Removing] /\ removal'[q] = new
      /\ \A r \in Policies : r # q => removal'[r] = removal[r]
  BY <1>1, <1>6
<1>8. BitType'
  BY <1>1, <1>4, <1>5, <1>7 DEF Base, BitType
<1>9. IdsOK'
  <2>1. \A p \in Pids : ~task'[p].live => prog'[p].at = "none"
    BY <1>1, <1>4 DEF Base, IdsOK
  <2> QED BY <2>1, <1>1, <1>5, <1>6, <1>7, RemovalOK
<1>10. Alive' = Alive
  BY <1>4 DEF Alive
<1> QED BY <1>1, <1>2, <1>3, <1>4, <1>5, <1>8, <1>9, <1>10 DEF Base

\* What a BPF program does concerns no id.
LEMMA ProgramIds ==
  ASSUME Base, UNCHANGED <<ids, policy, removal, data>>,
         \A p \in Pids : ~task'[p].live => prog'[p].at = "none"
  PROVE  IdsOK'
<1>1. Taken' = Taken
  BY DEF Taken, Here
<1> QED BY <1>1 DEF Base, IdsOK

\* A hook brings the bits of its process up to date.
LEMMA BaseHook ==
  ASSUME Base, NEW p \in Pids, NEW q \in Policies, Hook(p, q)
  PROVE  /\ Base' /\ p \in Alive /\ Alive' = Alive
         /\ task' = [task EXCEPT ![p] = update_mb_task(p)]
         /\ UNCHANGED <<policy, mbset_map, gen, real, prog, ran, due, spoiled>>
<1>1. /\ task' = [task EXCEPT ![p] = update_mb_task(p)] /\ p \in Alive
      /\ UNCHANGED <<ids, policy, mbset_map, gen, real, prog, removal, data, ran, due,
                     spoiled>>
      /\ task \in [Pids -> Task]
  BY DEF Hook, Base, BitType, agentVars
<1>2. /\ task' \in [Pids -> Task] /\ \A x \in Pids : task'[x].live = task[x].live
  <2>1. update_mb_task(p) \in Task /\ update_mb_task(p).live = task[p].live
    BY UpdatedTask DEF Base
  <2> QED BY <2>1, <1>1
<1>3. BitType'
  BY <1>1, <1>2 DEF Base, BitType
<1>4. IdsOK'
  BY <1>1, <1>2, ProgramIds DEF Base, IdsOK
<1>5. Alive' = Alive
  BY <1>2 DEF Alive
<1> QED BY <1>1, <1>3, <1>4, <1>5 DEF Base

\* A fork makes an entry and has read the bits of the parent.
LEMMA BaseFork ==
  ASSUME Base, NEW p \in Pids, NEW c \in Pids, Fork(p, c)
  PROVE  /\ Base' /\ p \in Alive /\ c \notin Alive /\ Alive' = Alive \cup {c} /\ prog[p].at = "none"
         /\ prog'[c].at = "fork" /\ prog'[c].bits = task[p].bits
         /\ task'[c].path = task[p].path /\ task'[c].parent = p /\ task'[c].bits = {}
         /\ \A x \in Pids : x # c => task'[x] = task[x] /\ prog'[x] = prog[x]
         /\ real' = [real EXCEPT ![c] = p] /\ ran' = [ran EXCEPT ![c] = ran[p]]
         /\ due' = [due EXCEPT ![c] = due[p]] /\ UNCHANGED <<policy, spoiled, mbset_map>>
         /\ Reuse \/ ran[c] = {}
<1>1. /\ p \in Alive /\ Calm(p) /\ ~task[c].live
      /\ Reuse \/ ran[c] = {}
      /\ task' = [task EXCEPT ![c] = [live |-> TRUE, path |-> task[p].path,
                   parent |-> p, bits |-> {}, gen |-> 0]]
      /\ prog' = [prog EXCEPT ![c] = [at |-> "fork", bits |-> task[p].bits, gen |-> task[p].gen]]
      /\ real' = [real EXCEPT ![c] = p] /\ ran' = [ran EXCEPT ![c] = ran[p]]
      /\ due' = [due EXCEPT ![c] = due[p]]
      /\ UNCHANGED <<ids, policy, mbset_map, gen, removal, data, spoiled>>
  BY DEF Fork, agentVars
<1>2. /\ task \in [Pids -> Task] /\ task[p] \in Task
      /\ prog \in [Pids -> {NoProg} \cup Forking \cup Execing]
      /\ real \in [Pids -> Pids \cup {NoPid}] /\ ran \in [Pids -> SUBSET Paths]
      /\ due \in [Pids -> SUBSET Policies]
  BY DEF Base, BitType
<1>3. /\ [live |-> TRUE, path |-> task[p].path, parent |-> p, bits |-> {}, gen |-> 0] \in Task
      /\ [at |-> "fork", bits |-> task[p].bits, gen |-> task[p].gen] \in Forking
  BY <1>2 DEF Task, Forking
<1>4. /\ task' \in [Pids -> Task] /\ prog' \in [Pids -> {NoProg} \cup Forking \cup Execing]
      /\ real' \in [Pids -> Pids \cup {NoPid}] /\ ran' \in [Pids -> SUBSET Paths]
      /\ due' \in [Pids -> SUBSET Policies]
  BY <1>1, <1>2, <1>3
<1>5. /\ prog'[c].at = "fork" /\ prog'[c].bits = task[p].bits /\ task'[c].live
      /\ task'[c].path = task[p].path /\ task'[c].parent = p /\ task'[c].bits = {}
      /\ \A x \in Pids : x # c => task'[x] = task[x] /\ prog'[x] = prog[x]
  BY <1>1, <1>2
<1>6. BitType'
  BY <1>1, <1>4 DEF Base, BitType
<1>7. IdsOK'
  BY <1>1, <1>5, ProgramIds DEF Base, IdsOK
<1>8. Alive' = Alive \cup {c} /\ c \notin Alive
  BY <1>1, <1>5 DEF Alive
<1> QED BY <1>1, <1>5, <1>6, <1>7, <1>8 DEF Base, Calm

\* The second half of a fork, and those of an exec.
LEMMA BaseForkCopy ==
  ASSUME Base, NEW c \in Pids, ForkCopy(c)
  PROVE  /\ Base' /\ prog[c].at = "fork" /\ prog'[c].at = "none" /\ Alive' = Alive /\ c \in Alive
         /\ task'[c].path = task[c].path /\ task'[c].parent = task[c].parent
         /\ task'[c].bits = prog[c].bits
         /\ \A x \in Pids : x # c => task'[x] = task[x] /\ prog'[x] = prog[x]
         /\ UNCHANGED <<policy, spoiled, mbset_map, real, ran, due>>
<1>1. /\ prog[c].at = "fork"
      /\ task' = [task EXCEPT ![c].bits = prog[c].bits, ![c].gen = prog[c].gen]
      /\ prog' = [prog EXCEPT ![c] = NoProg]
      /\ UNCHANGED <<ids, policy, mbset_map, gen, real, removal, data, ran, due, spoiled>>
  BY DEF ForkCopy, agentVars
<1>2. /\ task \in [Pids -> Task] /\ task[c] \in Task /\ prog[c] \in Forking
      /\ prog \in [Pids -> {NoProg} \cup Forking \cup Execing]
  BY <1>1, ProgFields DEF Base, BitType
<1>3. task' = [task EXCEPT ![c] = [task[c] EXCEPT !.bits = prog[c].bits, !.gen = prog[c].gen]]
  BY <1>1, <1>2
<1>4. [task[c] EXCEPT !.bits = prog[c].bits, !.gen = prog[c].gen] \in Task
  BY <1>2 DEF Task, Forking
<1>5. /\ task' \in [Pids -> Task] /\ prog' \in [Pids -> {NoProg} \cup Forking \cup Execing]
  BY <1>1, <1>2, <1>3, <1>4
<1>6. /\ task'[c].live = task[c].live
      /\ task'[c].path = task[c].path /\ task'[c].parent = task[c].parent
      /\ task'[c].bits = prog[c].bits /\ prog'[c] = NoProg /\ prog'[c].at = "none"
      /\ \A x \in Pids : x # c => task'[x] = task[x] /\ prog'[x] = prog[x]
  BY <1>1, <1>2, <1>3 DEF Task, NoProg
<1>7. BitType'
  BY <1>1, <1>5 DEF Base, BitType
<1>8. IdsOK'
  BY <1>1, <1>6, ProgramIds DEF Base, IdsOK
<1>9. Alive' = Alive
  BY <1>6 DEF Alive
<1>10. c \in Alive
  BY <1>1 DEF Base, IdsOK, Alive
<1> QED BY <1>1, <1>6, <1>7, <1>8, <1>9, <1>10 DEF Base

\* The parent's bits are added, and the path is looked up.
LEMMA BaseParentBits ==
  ASSUME Base, NEW p \in Pids, ExecParentBits(p)
  PROVE  /\ Base' /\ prog[p].at = "parent" /\ prog'[p].at = "path" /\ Alive' = Alive /\ p \in Alive
         /\ prog'[p].bits = mbset_map[task[p].path] /\ prog'[p].due = prog[p].due
         /\ task'[p].path = task[p].path /\ task'[p].parent = task[p].parent
         /\ task'[p].bits = task[p].bits \cup prog[p].bits /\ task[p].path \in Paths
         /\ \A x \in Pids : x # p => task'[x] = task[x] /\ prog'[x] = prog[x]
         /\ UNCHANGED <<policy, spoiled, mbset_map, real, ran, due>>
<1>1. /\ prog[p].at = "parent"
      /\ task' = [task EXCEPT ![p].bits = @ \cup prog[p].bits]
      /\ prog' = [prog EXCEPT ![p].at = "path", ![p].bits = mbset_map[task[p].path]]
      /\ UNCHANGED <<ids, policy, mbset_map, gen, real, removal, data, ran, due, spoiled>>
  BY DEF ExecParentBits, agentVars
<1>2. /\ task \in [Pids -> Task] /\ task[p] \in Task /\ prog[p] \in Execing
      /\ prog \in [Pids -> {NoProg} \cup Forking \cup Execing]
      /\ mbset_map \in [Paths -> SUBSET Ids]
  BY <1>1, ProgFields DEF Base, BitType
<1>3. /\ task' = [task EXCEPT ![p] = [task[p] EXCEPT !.bits = task[p].bits \cup prog[p].bits]]
      /\ prog' = [prog EXCEPT ![p] =
                    [prog[p] EXCEPT !.at = "path", !.bits = mbset_map[task[p].path]]]
  BY <1>1, <1>2
<1>4. /\ [task[p] EXCEPT !.bits = task[p].bits \cup prog[p].bits] \in Task
      /\ task[p].path \in Paths
  BY <1>2 DEF Task, Execing
<1>5. [prog[p] EXCEPT !.at = "path", !.bits = mbset_map[task[p].path]] \in Execing
  BY <1>2, <1>4 DEF Execing
<1>6. /\ task' \in [Pids -> Task] /\ prog' \in [Pids -> {NoProg} \cup Forking \cup Execing]
  BY <1>2, <1>3, <1>4, <1>5
<1>7. /\ task'[p].live = task[p].live
      /\ task'[p].path = task[p].path /\ task'[p].parent = task[p].parent
      /\ task'[p].bits = task[p].bits \cup prog[p].bits
      /\ \A x \in Pids : x # p => task'[x] = task[x] /\ prog'[x] = prog[x]
  BY <1>2, <1>3 DEF Task
<1>8. /\ prog'[p].at = "path" /\ prog'[p].bits = mbset_map[task[p].path]
      /\ prog'[p].due = prog[p].due
  BY <1>2, <1>3 DEF Execing
<1>9. BitType'
  BY <1>1, <1>6 DEF Base, BitType
<1>10. p \in Alive
  BY <1>1 DEF Base, IdsOK, Alive
<1>11. IdsOK'
  <2>1. \A x \in Pids : ~task'[x].live => prog'[x].at = "none"
    BY <1>7, <1>10 DEF Base, IdsOK, Alive
  <2> QED BY <2>1, <1>1, ProgramIds
<1>12. Alive' = Alive
  BY <1>7 DEF Alive
<1> QED BY <1>1, <1>4, <1>7, <1>8, <1>9, <1>10, <1>11, <1>12 DEF Base

\* The bits of the path are added.
LEMMA BasePathBits ==
  ASSUME Base, NEW p \in Pids, ExecPathBits(p)
  PROVE  /\ Base' /\ prog[p].at = "path" /\ prog'[p].at = "none" /\ Alive' = Alive /\ p \in Alive
         /\ task'[p].path = task[p].path /\ task'[p].parent = task[p].parent
         /\ task'[p].bits = task[p].bits \cup prog[p].bits
         /\ \A x \in Pids : x # p => task'[x] = task[x] /\ prog'[x] = prog[x]
         /\ due' = [due EXCEPT ![p] = @ \cup (prog[p].due \cap Installed)]
         /\ UNCHANGED <<policy, spoiled, mbset_map, real, ran>>
<1>1. /\ prog[p].at = "path"
      /\ task' = [task EXCEPT ![p].bits = @ \cup prog[p].bits]
      /\ prog' = [prog EXCEPT ![p] = NoProg]
      /\ due' = [due EXCEPT ![p] = @ \cup (prog[p].due \cap Installed)]
      /\ UNCHANGED <<ids, policy, mbset_map, gen, real, removal, data, ran, spoiled>>
  BY DEF ExecPathBits, agentVars
<1>2. /\ task \in [Pids -> Task] /\ task[p] \in Task /\ prog[p] \in Execing
      /\ prog \in [Pids -> {NoProg} \cup Forking \cup Execing]
      /\ due \in [Pids -> SUBSET Policies]
  BY <1>1, ProgFields DEF Base, BitType
<1>3. task' = [task EXCEPT ![p] = [task[p] EXCEPT !.bits = task[p].bits \cup prog[p].bits]]
  BY <1>1, <1>2
<1>4. [task[p] EXCEPT !.bits = task[p].bits \cup prog[p].bits] \in Task
  BY <1>2 DEF Task, Execing
<1>5. /\ task' \in [Pids -> Task] /\ prog' \in [Pids -> {NoProg} \cup Forking \cup Execing]
      /\ due' \in [Pids -> SUBSET Policies]
  BY <1>1, <1>2, <1>3, <1>4 DEF Installed
<1>6. /\ task'[p].live = task[p].live
      /\ task'[p].path = task[p].path /\ task'[p].parent = task[p].parent
      /\ task'[p].bits = task[p].bits \cup prog[p].bits /\ prog'[p].at = "none"
      /\ \A x \in Pids : x # p => task'[x] = task[x] /\ prog'[x] = prog[x]
  BY <1>1, <1>2, <1>3 DEF Task, NoProg
<1>7. BitType'
  BY <1>1, <1>5 DEF Base, BitType
<1>8. IdsOK'
  <2>1. \A x \in Pids : ~task'[x].live => prog'[x].at = "none"
    BY <1>6 DEF Base, IdsOK
  <2> QED BY <2>1, <1>1, ProgramIds
<1>9. Alive' = Alive
  BY <1>6 DEF Alive
<1>10. p \in Alive
  BY <1>1 DEF Base, IdsOK, Alive
<1> QED BY <1>1, <1>6, <1>7, <1>8, <1>9, <1>10 DEF Base

\* What event_execve makes of the entries before execve_send.
LEMMA ParentTasks ==
  ASSUME Base, NEW p \in Pids
  PROVE  /\ ParentUpdated(p) \in [Pids -> Task]
         /\ \A x \in Pids : /\ ParentUpdated(p)[x] \in {task[x], update_mb_task(x)}
                            /\ ParentUpdated(p)[x].live = task[x].live
                            /\ ParentUpdated(p)[x].path = task[x].path
                            /\ ParentUpdated(p)[x].parent = task[x].parent
                            /\ task[x].bits \subseteq ParentUpdated(p)[x].bits
<1>1. task \in [Pids -> Task] /\ real[p] \in Pids \cup {NoPid}
  BY DEF Base, BitType
<1>2. \A x \in Pids : /\ update_mb_task(x) \in Task /\ update_mb_task(x).live = task[x].live
                     /\ update_mb_task(x).path = task[x].path
                     /\ update_mb_task(x).parent = task[x].parent
                     /\ task[x].bits \subseteq update_mb_task(x).bits
  BY UpdatedTask DEF Base
<1>3. \A x \in Pids : /\ ParentUpdated(p)[x] \in {task[x], update_mb_task(x)}
                     /\ ParentUpdated(p) \in [Pids -> Task]
  <2>1. CASE real[p] = NoPid
    BY <2>1, <1>1 DEF ParentUpdated
  <2>2. CASE real[p] # NoPid
    <3>1. PICK r \in Pids : r = real[p]
      BY <2>2, <1>1
    <3>2. PICK up : up = update_mb_task(r)
      OBVIOUS
    <3>3. ParentUpdated(p) = [task EXCEPT ![r] = up]
      BY <2>2, <3>1, <3>2 DEF ParentUpdated
    <3>4. up \in Task
      BY <3>2, <1>2
    <3> QED BY <3>2, <3>3, <3>4, <1>1
  <2> QED BY <2>1, <2>2
<1>4. ParentUpdated(p) \in [Pids -> Task]
  BY <1>3
<1> QED BY <1>2, <1>3, <1>4

\* An exec takes the new path and the parent's bits.
LEMMA BaseExec ==
  ASSUME Base, NEW p \in Pids, NEW path \in Paths, Exec(p, path)
  PROVE  /\ Base' /\ p \in Alive /\ Alive' = Alive /\ prog[p].at = "none"
         /\ prog'[p].at = "parent" /\ prog'[p].due = {q \in Installed : path \in PathsOf[q]}
         /\ prog'[p].bits = IF real[p] = NoPid THEN {} ELSE update_mb_task(real[p]).bits
         /\ task'[p].path = path /\ task'[p].parent = real[p]
         /\ task'[p].bits \in {task[p].bits, update_mb_task(p).bits}
         /\ task'[p].gen \in {task[p].gen, update_mb_task(p).gen}
         /\ \A x \in Pids : x # p => /\ prog'[x] = prog[x]
                                     /\ task'[x] = task[x] \/ task'[x] = update_mb_task(x)
         /\ ran' = [ran EXCEPT ![p] = @ \cup {path}]
         /\ UNCHANGED <<policy, spoiled, mbset_map, gen, real, due>>
<1>1. PICK bits : bits = IF real[p] = NoPid THEN {} ELSE update_mb_task(real[p]).bits
  OBVIOUS
<1>2. PICK old : old = ParentUpdated(p)
  OBVIOUS
<1>3. /\ p \in Alive /\ Calm(p)
      /\ task' = [old EXCEPT ![p].path = path, ![p].parent = real[p]]
      /\ prog' = [prog EXCEPT ![p] = [at |-> "parent", bits |-> bits,
                                      due |-> {q \in Installed : path \in PathsOf[q]}]]
      /\ ran' = [ran EXCEPT ![p] = @ \cup {path}]
      /\ UNCHANGED <<ids, policy, mbset_map, gen, real, removal, data, due, spoiled>>
  BY <1>1, <1>2 DEF Exec, agentVars
<1>4. /\ prog \in [Pids -> {NoProg} \cup Forking \cup Execing]
      /\ real[p] \in Pids \cup {NoPid} /\ ran \in [Pids -> SUBSET Paths]
  BY DEF Base, BitType
<1>5. /\ old \in [Pids -> Task] /\ old[p] \in Task
      /\ \A x \in Pids : old[x] \in {task[x], update_mb_task(x)} /\ old[x].live = task[x].live
  BY <1>2, ParentTasks
<1>6. task' = [old EXCEPT ![p] = [old[p] EXCEPT !.path = path, !.parent = real[p]]]
  BY <1>3, <1>5
<1>7. [old[p] EXCEPT !.path = path, !.parent = real[p]] \in Task
  BY <1>4, <1>5 DEF Task
<1>8. /\ task' \in [Pids -> Task] /\ \A x \in Pids : x # p => task'[x] = old[x]
      /\ task'[p].path = path /\ task'[p].parent = real[p]
      /\ task'[p].bits = old[p].bits /\ task'[p].gen = old[p].gen
      /\ task'[p].live = old[p].live
  BY <1>5, <1>6, <1>7 DEF Task
<1>9. bits \in SUBSET Ids
  <2>1. \A x \in Pids : update_mb_task(x) \in Task
    BY UpdatedTask DEF Base
  <2> QED BY <2>1, <1>1, <1>4 DEF Task
<1>10. [at |-> "parent", bits |-> bits, due |-> {q \in Installed : path \in PathsOf[q]}] \in Execing
  BY <1>9 DEF Execing, Installed
<1>11. prog' \in [Pids -> {NoProg} \cup Forking \cup Execing] /\ ran' \in [Pids -> SUBSET Paths]
  BY <1>3, <1>4, <1>10
<1>12. /\ prog'[p].at = "parent" /\ prog'[p].due = {q \in Installed : path \in PathsOf[q]}
       /\ prog'[p].bits = bits /\ \A x \in Pids : x # p => prog'[x] = prog[x]
  BY <1>3, <1>4
<1>13. BitType'
  BY <1>3, <1>8, <1>11 DEF Base, BitType
<1>14. \A x \in Pids : task'[x].live = task[x].live
  BY <1>5, <1>8
<1>15. IdsOK'
  <2>1. \A x \in Pids : ~task'[x].live => prog'[x].at = "none"
    BY <1>3, <1>12, <1>14 DEF Base, IdsOK, Alive
  <2> QED BY <2>1, <1>3, ProgramIds
<1>16. Alive' = Alive
  BY <1>14 DEF Alive
<1> QED BY <1>1, <1>3, <1>5, <1>8, <1>12, <1>13, <1>15, <1>16 DEF Base, Calm

\* A throttled exec leaves its own entry as it was.
LEMMA BaseThrottled ==
  ASSUME Base, NEW p \in Pids, NEW path \in Paths, ThrottledExec(p, path)
  PROVE  /\ Base' /\ Alive' = Alive
         /\ \A x \in Pids : task'[x] = task[x] \/ task'[x] = update_mb_task(x)
         /\ \A x \in Pids : ran[x] \subseteq ran'[x]
         /\ UNCHANGED <<policy, spoiled, mbset_map, gen, real, prog, due>>
<1>1. /\ task' = ParentUpdated(p) /\ ran' = [ran EXCEPT ![p] = @ \cup {path}]
      /\ UNCHANGED <<ids, policy, mbset_map, gen, real, prog, removal, data, due, spoiled>>
  BY DEF ThrottledExec, agentVars
<1>2. ran \in [Pids -> SUBSET Paths]
  BY DEF Base, BitType
<1>3. ran' \in [Pids -> SUBSET Paths] /\ \A x \in Pids : ran[x] \subseteq ran'[x]
  BY <1>1, <1>2
<1>4. /\ task' \in [Pids -> Task]
      /\ \A x \in Pids : task'[x].live = task[x].live /\ task'[x] \in {task[x], update_mb_task(x)}
  BY <1>1, ParentTasks
<1>5. BitType'
  BY <1>1, <1>3, <1>4 DEF Base, BitType
<1>6. IdsOK'
  <2>1. \A x \in Pids : ~task'[x].live => prog'[x].at = "none"
    BY <1>1, <1>4 DEF Base, IdsOK
  <2> QED BY <2>1, <1>1, ProgramIds
<1>7. Alive' = Alive
  BY <1>4 DEF Alive
<1> QED BY <1>1, <1>3, <1>4, <1>5, <1>6, <1>7 DEF Base

\* An exit takes the entry away and gives the children to the root.
LEMMA BaseExit ==
  ASSUME Base, NEW p \in Pids, Exit(p)
  PROVE  /\ Base' /\ p \in Alive /\ p # Root /\ Alive' = Alive \ {p} /\ prog[p].at = "none"
         /\ \A x \in Pids : x # p => task'[x] = task[x]
         /\ real' = [c \in Pids |-> IF real[c] = p THEN Root ELSE IF c = p THEN NoPid ELSE real[c]]
         /\ ran' = [c \in Pids |-> IF real[c] = p
                      THEN ran[c] \cup UNION {ran[d] : d \in {p} \cup Forebears(p)} ELSE ran[c]]
         /\ due' = [due EXCEPT ![p] = {}] /\ UNCHANGED <<policy, spoiled, mbset_map, prog>>
<1>1. /\ p \in Alive /\ p # Root /\ Calm(p)
      /\ task' = [task EXCEPT ![p] = NoTask(task[p].path)]
      /\ real' = [c \in Pids |-> IF real[c] = p THEN Root ELSE IF c = p THEN NoPid ELSE real[c]]
      /\ ran' = [c \in Pids |-> IF real[c] = p
                   THEN ran[c] \cup UNION {ran[d] : d \in {p} \cup Forebears(p)} ELSE ran[c]]
      /\ due' = [due EXCEPT ![p] = {}]
      /\ UNCHANGED <<ids, policy, mbset_map, gen, prog, removal, data, spoiled>>
  <2> DEFINE child == {c \in Pids : real[c] = p}
  <2>1. \A c \in Pids : c \in child <=> real[c] = p
    OBVIOUS
  <2>2. /\ real' = [c \in Pids |-> IF c \in child THEN Root ELSE IF c = p THEN NoPid ELSE real[c]]
        /\ ran' = [c \in Pids |-> IF c \in child
                     THEN ran[c] \cup UNION {ran[d] : d \in {p} \cup Forebears(p)} ELSE ran[c]]
    BY DEF Exit
  <2> HIDE DEF child
  <2>3. /\ real' = [c \in Pids |-> IF real[c] = p THEN Root ELSE IF c = p THEN NoPid ELSE real[c]]
        /\ ran' = [c \in Pids |-> IF real[c] = p
                     THEN ran[c] \cup UNION {ran[d] : d \in {p} \cup Forebears(p)} ELSE ran[c]]
    BY <2>1, <2>2
  <2> QED BY <2>3 DEF Exit, agentVars
<1>2. /\ task \in [Pids -> Task] /\ task[p] \in Task /\ real \in [Pids -> Pids \cup {NoPid}]
      /\ ran \in [Pids -> SUBSET Paths] /\ due \in [Pids -> SUBSET Policies] /\ Root \in Pids
  BY MatchBinariesAssumption DEF Base, BitType
<1>3. NoTask(task[p].path) \in Task /\ NoTask(task[p].path).live = FALSE
  BY <1>2 DEF Task, NoTask
<1>4. task' \in [Pids -> Task] /\ due' \in [Pids -> SUBSET Policies]
      /\ real' \in [Pids -> Pids \cup {NoPid}]
  BY <1>1, <1>2, <1>3
<1>5. ran' \in [Pids -> SUBSET Paths]
  <2>1. Forebears(p) \subseteq Pids
    BY DEF Forebears, Walk
  <2>2. PICK U : U = UNION {ran[d] : d \in {p} \cup Forebears(p)}
    OBVIOUS
  <2>3. U \subseteq Paths
    BY <2>1, <2>2, <1>2
  <2>4. ran' = [c \in Pids |-> IF real[c] = p THEN ran[c] \cup U ELSE ran[c]]
    BY <2>2, <1>1
  <2> QED BY <2>3, <2>4, <1>2
<1>6. BitType'
  BY <1>1, <1>4, <1>5 DEF Base, BitType
<1>7. ~task'[p].live /\ \A x \in Pids : x # p => task'[x] = task[x]
  BY <1>1, <1>2, <1>3
<1>8. IdsOK'
  <2>1. \A x \in Pids : ~task'[x].live => prog'[x].at = "none"
    BY <1>1, <1>7 DEF Base, IdsOK, Calm
  <2> QED BY <2>1, <1>1, ProgramIds
<1>9. Alive' = Alive \ {p}
  BY <1>7 DEF Alive
<1> QED BY <1>1, <1>6, <1>7, <1>8, <1>9 DEF Base, Calm

\* The paths of an installed policy have its bit.
MapHas == \A q \in Installed : \A x \in PathsOf[q] : policy[q].id \in mbset_map[x]

\* An exec under way runs a binary of the policies that it will be due to, and
\* once it has looked the path up it has their bits.
ProgHas ==
  \A p \in Pids : prog[p].at \in {"parent", "path"} =>
    \A q \in prog[p].due :
      /\ task[p].path \in PathsOf[q] /\ policy[q].st \in {"installed", "gone"}
      /\ prog[p].at = "path" /\ q \in Installed => policy[q].id \in prog[p].bits

\* A process has the bits of the policies that it is due to, the one that is
\* being forked those that its fork has read; but for the policies that the
\* removal of another has spoiled.
Carried(p) == IF prog[p].at = "fork" THEN prog[p].bits ELSE task[p].bits

DueHas ==
  /\ \A p \in Pids : due[p] \subseteq Installed
  /\ \A p \in Alive : \A q \in due[p] \ spoiled : policy[q].id \in Carried(p)

DueOK == MapHas /\ ProgHas /\ DueHas

\* What update_mb_task leaves alone.
LEMMA UpdatedSame ==
  ASSUME Base, NEW x \in Pids, task'[x] = task[x] \/ task'[x] = update_mb_task(x)
  PROVE  /\ task'[x].path = task[x].path /\ task'[x].parent = task[x].parent
         /\ task[x].bits \subseteq task'[x].bits
BY UpdatedTask DEF Base

\* Nobody is due to anything.
LEMMA DueInit == ASSUME MbInit PROVE DueOK
<1>1. /\ policy = [q \in Policies |-> [st |-> "none", id |-> NoId]]
      /\ prog = [p \in Pids |-> NoProg] /\ due = [p \in Pids |-> {}]
  BY DEF MbInit
<1>2. Installed = {} /\ Alive \subseteq Pids /\ \A p \in Pids : due[p] = {} /\ prog[p].at = "none"
  BY <1>1 DEF Installed, NoProg, Alive
<1> QED BY <1>2 DEF DueOK, MapHas, ProgHas, DueHas

\* The agent's steps: another policy's bit is never the one that is removed.
LEMMA DueAgent ==
  ASSUME Base, DueOK, NEW q \in Policies, AllocID(q) \/ UpdateMap(q) \/ RemoveID(q)
  PROVE  DueOK'
<1>0. /\ PathsOf \in [Policies -> SUBSET Paths] /\ Installed \subseteq Policies
      /\ Alive \subseteq Pids /\ \A p \in Pids : due[p] \subseteq Policies
      /\ \A p \in Pids : prog[p].at \in {"parent", "path"} => prog[p].due \subseteq Policies
  <2>1. \A p \in Pids : prog[p].at \in {"parent", "path"} => prog[p].due \subseteq Policies
    BY ProgFields DEF Base, Execing
  <2> QED BY <2>1, MatchBinariesAssumption DEF Base, BitType, Installed, Alive
<1>1. CASE AllocID(q)
  <2>1. /\ Installed' = Installed /\ \A r \in Policies : r # q => policy'[r] = policy[r]
        /\ policy[q].st = "none" /\ UNCHANGED <<mbset_map, task, prog, due, spoiled>>
    BY <1>1, BaseAlloc DEF AllocID
  <2>2. Alive' = Alive /\ \A p : Carried(p)' = Carried(p)
    BY <2>1 DEF Alive, Carried
  <2>3. q \notin Installed
    BY <2>1 DEF Installed
  <2>4. MapHas'
    BY <2>1, <2>3, <1>0 DEF DueOK, MapHas
  <2>5. ProgHas'
    BY <2>1, <2>3, <1>0 DEF DueOK, ProgHas
  <2>6. DueHas'
    BY <2>1, <2>2, <2>3, <1>0 DEF DueOK, DueHas
  <2> QED BY <2>4, <2>5, <2>6 DEF DueOK
<1>2. CASE UpdateMap(q)
  <2>1. /\ policy[q].st = "allocated" /\ policy[q].id \in Ids
        /\ \A r \in Policies : policy'[r].id = policy[r].id /\ (r # q => policy'[r] = policy[r])
        /\ \/ Installed' = Installed /\ policy'[q].st = "failed"
           \/ /\ Installed' = Installed \cup {q}
              /\ \A x \in PathsOf[q] : policy[q].id \in mbset_map'[x]
        /\ \A x \in Paths : mbset_map[x] \subseteq mbset_map'[x]
        /\ UNCHANGED <<task, prog, due, spoiled>>
    BY <1>2, BaseUpdate
  <2>2. Alive' = Alive /\ \A p : Carried(p)' = Carried(p)
    BY <2>1 DEF Alive, Carried
  <2>3. q \notin Installed /\ \A p \in Pids :
          prog[p].at \in {"parent", "path"} => q \notin prog[p].due
    BY <2>1 DEF Installed, DueOK, ProgHas
  <2>4. MapHas'
    BY <2>1, <1>0 DEF DueOK, MapHas
  <2>5. ProgHas'
    BY <2>1, <2>3, <1>0 DEF DueOK, ProgHas
  <2>6. DueHas'
    BY <2>1, <2>2, <1>0 DEF DueOK, DueHas
  <2> QED BY <2>4, <2>5, <2>6 DEF DueOK
<1>3. CASE RemoveID(q)
  <2>1. /\ q \in Here /\ Installed' = Installed \ {q} /\ policy'[q].st = "gone"
        /\ \A r \in Policies : policy'[r].id = policy[r].id /\ (r # q => policy'[r] = policy[r])
        /\ due' = [p \in Pids |-> due[p] \ {q}]
        /\ \A x \in Paths : mbset_map[x] \ {policy[q].id} \subseteq mbset_map'[x]
        /\ UNCHANGED <<task, prog, spoiled>>
    BY <1>3, BaseRemove
  <2>2. \A r \in Installed' : policy[r].id # policy[q].id /\ r \in Installed
    <3>1. q \in Taken /\ \A r \in Installed : r \in Taken
      BY <2>1 DEF Installed, Taken, Here
    <3> QED BY <2>1, <3>1 DEF Base, IdsOK
  <2>3. Alive' = Alive /\ \A p : Carried(p)' = Carried(p)
    BY <2>1 DEF Alive, Carried
  <2>4. MapHas'
    BY <2>1, <2>2, <1>0 DEF DueOK, MapHas
  <2>5. ProgHas'
    BY <2>1, <2>2, <1>0 DEF DueOK, ProgHas
  <2>6. DueHas'
    <3>1. Alive \subseteq Pids
      BY DEF Alive
    <3> QED BY <2>1, <2>3, <3>1, <1>0 DEF DueOK, DueHas
  <2> QED BY <2>4, <2>5, <2>6 DEF DueOK
<1> QED BY <1>1, <1>2, <1>3

\* A step of another actor that keeps the policies and the map, and what each
\* process is doing.
LEMMA DueKept ==
  ASSUME Base, DueOK, UNCHANGED <<policy, mbset_map, prog, due>>, Alive' = Alive,
         spoiled \subseteq spoiled',
         \A p \in Pids : task'[p].path = task[p].path,
         \A p \in Pids : \A q \in due[p] \ spoiled' :
           policy[q].id \in task[p].bits => policy[q].id \in task'[p].bits
  PROVE  DueOK'
<1>1. Installed' = Installed /\ Alive \subseteq Pids
  BY DEF Installed, Alive
<1>2. MapHas'
  BY <1>1 DEF DueOK, MapHas
<1>3. ProgHas'
  BY <1>1 DEF DueOK, ProgHas
<1>4. DueHas'
  BY <1>1 DEF DueOK, DueHas, Carried
<1> QED BY <1>2, <1>3, <1>4 DEF DueOK

\* A run takes the bit of a policy that is gone, which no other has unless the
\* batch is that of a removal that is over; or it spoils the owner.
LEMMA DueRun ==
  ASSUME Base, DueOK, NEW q \in Policies, RunBatch(q)
  PROVE  DueOK'
<1>1. /\ UNCHANGED <<policy, mbset_map, prog, due>> /\ Alive' = Alive /\ spoiled \subseteq spoiled'
      /\ data.by \in Policies /\ policy[data.by].st = "gone" /\ q \in Taken
      /\ \A p \in Pids : task'[p].path = task[p].path
  BY BaseRun
<1>2. CASE task' = task
  BY <1>1, <1>2, DueKept
<1>3. CASE task' # task
  <2>1. PICK bit : bit = policy[data.by].id
    OBVIOUS
  <2>2. /\ spoiled' = spoiled \cup Spoils(q)
        /\ \A p \in Pids : \A i \in task[p].bits :
             i # bit /\ i \notin Misses(bit) => i \in task'[p].bits
    BY <2>1, <1>3, BaseRun
  <2>3. ASSUME NEW p \in Pids, NEW r \in due[p] \ spoiled'
        PROVE  policy[r].id # bit /\ policy[r].id \notin Misses(bit)
    <3>1. r \in Installed /\ r \notin Spoils(q)
      BY <2>2, <2>3 DEF DueOK, DueHas
    <3>2. /\ policy[r].id \notin Misses(bit)
          /\ data.by # q => policy[r].id # bit
      BY <3>1, <2>1 DEF Spoils
    <3>3. ASSUME data.by = q
          PROVE  policy[r].id # bit
      <4>1. r \in Taken /\ r # q
        BY <3>1, <3>3, <1>1 DEF Installed, Taken, Here
      <4> QED BY <4>1, <3>3, <2>1, <1>1 DEF Base, IdsOK
    <3> QED BY <3>2, <3>3
  <2>4. \A p \in Pids : \A r \in due[p] \ spoiled' :
          policy[r].id \in task[p].bits => policy[r].id \in task'[p].bits
    BY <2>2, <2>3
  <2> QED BY <2>4, <1>1, DueKept
<1> QED BY <1>2, <1>3

\* A hook and a throttled exec only add bits.
LEMMA DueHook ==
  ASSUME Base, DueOK, NEW p \in Pids,
         \/ \E q \in Policies : Hook(p, q)
         \/ \E path \in Paths : ThrottledExec(p, path)
  PROVE  DueOK'
<1>1. /\ UNCHANGED <<policy, spoiled, mbset_map, prog, due>> /\ Alive' = Alive
      /\ \A x \in Pids : task'[x] = task[x] \/ task'[x] = update_mb_task(x)
  <2>1. CASE \E q \in Policies : Hook(p, q)
    BY <2>1, BaseHook DEF Base, BitType
  <2>2. CASE \E path \in Paths : ThrottledExec(p, path)
    BY <2>2, BaseThrottled
  <2> QED BY <2>1, <2>2
<1>2. \A x \in Pids : task'[x].path = task[x].path /\ task[x].bits \subseteq task'[x].bits
  BY <1>1, UpdatedSame
<1> QED BY <1>1, <1>2, DueKept

\* The child carries what the fork has read.
LEMMA DueFork ==
  ASSUME Base, DueOK, NEW p \in Pids, NEW c \in Pids, Fork(p, c)
  PROVE  DueOK'
<1>1. /\ p \in Alive /\ c \notin Alive /\ Alive' = Alive \cup {c} /\ prog[p].at = "none"
      /\ prog'[c].at = "fork" /\ prog'[c].bits = task[p].bits
      /\ \A x \in Pids : x # c => task'[x] = task[x] /\ prog'[x] = prog[x]
      /\ due' = [due EXCEPT ![c] = due[p]] /\ UNCHANGED <<policy, spoiled, mbset_map>>
      /\ due \in [Pids -> SUBSET Policies] /\ Alive \subseteq Pids
  BY BaseFork DEF Base, BitType, Alive
<1>2. Installed' = Installed
  BY <1>1 DEF Installed
<1>3. MapHas'
  BY <1>1, <1>2 DEF DueOK, MapHas
<1>4. ProgHas'
  BY <1>1, <1>2 DEF DueOK, ProgHas
<1>5. /\ due'[c] = due[p] /\ \A x \in Pids : x # c => due'[x] = due[x]
  BY <1>1
<1>6. Carried(c)' = Carried(p) /\ \A x \in Alive : Carried(x)' = Carried(x)
  BY <1>1 DEF Carried
<1>7. DueHas'
  BY <1>1, <1>2, <1>5, <1>6 DEF DueOK, DueHas
<1> QED BY <1>3, <1>4, <1>7 DEF DueOK

\* The second halves of a fork and an exec: what they write is what was due.
LEMMA DueProgram ==
  ASSUME Base, DueOK, NEW p \in Pids,
         ForkCopy(p) \/ ExecParentBits(p) \/ ExecPathBits(p)
  PROVE  DueOK'
<1>1. CASE ForkCopy(p)
  <2>1. /\ prog[p].at = "fork" /\ prog'[p].at = "none" /\ Alive' = Alive /\ p \in Alive
        /\ task'[p].bits = prog[p].bits
        /\ \A x \in Pids : x # p => task'[x] = task[x] /\ prog'[x] = prog[x]
        /\ UNCHANGED <<policy, spoiled, mbset_map, due>> /\ Alive \subseteq Pids
    BY <1>1, BaseForkCopy DEF Alive
  <2>2. Installed' = Installed
    BY <2>1 DEF Installed
  <2>3. MapHas' /\ ProgHas'
    BY <2>1, <2>2 DEF DueOK, MapHas, ProgHas
  <2>4. \A x \in Pids : Carried(x)' = Carried(x)
    BY <2>1 DEF Carried
  <2>5. DueHas'
    BY <2>1, <2>2, <2>4 DEF DueOK, DueHas
  <2> QED BY <2>3, <2>5 DEF DueOK
<1>2. CASE ExecParentBits(p)
  <2>1. /\ prog[p].at = "parent" /\ prog'[p].at = "path" /\ Alive' = Alive /\ p \in Alive
        /\ prog'[p].bits = mbset_map[task[p].path] /\ prog'[p].due = prog[p].due
        /\ task'[p].path = task[p].path
        /\ task'[p].bits = task[p].bits \cup prog[p].bits
        /\ \A x \in Pids : x # p => task'[x] = task[x] /\ prog'[x] = prog[x]
        /\ UNCHANGED <<policy, spoiled, mbset_map, due>> /\ Alive \subseteq Pids
    BY <1>2, BaseParentBits DEF Alive
  <2>2. Installed' = Installed
    BY <2>1 DEF Installed
  <2>3. MapHas'
    BY <2>1, <2>2 DEF DueOK, MapHas
  <2>4. ProgHas'
    <3>1. \A q \in prog[p].due : q \in Installed => policy[q].id \in mbset_map[task[p].path]
      BY <2>1 DEF DueOK, MapHas, ProgHas
    <3> QED BY <2>1, <2>2, <3>1 DEF DueOK, ProgHas
  <2>5. \A x \in Pids : Carried(x) \subseteq Carried(x)'
    BY <2>1 DEF Carried
  <2>6. DueHas'
    BY <2>1, <2>2, <2>5 DEF DueOK, DueHas
  <2> QED BY <2>3, <2>4, <2>6 DEF DueOK
<1>3. CASE ExecPathBits(p)
  <2>1. /\ prog[p].at = "path" /\ prog'[p].at = "none" /\ Alive' = Alive /\ p \in Alive
        /\ task'[p].bits = task[p].bits \cup prog[p].bits
        /\ \A x \in Pids : x # p => task'[x] = task[x] /\ prog'[x] = prog[x]
        /\ due' = [due EXCEPT ![p] = @ \cup (prog[p].due \cap Installed)]
        /\ UNCHANGED <<policy, spoiled, mbset_map>> /\ Alive \subseteq Pids
        /\ due \in [Pids -> SUBSET Policies]
    BY <1>3, BasePathBits DEF Alive, Base, BitType
  <2>2. Installed' = Installed
    BY <2>1 DEF Installed
  <2>3. MapHas' /\ ProgHas'
    BY <2>1, <2>2 DEF DueOK, MapHas, ProgHas
  <2>4. /\ \A x \in Pids : Carried(x) \subseteq Carried(x)'
        /\ Carried(p)' = task[p].bits \cup prog[p].bits
    BY <2>1 DEF Carried
  <2>5. /\ due'[p] = due[p] \cup (prog[p].due \cap Installed)
        /\ \A x \in Pids : x # p => due'[x] = due[x]
    BY <2>1
  <2>6. \A q \in prog[p].due \cap Installed : policy[q].id \in prog[p].bits
    BY <2>1 DEF DueOK, ProgHas
  <2>7. DueHas'
    BY <2>1, <2>2, <2>4, <2>5, <2>6 DEF DueOK, DueHas
  <2> QED BY <2>3, <2>7 DEF DueOK
<1> QED BY <1>1, <1>2, <1>3

\* An exec keeps the bits and is due to the policies that name its path.
LEMMA DueExec ==
  ASSUME Base, DueOK, NEW p \in Pids, NEW path \in Paths, Exec(p, path)
  PROVE  DueOK'
<1>1. /\ p \in Alive /\ Alive' = Alive /\ prog[p].at = "none"
      /\ prog'[p].at = "parent" /\ prog'[p].due = {q \in Installed : path \in PathsOf[q]}
      /\ task'[p].path = path /\ task'[p].bits \in {task[p].bits, update_mb_task(p).bits}
      /\ \A x \in Pids : x # p => /\ prog'[x] = prog[x]
                                  /\ task'[x] = task[x] \/ task'[x] = update_mb_task(x)
      /\ UNCHANGED <<policy, spoiled, mbset_map, due>> /\ Alive \subseteq Pids
  BY BaseExec DEF Alive
<1>a. task[p].bits \subseteq task'[p].bits
  BY <1>1, UpdatedTask DEF Base
<1>2. Installed' = Installed /\ \A q \in Installed : policy[q].st = "installed"
  BY <1>1 DEF Installed
<1>3. \A x \in Pids : x # p => task'[x].path = task[x].path /\ task[x].bits \subseteq task'[x].bits
  BY <1>1, UpdatedSame
<1>4. MapHas'
  BY <1>1, <1>2 DEF DueOK, MapHas
<1>5. ProgHas'
  BY <1>1, <1>2, <1>3 DEF DueOK, ProgHas
<1>6. \A x \in Pids : Carried(x) \subseteq Carried(x)'
  BY <1>1, <1>a, <1>3 DEF Carried
<1>7. DueHas'
  BY <1>1, <1>2, <1>6 DEF DueOK, DueHas
<1> QED BY <1>4, <1>5, <1>7 DEF DueOK

\* An exit ends what its process is due to, and no one else's.
LEMMA DueExit ==
  ASSUME Base, DueOK, NEW p \in Pids, Exit(p)
  PROVE  DueOK'
<1>1. /\ p \in Alive /\ Alive' = Alive \ {p} /\ prog[p].at = "none"
      /\ \A x \in Pids : x # p => task'[x] = task[x]
      /\ due' = [due EXCEPT ![p] = {}] /\ UNCHANGED <<policy, spoiled, mbset_map, prog>>
      /\ due \in [Pids -> SUBSET Policies] /\ Alive \subseteq Pids
  BY BaseExit DEF Base, BitType, Alive
<1>2. Installed' = Installed
  BY <1>1 DEF Installed
<1>3. MapHas' /\ ProgHas'
  BY <1>1, <1>2 DEF DueOK, MapHas, ProgHas
<1>4. \A x \in Pids : x # p => Carried(x)' = Carried(x) /\ due'[x] = due[x]
  BY <1>1 DEF Carried
<1>5. DueHas'
  BY <1>1, <1>2, <1>4 DEF DueOK, DueHas
<1> QED BY <1>3, <1>5 DEF DueOK

\* Every step keeps the types and the ids.
LEMMA BaseStep ==
  ASSUME Base, [MbNext]_MbVars
  PROVE  Base'
<1>1. CASE UNCHANGED MbVars
  <2>1. Taken' = Taken
    BY <1>1 DEF MbVars, agentVars, Taken, Here
  <2> QED BY <1>1, <2>1 DEF MbVars, agentVars, Base, BitType, IdsOK
<1>2. CASE MbNext
  BY <1>2, BaseAlloc, BaseUpdate, BaseRemove, BaseScan, BaseRun, BaseHook, BaseFork, BaseForkCopy,
     BaseParentBits, BasePathBits, BaseExec, BaseThrottled, BaseExit DEF MbNext
<1> QED BY <1>1, <1>2

\* Every step keeps what the processes are due to.
LEMMA DueStep ==
  ASSUME Base, DueOK, [MbNext]_MbVars
  PROVE  DueOK'
<1>1. CASE UNCHANGED MbVars
  <2>1. UNCHANGED <<policy, spoiled, mbset_map, prog, due>> /\ Alive' = Alive /\ task' = task
    BY <1>1 DEF MbVars, agentVars, Alive
  <2> QED BY <2>1, DueKept
<1>2. ASSUME NEW q \in Policies, ScanPid(q) \/ EndScan(q) \/ FillBatch(q)
      PROVE  DueOK'
  <2>1. UNCHANGED <<policy, spoiled, mbset_map, prog, due>> /\ Alive' = Alive /\ task' = task
    BY <1>2, BaseScan DEF Alive
  <2> QED BY <2>1, DueKept
<1>3. CASE MbNext
  BY <1>2, <1>3, DueAgent, DueRun, DueHook, DueFork, DueProgram, DueExec, DueExit DEF MbNext
<1> QED BY <1>1, <1>3

\* FollowsLater: a process that started a binary of an installed policy in an exec
\* that was not throttled, and every descendant of it, has the policy's bit,
\* whatever the other policies, forks, execs, exits and removals do in between,
\* two removals at a time included; unless a run of execve_map_update had a wrong
\* mask or another removal's batch, and so cleared that policy's bit.  It holds
\* for every number of ids and every width of the int.
THEOREM FollowsLaterCorrect == MbSpec => []FollowsLater
<1>1. MbInit => Base /\ DueOK
  BY BaseInit, DueInit
<1>2. Base /\ DueOK /\ [MbNext]_MbVars => (Base /\ DueOK)'
  BY BaseStep, DueStep
<1>3. Base /\ DueOK => FollowsLater
  BY DEF DueOK, DueHas, Carried, FollowsLater, Calm
<1> QED BY <1>1, <1>2, <1>3, PTL DEF MbSpec

\* What is met from p on, going from c to up[c] while that is live.
Met(up, live, p) ==
  {x \in Pids : \A S \in SUBSET Pids :
                   p \in S /\ (\A c \in S : up[c] \in live => up[c] \in S) => x \in S}

\* The walk begins at p and no step leaves it ...
LEMMA MetFacts ==
  ASSUME NEW up, NEW live \in SUBSET Pids, NEW p \in Pids
  PROVE  /\ p \in Met(up, live, p) /\ Met(up, live, p) \subseteq Pids
         /\ \A c \in Met(up, live, p) : up[c] \in live => up[c] \in Met(up, live, p)
BY DEF Met

\* ... and it is in every set that no step leaves.
LEMMA MetLeast ==
  ASSUME NEW up, NEW live \in SUBSET Pids, NEW p \in Pids, NEW S \in SUBSET Pids, p \in S,
         \A c \in S : up[c] \in live => up[c] \in S
  PROVE  Met(up, live, p) \subseteq S
BY DEF Met

\* A process and its forebears, and the binaries that they have run.
Reach(p) == {p} \cup Forebears(p)
RanBy(p) == UNION {ran[x] : x \in Reach(p)}

\* A process and its forebears are what a walk along real_parent meets.
LEMMA ReachIs ==
  ASSUME NEW p \in Pids
  PROVE  Reach(p) = Met(real, Alive, p) /\ Reach(p)' = Met(real', Alive', p)
<1>1. Reach(p) = Met(real, Alive, p)
  <2>1. p \in Met(real, Alive, p)
    BY DEF Met
  <2>2. Forebears(p) = Met(real, Alive, p) \ {p}
    BY DEF Forebears, Walk, Met
  <2> QED BY <2>1, <2>2 DEF Reach
<1>2. Reach(p)' = Met(real', Alive', p)
  <2>1. p \in Met(real', Alive', p)
    BY DEF Met
  <2>2. Forebears(p)' = Met(real', Alive', p) \ {p}
    BY DEF Forebears, Walk, Met
  <2> QED BY <2>1, <2>2 DEF Reach
<1> QED BY <1>1, <1>2

\* The processes form a tree: the root lives, a live process has a live parent or
\* none, has run its binary, and the parent that execve_map gives it has run one
\* and is its parent unless it is dead.
TreeOK ==
  /\ Root \in Alive
  /\ \A p \in Alive : real[p] \in Alive \cup {NoPid} /\ task[p].path \in ran[p]
  /\ \A p \in Alive : task[p].parent \in Pids =>
       /\ ran[task[p].parent] # {}
       /\ task[p].parent \in Alive => real[p] = task[p].parent

\* The forebears of a live process live.
LEMMA LiveReach ==
  ASSUME TreeOK, NoPid \notin Pids, NEW p \in Alive
  PROVE  /\ Reach(p) \subseteq Alive /\ p \in Reach(p)
         /\ \A c \in Reach(p) : real[c] \in Alive => real[c] \in Reach(p)
<1>1. Alive \subseteq Pids
  BY DEF Alive
<1>2. \A c \in Alive : real[c] \in Alive => real[c] \in Alive
  OBVIOUS
<1>3. Met(real, Alive, p) \subseteq Alive
  BY <1>1, MetLeast
<1>4. Reach(p) = Met(real, Alive, p)
  BY <1>1, ReachIs
<1>5. /\ p \in Met(real, Alive, p)
      /\ \A c \in Met(real, Alive, p) : real[c] \in Alive => real[c] \in Met(real, Alive, p)
  BY <1>1, MetFacts
<1> QED BY <1>3, <1>4, <1>5

\* The walk of update_mb_task along execve_map's parents meets only forebears.
LEMMA AncestorsReach ==
  ASSUME TreeOK, NoPid \notin Pids, NEW p \in Alive
  PROVE  Ancestors(p) \subseteq Reach(p)
<1>1. PICK up : up = [c \in Pids |-> task[c].parent]
  OBVIOUS
<1>2. Ancestors(p) \subseteq Met(up, Alive, p)
  BY <1>1 DEF Ancestors, Walk, Met
<1>3. /\ Reach(p) \subseteq Alive /\ p \in Reach(p) /\ Alive \subseteq Pids
      /\ \A c \in Reach(p) : real[c] \in Alive => real[c] \in Reach(p)
  BY LiveReach DEF Alive
<1>4. \A c \in Reach(p) : up[c] \in Alive => up[c] \in Reach(p)
  <2>1. \A c \in Reach(p) : up[c] = task[c].parent /\ c \in Alive
    BY <1>1, <1>3
  <2> QED BY <2>1, <1>3 DEF TreeOK
<1>5. Met(up, Alive, p) \subseteq Reach(p)
  BY <1>3, <1>4, MetLeast
<1> QED BY <1>2, <1>5

\* The root alone is a tree.
LEMMA TreeInit == ASSUME MbInit PROVE TreeOK
<1>1. PICK path \in Paths :
        /\ task = [p \in Pids |-> [NoTask(path) EXCEPT !.live = p = Root]]
        /\ real = [p \in Pids |-> NoPid]
        /\ ran = [p \in Pids |-> IF p = Root THEN {path} ELSE {}]
  BY DEF MbInit
<1>2. Root \in Pids /\ NoPid \notin Pids
  BY IdFacts
<1>3. Alive = {Root}
  BY <1>1, <1>2 DEF Alive, NoTask
<1>4. /\ task[Root].path = path /\ task[Root].parent = NoPid /\ real[Root] = NoPid
      /\ path \in ran[Root]
  BY <1>1, <1>2 DEF NoTask
<1> QED BY <1>2, <1>3, <1>4 DEF TreeOK

\* Steps that neither fork nor exec nor exit.
LEMMA TreeKept ==
  ASSUME TreeOK, Alive' = Alive, real' = real, ran' = ran,
         \A p \in Pids : task'[p].path = task[p].path /\ task'[p].parent = task[p].parent
  PROVE  TreeOK'
<1>1. Alive \subseteq Pids
  BY DEF Alive
<1> QED BY <1>1 DEF TreeOK

\* A fork gives a pid that nobody has had, so that no old parent is taken for it.
LEMMA TreeFork ==
  ASSUME ~Reuse, Base, TreeOK, NEW p \in Pids, NEW c \in Pids, Fork(p, c)
  PROVE  TreeOK'
<1>1. /\ p \in Alive /\ c \notin Alive /\ Alive' = Alive \cup {c}
      /\ task'[c].path = task[p].path /\ task'[c].parent = p
      /\ \A x \in Pids : x # c => task'[x] = task[x]
      /\ real' = [real EXCEPT ![c] = p] /\ ran' = [ran EXCEPT ![c] = ran[p]]
      /\ ran[c] = {} /\ Alive \subseteq Pids
      /\ ran \in [Pids -> SUBSET Paths] /\ real \in [Pids -> Pids \cup {NoPid}]
  BY BaseFork DEF Alive, Base, BitType
<1>2. /\ real'[c] = p /\ ran'[c] = ran[p]
      /\ \A x \in Pids : x # c => real'[x] = real[x] /\ ran'[x] = ran[x]
  BY <1>1
<1>3. ran[p] # {}
  BY <1>1 DEF TreeOK
<1>4. \A x \in Alive : task[x].parent # c
  BY <1>1 DEF TreeOK
<1>5. Root \in Alive'
  BY <1>1 DEF TreeOK
<1>6. \A x \in Alive' : real'[x] \in Alive' \cup {NoPid} /\ task'[x].path \in ran'[x]
  BY <1>1, <1>2 DEF TreeOK
<1>7. \A x \in Alive' : task'[x].parent \in Pids =>
         /\ ran'[task'[x].parent] # {}
         /\ task'[x].parent \in Alive' => real'[x] = task'[x].parent
  <2>1. \A x \in Alive : x # c /\ task'[x] = task[x] /\ real'[x] = real[x]
    BY <1>1, <1>2
  <2>2. \A x \in Alive : task[x].parent \in Pids => ran'[task[x].parent] = ran[task[x].parent]
    BY <1>2, <1>4
  <2> QED BY <2>1, <2>2, <1>1, <1>2, <1>3, <1>4 DEF TreeOK
<1> QED BY <1>5, <1>6, <1>7 DEF TreeOK

\* An exec takes the parent from the kernel.
LEMMA TreeExec ==
  ASSUME Base, TreeOK, NEW p \in Pids, NEW path \in Paths, Exec(p, path)
  PROVE  TreeOK'
<1>1. /\ p \in Alive /\ Alive' = Alive
      /\ task'[p].path = path /\ task'[p].parent = real[p]
      /\ \A x \in Pids : x # p => task'[x] = task[x] \/ task'[x] = update_mb_task(x)
      /\ ran' = [ran EXCEPT ![p] = @ \cup {path}]
      /\ UNCHANGED real /\ Alive \subseteq Pids /\ ran \in [Pids -> SUBSET Paths]
  BY BaseExec DEF Alive, Base, BitType
<1>2. \A x \in Pids : x # p => task'[x].path = task[x].path /\ task'[x].parent = task[x].parent
  BY <1>1, UpdatedSame
<1>3. path \in ran'[p] /\ \A x \in Pids : ran[x] \subseteq ran'[x]
  BY <1>1
<1>4. real[p] \in Pids => real[p] \in Alive /\ ran[real[p]] # {}
  BY <1>1, IdFacts DEF TreeOK
<1>5. \A x \in Alive' : real'[x] \in Alive' \cup {NoPid} /\ task'[x].path \in ran'[x]
  BY <1>1, <1>2, <1>3 DEF TreeOK
<1>6. \A x \in Alive' : task'[x].parent \in Pids =>
         /\ ran'[task'[x].parent] # {}
         /\ task'[x].parent \in Alive' => real'[x] = task'[x].parent
  BY <1>1, <1>2, <1>3, <1>4 DEF TreeOK
<1> QED BY <1>1, <1>5, <1>6 DEF TreeOK

\* An exit: the parent in execve_map of a child of p is dead from now on.
LEMMA TreeExit ==
  ASSUME Base, TreeOK, NEW p \in Pids, Exit(p)
  PROVE  TreeOK' /\ \A x \in Pids : ran[x] \subseteq ran'[x]
<1>1. /\ p \in Alive /\ p # Root /\ Alive' = Alive \ {p}
      /\ \A x \in Pids : x # p => task'[x] = task[x]
      /\ real' = [c \in Pids |-> IF real[c] = p THEN Root ELSE IF c = p THEN NoPid ELSE real[c]]
      /\ Alive \subseteq Pids
  BY BaseExit DEF Alive
<1>2. \A x \in Pids : ran[x] \subseteq ran'[x]
  BY BaseExit
<1>3. \A x \in Alive' : /\ x \in Alive /\ x # p /\ task'[x] = task[x]
                        /\ real'[x] = IF real[x] = p THEN Root ELSE real[x]
  BY <1>1
<1>4. Root \in Alive'
  BY <1>1 DEF TreeOK
<1>5. \A x \in Alive' : real'[x] \in Alive' \cup {NoPid} /\ task'[x].path \in ran'[x]
  BY <1>1, <1>2, <1>3, <1>4 DEF TreeOK
<1>6. \A x \in Alive' : task'[x].parent \in Pids =>
         /\ ran'[task'[x].parent] # {}
         /\ task'[x].parent \in Alive' => real'[x] = task'[x].parent
  BY <1>1, <1>2, <1>3 DEF TreeOK
<1> QED BY <1>2, <1>4, <1>5, <1>6 DEF TreeOK

\* The bit i belongs to a policy one of whose binaries p or a forebear has run.
Owned(i, p) == \E r \in Policies : policy[r].id = i /\ RanBy(p) \cap PathsOf[r] # {}

\* Every bit of a path is that of a policy that names the path, and every bit of
\* a process, and of a program under way for it, is owned.
MapOwned ==
  \A x \in Paths : \A i \in mbset_map[x] :
    \E r \in Policies : policy[r].id = i /\ x \in PathsOf[r]
TaskOwned == \A p \in Alive : \A i \in task[p].bits : Owned(i, p)
ProgOwned == \A p \in Pids : prog[p].at # "none" => \A i \in prog[p].bits : Owned(i, p)

BitsOK == MapOwned /\ TaskOwned /\ ProgOwned

\* No policy loses its id.
IdsStay == \A r \in Policies : policy[r].id \in Ids => policy'[r].id = policy[r].id

\* Bits are ids.
LEMMA OwnedBits ==
  ASSUME Base
  PROVE  /\ \A x \in Paths : mbset_map[x] \subseteq Ids
         /\ \A p \in Alive : task[p].bits \subseteq Ids
         /\ \A p \in Pids : prog[p].at # "none" => prog[p].bits \subseteq Ids
         /\ Alive \subseteq Pids
<1>1. \A p \in Pids : task[p] \in Task
  BY DEF Base, BitType
<1>2. Alive \subseteq Pids
  BY DEF Alive
<1>3. \A p \in Pids : task[p].bits \subseteq Ids
  BY <1>1 DEF Task
<1> QED BY <1>2, <1>3, ProgFields DEF Base, BitType

\* A bit stays owned while no binary is forgotten.
LEMMA OwnedStays ==
  ASSUME IdsStay, NEW p, NEW c, RanBy(p) \subseteq RanBy(c)', NEW i \in Ids, Owned(i, p)
  PROVE  Owned(i, c)'
BY DEF Owned, IdsStay

\* A bit that is taken out of the map.
LEMMA MapStays ==
  ASSUME Base, IdsStay, MapOwned, \A x \in Paths : mbset_map'[x] \subseteq mbset_map[x]
  PROVE  MapOwned'
BY OwnedBits DEF MapOwned, IdsStay

\* A binary that a process of the tree has run.
LEMMA PathOwned ==
  ASSUME Base, MapOwned, NEW p, NEW x \in Reach(p), task[x].path \in Paths,
         task[x].path \in ran[x], NEW i \in mbset_map[task[x].path]
  PROVE  Owned(i, p)
BY DEF MapOwned, Owned, RanBy

\* What update_mb_task finds is owned.
LEMMA UpdatedOwned ==
  ASSUME Base, TreeOK, BitsOK, NEW p \in Alive,
         NEW i \in update_mb_task(p).bits
  PROVE  Owned(i, p)
<1>0. Alive \subseteq Pids /\ NoPid \notin Pids
  BY IdFacts DEF Alive
<1>1. i \in task[p].bits \/ \E q \in Ancestors(p) : i \in mbset_map[task[q].path]
  BY <1>0, UpdatedTask DEF Base
<1>2. CASE i \in task[p].bits
  BY <1>2 DEF BitsOK, TaskOwned
<1>3. CASE \E q \in Ancestors(p) : i \in mbset_map[task[q].path]
  <2>1. PICK q \in Ancestors(p) : i \in mbset_map[task[q].path]
    BY <1>3
  <2>2. q \in Reach(p) /\ q \in Alive
    BY <2>1, <1>0, AncestorsReach, LiveReach
  <2>3. task[q].path \in ran[q] /\ task[q].path \in Paths
    BY <2>2, <1>0 DEF TreeOK, Base, BitType, Task
  <2> QED BY <2>1, <2>2, <2>3, PathOwned DEF BitsOK
<1> QED BY <1>1, <1>2, <1>3

\* While the tree stays and the binaries run only grow.
LEMMA RanGrows ==
  ASSUME Alive' = Alive, real' = real, \A x \in Pids : ran[x] \subseteq ran'[x], NEW p \in Pids
  PROVE  RanBy(p) \subseteq RanBy(p)'
<1>1. Reach(p)' = Reach(p) /\ Reach(p) \subseteq Pids
  <2>1. Alive \subseteq Pids
    BY DEF Alive
  <2> QED BY <2>1, ReachIs, MetFacts
<1> QED BY <1>1 DEF RanBy

\* A fork adds to what the child and everybody else descends from.
LEMMA ForkGrows ==
  ASSUME ~Reuse, Base, TreeOK, NEW p \in Pids, NEW c \in Pids, Fork(p, c)
  PROVE  /\ \A x \in Alive : RanBy(x) \subseteq RanBy(x)'
         /\ RanBy(p) \subseteq RanBy(c)'
<1>1. /\ p \in Alive /\ c \notin Alive /\ Alive' = Alive \cup {c}
      /\ real' = [real EXCEPT ![c] = p] /\ ran' = [ran EXCEPT ![c] = ran[p]]
      /\ ran[c] = {} /\ Alive \subseteq Pids
      /\ ran \in [Pids -> SUBSET Paths] /\ real \in [Pids -> Pids \cup {NoPid}]
  BY BaseFork DEF Alive, Base, BitType
<1>2. /\ real'[c] = p /\ \A x \in Pids : x # c => real'[x] = real[x]
      /\ \A x \in Pids : ran[x] \subseteq ran'[x]
  BY <1>1
<1>a. Alive' \in SUBSET Pids
  BY <1>1
<1>3. ASSUME NEW x \in Alive, NEW y \in Pids, x \in Reach(y)'
      PROVE  RanBy(x) \subseteq RanBy(y)'
  <2>1. PICK M : M = Met(real', Alive', y)
    OBVIOUS
  <2>2. M = Reach(y)'
    BY <2>1, ReachIs
  <2>3. M \subseteq Pids /\ \A d \in M : real'[d] \in Alive' => real'[d] \in M
    BY <2>1, <1>a, MetFacts
  <2>4. x \in M \cap Alive /\ \A d \in M \cap Alive : real[d] \in Alive => real[d] \in M \cap Alive
    BY <2>2, <2>3, <1>1, <1>2, <1>3
  <2>5. Met(real, Alive, x) \subseteq M \cap Alive
    BY <2>3, <2>4, <1>1, MetLeast
  <2>6. Reach(x) \subseteq Reach(y)' /\ Reach(x) \subseteq Pids
    BY <2>2, <2>3, <2>5, <1>1, ReachIs
  <2> QED BY <2>6, <1>2 DEF RanBy
<1>4. \A x \in Pids : x \in Reach(x)'
  BY DEF Reach
<1>5. p \in Reach(c)'
  <2>1. c \in Met(real', Alive', c) /\ (real'[c] \in Alive' => real'[c] \in Met(real', Alive', c))
    BY <1>a, MetFacts
  <2> QED BY <2>1, <1>1, <1>2, ReachIs
<1> QED BY <1>1, <1>3, <1>4, <1>5

\* The children keep what the process that exits, and its forebears, have run.
LEMMA ExitGrows ==
  ASSUME Base, TreeOK, NEW p \in Pids, Exit(p), NEW x \in Alive, x # p
  PROVE  RanBy(x) \subseteq RanBy(x)'
<1>1. /\ p \in Alive /\ p # Root /\ Alive' = Alive \ {p}
      /\ real' = [c \in Pids |-> IF real[c] = p THEN Root ELSE IF c = p THEN NoPid ELSE real[c]]
      /\ Alive \subseteq Pids /\ Root \in Alive /\ NoPid \notin Pids /\ x \in Pids
  BY BaseExit, IdFacts DEF Alive, TreeOK
<1>2. \A c \in Pids : ran[c] \subseteq ran'[c] /\ (real[c] = p => RanBy(p) \subseteq ran'[c])
  BY BaseExit DEF RanBy, Reach
<1>3. PICK M : M = Met(real', Alive', x)
  OBVIOUS
<1>4. /\ M = Reach(x)' /\ x \in M /\ M \subseteq Pids
      /\ \A d \in M : real'[d] \in Alive' => real'[d] \in M
  BY <1>1, <1>3, ReachIs, MetFacts
<1>5. M \subseteq Alive'
  <2>1. x \in Alive'
    BY <1>1
  <2> QED BY <2>1, <1>1, <1>3, MetLeast
<1>6. PICK S : S = M \cup IF \E d \in M : real[d] = p THEN Reach(p) ELSE {}
  OBVIOUS
<1>7. /\ Reach(p) \subseteq Alive /\ p \in Reach(p)
      /\ \A c \in Reach(p) : real[c] \in Alive => real[c] \in Reach(p)
  BY <1>1, LiveReach
<1>8. \A c \in S : real[c] \in Alive => real[c] \in S
  <2> SUFFICES ASSUME NEW c \in S, real[c] \in Alive
               PROVE  real[c] \in S
    OBVIOUS
  <2>1. CASE c \in Reach(p) /\ \E d \in M : real[d] = p
    BY <2>1, <1>6, <1>7
  <2>2. CASE c \in M /\ real[c] = p
    BY <2>2, <1>6, <1>7
  <2>3. CASE c \in M /\ real[c] # p
    <3>1. c # p /\ c \in Pids
      BY <2>3, <1>1, <1>4, <1>5
    <3>2. real'[c] = real[c] /\ real[c] \in Alive'
      BY <2>3, <3>1, <1>1
    <3> QED BY <2>3, <3>2, <1>4, <1>6
  <2> QED BY <2>1, <2>2, <2>3, <1>6
<1>9. Reach(x) \subseteq S
  <2>1. x \in S /\ S \in SUBSET Pids
    BY <1>1, <1>4, <1>6, <1>7
  <2> QED BY <2>1, <1>1, <1>8, ReachIs, MetLeast
<1>10. ASSUME NEW a \in S
       PROVE  ran[a] \subseteq RanBy(x)'
  <2>1. CASE a \in M
    BY <2>1, <1>2, <1>4 DEF RanBy
  <2>2. CASE a \in Reach(p) /\ \E d \in M : real[d] = p
    <3>1. PICK d \in M : real[d] = p
      BY <2>2
    <3>2. ran[a] \subseteq RanBy(p)
      BY <2>2 DEF RanBy
    <3>3. RanBy(p) \subseteq ran'[d] /\ d \in Reach(x)'
      BY <3>1, <1>2, <1>4
    <3>4. ran'[d] \subseteq RanBy(x)'
      BY <3>3 DEF RanBy
    <3> QED BY <3>2, <3>3, <3>4
  <2> QED BY <2>1, <2>2, <1>6, <1>10
<1> QED BY <1>9, <1>10 DEF RanBy

\* There are no bits.
LEMMA BitsInit == ASSUME MbInit PROVE BitsOK
<1>1. PICK path \in Paths :
        /\ mbset_map = [x \in Paths |-> {}]
        /\ task = [p \in Pids |-> [NoTask(path) EXCEPT !.live = p = Root]]
        /\ prog = [p \in Pids |-> NoProg]
  BY DEF MbInit
<1>2. /\ Alive \subseteq Pids /\ \A x \in Paths : mbset_map[x] = {}
      /\ \A p \in Pids : prog[p].at = "none" /\ task[p].bits = {}
  BY <1>1 DEF NoProg, NoTask, Alive
<1> QED BY <1>2 DEF BitsOK, MapOwned, TaskOwned, ProgOwned

\* Steps that add no bit to a process.
LEMMA BitsKept ==
  ASSUME Base, BitsOK, IdsStay, MapOwned', Alive' = Alive, real' = real,
         \A x \in Pids : ran[x] \subseteq ran'[x],
         \A p \in Pids : task'[p].bits \subseteq task[p].bits, prog' = prog
  PROVE  BitsOK'
<1>1. /\ Alive \subseteq Pids /\ \A p \in Alive : task[p].bits \subseteq Ids
      /\ \A p \in Pids : prog[p].at # "none" => prog[p].bits \subseteq Ids
  BY OwnedBits
<1>2. \A p \in Pids : \A i \in Ids : Owned(i, p) => Owned(i, p)'
  BY RanGrows, OwnedStays
<1>3. TaskOwned'
  BY <1>1, <1>2 DEF BitsOK, TaskOwned
<1>4. ProgOwned'
  BY <1>1, <1>2 DEF BitsOK, ProgOwned
<1> QED BY <1>3, <1>4 DEF BitsOK

\* The agent puts a bit only into the paths of its policy.
LEMMA BitsAgent ==
  ASSUME Base, BitsOK, NEW q \in Policies,
         AllocID(q) \/ UpdateMap(q) \/ RemoveID(q)
  PROVE  BitsOK'
<1>0. task' = task /\ real' = real /\ ran' = ran /\ prog' = prog /\ Alive' = Alive
  BY DEF AllocID, UpdateMap, RemoveID, Alive
<1>1. IdsStay
  BY BaseAlloc, BaseUpdate, BaseRemove DEF IdsStay
<1>2. MapOwned'
  <2>1. CASE AllocID(q)
    BY <2>1, <1>1, MapStays DEF AllocID, BitsOK
  <2>2. CASE RemoveID(q)
    BY <2>2, <1>1, MapStays, BaseRemove DEF BitsOK
  <2>3. CASE UpdateMap(q)
    <3>1. \A x \in Paths : \A i \in mbset_map'[x] :
            i \in mbset_map[x] \/ (i = policy[q].id /\ x \in PathsOf[q])
      BY <2>3, BaseUpdate
    <3>2. policy'[q].id = policy[q].id
      BY <2>3, BaseUpdate
    <3>3. \A x \in Paths : mbset_map[x] \subseteq Ids
      BY OwnedBits
    <3>4. ASSUME NEW x \in Paths, NEW i \in mbset_map'[x]
          PROVE  \E r \in Policies : policy'[r].id = i /\ x \in PathsOf[r]
      <4>1. CASE i \in mbset_map[x]
        <5>1. PICK r \in Policies : policy[r].id = i /\ x \in PathsOf[r]
          BY <4>1 DEF BitsOK, MapOwned
        <5> QED BY <5>1, <4>1, <3>3, <1>1 DEF IdsStay
      <4>2. CASE i \notin mbset_map[x]
        BY <4>2, <3>1, <3>2, <3>4
      <4> QED BY <4>1, <4>2
    <3> QED BY <3>4 DEF MapOwned
  <2> QED BY <2>1, <2>2, <2>3
<1> QED BY <1>0, <1>1, <1>2, BitsKept

\* Clearing adds no bit.
LEMMA BitsClear ==
  ASSUME Base, BitsOK, NEW q \in Policies,
         RunBatch(q) \/ ScanPid(q) \/ EndScan(q) \/ FillBatch(q)
  PROVE  BitsOK'
<1>1. /\ UNCHANGED <<policy, mbset_map, real, ran, prog>> /\ Alive' = Alive
      /\ \A p \in Pids : task'[p].bits \subseteq task[p].bits
  BY BaseRun, BaseScan DEF Alive
<1>2. IdsStay /\ MapOwned'
  BY <1>1 DEF IdsStay, MapOwned, BitsOK
<1> QED BY <1>1, <1>2, BitsKept

\* A hook adds what its walk finds.
LEMMA BitsHook ==
  ASSUME Base, TreeOK, BitsOK, NEW p \in Pids, NEW q \in Policies, Hook(p, q)
  PROVE  BitsOK'
<1>1. /\ p \in Alive /\ Alive' = Alive /\ task' = [task EXCEPT ![p] = update_mb_task(p)]
      /\ UNCHANGED <<policy, spoiled, mbset_map, real, prog, ran>> /\ task \in [Pids -> Task]
      /\ Alive \subseteq Pids
  BY BaseHook DEF Base, BitType, Alive
<1>2. \A x : \A i : Owned(i, x)' <=> Owned(i, x)
  <2>1. \A x : Reach(x)' = Reach(x)
    BY <1>1 DEF Reach, Forebears, Walk
  <2> QED BY <2>1, <1>1 DEF Owned, RanBy
<1>3. TaskOwned'
  <2>1. \A x \in Pids : task'[x] = IF x = p THEN update_mb_task(p) ELSE task[x]
    BY <1>1
  <2>2. \A x \in Alive : \A i \in task'[x].bits : Owned(i, x)
    BY <2>1, <1>1, UpdatedOwned DEF BitsOK, TaskOwned
  <2> QED BY <2>2, <1>1, <1>2 DEF TaskOwned
<1>4. MapOwned' /\ ProgOwned'
  BY <1>1, <1>2 DEF BitsOK, MapOwned, ProgOwned
<1> QED BY <1>3, <1>4 DEF BitsOK

\* The child has the parent's bits and the parent as a forebear.
LEMMA BitsFork ==
  ASSUME ~Reuse, Base, TreeOK, BitsOK, NEW p \in Pids, NEW c \in Pids,
         Fork(p, c)
  PROVE  BitsOK'
<1>1. /\ p \in Alive /\ c \notin Alive /\ Alive' = Alive \cup {c}
      /\ prog'[c].bits = task[p].bits /\ task'[c].bits = {}
      /\ \A x \in Pids : x # c => task'[x] = task[x] /\ prog'[x] = prog[x]
      /\ UNCHANGED <<policy, spoiled, mbset_map>> /\ Alive \subseteq Pids
  BY BaseFork DEF Alive
<1>2. IdsStay /\ MapOwned'
  BY <1>1 DEF IdsStay, MapOwned, BitsOK
<1>3. /\ \A x \in Alive : \A i \in Ids : Owned(i, x) => Owned(i, x)'
      /\ \A i \in Ids : Owned(i, p) => Owned(i, c)'
  BY <1>2, ForkGrows, OwnedStays
<1>4. /\ \A x \in Alive : task[x].bits \subseteq Ids
      /\ \A x \in Pids : prog[x].at # "none" => prog[x].bits \subseteq Ids /\ x \in Alive
  BY OwnedBits DEF Base, IdsOK, Alive
<1>5. TaskOwned'
  BY <1>1, <1>3, <1>4 DEF BitsOK, TaskOwned
<1>6. ProgOwned'
  BY <1>1, <1>3, <1>4 DEF BitsOK, TaskOwned, ProgOwned
<1> QED BY <1>2, <1>5, <1>6 DEF BitsOK

\* What a program has read was owned, and still is.
LEMMA BitsProgram ==
  ASSUME Base, TreeOK, BitsOK, NEW p \in Pids,
         ForkCopy(p) \/ ExecParentBits(p) \/ ExecPathBits(p)
  PROVE  BitsOK' /\ TreeOK'
<1>1. /\ p \in Alive /\ Alive' = Alive /\ Alive \subseteq Pids
      /\ task'[p].bits \subseteq task[p].bits \cup prog[p].bits /\ prog[p].at # "none"
      /\ prog'[p].at = "none" \/ prog'[p].bits = mbset_map[task[p].path]
      /\ \A x \in Pids : x # p => task'[x] = task[x] /\ prog'[x] = prog[x]
      /\ task'[p].path = task[p].path /\ task'[p].parent = task[p].parent
      /\ UNCHANGED <<policy, spoiled, mbset_map, real, ran>>
  BY BaseForkCopy, BaseParentBits, BasePathBits DEF Alive
<1>2. \A x : \A i : Owned(i, x)' <=> Owned(i, x)
  <2>1. \A x : Reach(x)' = Reach(x)
    BY <1>1 DEF Reach, Forebears, Walk
  <2> QED BY <2>1, <1>1 DEF Owned, RanBy
<1>3. MapOwned'
  BY <1>1 DEF BitsOK, MapOwned
<1>4. TaskOwned'
  BY <1>1, <1>2 DEF BitsOK, TaskOwned, ProgOwned
<1>5. \A i \in mbset_map[task[p].path] : Owned(i, p)
  <2>1. p \in Reach(p)
    BY DEF Reach
  <2>2. task[p].path \in ran[p] /\ task[p].path \in Paths
    BY <1>1 DEF TreeOK, Base, BitType, Task
  <2> QED BY <2>1, <2>2, PathOwned DEF BitsOK
<1>6. ProgOwned'
  BY <1>1, <1>2, <1>5 DEF BitsOK, ProgOwned
<1>7. TreeOK'
  BY <1>1, TreeKept
<1> QED BY <1>3, <1>4, <1>6, <1>7 DEF BitsOK

\* An exec reads the bits of its parent, a forebear.
LEMMA BitsExec ==
  ASSUME Base, TreeOK, BitsOK, NEW p \in Pids, NEW path \in Paths,
         Exec(p, path)
  PROVE  BitsOK'
<1>1. /\ p \in Alive /\ Alive' = Alive
      /\ prog'[p].bits = IF real[p] = NoPid THEN {} ELSE update_mb_task(real[p]).bits
      /\ task'[p].bits \in {task[p].bits, update_mb_task(p).bits}
      /\ \A x \in Pids : x # p => /\ prog'[x] = prog[x]
                                  /\ task'[x] = task[x] \/ task'[x] = update_mb_task(x)
      /\ ran' = [ran EXCEPT ![p] = @ \cup {path}]
      /\ UNCHANGED <<policy, spoiled, mbset_map, real>> /\ Alive \subseteq Pids
      /\ ran \in [Pids -> SUBSET Paths] /\ NoPid \notin Pids
  BY BaseExec, IdFacts DEF Alive, Base, BitType
<1>2. IdsStay /\ MapOwned' /\ \A x \in Pids : ran[x] \subseteq ran'[x]
  BY <1>1 DEF IdsStay, MapOwned, BitsOK
<1>3. \A x \in Pids : \A i \in Ids : Owned(i, x) => Owned(i, x)'
  BY <1>1, <1>2, RanGrows, OwnedStays
<1>4. \A x \in Alive : \A i \in update_mb_task(x).bits : Owned(i, x) /\ i \in Ids
  <2>1. \A x \in Alive : update_mb_task(x).bits \subseteq Ids
    BY <1>1, UpdatedTask DEF Base, Task
  <2> QED BY <2>1, UpdatedOwned
<1>5. /\ \A x \in Alive : task[x].bits \subseteq Ids
      /\ \A x \in Pids : prog[x].at # "none" => prog[x].bits \subseteq Ids
  BY OwnedBits
<1>6. TaskOwned'
  BY <1>1, <1>3, <1>4, <1>5 DEF BitsOK, TaskOwned
<1>7. \A i \in prog'[p].bits : Owned(i, p)'
  <2>1. CASE real[p] = NoPid
    BY <2>1, <1>1
  <2>2. CASE real[p] # NoPid
    <3>1. real[p] \in Alive
      BY <2>2, <1>1 DEF TreeOK
    <3>2. RanBy(real[p]) \subseteq RanBy(p)
      <4>1. real[p] \in Reach(p) /\ Reach(p) \subseteq Pids
            /\ \A c \in Reach(p) : real[c] \in Alive => real[c] \in Reach(p)
        BY <3>1, <1>1, LiveReach
      <4>2. Reach(real[p]) \subseteq Reach(p)
        BY <4>1, <3>1, <1>1, ReachIs, MetLeast
      <4> QED BY <4>2 DEF RanBy
    <3>3. \A i \in Ids : Owned(i, real[p]) => Owned(i, p)
      BY <3>2 DEF Owned
    <3> QED BY <2>2, <3>1, <3>3, <1>1, <1>3, <1>4
  <2> QED BY <2>1, <2>2
<1>8. ProgOwned'
  BY <1>1, <1>3, <1>5, <1>7 DEF BitsOK, ProgOwned
<1> QED BY <1>2, <1>6, <1>8 DEF BitsOK

\* A throttled exec adds a binary to what has been run, and no new bit.
LEMMA BitsThrottled ==
  ASSUME Base, TreeOK, BitsOK, NEW p \in Pids, NEW path \in Paths, ThrottledExec(p, path)
  PROVE  BitsOK' /\ TreeOK'
<1>1. /\ Alive' = Alive /\ Alive \subseteq Pids
      /\ \A x \in Pids : task'[x] = task[x] \/ task'[x] = update_mb_task(x)
      /\ \A x \in Pids : ran[x] \subseteq ran'[x]
      /\ UNCHANGED <<policy, mbset_map, real, prog>>
  BY BaseThrottled DEF Alive
<1>2. IdsStay /\ MapOwned'
  BY <1>1 DEF IdsStay, MapOwned, BitsOK
<1>3. \A x \in Pids : \A i \in Ids : Owned(i, x) => Owned(i, x)'
  BY <1>1, <1>2, RanGrows, OwnedStays
<1>4. \A x \in Alive : \A i \in update_mb_task(x).bits : Owned(i, x) /\ i \in Ids
  <2>1. \A x \in Alive : update_mb_task(x).bits \subseteq Ids
    BY <1>1, UpdatedTask DEF Base, Task
  <2> QED BY <2>1, UpdatedOwned
<1>5. /\ \A x \in Alive : task[x].bits \subseteq Ids
      /\ \A x \in Pids : prog[x].at # "none" => prog[x].bits \subseteq Ids
  BY OwnedBits
<1>6. TaskOwned'
  BY <1>1, <1>3, <1>4, <1>5 DEF BitsOK, TaskOwned
<1>7. ProgOwned'
  BY <1>1, <1>3, <1>5 DEF BitsOK, ProgOwned
<1>8. \A x \in Pids : task'[x].path = task[x].path /\ task'[x].parent = task[x].parent
  BY <1>1, UpdatedSame
<1>9. TreeOK'
  BY <1>1, <1>8 DEF TreeOK
<1> QED BY <1>2, <1>6, <1>7, <1>9 DEF BitsOK

\* The survivors keep what the dead have run.
LEMMA BitsExit ==
  ASSUME Base, TreeOK, BitsOK, NEW p \in Pids, Exit(p)
  PROVE  BitsOK'
<1>1. /\ p \in Alive /\ Alive' = Alive \ {p} /\ prog[p].at = "none"
      /\ \A x \in Pids : x # p => task'[x] = task[x]
      /\ UNCHANGED <<policy, spoiled, mbset_map, prog>> /\ Alive \subseteq Pids
  BY BaseExit DEF Alive
<1>2. IdsStay /\ MapOwned'
  BY <1>1 DEF IdsStay, MapOwned, BitsOK
<1>3. \A x \in Alive : x # p => \A i \in Ids : Owned(i, x) => Owned(i, x)'
  BY <1>2, ExitGrows, OwnedStays
<1>4. /\ \A x \in Alive : task[x].bits \subseteq Ids
      /\ \A x \in Pids : prog[x].at # "none" => prog[x].bits \subseteq Ids /\ x \in Alive
  BY OwnedBits DEF Base, IdsOK, Alive
<1>5. TaskOwned'
  BY <1>1, <1>3, <1>4 DEF BitsOK, TaskOwned
<1>6. ProgOwned'
  BY <1>1, <1>3, <1>4 DEF BitsOK, ProgOwned
<1> QED BY <1>2, <1>5, <1>6 DEF BitsOK

\* Every step keeps the tree and who owns the bits.
LEMMA DescentStep ==
  ASSUME ~Reuse, Base, TreeOK, BitsOK, [MbNext]_MbVars
  PROVE  TreeOK' /\ BitsOK'
<1>1. CASE UNCHANGED MbVars
  <2>1. /\ UNCHANGED <<policy, spoiled, mbset_map, real, ran, prog>> /\ Alive' = Alive /\ task' = task
    BY <1>1 DEF MbVars, agentVars, Alive
  <2>2. IdsStay /\ MapOwned'
    BY <2>1 DEF IdsStay, MapOwned, BitsOK
  <2> QED BY <2>1, <2>2, BitsKept, TreeKept
<1>2. ASSUME NEW q \in Policies, AllocID(q) \/ UpdateMap(q) \/ RemoveID(q)
      PROVE  TreeOK' /\ BitsOK'
  <2>1. task' = task /\ real' = real /\ ran' = ran /\ Alive' = Alive
    BY <1>2 DEF AllocID, UpdateMap, RemoveID, Alive
  <2> QED BY <1>2, <2>1, BitsAgent, TreeKept
<1>3. ASSUME NEW q \in Policies, RunBatch(q) \/ ScanPid(q) \/ EndScan(q) \/ FillBatch(q)
      PROVE  TreeOK' /\ BitsOK'
  <2>1. /\ real' = real /\ ran' = ran /\ Alive' = Alive
        /\ \A p \in Pids : task'[p].path = task[p].path /\ task'[p].parent = task[p].parent
    BY <1>3, BaseRun, BaseScan DEF Alive
  <2> QED BY <1>3, <2>1, BitsClear, TreeKept
<1>4. ASSUME NEW p \in Pids, NEW q \in Policies, Hook(p, q)
      PROVE  TreeOK' /\ BitsOK'
  <2>1. /\ task' = [task EXCEPT ![p] = update_mb_task(p)] /\ task \in [Pids -> Task]
        /\ real' = real /\ ran' = ran /\ Alive' = Alive
    BY <1>4, BaseHook DEF Base, BitType
  <2>2. \A x \in Pids : task'[x] = task[x] \/ task'[x] = update_mb_task(x)
    BY <2>1
  <2>3. \A x \in Pids : task'[x].path = task[x].path /\ task'[x].parent = task[x].parent
    BY <2>2, UpdatedSame
  <2> QED BY <1>4, <2>1, <2>3, BitsHook, TreeKept
<1>5. CASE MbNext
  BY <1>2, <1>3, <1>4, <1>5, BitsFork, TreeFork, BitsExec, TreeExec, BitsExit, TreeExit,
     BitsProgram, BitsThrottled DEF MbNext
<1> QED BY <1>1, <1>5

\* OnlyDescendants: match_binaries lets a policy that is the first to have its id
\* match only processes which themselves, or of which a forebear, have run one of
\* its binaries; where no pid is reused.
THEOREM OnlyDescendantsCorrect ==
  ASSUME ~Reuse
  PROVE  MbSpec => []OnlyDescendants
<1>1. MbInit => Base /\ TreeOK /\ BitsOK
  BY BaseInit, TreeInit, BitsInit
<1>2. Base /\ TreeOK /\ BitsOK /\ [MbNext]_MbVars => (Base /\ TreeOK /\ BitsOK)'
  BY BaseStep, DescentStep
<1>3. ASSUME Base, TreeOK, BitsOK
      PROVE  OnlyDescendants
  <2> SUFFICES ASSUME NEW p \in Alive, NEW q \in Installed, FirstOwner(q), match_binaries(p, q)
               PROVE  \E x \in {p} \cup Forebears(p) : ran[x] \cap PathsOf[q] # {}
    BY DEF OnlyDescendants
  <2>1. CASE task[p].path \in PathsOf[q]
    BY <2>1, <1>3 DEF TreeOK
  <2>2. CASE policy[q].id \in update_mb_task(p).bits
    <3>1. PICK r \in Policies : policy[r].id = policy[q].id /\ RanBy(p) \cap PathsOf[r] # {}
      BY <2>2, <1>3, UpdatedOwned DEF Owned
    <3>2. r = q
      BY <3>1 DEF FirstOwner
    <3> QED BY <3>1, <3>2 DEF RanBy, Reach
  <2> QED BY <2>1, <2>2 DEF match_binaries
<1> QED BY <1>1, <1>2, <1>3, PTL DEF MbSpec

(***************************************************************************)
(* The types.                                                              *)
(***************************************************************************)

\* No process, and no fork under way, has a generation that is still to come.
GenOK ==
  \A p \in Pids : /\ task[p].gen <= gen
                  /\ prog[p].at = "fork" => prog[p].gen <= gen

\* update_mb_task changes bits and generation, and takes the present generation.
LEMMA UpdatedGen ==
  ASSUME Base, GenOK, NEW p \in Pids
  PROVE  update_mb_task(p).gen <= gen
<1>1. task[p] \in Task /\ gen \in Nat
  BY DEF Base, BitType
<1> QED BY <1>1 DEF update_mb_task, Task

\* Every step keeps it.
LEMMA GenStep ==
  ASSUME Base, GenOK, [MbNext]_MbVars
  PROVE  GenOK'
<1>0. /\ gen \in Nat /\ task \in [Pids -> Task]
      /\ prog \in [Pids -> {NoProg} \cup Forking \cup Execing]
      /\ \A p \in Pids : task[p].gen \in Nat
  BY DEF Base, BitType, Task
<1>1. ASSUME UNCHANGED <<task, prog>>, gen' \in {gen, gen + 1}
      PROVE  GenOK'
  <2> SUFFICES ASSUME NEW p \in Pids
               PROVE  /\ task[p].gen <= gen'
                      /\ prog[p].at = "fork" => prog[p].gen <= gen'
    BY <1>1 DEF GenOK
  <2>1. prog[p].at = "fork" => prog[p].gen \in Nat
    BY <1>0 DEF NoProg, Forking, Execing
  <2> QED BY <2>1, <1>0, <1>1 DEF GenOK
<1>2. ASSUME NEW q \in Policies, AllocID(q) \/ UpdateMap(q) \/ RemoveID(q)
      PROVE  GenOK'
  BY <1>1, <1>2 DEF AllocID, UpdateMap, RemoveID
<1>3. ASSUME NEW q \in Policies, ScanPid(q) \/ EndScan(q) \/ FillBatch(q)
      PROVE  GenOK'
  BY <1>1, <1>3 DEF ScanPid, EndScan, FillBatch
<1>4. ASSUME NEW q \in Policies, RunBatch(q)
      PROVE  GenOK'
  <2>1. (\A p \in Pids : task'[p].gen = task[p].gen) /\ prog' = prog /\ gen' = gen
    BY <1>4, BaseRun
  <2> QED BY <2>1 DEF GenOK
<1>5. ASSUME NEW p \in Pids, NEW q \in Policies, Hook(p, q)
      PROVE  GenOK'
  <2>1. \A x \in Pids : task'[x].gen = task[x].gen \/ task'[x].gen <= gen
    BY <1>0, <1>5, UpdatedGen DEF Hook
  <2>2. prog' = prog /\ gen' = gen
    BY <1>5 DEF Hook, agentVars
  <2> QED BY <2>1, <2>2 DEF GenOK
<1>6. ASSUME NEW p \in Pids, NEW c \in Pids, Fork(p, c)
      PROVE  GenOK'
  <2>1. \A x \in Pids : /\ task'[x].gen = IF x = c THEN 0 ELSE task[x].gen
                        /\ x # c => prog'[x] = prog[x]
    BY <1>0, <1>6 DEF Fork
  <2>2. prog'[c].gen = task[p].gen /\ gen' = gen
    BY <1>0, <1>6 DEF Fork, agentVars
  <2> QED BY <2>1, <2>2, <1>0 DEF GenOK
<1>7. ASSUME NEW c \in Pids, ForkCopy(c)
      PROVE  GenOK'
  <2>1. /\ \A x \in Pids : x # c => task'[x] = task[x] /\ prog'[x] = prog[x]
        /\ prog'[c].at = "none" /\ gen' = gen
    BY <1>0, <1>7 DEF ForkCopy, NoProg, agentVars
  <2>2. task'[c].gen = prog[c].gen /\ prog[c].at = "fork"
    BY <1>0, <1>7 DEF ForkCopy, Task
  <2> QED BY <2>1, <2>2 DEF GenOK
<1>8. ASSUME NEW p \in Pids, NEW path \in Paths, Exec(p, path)
      PROVE  GenOK'
  <2>1. /\ task'[p].gen \in {task[p].gen, update_mb_task(p).gen}
        /\ \A x \in Pids : x # p => /\ prog'[x] = prog[x]
                                    /\ task'[x] = task[x] \/ task'[x] = update_mb_task(x)
        /\ prog'[p].at = "parent" /\ gen' = gen
    BY <1>8, BaseExec
  <2>2. \A x \in Pids : task'[x].gen <= gen
    BY <2>1, UpdatedGen DEF GenOK
  <2> QED BY <2>1, <2>2 DEF GenOK
<1>12. ASSUME NEW p \in Pids, NEW path \in Paths, ThrottledExec(p, path)
       PROVE  GenOK'
  <2>1. /\ \A x \in Pids : task'[x] = task[x] \/ task'[x] = update_mb_task(x)
        /\ prog' = prog /\ gen' = gen
    BY <1>12, BaseThrottled
  <2>2. \A x \in Pids : task'[x].gen <= gen
    BY <2>1, UpdatedGen DEF GenOK
  <2> QED BY <2>1, <2>2 DEF GenOK
<1>9. ASSUME NEW p \in Pids, ExecParentBits(p) \/ ExecPathBits(p)
      PROVE  GenOK'
  <2>1. \A x \in Pids : task'[x].gen = task[x].gen
    BY <1>0, <1>9 DEF ExecParentBits, ExecPathBits, Task
  <2>2. /\ \A x \in Pids : x # p => prog'[x] = prog[x]
        /\ gen' = gen
    BY <1>0, <1>9 DEF ExecParentBits, ExecPathBits, agentVars
  <2>3. prog'[p].at # "fork"
    <3>1. CASE ExecParentBits(p)
      <4>1. prog[p] \in Execing
        BY <1>0, <3>1 DEF ExecParentBits, NoProg, Forking
      <4> QED BY <4>1, <1>0, <3>1 DEF ExecParentBits, Execing
    <3>2. CASE ExecPathBits(p)
      BY <1>0, <3>2 DEF ExecPathBits, NoProg
    <3> QED BY <1>9, <3>1, <3>2
  <2> QED BY <2>1, <2>2, <2>3 DEF GenOK
<1>10. ASSUME NEW p \in Pids, Exit(p)
       PROVE  GenOK'
  <2>1. \A x \in Pids : task'[x].gen = IF x = p THEN 0 ELSE task[x].gen
    BY <1>0, <1>10 DEF Exit, NoTask
  <2>2. prog' = prog /\ gen' = gen
    BY <1>10 DEF Exit, agentVars
  <2> QED BY <2>1, <2>2, <1>0 DEF GenOK
<1>11. CASE UNCHANGED MbVars
  BY <1>1, <1>11 DEF MbVars, agentVars
<1> QED BY <1>2, <1>3, <1>4, <1>5, <1>6, <1>7, <1>8, <1>9, <1>10, <1>11, <1>12 DEF MbNext

\* The types; with them, that no process is ahead of tg_mbset_gen, so that
\* update_mb_task never takes an old walk for a new one.
THEOREM MbTypeCorrect == MbSpec => []MbTypeOK
<1>1. MbInit => Base /\ GenOK
  <2> SUFFICES ASSUME MbInit
               PROVE  GenOK
    BY BaseInit
  <2> QED BY DEF MbInit, GenOK, NoTask, NoProg
<1>2. Base /\ GenOK /\ [MbNext]_MbVars => (Base /\ GenOK)'
  BY BaseStep, GenStep
<1>3. ASSUME Base, GenOK
      PROVE  MbTypeOK
  <2>1. \A p \in Pids : prog[p].at \in {"none", "fork", "parent", "path"}
    BY <1>3 DEF Base, BitType, NoProg, Forking, Execing
  <2>2. \A p \in Pids : task[p] \in [live : BOOLEAN, path : Paths,
                          parent : Pids \cup {NoPid}, bits : SUBSET Ids, gen : 0..gen]
    <3> SUFFICES ASSUME NEW p \in Pids
                 PROVE  task[p] \in [live : BOOLEAN, path : Paths,
                          parent : Pids \cup {NoPid}, bits : SUBSET Ids, gen : 0..gen]
      OBVIOUS
    <3>1. task[p] \in Task /\ task[p].gen <= gen /\ gen \in Nat
      BY <1>3 DEF Base, BitType, GenOK
    <3>2. task[p].gen \in 0..gen
      BY <3>1 DEF Task
    <3> QED BY <3>1, <3>2, Zenon DEF Task
  <2> QED BY <2>1, <2>2, <1>3 DEF Base, BitType, MbTypeOK, Policy, Removing
<1> QED BY <1>1, <1>2, <1>3, PTL DEF MbSpec
==============================================================================
