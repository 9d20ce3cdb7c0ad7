--------------------------- MODULE EventServerProofs ---------------------------
(***************************************************************************)
(* Proofs about EventServer, for every set of producers and clients, every *)
(* filter and every size of the queues and buffers.                        *)
(***************************************************************************)
EXTENDS EventServer, TLAPS

-----------------------------------------------------------------------------
(***************************************************************************)
(* The inductive invariant.  An event goes from a listener's queue to the  *)
(* hand of its call, from there to the aggregator's buffer, if there is    *)
(* one, and to the client: got, buffer, hand and queue, read one after the *)
(* other, are in order, and none of it is an event that is still to come.  *)
(***************************************************************************)
Got(c) == Range(got[c])
Buffered(c) == Range(buffer[c])
InHand(c) == {hand[c]} \ {Nothing}
Queued(c) == Range(queue[c])

Below(S, T) == \A x \in S, y \in T : x < y

\* Only a call that is sending has an event in hand, and only a call that asked
\* for it has an aggregator.
HandOK(c) == /\ hand[c] # Nothing <=> call[c] = "sending"
             /\ c \notin Aggregated => buffer[c] = <<>>

\* What a client has received and what is on its way are in order.
Ordered(c) ==
  /\ Increasing(got[c]) /\ Increasing(buffer[c]) /\ Increasing(queue[c])
  /\ Below(Got(c), Buffered(c)) /\ Below(Got(c), InHand(c)) /\ Below(Got(c), Queued(c))
  /\ Below(Buffered(c), InHand(c)) /\ Below(Buffered(c), Queued(c))
  /\ Below(InHand(c), Queued(c))

\* A client has seen only events before the next one, and the one that is handed
\* out only if the client has been told of it.
Past(c) ==
  \A x \in Got(c) \cup Buffered(c) \cup InHand(c) \cup Queued(c) :
    x < next \/ (x = next /\ mux # NoOne /\ c \notin todo)

\* OnlyOwnLoss, of one client.
OwnLoss(c) ==
  call[c] \in {"serving", "sending"} =>
    (owed[c] \cap Wanted[c]) \ (missed[c] \cup unsent[c])
      \subseteq Got(c) \cup Buffered(c) \cup InHand(c) \cup Queued(c)
                 \cup (IF c \in todo THEN {next} ELSE {})

\* A call that has no listener yet is owed nothing.
NothingOwed(c) == call[c] = "adding" => owed[c] = {}

ClientInv(c) == HandOK(c) /\ Ordered(c) /\ Past(c) /\ OwnLoss(c) /\ NothingOwed(c)

\* The event that is handed out is one of the events.
HandOut == mux # NoOne => next \in Events

IInv == TypeOK /\ HandOut /\ Listening /\ \A c \in Clients : ClientInv(c)

-----------------------------------------------------------------------------
(***************************************************************************)
(* Sequences.                                                              *)
(***************************************************************************)

LEMMA AppendFacts ==
  ASSUME NEW s \in Seq(Events), NEW e \in Events
  PROVE  /\ Append(s, e) \in Seq(Events) /\ Len(Append(s, e)) = Len(s) + 1
         /\ Range(Append(s, e)) = Range(s) \cup {e}
         /\ Increasing(s) /\ (\A x \in Range(s) : x < e) => Increasing(Append(s, e))
<1>1. Append(s, e) \in Seq(Events) /\ Len(Append(s, e)) = Len(s) + 1
  OBVIOUS
<1>2. /\ \A i \in 1 .. Len(s) : Append(s, e)[i] = s[i]
      /\ Append(s, e)[Len(s) + 1] = e
      /\ DOMAIN s = 1 .. Len(s) /\ DOMAIN Append(s, e) = 1 .. Len(s) + 1
      /\ Len(s) \in Nat
  OBVIOUS
<1>3. Range(Append(s, e)) = Range(s) \cup {e}
  BY <1>2 DEF Range
<1>4. ASSUME Increasing(s), \A x \in Range(s) : x < e
      PROVE  Increasing(Append(s, e))
  BY <1>1, <1>2, <1>4 DEF Increasing, Range
<1> QED BY <1>1, <1>3, <1>4

LEMMA TailFacts ==
  ASSUME NEW s \in Seq(Events), s # <<>>
  PROVE  /\ Tail(s) \in Seq(Events) /\ Len(Tail(s)) <= Len(s)
         /\ Head(s) \in Range(s) /\ Head(s) \in Events
         /\ Range(s) = Range(Tail(s)) \cup {Head(s)}
         /\ Increasing(s) => /\ Increasing(Tail(s))
                             /\ \A x \in Range(Tail(s)) : Head(s) < x
<1>1. /\ Tail(s) \in Seq(Events) /\ Len(Tail(s)) = Len(s) - 1 /\ Len(s) \in Nat \ {0}
      /\ Head(s) = s[1] /\ \A i \in 1 .. Len(s) - 1 : Tail(s)[i] = s[i + 1]
      /\ DOMAIN s = 1 .. Len(s) /\ DOMAIN Tail(s) = 1 .. Len(s) - 1
  OBVIOUS
<1>2. Head(s) \in Range(s) /\ Head(s) \in Events
  BY <1>1 DEF Range
<1>3. Range(s) = Range(Tail(s)) \cup {Head(s)}
  <2>1. ASSUME NEW x \in Range(s) PROVE x \in Range(Tail(s)) \cup {Head(s)}
    <3>1. PICK i \in 1 .. Len(s) : x = s[i]
      BY <1>1 DEF Range
    <3>2. CASE i = 1
      BY <1>1, <3>1, <3>2
    <3>3. CASE i # 1
      <4>1. i - 1 \in 1 .. Len(s) - 1 /\ Tail(s)[i - 1] = x
        BY <1>1, <3>1, <3>3
      <4> QED BY <1>1, <4>1 DEF Range
    <3> QED BY <3>2, <3>3
  <2>2. Range(Tail(s)) \subseteq Range(s)
    BY <1>1 DEF Range
  <2> QED BY <1>2, <2>1, <2>2
<1>4. Increasing(s) => Increasing(Tail(s)) /\ \A x \in Range(Tail(s)) : Head(s) < x
  BY <1>1 DEF Increasing, Range
<1> QED BY <1>1, <1>2, <1>3, <1>4

\* The empty sequence.
LEMMA EmptyFacts == Increasing(<<>>) /\ Range(<<>>) = {} /\ <<>> \in Seq(Events) /\ Len(<<>>) = 0
BY DEF Increasing, Range

-----------------------------------------------------------------------------
(***************************************************************************)
(* What the actions have in common.                                        *)
(***************************************************************************)

LEMMA TypeParts ==
  TypeOK <=>
    /\ mux \in Producers \cup {NoOne} /\ listeners \subseteq Clients
    /\ next \in 1 .. MaxEvents + 1 /\ todo \subseteq Clients
    /\ call \in [Clients -> Calls] /\ hand \in [Clients -> Events \cup {Nothing}]
    /\ queue \in [Clients -> Seq(Events)] /\ buffer \in [Clients -> Seq(Events)]
    /\ got \in [Clients -> Seq(Events)]
    /\ owed \in [Clients -> SUBSET Events] /\ missed \in [Clients -> SUBSET Events]
    /\ unsent \in [Clients -> SUBSET Events]
    /\ size \in [Clients -> Nat] /\ busy \in [Clients -> BOOLEAN]
    /\ \A c \in Clients : Len(queue[c]) <= QueueSize /\ InChannel(c) \in 0 .. size[c]
    /\ mux = NoOne => todo = {}
BY Zenon DEF TypeOK

LEMMA TypeNext ==
  ASSUME mux' \in Producers \cup {NoOne}, listeners' \subseteq Clients,
         next' \in 1 .. MaxEvents + 1, todo' \subseteq Clients,
         call' \in [Clients -> Calls], hand' \in [Clients -> Events \cup {Nothing}],
         queue' \in [Clients -> Seq(Events)], buffer' \in [Clients -> Seq(Events)],
         got' \in [Clients -> Seq(Events)],
         owed' \in [Clients -> SUBSET Events], missed' \in [Clients -> SUBSET Events],
         unsent' \in [Clients -> SUBSET Events],
         size' \in [Clients -> Nat], busy' \in [Clients -> BOOLEAN],
         \A c \in Clients : Len(queue'[c]) <= QueueSize /\ InChannel(c)' \in 0 .. size'[c],
         mux' = NoOne => todo' = {}
  PROVE  TypeOK'
BY Zenon DEF TypeOK

\* The channel of an aggregator that a step leaves alone keeps its length.
LEMMA ChannelFrame ==
  ASSUME TypeOK, UNCHANGED <<size, buffer, busy>>
  PROVE  /\ \A c \in Clients : InChannel(c)' \in 0 .. size'[c]
         /\ size' \in [Clients -> Nat] /\ busy' \in [Clients -> BOOLEAN]
         /\ buffer' \in [Clients -> Seq(Events)]
<1>1. ASSUME NEW c \in Clients PROVE InChannel(c)' = InChannel(c)
  BY DEF InChannel
<1> QED BY <1>1, TypeParts

\* A client that a step leaves alone keeps its invariant.
LEMMA Frame ==
  ASSUME NEW c \in Clients, ClientInv(c),
         got'[c] = got[c], buffer'[c] = buffer[c], hand'[c] = hand[c], queue'[c] = queue[c],
         call'[c] = call[c], owed'[c] = owed[c], missed'[c] = missed[c],
         unsent'[c] = unsent[c],
         next' = next, mux' = mux, c \in todo' <=> c \in todo
  PROVE  ClientInv(c)'
<1>1. Got(c)' = Got(c) /\ Buffered(c)' = Buffered(c) /\ InHand(c)' = InHand(c)
      /\ Queued(c)' = Queued(c)
  BY DEF Got, Buffered, InHand, Queued
<1>2. HandOK(c)' /\ NothingOwed(c)'
  BY DEF ClientInv, HandOK, NothingOwed
<1>3. Ordered(c)'
  BY <1>1 DEF ClientInv, Ordered, Below
<1>4. Past(c)'
  BY <1>1 DEF ClientInv, Past
<1>5. OwnLoss(c)'
  BY <1>1 DEF ClientInv, OwnLoss
<1> QED BY <1>2, <1>3, <1>4, <1>5 DEF ClientInv

\* What a client has received and what is on its way are events.
LEMMA EventsOnly ==
  ASSUME TypeOK, NEW c \in Clients
  PROVE  Got(c) \cup Buffered(c) \cup InHand(c) \cup Queued(c) \subseteq Events
<1>1. ASSUME NEW s \in Seq(Events) PROVE Range(s) \subseteq Events
  BY DEF Range
<1>2. Got(c) \subseteq Events /\ Buffered(c) \subseteq Events /\ Queued(c) \subseteq Events
  BY <1>1, TypeParts DEF Got, Buffered, Queued
<1>3. InHand(c) \subseteq Events
  BY TypeParts DEF InHand
<1> QED BY <1>2, <1>3

LEMMA InitIInv == Init => IInv
<1> SUFFICES ASSUME Init PROVE IInv
  OBVIOUS
<1>1. TypeOK
  <2>1. ASSUME NEW c \in Clients PROVE InChannel(c) \in 0 .. size[c]
    BY EmptyFacts DEF Init, InChannel
  <2> QED BY <2>1, SizeAssumption, EmptyFacts, TypeParts DEF Init, Calls
<1>2. HandOut /\ Listening
  BY DEF Init, HandOut, Listening
<1>3. ASSUME NEW c \in Clients PROVE ClientInv(c)
  <2>1. Got(c) = {} /\ Buffered(c) = {} /\ InHand(c) = {} /\ Queued(c) = {}
    BY EmptyFacts DEF Init, Got, Buffered, InHand, Queued
  <2>2. HandOK(c) /\ NothingOwed(c) /\ OwnLoss(c)
    BY DEF Init, HandOK, NothingOwed, OwnLoss
  <2>3. Ordered(c) /\ Past(c)
    BY <2>1, EmptyFacts DEF Init, Ordered, Past, Below
  <2> QED BY <2>2, <2>3 DEF ClientInv
<1> QED BY <1>1, <1>2, <1>3 DEF IInv

-----------------------------------------------------------------------------
(***************************************************************************)
(* The process manager.                                                    *)
(***************************************************************************)

\* The event becomes one that all listeners are owed and are yet to be told of.
LEMMA NotifyListenerIInv ==
  ASSUME IInv, NEW p \in Producers, NotifyListener(p)
  PROVE  IInv'
<1>0. next \in Events /\ mux' # NoOne /\ todo = {}
  BY TypeParts, SizeAssumption, NoOneAssumption DEF IInv, NotifyListener, Events
<1>1. TypeOK'
  <2>1. owed' \in [Clients -> SUBSET Events]
    BY <1>0, TypeParts DEF IInv, NotifyListener
  <2> QED BY <1>0, <2>1, TypeParts, TypeNext, ChannelFrame DEF IInv, NotifyListener, aggregator
<1>2. HandOut' /\ Listening'
  BY <1>0 DEF IInv, NotifyListener, HandOut, Listening
<1>3. ASSUME NEW c \in Clients PROVE ClientInv(c)'
  <2>1. Got(c)' = Got(c) /\ Buffered(c)' = Buffered(c) /\ InHand(c)' = InHand(c)
        /\ Queued(c)' = Queued(c)
    BY DEF NotifyListener, aggregator, Got, Buffered, InHand, Queued
  <2>2. HandOK(c)' /\ NothingOwed(c)'
    BY DEF IInv, ClientInv, HandOK, NothingOwed, NotifyListener, aggregator, Listening
  <2>3. Ordered(c)'
    BY <2>1 DEF IInv, ClientInv, Ordered, Below, NotifyListener, aggregator
  <2>4. Past(c)'
    BY <2>1 DEF IInv, ClientInv, Past, NotifyListener
  <2>5. OwnLoss(c)'
    BY <1>0, <2>1 DEF IInv, ClientInv, OwnLoss, NotifyListener, Listening
  <2> QED BY <2>2, <2>3, <2>4, <2>5 DEF ClientInv
<1> QED BY <1>1, <1>2, <1>3 DEF IInv

\* One listener is told: the event joins its queue or is missed.
LEMMA NotifyIInv ==
  ASSUME IInv, NEW p \in Producers, NEW c \in Clients, Notify(p, c)
  PROVE  IInv'
<1>0. /\ next \in Events /\ mux # NoOne /\ mux' = mux /\ next' = next /\ todo' = todo \ {c}
      /\ c \in todo /\ call' = call /\ hand' = hand /\ buffer' = buffer /\ got' = got
      /\ owed' = owed /\ listeners' = listeners /\ unsent' = unsent
      /\ size' = size /\ busy' = busy
  BY NoOneAssumption DEF IInv, Notify, HandOut, Left, aggregator
<1>t. /\ queue \in [Clients -> Seq(Events)] /\ missed \in [Clients -> SUBSET Events]
      /\ Len(queue[c]) <= QueueSize /\ queue[c] \in Seq(Events)
  BY TypeParts DEF IInv
<1>q. \/ /\ queue' = [queue EXCEPT ![c] = Append(queue[c], next)] /\ missed' = missed
         /\ Len(queue[c]) < QueueSize
      \/ queue' = queue /\ missed' = [missed EXCEPT ![c] = missed[c] \cup {next}]
  BY DEF Notify, HasRoom
<1>a. /\ Append(queue[c], next) \in Seq(Events)
      /\ Len(Append(queue[c], next)) = Len(queue[c]) + 1
      /\ Range(Append(queue[c], next)) = Range(queue[c]) \cup {next}
      /\ Increasing(queue[c]) /\ (\A x \in Range(queue[c]) : x < next)
           => Increasing(Append(queue[c], next))
  BY <1>0, <1>t, AppendFacts
<1>1. TypeOK'
  <2>1. queue' \in [Clients -> Seq(Events)] /\ missed' \in [Clients -> SUBSET Events]
    BY <1>0, <1>t, <1>q, <1>a
  <2>2. ASSUME NEW d \in Clients PROVE Len(queue'[d]) <= QueueSize
    <3>1. Len(queue[c]) \in Nat
      BY <1>t
    <3>2. Len(queue[d]) <= QueueSize
      BY TypeParts DEF IInv
    <3>3. CASE d # c
      BY <1>t, <1>q, <3>2, <3>3
    <3>4. CASE d = c
      BY <1>t, <1>q, <1>a, <3>1, <3>4, SizeAssumption
    <3> QED BY <3>3, <3>4
  <2> QED BY <1>0, <2>1, <2>2, TypeParts, TypeNext, ChannelFrame DEF IInv
<1>2. HandOut' /\ Listening'
  BY <1>0 DEF IInv, HandOut, Listening
<1>3. ASSUME NEW d \in Clients, d # c PROVE ClientInv(d)'
  <2>1. queue'[d] = queue[d] /\ missed'[d] = missed[d]
    BY <1>t, <1>q, <1>3
  <2> QED BY <1>0, <1>3, <2>1, Frame DEF IInv
<1>4. ClientInv(c)'
  <2>1. Got(c)' = Got(c) /\ Buffered(c)' = Buffered(c) /\ InHand(c)' = InHand(c)
    BY <1>0 DEF Got, Buffered, InHand
  <2>2. HandOK(c)' /\ NothingOwed(c)'
    BY <1>0 DEF IInv, ClientInv, HandOK, NothingOwed
  <2>3. \A x \in Got(c) \cup Buffered(c) \cup InHand(c) \cup Queued(c) : x < next
    BY <1>0 DEF IInv, ClientInv, Past
  <2>4. CASE queue'[c] = Append(queue[c], next) /\ missed'[c] = missed[c]
    <3>1. Queued(c)' = Queued(c) \cup {next}
      BY <1>a, <2>4 DEF Queued
    <3>2. Increasing(queue'[c])
      BY <1>a, <2>3, <2>4 DEF IInv, ClientInv, Ordered, Queued
    <3>3. Ordered(c)'
      BY <1>0, <2>1, <2>3, <3>1, <3>2 DEF IInv, ClientInv, Ordered, Below
    <3>4. Past(c)'
      BY <1>0, <2>1, <2>3, <3>1 DEF Past
    <3>5. OwnLoss(c)'
      BY <1>0, <2>1, <2>4, <3>1 DEF IInv, ClientInv, OwnLoss
    <3> QED BY <2>2, <3>3, <3>4, <3>5 DEF ClientInv
  <2>5. CASE queue'[c] = queue[c] /\ missed'[c] = missed[c] \cup {next}
    <3>1. Queued(c)' = Queued(c)
      BY <2>5 DEF Queued
    <3>3. Ordered(c)'
      BY <1>0, <2>1, <2>5, <3>1 DEF IInv, ClientInv, Ordered, Below
    <3>4. Past(c)'
      BY <1>0, <2>1, <2>3, <3>1 DEF Past
    <3>5. OwnLoss(c)'
      BY <1>0, <2>1, <2>5, <3>1 DEF IInv, ClientInv, OwnLoss
    <3> QED BY <2>2, <3>3, <3>4, <3>5 DEF ClientInv
  <2> QED BY <1>t, <1>q, <2>4, <2>5
<1> QED BY <1>1, <1>2, <1>3, <1>4 DEF IInv

\* All have been told: the next event may come.
LEMMA EndNotifyIInv ==
  ASSUME IInv, NEW p \in Producers, EndNotify(p)
  PROVE  IInv'
<1>0. next \in Events /\ next' = next + 1 /\ mux' = NoOne /\ todo = {} /\ todo' = {}
  BY NoOneAssumption DEF IInv, EndNotify, HandOut
<1>1. TypeOK'
  BY <1>0, TypeParts, TypeNext, ChannelFrame, SizeAssumption
  DEF IInv, EndNotify, Events, history, aggregator
<1>2. HandOut' /\ Listening'
  BY <1>0 DEF IInv, EndNotify, HandOut, Listening
<1>3. ASSUME NEW c \in Clients PROVE ClientInv(c)'
  <2>1. Got(c)' = Got(c) /\ Buffered(c)' = Buffered(c) /\ InHand(c)' = InHand(c)
        /\ Queued(c)' = Queued(c)
    BY DEF EndNotify, history, aggregator, Got, Buffered, InHand, Queued
  <2>2. HandOK(c)' /\ NothingOwed(c)'
    BY DEF IInv, ClientInv, HandOK, NothingOwed, EndNotify, history, aggregator
  <2>3. Ordered(c)'
    BY <2>1 DEF IInv, ClientInv, Ordered, Below, EndNotify, history, aggregator
  <2>4. Past(c)'
    <3>1. ASSUME NEW x \in Got(c) \cup Buffered(c) \cup InHand(c) \cup Queued(c)
          PROVE  x < next + 1
      <4>1. x \in Nat
        BY EventsOnly DEF IInv, Events
      <4>2. x < next \/ x = next
        BY DEF IInv, ClientInv, Past
      <4> QED BY <1>0, <4>1, <4>2 DEF Events
    <3> QED BY <1>0, <2>1, <3>1 DEF Past
  <2>5. OwnLoss(c)'
    BY <1>0, <2>1 DEF IInv, ClientInv, OwnLoss, EndNotify, history, aggregator
  <2> QED BY <2>2, <2>3, <2>4, <2>5 DEF ClientInv
<1> QED BY <1>1, <1>2, <1>3 DEF IInv

-----------------------------------------------------------------------------
(***************************************************************************)
(* The calls.                                                              *)
(***************************************************************************)

\* A new call has received nothing, and nothing is on its way to it.
LEMMA GetEventsIInv ==
  ASSUME IInv, NEW c \in Clients, GetEvents(c)
  PROVE  IInv'
<1>t. /\ queue \in [Clients -> Seq(Events)] /\ buffer \in [Clients -> Seq(Events)]
      /\ got \in [Clients -> Seq(Events)] /\ missed \in [Clients -> SUBSET Events]
      /\ owed \in [Clients -> SUBSET Events] /\ call \in [Clients -> Calls]
      /\ unsent \in [Clients -> SUBSET Events]
      /\ size \in [Clients -> Nat] /\ busy \in [Clients -> BOOLEAN]
  BY TypeParts DEF IInv
<1>0. /\ queue'[c] = <<>> /\ buffer'[c] = <<>> /\ got'[c] = <<>> /\ owed'[c] = {}
      /\ missed'[c] = {} /\ unsent'[c] = {} /\ ~busy'[c] /\ call'[c] = "adding" /\ hand' = hand /\ call[c] = "off"
      /\ mux' = mux /\ next' = next /\ todo' = todo /\ listeners' = listeners
  BY <1>t DEF GetEvents, Goto
<1>f. ASSUME NEW d \in Clients, d # c
      PROVE  /\ queue'[d] = queue[d] /\ buffer'[d] = buffer[d] /\ got'[d] = got[d]
             /\ owed'[d] = owed[d] /\ missed'[d] = missed[d] /\ call'[d] = call[d]
             /\ unsent'[d] = unsent[d] /\ size'[d] = size[d] /\ busy'[d] = busy[d]
  BY <1>t, <1>f DEF GetEvents, Goto
<1>1. TypeOK'
  <2>1. /\ queue' \in [Clients -> Seq(Events)] /\ buffer' \in [Clients -> Seq(Events)]
        /\ got' \in [Clients -> Seq(Events)] /\ missed' \in [Clients -> SUBSET Events]
        /\ owed' \in [Clients -> SUBSET Events] /\ call' \in [Clients -> Calls]
        /\ unsent' \in [Clients -> SUBSET Events] /\ busy' \in [Clients -> BOOLEAN]
    BY <1>t, EmptyFacts DEF GetEvents, Goto, Calls
  <2>3. size' \in [Clients -> Nat]
    BY <1>t, SizeAssumption DEF GetEvents
  <2>2. ASSUME NEW d \in Clients
        PROVE  Len(queue'[d]) <= QueueSize /\ InChannel(d)' \in 0 .. size'[d]
    <3>1. CASE d = c
      <4>1. size'[c] \in Nat
        BY <2>3
      <4> QED BY <1>0, <3>1, <4>1, EmptyFacts, SizeAssumption DEF InChannel
    <3>2. CASE d # c
      <4>1. InChannel(d)' = InChannel(d)
        BY <1>f, <3>2 DEF InChannel
      <4> QED BY <1>f, <3>2, <4>1, TypeParts DEF IInv
    <3> QED BY <3>1, <3>2
  <2> QED BY <1>0, <2>1, <2>2, <2>3, TypeParts, TypeNext DEF IInv
<1>2. HandOut' /\ Listening'
  BY <1>0, <1>f DEF IInv, HandOut, Listening
<1>3. ASSUME NEW d \in Clients, d # c PROVE ClientInv(d)'
  BY <1>0, <1>3, <1>f, Frame DEF IInv
<1>4. ClientInv(c)'
  <2>1. HandOK(c)' /\ NothingOwed(c)' /\ OwnLoss(c)'
    BY <1>0 DEF IInv, ClientInv, HandOK, NothingOwed, OwnLoss
  <2>2. Got(c)' = {} /\ Buffered(c)' = {} /\ Queued(c)' = {} /\ InHand(c)' = {}
    BY <1>0, EmptyFacts DEF IInv, ClientInv, HandOK, Got, Buffered, Queued, InHand
  <2>3. Ordered(c)' /\ Past(c)'
    BY <1>0, <2>2, EmptyFacts DEF Ordered, Past, Below
  <2> QED BY <2>1, <2>3 DEF ClientInv
<1> QED BY <1>1, <1>2, <1>3, <1>4 DEF IInv

\* A step that only moves a call, with or without its listener.
LEMMA MoveIInv ==
  ASSUME IInv, NEW c \in Clients, NEW place \in Calls \ {"sending", "adding"},
         Goto(c, place), call[c] # "sending", Listening', listeners' \subseteq Clients,
         place = "serving" => owed[c] = {} \/ call[c] = "serving",
         UNCHANGED <<mux, next, todo, queue, hand, aggregator, history>>
  PROVE  IInv'
<1>t. call \in [Clients -> Calls]
  BY TypeParts DEF IInv
<1>0. /\ call' = [call EXCEPT ![c] = place] /\ mux' = mux /\ next' = next /\ todo' = todo
      /\ queue' = queue /\ hand' = hand /\ buffer' = buffer /\ got' = got /\ owed' = owed
      /\ missed' = missed /\ unsent' = unsent /\ size' = size /\ busy' = busy
  BY DEF Goto, history, aggregator
<1>1. TypeOK'
  <2>1. call' \in [Clients -> Calls]
    BY <1>0, <1>t
  <2> QED BY <1>0, <2>1, TypeParts, TypeNext, ChannelFrame DEF IInv
<1>2. HandOut'
  BY <1>0 DEF IInv, HandOut
<1>3. ASSUME NEW d \in Clients, d # c PROVE ClientInv(d)'
  <2>1. call'[d] = call[d]
    BY <1>0, <1>t, <1>3
  <2> QED BY <1>0, <1>3, <2>1, Frame DEF IInv
<1>4. ClientInv(c)'
  <2>0. call'[c] = place
    BY <1>0, <1>t
  <2>1. HandOK(c)' /\ NothingOwed(c)' /\ OwnLoss(c)'
    BY <1>0, <2>0 DEF IInv, ClientInv, HandOK, NothingOwed, OwnLoss, Got, Buffered, Queued, InHand
  <2>2. Got(c)' = Got(c) /\ Buffered(c)' = Buffered(c) /\ Queued(c)' = Queued(c)
        /\ InHand(c)' = InHand(c)
    BY <1>0 DEF Got, Buffered, Queued, InHand
  <2>3. Ordered(c)'
    BY <1>0, <2>2 DEF IInv, ClientInv, Ordered, Below
  <2>4. Past(c)'
    BY <1>0, <2>2 DEF IInv, ClientInv, Past
  <2> QED BY <2>1, <2>3, <2>4 DEF ClientInv
<1> QED BY <1>1, <1>2, <1>3, <1>4 DEF IInv

LEMMA AddListenerIInv ==
  ASSUME IInv, NEW c \in Clients, AddListener(c)
  PROVE  IInv'
<1>t. call \in [Clients -> Calls] /\ listeners \subseteq Clients
  BY TypeParts DEF IInv
<1>1. Listening' /\ listeners' \subseteq Clients
  BY <1>t DEF IInv, Listening, AddListener, Goto
<1>2. owed[c] = {}
  BY DEF IInv, ClientInv, NothingOwed, AddListener
<1> QED BY <1>1, <1>2, MoveIInv DEF AddListener, Calls

LEMMA cancelIInv ==
  ASSUME IInv, NEW c \in Clients, cancel(c)
  PROVE  IInv'
<1>t. call \in [Clients -> Calls] /\ listeners \subseteq Clients
  BY TypeParts DEF IInv
<1>1. Listening' /\ listeners' \subseteq Clients
  BY <1>t DEF IInv, Listening, cancel, Goto
<1> QED BY <1>1, MoveIInv DEF cancel, Calls

\* No event is being handed out, so no one is about to tell the listener.
LEMMA RemoveListenerIInv ==
  ASSUME IInv, NEW c \in Clients, RemoveListener(c)
  PROVE  IInv'
<1>t. call \in [Clients -> Calls] /\ listeners \subseteq Clients /\ todo = {}
  BY TypeParts DEF IInv, RemoveListener
<1>1. Listening' /\ listeners' \subseteq Clients
  BY <1>t DEF IInv, Listening, RemoveListener, Goto, Without
<1> QED BY <1>1, MoveIInv DEF RemoveListener, Calls

LEMMA doneIInv ==
  ASSUME IInv, NEW c \in Clients, done(c)
  PROVE  IInv'
<1>t. call \in [Clients -> Calls] /\ listeners \subseteq Clients
  BY TypeParts DEF IInv
<1>1. Listening' /\ listeners' \subseteq Clients
  BY <1>t DEF IInv, Listening, done, Goto
<1> QED BY <1>1, MoveIInv DEF done, Calls

\* A step of one client that leaves the manager alone: the rest is about that
\* client.
LEMMA OneClient ==
  ASSUME IInv, NEW c \in Clients, TypeOK',
         UNCHANGED <<mux, listeners, next, todo, owed>>,
         \A d \in Clients \ {c} :
           /\ got'[d] = got[d] /\ buffer'[d] = buffer[d] /\ hand'[d] = hand[d]
           /\ queue'[d] = queue[d] /\ call'[d] = call[d] /\ missed'[d] = missed[d]
           /\ unsent'[d] = unsent[d],
         call'[c] \in {"serving", "sending", "removing"}
           <=> call[c] \in {"serving", "sending", "removing"},
         ClientInv(c)'
  PROVE  IInv'
<1>1. HandOut' /\ Listening'
  BY DEF IInv, HandOut, Listening
<1>2. ASSUME NEW d \in Clients \ {c} PROVE ClientInv(d)'
  BY Frame DEF IInv
<1> QED BY <1>1, <1>2 DEF IInv

-----------------------------------------------------------------------------
(***************************************************************************)
(* Events on their way: each step takes the first event of one place and   *)
(* puts it behind all that are further on.                                 *)
(***************************************************************************)

\* From the queue to the hand, or past the filters.
LEMMA receiveIInv ==
  ASSUME IInv, NEW c \in Clients, receive(c)
  PROVE  IInv'
<1> DEFINE e == Head(queue[c])
<1>t. /\ queue \in [Clients -> Seq(Events)] /\ queue[c] \in Seq(Events) /\ queue[c] # <<>>
      /\ hand \in [Clients -> Events \cup {Nothing}] /\ call \in [Clients -> Calls]
      /\ Len(queue[c]) <= QueueSize
  BY TypeParts DEF IInv, receive
<1>h. /\ Tail(queue[c]) \in Seq(Events) /\ Len(Tail(queue[c])) <= Len(queue[c])
      /\ e \in Events /\ e # Nothing
      /\ Queued(c) = Range(Tail(queue[c])) \cup {e}
      /\ Increasing(Tail(queue[c])) /\ \A x \in Range(Tail(queue[c])) : e < x
  <2>1. Increasing(queue[c])
    BY DEF IInv, ClientInv, Ordered
  <2>2. e \in Events => e # Nothing
    BY DEF Events, Nothing
  <2> QED BY <1>t, <2>1, <2>2, TailFacts DEF Queued
<1>0. /\ queue' = [queue EXCEPT ![c] = Tail(queue[c])] /\ call[c] = "serving"
      /\ mux' = mux /\ listeners' = listeners /\ next' = next /\ todo' = todo
      /\ owed' = owed /\ missed' = missed /\ unsent' = unsent /\ size' = size /\ busy' = busy
      /\ got' = got /\ buffer' = buffer
      /\ \/ /\ e \in Wanted[c] /\ hand' = [hand EXCEPT ![c] = e]
            /\ call' = [call EXCEPT ![c] = "sending"]
         \/ e \notin Wanted[c] /\ hand' = hand /\ call' = call
  BY DEF receive, Goto, history, aggregator
<1> HIDE DEF e
<1>1. TypeOK'
  <2>1. /\ queue' \in [Clients -> Seq(Events)] /\ hand' \in [Clients -> Events \cup {Nothing}]
        /\ call' \in [Clients -> Calls]
    BY <1>t, <1>h, <1>0 DEF Calls
  <2>2. ASSUME NEW d \in Clients PROVE Len(queue'[d]) <= QueueSize
    <3>1. CASE d # c
      BY <1>t, <1>0, <3>1, TypeParts DEF IInv
    <3>2. CASE d = c
      BY <1>t, <1>h, <1>0, <3>2, SizeAssumption
    <3> QED BY <3>1, <3>2
  <2> QED BY <1>0, <2>1, <2>2, TypeParts, TypeNext, ChannelFrame DEF IInv
<1>2. ClientInv(c)'
  <2>1. queue'[c] = Tail(queue[c]) /\ Queued(c)' = Range(Tail(queue[c]))
    BY <1>t, <1>0 DEF Queued
  <2>2. Got(c)' = Got(c) /\ Buffered(c)' = Buffered(c) /\ InHand(c) = {}
    BY <1>0 DEF IInv, ClientInv, HandOK, Got, Buffered, InHand
  <2>3. \/ e \in Wanted[c] /\ InHand(c)' = {e} /\ hand'[c] = e /\ call'[c] = "sending"
        \/ e \notin Wanted[c] /\ InHand(c)' = {} /\ hand'[c] = hand[c] /\ call'[c] = call[c]
    BY <1>t, <1>h, <1>0, <2>2 DEF InHand
  <2>4. HandOK(c)' /\ NothingOwed(c)'
    BY <1>h, <1>0, <2>3 DEF IInv, ClientInv, HandOK, NothingOwed
  <2>5. Ordered(c)'
    BY <1>h, <1>0, <2>1, <2>2, <2>3 DEF IInv, ClientInv, Ordered, Below
  <2>6. Past(c)'
    BY <1>h, <1>0, <2>1, <2>2, <2>3 DEF IInv, ClientInv, Past
  <2>7. OwnLoss(c)'
    BY <1>h, <1>0, <2>1, <2>2, <2>3 DEF IInv, ClientInv, OwnLoss
  <2> QED BY <2>4, <2>5, <2>6, <2>7 DEF ClientInv
<1>3. \A d \in Clients \ {c} :
        queue'[d] = queue[d] /\ hand'[d] = hand[d] /\ call'[d] = call[d]
  BY <1>t, <1>0
<1>4. call'[c] \in {"serving", "sending"}
  BY <1>t, <1>0
<1> QED BY <1>0, <1>1, <1>2, <1>3, <1>4, OneClient

\* Out of the queue of a call that ends.
LEMMA drainIInv ==
  ASSUME IInv, NEW c \in Clients, drain(c)
  PROVE  IInv'
<1>t. /\ queue \in [Clients -> Seq(Events)] /\ queue[c] \in Seq(Events) /\ queue[c] # <<>>
      /\ Len(queue[c]) <= QueueSize
  BY TypeParts DEF IInv, drain
<1>h. /\ Tail(queue[c]) \in Seq(Events) /\ Len(Tail(queue[c])) <= Len(queue[c])
      /\ Range(Tail(queue[c])) \subseteq Queued(c) /\ Increasing(Tail(queue[c]))
  <2>1. Increasing(queue[c])
    BY DEF IInv, ClientInv, Ordered
  <2> QED BY <1>t, <2>1, TailFacts DEF Queued
<1>0. /\ queue' = [queue EXCEPT ![c] = Tail(queue[c])] /\ call[c] \in {"removing", "removed"}
      /\ mux' = mux /\ listeners' = listeners /\ next' = next /\ todo' = todo
      /\ owed' = owed /\ missed' = missed /\ unsent' = unsent /\ size' = size /\ busy' = busy
      /\ got' = got /\ buffer' = buffer
      /\ hand' = hand /\ call' = call
  BY DEF drain, history, aggregator
<1>1. TypeOK'
  <2>1. queue' \in [Clients -> Seq(Events)]
    BY <1>t, <1>h, <1>0
  <2>2. ASSUME NEW d \in Clients PROVE Len(queue'[d]) <= QueueSize
    <3>1. CASE d # c
      BY <1>t, <1>0, <3>1, TypeParts DEF IInv
    <3>2. CASE d = c
      BY <1>t, <1>h, <1>0, <3>2, SizeAssumption
    <3> QED BY <3>1, <3>2
  <2> QED BY <1>0, <2>1, <2>2, TypeParts, TypeNext, ChannelFrame DEF IInv
<1>2. ClientInv(c)'
  <2>1. queue'[c] = Tail(queue[c]) /\ Queued(c)' \subseteq Queued(c)
    BY <1>t, <1>h, <1>0 DEF Queued
  <2>2. Got(c)' = Got(c) /\ Buffered(c)' = Buffered(c) /\ InHand(c)' = InHand(c)
    BY <1>0 DEF Got, Buffered, InHand
  <2>4. HandOK(c)' /\ NothingOwed(c)' /\ OwnLoss(c)'
    BY <1>0 DEF IInv, ClientInv, HandOK, NothingOwed, OwnLoss
  <2>5. Ordered(c)'
    BY <1>h, <1>0, <2>1, <2>2 DEF IInv, ClientInv, Ordered, Below
  <2>6. Past(c)'
    BY <1>0, <2>1, <2>2 DEF IInv, ClientInv, Past
  <2> QED BY <2>4, <2>5, <2>6 DEF ClientInv
<1>3. \A d \in Clients \ {c} : queue'[d] = queue[d]
  BY <1>t, <1>0
<1> QED BY <1>0, <1>1, <1>2, <1>3, OneClient

\* From the hand to the client, or nowhere when the call fails.
LEMMA sendIInv ==
  ASSUME IInv, NEW c \in Clients, send(c)
  PROVE  IInv'
<1> DEFINE e == hand[c]
<1>t. /\ got \in [Clients -> Seq(Events)] /\ got[c] \in Seq(Events)
      /\ hand \in [Clients -> Events \cup {Nothing}] /\ call \in [Clients -> Calls]
  BY TypeParts DEF IInv
<1>h. e \in Events /\ e # Nothing /\ InHand(c) = {e} /\ buffer[c] = <<>> /\ Buffered(c) = {}
  BY <1>t, EmptyFacts DEF IInv, ClientInv, HandOK, send, InHand, Buffered
<1>a. /\ Append(got[c], e) \in Seq(Events)
      /\ Range(Append(got[c], e)) = Got(c) \cup {e}
      /\ Increasing(Append(got[c], e))
  <2>1. Increasing(got[c]) /\ \A x \in Range(got[c]) : x < e
    BY <1>h DEF IInv, ClientInv, Ordered, Below, Got
  <2> QED BY <1>t, <1>h, <2>1, AppendFacts DEF Got
<1>0. /\ hand' = [hand EXCEPT ![c] = Nothing] /\ call[c] = "sending"
      /\ mux' = mux /\ listeners' = listeners /\ next' = next /\ todo' = todo
      /\ owed' = owed /\ missed' = missed /\ unsent' = unsent /\ size' = size /\ busy' = busy
      /\ queue' = queue /\ buffer' = buffer
      /\ \/ /\ got' = [got EXCEPT ![c] = Append(got[c], e)]
            /\ call' = [call EXCEPT ![c] = "serving"]
         \/ got' = got /\ call' = [call EXCEPT ![c] = "removing"]
  BY DEF send, Goto, aggregator
<1> HIDE DEF e
<1>1. TypeOK'
  <2>1. /\ got' \in [Clients -> Seq(Events)] /\ hand' \in [Clients -> Events \cup {Nothing}]
        /\ call' \in [Clients -> Calls]
    BY <1>t, <1>a, <1>0 DEF Calls
  <2> QED BY <1>0, <2>1, TypeParts, TypeNext, ChannelFrame DEF IInv
<1>2. ClientInv(c)'
  <2>1. Queued(c)' = Queued(c) /\ Buffered(c)' = {} /\ InHand(c)' = {} /\ hand'[c] = Nothing
    BY <1>t, <1>h, <1>0 DEF Queued, Buffered, InHand
  <2>2. \/ /\ got'[c] = Append(got[c], e) /\ Got(c)' = Got(c) \cup {e}
           /\ call'[c] = "serving"
        \/ got'[c] = got[c] /\ Got(c)' = Got(c) /\ call'[c] = "removing"
    BY <1>t, <1>a, <1>0 DEF Got
  <2>4. HandOK(c)' /\ NothingOwed(c)'
    BY <1>0, <2>1, <2>2 DEF IInv, ClientInv, HandOK, NothingOwed
  <2>5. Ordered(c)'
    BY <1>h, <1>a, <1>0, <2>1, <2>2 DEF IInv, ClientInv, Ordered, Below
  <2>6. Past(c)'
    BY <1>h, <1>0, <2>1, <2>2 DEF IInv, ClientInv, Past
  <2>7. OwnLoss(c)'
    BY <1>h, <1>0, <2>1, <2>2 DEF IInv, ClientInv, OwnLoss
  <2> QED BY <2>4, <2>5, <2>6, <2>7 DEF ClientInv
<1>3. \A d \in Clients \ {c} : got'[d] = got[d] /\ hand'[d] = hand[d] /\ call'[d] = call[d]
  BY <1>t, <1>0
<1>4. call'[c] \in {"serving", "removing"}
  BY <1>t, <1>0
<1> QED BY <1>0, <1>1, <1>2, <1>3, <1>4, OneClient

\* From the hand to the buffer, or missed when the buffer is full.
LEMMA aggregateIInv ==
  ASSUME IInv, NEW c \in Clients, aggregate(c)
  PROVE  IInv'
<1> DEFINE e == hand[c]
<1>t. /\ buffer \in [Clients -> Seq(Events)] /\ buffer[c] \in Seq(Events)
      /\ hand \in [Clients -> Events \cup {Nothing}] /\ call \in [Clients -> Calls]
      /\ missed \in [Clients -> SUBSET Events] /\ InChannel(c) \in 0 .. size[c]
      /\ Len(buffer[c]) \in Nat /\ size \in [Clients -> Nat] /\ busy \in [Clients -> BOOLEAN]
  BY TypeParts DEF IInv
<1>h. e \in Events /\ e # Nothing /\ InHand(c) = {e} /\ c \in Aggregated
  BY <1>t DEF IInv, ClientInv, HandOK, aggregate, InHand
<1>a. /\ Append(buffer[c], e) \in Seq(Events)
      /\ Len(Append(buffer[c], e)) = Len(buffer[c]) + 1
      /\ Range(Append(buffer[c], e)) = Buffered(c) \cup {e}
      /\ Increasing(Append(buffer[c], e))
  <2>1. Increasing(buffer[c]) /\ \A x \in Range(buffer[c]) : x < e
    BY <1>h DEF IInv, ClientInv, Ordered, Below, Buffered
  <2> QED BY <1>t, <1>h, <2>1, AppendFacts DEF Buffered
<1>0. /\ hand' = [hand EXCEPT ![c] = Nothing] /\ call[c] = "sending"
      /\ call' = [call EXCEPT ![c] = "serving"]
      /\ mux' = mux /\ listeners' = listeners /\ next' = next /\ todo' = todo
      /\ owed' = owed /\ queue' = queue /\ got' = got /\ unsent' = unsent /\ size' = size
      /\ \/ /\ buffer' = [buffer EXCEPT ![c] = Append(buffer[c], e)] /\ missed' = missed
            /\ \/ InChannel(c) < size[c] /\ busy' = busy
               \/ size[c] = 0 /\ ~busy[c] /\ busy' = [busy EXCEPT ![c] = TRUE]
         \/ /\ buffer' = buffer /\ missed' = [missed EXCEPT ![c] = missed[c] \cup {e}]
            /\ busy' = busy
  BY DEF aggregate, Goto, Drop
<1> HIDE DEF e
<1>1. TypeOK'
  <2>1. hand' \in [Clients -> Events \cup {Nothing}] /\ call' \in [Clients -> Calls]
    BY <1>t, <1>0 DEF Calls
  <2>3. buffer' \in [Clients -> Seq(Events)]
    BY <1>t, <1>a, <1>0
  <2>4. missed' \in [Clients -> SUBSET Events]
    <3>1. missed[c] \cup {e} \in SUBSET Events
      BY <1>t, <1>h
    <3>2. missed' = missed \/ missed' = [missed EXCEPT ![c] = missed[c] \cup {e}]
      BY <1>0
    <3> QED BY <1>t, <3>1, <3>2
  <2>5. busy' \in [Clients -> BOOLEAN]
    BY <1>t, <1>0
  <2>2. ASSUME NEW d \in Clients PROVE InChannel(d)' \in 0 .. size'[d]
    <3>1. CASE d # c
      <4>1. InChannel(d)' = InChannel(d)
        BY <1>t, <1>0, <3>1 DEF InChannel
      <4> QED BY <1>0, <4>1, TypeParts DEF IInv
    <3>2. CASE d = c
      <4>1. CASE buffer' = buffer /\ busy' = busy
        <5>1. InChannel(c)' = InChannel(c)
          BY <4>1 DEF InChannel
        <5> QED BY <1>t, <1>0, <3>2, <5>1
      <4>2. CASE buffer'[c] = Append(buffer[c], e) /\ busy' = busy /\ InChannel(c) < size[c]
        <5>1. InChannel(c)' = InChannel(c) + 1
          BY <1>t, <1>a, <4>2 DEF InChannel
        <5> QED BY <1>t, <1>0, <3>2, <4>2, <5>1
      <4>3. CASE buffer'[c] = Append(buffer[c], e) /\ size[c] = 0 /\ ~busy[c] /\ busy'[c]
        <5>1. InChannel(c)' = InChannel(c)
          BY <1>t, <1>a, <4>3 DEF InChannel
        <5> QED BY <1>t, <1>0, <3>2, <4>3, <5>1
      <4> QED BY <1>t, <1>0, <4>1, <4>2, <4>3
    <3> QED BY <3>1, <3>2
  <2> QED BY <1>0, <2>1, <2>2, <2>3, <2>4, <2>5, TypeParts, TypeNext DEF IInv
<1>2. ClientInv(c)'
  <2>1. /\ Queued(c)' = Queued(c) /\ Got(c)' = Got(c) /\ InHand(c)' = {}
        /\ hand'[c] = Nothing /\ call'[c] = "serving"
    BY <1>t, <1>0 DEF Queued, Got, InHand
  <2>2. \/ /\ buffer'[c] = Append(buffer[c], e) /\ Buffered(c)' = Buffered(c) \cup {e}
           /\ missed'[c] = missed[c]
        \/ /\ buffer'[c] = buffer[c] /\ Buffered(c)' = Buffered(c)
           /\ missed'[c] = missed[c] \cup {e}
    BY <1>t, <1>a, <1>0 DEF Buffered
  <2>4. HandOK(c)' /\ NothingOwed(c)'
    BY <1>h, <1>0, <2>1 DEF IInv, ClientInv, HandOK, NothingOwed
  <2>5. Ordered(c)'
    <3>1. Increasing(got'[c]) /\ Increasing(queue'[c]) /\ Increasing(buffer'[c])
      BY <1>a, <1>0, <2>2 DEF IInv, ClientInv, Ordered
    <3>2. Below(Got(c), Buffered(c) \cup {e}) /\ Below(Buffered(c) \cup {e}, Queued(c))
      BY <1>h DEF IInv, ClientInv, Ordered, Below
    <3>3. Below(Got(c), Queued(c))
      BY DEF IInv, ClientInv, Ordered
    <3>4. Buffered(c)' \subseteq Buffered(c) \cup {e}
      BY <2>2
    <3> QED BY <2>1, <3>1, <3>2, <3>3, <3>4 DEF Ordered, Below
  <2>6. Past(c)'
    BY <1>h, <1>0, <2>1, <2>2 DEF IInv, ClientInv, Past
  <2>7. OwnLoss(c)'
    BY <1>h, <1>0, <2>1, <2>2 DEF IInv, ClientInv, OwnLoss
  <2> QED BY <2>4, <2>5, <2>6, <2>7 DEF ClientInv
<1>3. \A d \in Clients \ {c} : /\ buffer'[d] = buffer[d] /\ hand'[d] = hand[d]
                               /\ call'[d] = call[d] /\ missed'[d] = missed[d]
  BY <1>t, <1>0
<1>4. call'[c] = "serving"
  BY <1>t, <1>0
<1> QED BY <1>0, <1>1, <1>2, <1>3, <1>4, OneClient

\* The aggregator takes the first event of its channel: nothing moves.
LEMMA aggregatorTakeIInv ==
  ASSUME IInv, NEW c \in Clients, aggregatorTake(c)
  PROVE  IInv'
<1>t. /\ buffer \in [Clients -> Seq(Events)] /\ buffer[c] \in Seq(Events) /\ buffer[c] # <<>>
      /\ size \in [Clients -> Nat] /\ busy \in [Clients -> BOOLEAN] /\ ~busy[c]
      /\ InChannel(c) \in 0 .. size[c]
  BY TypeParts DEF IInv, aggregatorTake
<1>0. /\ busy' = [busy EXCEPT ![c] = TRUE]
      /\ mux' = mux /\ listeners' = listeners /\ next' = next /\ todo' = todo
      /\ owed' = owed /\ missed' = missed /\ queue' = queue /\ call' = call /\ hand' = hand
      /\ got' = got /\ unsent' = unsent /\ size' = size /\ buffer' = buffer
  BY DEF aggregatorTake, history
<1>1. TypeOK'
  <2>1. ASSUME NEW d \in Clients PROVE InChannel(d)' \in 0 .. size'[d]
    <3>1. CASE d # c
      <4>1. InChannel(d)' = InChannel(d)
        BY <1>t, <1>0, <3>1 DEF InChannel
      <4> QED BY <1>0, <4>1, TypeParts DEF IInv
    <3>2. CASE d = c
      <4>1. Len(buffer[c]) \in Nat \ {0} /\ busy'[c] /\ size[c] \in Nat
        BY <1>t, <1>0
      <4>2. InChannel(c) = Len(buffer[c]) /\ InChannel(c)' = Len(buffer[c]) - 1
        BY <1>t, <1>0, <4>1 DEF InChannel
      <4> QED BY <1>t, <1>0, <3>2, <4>1, <4>2
    <3> QED BY <3>1, <3>2
  <2>2. busy' \in [Clients -> BOOLEAN]
    BY <1>t, <1>0
  <2> QED BY <1>0, <2>1, <2>2, TypeParts, TypeNext DEF IInv
<1>2. HandOut' /\ Listening'
  BY <1>0 DEF IInv, HandOut, Listening
<1>3. ASSUME NEW d \in Clients PROVE ClientInv(d)'
  BY <1>0, Frame DEF IInv
<1> QED BY <1>1, <1>2, <1>3 DEF IInv

\* From the buffer to the client, or nowhere when the Send fails.
LEMMA aggregatorSendIInv ==
  ASSUME IInv, NEW c \in Clients, aggregatorSend(c)
  PROVE  IInv'
<1> DEFINE e == Head(buffer[c])
<1>b. /\ buffer \in [Clients -> Seq(Events)] /\ buffer[c] \in Seq(Events)
      /\ got \in [Clients -> Seq(Events)] /\ got[c] \in Seq(Events)
      /\ unsent \in [Clients -> SUBSET Events]
      /\ size \in [Clients -> Nat] /\ busy \in [Clients -> BOOLEAN]
      /\ InChannel(c) \in 0 .. size[c] /\ busy[c] /\ Len(buffer[c]) \in Nat
  BY TypeParts DEF IInv, aggregatorSend
<1>t. buffer[c] # <<>> /\ Len(Tail(buffer[c])) = InChannel(c)
  <2>1. Len(buffer[c]) # 0
    BY <1>b DEF InChannel
  <2> QED BY <1>b, <2>1 DEF InChannel
<1>h. /\ Tail(buffer[c]) \in Seq(Events) /\ Len(Tail(buffer[c])) <= Len(buffer[c])
      /\ e \in Events /\ e \in Buffered(c)
      /\ Buffered(c) = Range(Tail(buffer[c])) \cup {e}
      /\ Increasing(Tail(buffer[c])) /\ \A x \in Range(Tail(buffer[c])) : e < x
  <2>1. Increasing(buffer[c])
    BY DEF IInv, ClientInv, Ordered
  <2> QED BY <1>b, <1>t, <2>1, TailFacts DEF Buffered
<1>0. /\ buffer' = [buffer EXCEPT ![c] = Tail(buffer[c])]
      /\ mux' = mux /\ listeners' = listeners /\ next' = next /\ todo' = todo
      /\ owed' = owed /\ missed' = missed /\ queue' = queue /\ call' = call /\ hand' = hand
      /\ size' = size /\ busy' = [busy EXCEPT ![c] = FALSE]
      /\ \/ got' = [got EXCEPT ![c] = Append(got[c], e)] /\ unsent' = unsent
         \/ got' = got /\ unsent' = [unsent EXCEPT ![c] = unsent[c] \cup {e}]
  BY DEF aggregatorSend
<1> HIDE DEF e
<1>a. /\ Append(got[c], e) \in Seq(Events)
      /\ Range(Append(got[c], e)) = Got(c) \cup {e}
      /\ Increasing(Append(got[c], e))
  <2>1. Increasing(got[c]) /\ \A x \in Range(got[c]) : x < e
    BY <1>h DEF IInv, ClientInv, Ordered, Below, Got
  <2> QED BY <1>b, <1>h, <2>1, AppendFacts DEF Got
<1>1. TypeOK'
  <2>1. buffer' \in [Clients -> Seq(Events)] /\ got' \in [Clients -> Seq(Events)]
    BY <1>b, <1>h, <1>a, <1>0
  <2>3. unsent' \in [Clients -> SUBSET Events] /\ busy' \in [Clients -> BOOLEAN]
    <3>1. unsent[c] \cup {e} \in SUBSET Events
      BY <1>b, <1>h
    <3> QED BY <1>b, <1>0, <3>1
  <2>2. ASSUME NEW d \in Clients PROVE InChannel(d)' \in 0 .. size'[d]
    <3>1. CASE d # c
      <4>1. InChannel(d)' = InChannel(d)
        BY <1>b, <1>0, <3>1 DEF InChannel
      <4> QED BY <1>0, <4>1, TypeParts DEF IInv
    <3>2. CASE d = c
      <4>1. buffer'[c] = Tail(buffer[c]) /\ ~busy'[c]
        BY <1>b, <1>0
      <4>2. InChannel(c)' = InChannel(c)
        BY <1>b, <1>t, <4>1 DEF InChannel
      <4> QED BY <1>b, <1>0, <3>2, <4>2
    <3> QED BY <3>1, <3>2
  <2> QED BY <1>0, <2>1, <2>2, <2>3, TypeParts, TypeNext DEF IInv
<1>2. ClientInv(c)'
  <2>1. /\ Queued(c)' = Queued(c) /\ InHand(c)' = InHand(c)
        /\ buffer'[c] = Tail(buffer[c]) /\ Buffered(c)' = Range(Tail(buffer[c]))
    BY <1>b, <1>0 DEF Queued, Buffered, InHand
  <2>2. \/ /\ got'[c] = Append(got[c], e) /\ Got(c)' = Got(c) \cup {e}
           /\ unsent'[c] = unsent[c]
        \/ /\ got'[c] = got[c] /\ Got(c)' = Got(c)
           /\ unsent'[c] = unsent[c] \cup {e}
    BY <1>b, <1>a, <1>0 DEF Got
  <2>4. HandOK(c)' /\ NothingOwed(c)'
    BY <1>b, <1>t, <1>0 DEF IInv, ClientInv, HandOK, NothingOwed
  <2>5. Ordered(c)'
    <3>1. Increasing(got'[c]) /\ Increasing(buffer'[c]) /\ Increasing(queue'[c])
      BY <1>h, <1>a, <1>0, <2>1, <2>2 DEF IInv, ClientInv, Ordered
    <3>2. /\ Got(c)' \subseteq Got(c) \cup {e} /\ Buffered(c)' \subseteq Buffered(c)
          /\ Below({e}, Buffered(c)')
      BY <1>h, <2>1, <2>2 DEF Below
    <3>3. /\ Below(Got(c) \cup {e}, InHand(c)) /\ Below(Got(c) \cup {e}, Queued(c))
          /\ Below(Got(c), Buffered(c)) /\ Below(Buffered(c), InHand(c))
          /\ Below(Buffered(c), Queued(c)) /\ Below(InHand(c), Queued(c))
      BY <1>h DEF IInv, ClientInv, Ordered, Below
    <3> QED BY <2>1, <3>1, <3>2, <3>3 DEF Ordered, Below
  <2>6. Past(c)'
    BY <1>h, <1>0, <2>1, <2>2 DEF IInv, ClientInv, Past
  <2>7. OwnLoss(c)'
    BY <1>h, <1>0, <2>1, <2>2 DEF IInv, ClientInv, OwnLoss
  <2> QED BY <2>4, <2>5, <2>6, <2>7 DEF ClientInv
<1>3. \A d \in Clients \ {c} : /\ buffer'[d] = buffer[d] /\ got'[d] = got[d]
                               /\ unsent'[d] = unsent[d]
  BY <1>b, <1>0
<1> QED BY <1>0, <1>1, <1>2, <1>3, OneClient

-----------------------------------------------------------------------------
(***************************************************************************)
(* The theorems.                                                           *)
(***************************************************************************)

LEMMA NextIInv == IInv /\ [Next]_vars => IInv'
<1> SUFFICES ASSUME IInv, [Next]_vars PROVE IInv'
  OBVIOUS
<1>1. ASSUME NEW p \in Producers, NotifyListener(p) PROVE IInv'
  BY <1>1, NotifyListenerIInv
<1>2. ASSUME NEW p \in Producers, Manager(p) PROVE IInv'
  BY <1>2, NotifyIInv, EndNotifyIInv DEF Manager
<1>3. ASSUME NEW c \in Clients, GetEvents(c) \/ AddListener(c) PROVE IInv'
  BY <1>3, GetEventsIInv, AddListenerIInv
<1>4. ASSUME NEW c \in Clients, Serve(c) PROVE IInv'
  BY <1>4, receiveIInv, sendIInv, aggregateIInv DEF Serve
<1>5. ASSUME NEW c \in Clients, Start(c) \/ cancel(c) PROVE IInv'
  BY <1>5, aggregatorTakeIInv, aggregatorSendIInv, cancelIInv DEF Start
<1>6. ASSUME NEW c \in Clients, RemoveListener(c) \/ drain(c) \/ done(c) PROVE IInv'
  BY <1>6, RemoveListenerIInv, drainIInv, doneIInv
<1>7. CASE UNCHANGED vars
  <2>1. /\ mux' = mux /\ listeners' = listeners /\ next' = next /\ todo' = todo
        /\ queue' = queue /\ call' = call /\ hand' = hand /\ buffer' = buffer
        /\ got' = got /\ owed' = owed /\ missed' = missed /\ unsent' = unsent
        /\ size' = size /\ busy' = busy
    BY <1>7 DEF vars, history, aggregator
  <2>2. TypeOK' /\ HandOut' /\ Listening'
    BY <2>1, TypeParts, TypeNext, ChannelFrame DEF IInv, HandOut, Listening
  <2>3. ASSUME NEW c \in Clients PROVE ClientInv(c)'
    BY <2>1, Frame DEF IInv
  <2> QED BY <2>2, <2>3 DEF IInv
<1> QED BY <1>1, <1>2, <1>3, <1>4, <1>5, <1>6, <1>7 DEF Next

LEMMA Invariance == Spec => []IInv
BY InitIInv, NextIInv, PTL DEF Spec

\* Every variable keeps its type, for every number of clients and producers.
THEOREM ServerTypeCorrect == Spec => []TypeOK
<1>1. IInv => TypeOK
  BY DEF IInv
<1> QED BY <1>1, Invariance, PTL

\* Whichever goroutines the events come from, and whether or not a client asks
\* for aggregation, it receives them in the order in which NotifyListener
\* handed them out, and none twice.
THEOREM InOrderCorrect == Spec => []InOrder
<1>1. IInv => InOrder
  BY DEF IInv, ClientInv, Ordered, InOrder
<1> QED BY <1>1, Invariance, PTL

\* However slow the other clients, and whenever they come and go, a client
\* misses only what its own queue or aggregator had no room for and what its
\* own aggregator failed to send, for every size of the buffer, 0 included.
THEOREM OnlyOwnLossCorrect == Spec => []OnlyOwnLoss
<1>1. IInv => OnlyOwnLoss
  BY DEF IInv, ClientInv, OwnLoss, OnlyOwnLoss, Holding, Got, Buffered, InHand, Queued
<1> QED BY <1>1, Invariance, PTL

\* A listener is told of events between its AddListener and its RemoveListener
\* only.
THEOREM ListeningCorrect == Spec => []Listening
<1>1. IInv => Listening
  BY DEF IInv
<1> QED BY <1>1, Invariance, PTL

=============================================================================
