----------------------------- MODULE EventServer -----------------------------
(***************************************************************************)
(* From the process manager to the gRPC clients: NotifyListener            *)
(* (pkg/grpc/process_manager.go) hands each event to the listeners, one    *)
(* per GetEvents call (pkg/server/server.go), and each call filters the    *)
(* events of its listener and sends them to its client, directly or        *)
(* through an aggregator (pkg/aggregator/aggregator.go).                   *)
(*                                                                         *)
(* Events come from several goroutines: the observer's, the event cache's  *)
(* and that of the cgroup rate.  pm.mux guards the set of listeners and is *)
(* held while an event is handed to all of them.  A client may be slow,    *)
(* leave at any time, and come back with a new listener.                   *)
(*                                                                         *)
(* Abstractions: events are numbered as they enter NotifyListener; the     *)
(* filters of a call are the set of events they let through; field filters *)
(* are left out.  The aggregator sends every event on, so its window and   *)
(* its cache, which nothing fills, are left out.                           *)
(***************************************************************************)
EXTENDS Integers, Sequences, FiniteSets, SequencesExt

CONSTANTS
  Producers,   \* goroutines that notify
  Clients,
  Aggregated,  \* clients that ask for aggregation
  Wanted,      \* events that the filters of each client let through
  QueueSize,   \* event-queue-size
  BufferSizes, \* AggregationOptions.channel_buffer_size that a call may ask for
  MaxEvents    \* bound: events notified

ASSUME ClientAssumption ==
  Aggregated \subseteq Clients /\ Wanted \in [Clients -> SUBSET (1 .. MaxEvents)]
ASSUME SizeAssumption == QueueSize \in Nat \ {0} /\ BufferSizes \subseteq Nat /\ MaxEvents \in Nat

VARIABLES
  mux,       \* holder of pm.mux between two steps
  listeners, \* pm.listeners
  next,      \* the next event
  todo,      \* listeners that the event of the holder of mux has yet to reach
  queue,     \* l.events
  call,      \* where the GetEvents call of each client is
  hand,      \* the event each call is sending
  size,      \* the capacity of a.events, 0 if it is unbuffered
  buffer,    \* a.events, behind the event that the aggregator is sending
  busy,      \* whether the aggregator is sending the first event of buffer
  got,       \* what each client has received (history)
  owed,      \* events handed out while a client was listening (history)
  missed,    \* events dropped because a queue or a buffer was full (history)
  unsent     \* events whose Send by an aggregator failed (history)

history == <<got, owed, missed, unsent>>
aggregator == <<size, buffer, busy>>
vars == <<mux, listeners, next, todo, queue, call, hand, aggregator, history>>

NoOne == "none"
Nothing == 0
Calls == {"off", "adding", "serving", "sending", "removing", "removed"}
Events == 1 .. MaxEvents

ASSUME NoOneAssumption == NoOne \notin Producers

Goto(c, place) == call' = [call EXCEPT ![c] = place]

Init ==
  /\ mux = NoOne /\ listeners = {} /\ next = 1 /\ todo = {}
  /\ queue = [c \in Clients |-> <<>>]
  /\ call = [c \in Clients |-> "off"]
  /\ hand = [c \in Clients |-> Nothing]
  /\ size = [c \in Clients |-> 0]
  /\ buffer = [c \in Clients |-> <<>>]
  /\ busy = [c \in Clients |-> FALSE]
  /\ got = [c \in Clients |-> <<>>]
  /\ owed = [c \in Clients |-> {}]
  /\ missed = [c \in Clients |-> {}]
  /\ unsent = [c \in Clients |-> {}]

-----------------------------------------------------------------------------
(***************************************************************************)
(* The process manager.                                                    *)
(***************************************************************************)

\* NotifyListener takes pm.mux.
NotifyListener(p) ==
  /\ mux = NoOne /\ next <= MaxEvents
  /\ mux' = p
  /\ todo' = listeners
  /\ owed' = [c \in Clients |-> IF c \in listeners THEN owed[c] \cup {next} ELSE owed[c]]
  /\ UNCHANGED <<listeners, next, queue, call, hand, aggregator, got, missed, unsent>>

HasRoom(c) == Len(queue[c]) < QueueSize

\* Mutant: the event waits until there is room.
WaitForRoom(c) == todo
\* Mutant: the others are not told once one queue is full.
GiveUp(c) == {}
Left(c) == todo \ {c}

\* getEventsListener.Notify: never blocks.
Notify(p, c) ==
  /\ mux = p /\ c \in todo
  /\ IF HasRoom(c)
     THEN /\ queue' = [queue EXCEPT ![c] = Append(@, next)]
          /\ todo' = todo \ {c}
          /\ UNCHANGED missed
     ELSE /\ missed' = [missed EXCEPT ![c] = @ \cup {next}]
          /\ todo' = Left(c)
          /\ UNCHANGED queue
  /\ UNCHANGED <<mux, listeners, next, call, hand, aggregator, got, owed, unsent>>

EndNotify(p) ==
  /\ mux = p /\ todo = {}
  /\ mux' = NoOne
  /\ next' = next + 1
  /\ UNCHANGED <<listeners, todo, queue, call, hand, aggregator, history>>

-----------------------------------------------------------------------------
(***************************************************************************)
(* GetEventsWG, for one client.                                            *)
(***************************************************************************)

\* A client calls: a new listener and, if the call asks for one, a new
\* aggregator with a buffer of the size that it asks for, which may be 0.
GetEvents(c) ==
  /\ call[c] = "off"
  /\ queue' = [queue EXCEPT ![c] = <<>>]
  /\ \E n \in BufferSizes : size' = [size EXCEPT ![c] = IF c \in Aggregated THEN n ELSE 0]
  /\ buffer' = [buffer EXCEPT ![c] = <<>>]
  /\ busy' = [busy EXCEPT ![c] = FALSE]
  /\ got' = [got EXCEPT ![c] = <<>>]
  /\ owed' = [owed EXCEPT ![c] = {}]
  /\ missed' = [missed EXCEPT ![c] = {}]
  /\ unsent' = [unsent EXCEPT ![c] = {}]
  /\ Goto(c, "adding")
  /\ UNCHANGED <<mux, listeners, next, todo, hand>>

AddListener(c) ==
  /\ call[c] = "adding" /\ mux = NoOne
  /\ listeners' = listeners \cup {c}
  /\ Goto(c, "serving")
  /\ UNCHANGED <<mux, next, todo, queue, hand, aggregator, history>>

\* event := <-l.events, and the filters.
receive(c) ==
  /\ call[c] = "serving" /\ queue[c] # <<>>
  /\ queue' = [queue EXCEPT ![c] = Tail(@)]
  /\ IF Head(queue[c]) \in Wanted[c]
     THEN hand' = [hand EXCEPT ![c] = Head(queue[c])] /\ Goto(c, "sending")
     ELSE UNCHANGED <<hand, call>>
  /\ UNCHANGED <<mux, listeners, next, todo, aggregator, history>>

\* server.Send, which may fail and end the call.
send(c) ==
  /\ call[c] = "sending" /\ c \notin Aggregated
  /\ \/ got' = [got EXCEPT ![c] = Append(@, hand[c])] /\ Goto(c, "serving")
     \/ Goto(c, "removing") /\ UNCHANGED got
  /\ hand' = [hand EXCEPT ![c] = Nothing]
  /\ UNCHANGED <<mux, listeners, next, todo, queue, aggregator, owed, missed, unsent>>

\* Events in the channel a.events.
InChannel(c) == Len(buffer[c]) - (IF busy[c] THEN 1 ELSE 0)

\* Mutant: what does not fit is sent directly instead.
SendDirectly(c) == got' = [got EXCEPT ![c] = Append(@, hand[c])] /\ UNCHANGED missed
Drop(c) == missed' = [missed EXCEPT ![c] = @ \cup {hand[c]}] /\ UNCHANGED got

\* To the aggregator, unless its channel is full; an unbuffered channel takes an
\* event only if the aggregator is waiting for one.
aggregate(c) ==
  /\ call[c] = "sending" /\ c \in Aggregated
  /\ \/ /\ InChannel(c) < size[c]
        /\ buffer' = [buffer EXCEPT ![c] = Append(@, hand[c])]
        /\ UNCHANGED <<busy, missed, got>>
     \/ /\ size[c] = 0 /\ ~busy[c]
        /\ buffer' = [buffer EXCEPT ![c] = Append(@, hand[c])]
        /\ busy' = [busy EXCEPT ![c] = TRUE]
        /\ UNCHANGED <<missed, got>>
     \/ InChannel(c) = size[c] /\ Drop(c) /\ UNCHANGED <<buffer, busy>>
  /\ hand' = [hand EXCEPT ![c] = Nothing]
  /\ Goto(c, "serving")
  /\ UNCHANGED <<mux, listeners, next, todo, queue, size, owed, unsent>>

\* Aggregator.Start, which nothing ends: it takes an event ...
aggregatorTake(c) ==
  /\ ~busy[c] /\ buffer[c] # <<>>
  /\ busy' = [busy EXCEPT ![c] = TRUE]
  /\ UNCHANGED <<mux, listeners, next, todo, queue, call, hand, size, buffer, history>>

\* ... and sends it.  A Send that fails is logged: the event is lost and the call
\* goes on.  After the call has returned every Send fails.
aggregatorSend(c) ==
  /\ busy[c]
  /\ buffer' = [buffer EXCEPT ![c] = Tail(@)]
  /\ busy' = [busy EXCEPT ![c] = FALSE]
  /\ \/ /\ call[c] # "off"
        /\ got' = [got EXCEPT ![c] = Append(@, Head(buffer[c]))]
        /\ UNCHANGED unsent
     \/ /\ unsent' = [unsent EXCEPT ![c] = @ \cup {Head(buffer[c])}]
        /\ UNCHANGED got
  /\ UNCHANGED <<mux, listeners, next, todo, queue, call, hand, size, owed, missed>>

\* The client, or the agent, is done.
cancel(c) ==
  /\ call[c] = "serving"
  /\ Goto(c, "removing")
  /\ UNCHANGED <<mux, listeners, next, todo, queue, hand, aggregator, history>>

\* Mutant: the listener stays.
Kept(c) == listeners
Without(c) == listeners \ {c}

\* removeNotifierAndDrain: the goroutine that removes the listener ...
RemoveListener(c) ==
  /\ call[c] = "removing" /\ mux = NoOne
  /\ listeners' = Without(c)
  /\ Goto(c, "removed")
  /\ UNCHANGED <<mux, next, todo, queue, hand, aggregator, history>>

\* ... and the loop that drains it meanwhile.
drain(c) ==
  /\ call[c] \in {"removing", "removed"} /\ queue[c] # <<>>
  /\ queue' = [queue EXCEPT ![c] = Tail(@)]
  /\ UNCHANGED <<mux, listeners, next, todo, call, hand, aggregator, history>>

done(c) ==
  /\ call[c] = "removed"
  /\ Goto(c, "off")
  /\ UNCHANGED <<mux, listeners, next, todo, queue, hand, aggregator, history>>

Manager(p) == (\E c \in Clients : Notify(p, c)) \/ EndNotify(p)
Serve(c) == receive(c) \/ send(c) \/ aggregate(c)
Start(c) == aggregatorTake(c) \/ aggregatorSend(c)

Next ==
  \/ \E p \in Producers : NotifyListener(p) \/ Manager(p)
  \/ \E c \in Clients :
       \/ GetEvents(c) \/ AddListener(c) \/ Serve(c) \/ Start(c)
       \/ cancel(c) \/ RemoveListener(c) \/ drain(c) \/ done(c)

Spec == Init /\ [][Next]_vars

\* The goroutines of the agent run and the mutex starves no one, but a client
\* may stop reading: receive and send are not fair.
AgentFairness ==
  /\ \A p \in Producers : WF_vars(Manager(p))
  /\ \A c \in Clients : /\ SF_vars(AddListener(c)) /\ SF_vars(RemoveListener(c))
                        /\ WF_vars(done(c))

\* A client that reads, and an aggregator that runs.
ClientFairness == \A c \in Clients : WF_vars(Serve(c)) /\ WF_vars(Start(c))

FairSpec == Spec /\ AgentFairness

-----------------------------------------------------------------------------
(***************************************************************************)
(* Properties.                                                             *)
(***************************************************************************)

\* Every variable keeps its type; the mutex is held only while events are
\* handed out.
TypeOK ==
  /\ mux \in Producers \cup {NoOne} /\ listeners \subseteq Clients
  /\ next \in 1 .. MaxEvents + 1 /\ todo \subseteq Clients
  /\ call \in [Clients -> Calls] /\ hand \in [Clients -> Events \cup {Nothing}]
  /\ {queue, buffer, got} \subseteq [Clients -> Seq(Events)]
  /\ {owed, missed, unsent} \subseteq [Clients -> SUBSET Events]
  /\ size \in [Clients -> Nat] /\ busy \in [Clients -> BOOLEAN]
  /\ \A c \in Clients : Len(queue[c]) <= QueueSize /\ InChannel(c) \in 0 .. size[c]
  /\ mux = NoOne => todo = {}

Increasing(s) == \A i, j \in 1 .. Len(s) : i < j => s[i] < s[j]

\* A client receives events in the order in which they were handed out, none
\* of them twice, and so all clients see the same order, whichever goroutines
\* the events come from.
InOrder == \A c \in Clients : Increasing(got[c])

Holding(c) == Range(queue[c]) \cup Range(buffer[c]) \cup ({hand[c]} \ {Nothing})

\* server.go:97, "events channel is full: drop the event so that we do not
\* block everything": a client misses only what its own queue or its own
\* aggregator had no room for, and what its own aggregator failed to send.
\* Whatever the others do, all other events that were handed out since it is
\* listening have reached it, or are on their way to it.
OnlyOwnLoss ==
  \A c \in Clients : call[c] \in {"serving", "sending"} =>
    (owed[c] \cap Wanted[c]) \ (missed[c] \cup unsent[c])
      \subseteq Range(got[c]) \cup Holding(c) \cup (IF c \in todo THEN {next} ELSE {})

\* A listener is told of events from its AddListener to its RemoveListener,
\* and of none before or after.
Listening ==
  /\ \A c \in Clients : c \in listeners <=> call[c] \in {"serving", "sending", "removing"}
  /\ todo \subseteq listeners

\* However slow the clients, an event is handed out to all of them, and a call
\* that is being ended ends.
NeverBlocks ==
  /\ (mux # NoOne) ~> (mux = NoOne)
  /\ \A c \in Clients : (call[c] = "removing") ~> (call[c] = "off")

\* If the clients read, one that stays receives each event it is owed, unless
\* it has missed it for want of room or its aggregator failed to send it.
Arrives ==
  ClientFairness =>
    \A c \in Clients, e \in Events :
      (e \in owed[c] \cap Wanted[c]) ~>
        (e \in Range(got[c]) \cup missed[c] \cup unsent[c] \/ call[c] \notin {"serving", "sending"})

=============================================================================
