------------------------------- MODULE LiveView -------------------------------
(***************************************************************************)
(* The live item page: stream.Hub, the SSE handler and the page of app.js, *)
(* for one ticket.  A writer (AddMessage or IngestInbound) commits its     *)
(* message and publishes it afterwards; the hub puts the event into the    *)
(* channel of every subscriber, or drops it where the channel is full; the *)
(* SSE handler takes events out one at a time and writes them to the       *)
(* connection; the page answers a message event by loading the ticket      *)
(* again, which can fail.  Typing pings share the channels.  The thread is *)
(* reduced to its length.                                                  *)
(***************************************************************************)
EXTENDS Naturals, Sequences, SequencesExt

CONSTANTS
  Viewers,       \* open pages
  Buffer,        \* capacity of a subscriber's channel (8)
  MaxMessages,   \* bound: messages written
  MaxTyping,     \* bound: typing pings
  MaxDrops,      \* bound: connections that break
  MaxFailures,   \* bound: loads that fail
  Wire,          \* bound: events written to a connection and not yet read
  MaxLoads       \* bound: unanswered load() of a page

ASSUME LiveConstantsOK ==
  /\ Buffer \in Nat \ {0}
  /\ MaxMessages \in Nat /\ MaxTyping \in Nat
  /\ MaxDrops \in Nat /\ MaxFailures \in Nat
  /\ Wire \in Nat \ {0} /\ MaxLoads \in Nat \ {0}

VARIABLES
  thread,     \* committed messages of the ticket
  unsent,     \* writers that have committed and not yet published
  connected,  \* is the page's EventSource subscribed?
  channel,    \* the events in its channel
  wire,       \* the events the SSE handler has written to its connection
  loads,      \* its load() requests: "asked", or the thread it was answered
  shown,      \* the thread the page shows
  missed,     \* history: a message, its load, or the order of two answers went
              \* by the page and no load has been answered since
  typing, drops, failures

liveVars == <<thread, unsent, connected, channel, wire, loads, shown, missed,
              typing, drops, failures>>

Event == {"message", "typing"}
Asked == MaxMessages + 1    \* no thread is that long

TypeOK ==
  /\ thread \in 0..MaxMessages /\ unsent \in 0..thread
  /\ connected \in [Viewers -> BOOLEAN]
  /\ channel \in [Viewers -> Seq(Event)]
  /\ wire \in [Viewers -> Seq(Event)]
  /\ \A v \in Viewers : Len(channel[v]) <= Buffer /\ Len(wire[v]) <= Wire
  /\ loads \in [Viewers -> Seq(0..Asked)]
  /\ shown \in [Viewers -> 0..MaxMessages]
  /\ missed \in [Viewers -> BOOLEAN]
  /\ typing \in 0..MaxTyping /\ drops \in 0..MaxDrops /\ failures \in 0..MaxFailures

\* initItemPage: the EventSource is created first, but load() does not wait
\* for it to be connected.
Init ==
  /\ thread = 0 /\ unsent = 0
  /\ connected = [v \in Viewers |-> FALSE]
  /\ channel = [v \in Viewers |-> <<>>] /\ wire = [v \in Viewers |-> <<>>]
  /\ loads = [v \in Viewers |-> <<Asked>>]
  /\ shown = [v \in Viewers |-> 0]
  /\ missed = [v \in Viewers |-> FALSE]
  /\ typing = 0 /\ drops = 0 /\ failures = 0

pageVars == <<loads, shown>>
counters == <<typing, drops, failures>>

-----------------------------------------------------------------------------
(* The hub.  (A suffixed name is a deliberately wrong variant that the     *)
(* properties must tell from the real definition.)                         *)

Full(v) == Len(channel[v]) >= Buffer
Queued(v) == Contains(channel[v], "message") \/ Contains(wire[v], "message")

PublishUnbounded(event) ==
  /\ channel' = [v \in Viewers |->
       IF connected[v] THEN Append(channel[v], event) ELSE channel[v]]
  /\ missed' = [v \in Viewers |->
       missed[v] \/ (event = "message" /\ ~connected[v])]

PublishUnlessWaiting(event) ==
  /\ channel' = [v \in Viewers |->
       IF connected[v] /\ channel[v] = <<>> THEN <<event>> ELSE channel[v]]
  /\ missed' = [v \in Viewers |-> missed[v] \/
       (event = "message" /\ (~connected[v] \/ (Full(v) /\ ~Queued(v))))]

\* Never blocks.  A subscriber misses a message only when its full channel
\* holds nothing but typing pings: a queued message makes it load anyway.
Publish(event) ==
  /\ channel' = [v \in Viewers |->
       IF connected[v] /\ ~Full(v) THEN Append(channel[v], event) ELSE channel[v]]
  /\ missed' = [v \in Viewers |-> missed[v] \/
       (event = "message" /\ (~connected[v] \/ (Full(v) /\ ~Queued(v))))]

Subscribe(v) ==
  /\ ~connected[v]
  /\ connected' = [connected EXCEPT ![v] = TRUE]
  /\ UNCHANGED <<thread, unsent, channel, wire, pageVars, missed, counters>>

\* serveSSE takes an event out of the channel and writes it to the connection,
\* where the browser has still to read it.
Send(v) ==
  /\ channel[v] # <<>> /\ Len(wire[v]) < Wire
  /\ channel' = [channel EXCEPT ![v] = Tail(@)]
  /\ wire' = [wire EXCEPT ![v] = Append(@, Head(channel[v]))]
  /\ UNCHANGED <<thread, unsent, connected, pageVars, missed, counters>>

\* The connection ends with what was written to it, and cancel() closes the
\* channel with what is in it.  The EventSource will connect again, but does
\* not load.
Disconnect(v) ==
  /\ connected[v] /\ drops < MaxDrops
  /\ connected' = [connected EXCEPT ![v] = FALSE]
  /\ channel' = [channel EXCEPT ![v] = <<>>]
  /\ wire' = [wire EXCEPT ![v] = <<>>]
  /\ missed' = [missed EXCEPT ![v] = @ \/ Queued(v)]
  /\ drops' = drops + 1
  /\ UNCHANGED <<thread, unsent, pageVars, typing, failures>>

-----------------------------------------------------------------------------
(* The writers.                                                            *)

CommitMessage ==
  /\ thread < MaxMessages
  /\ thread' = thread + 1 /\ unsent' = unsent + 1
  /\ UNCHANGED <<connected, channel, wire, pageVars, missed, counters>>

NotifyNewMessage ==
  /\ unsent > 0
  /\ Publish("message")
  /\ unsent' = unsent - 1
  /\ UNCHANGED <<thread, connected, wire, pageVars, counters>>

NotifyTyping ==
  /\ typing < MaxTyping
  /\ Publish("typing")
  /\ typing' = typing + 1
  /\ UNCHANGED <<thread, unsent, connected, wire, pageVars, drops, failures>>

-----------------------------------------------------------------------------
(* The page.                                                               *)

Room(v) == Len(loads[v]) < MaxLoads

ReceiveForgetsOverlap(v) ==
  /\ wire[v] # <<>> /\ Room(v)
  /\ wire' = [wire EXCEPT ![v] = Tail(@)]
  /\ loads' = [loads EXCEPT ![v] =
       IF Head(wire[v]) = "message" /\ @ = <<>> THEN Append(@, Asked) ELSE @]
  /\ UNCHANGED <<thread, unsent, connected, channel, shown, missed, counters>>

\* The page loads on a message and ignores, here, a typing ping.
Receive(v) ==
  /\ wire[v] # <<>> /\ Room(v)
  /\ wire' = [wire EXCEPT ![v] = Tail(@)]
  /\ loads' = [loads EXCEPT ![v] =
       IF Head(wire[v]) = "message" THEN Append(@, Asked) ELSE @]
  /\ UNCHANGED <<thread, unsent, connected, channel, shown, missed, counters>>

\* After a reply, a status change, an assignment or a promotion of its own the
\* page loads too.
ReloadOwn(v) ==
  /\ Room(v)
  /\ loads' = [loads EXCEPT ![v] = Append(@, Asked)]
  /\ UNCHANGED <<thread, unsent, connected, channel, wire, shown, missed, counters>>

\* GET /api/items/{id} reads the ticket, perhaps after it has answered a later
\* load of the page.
AnswerLoad(v, k) ==
  /\ k \in DOMAIN loads[v] /\ loads[v][k] = Asked
  /\ loads' = [loads EXCEPT ![v][k] = thread]
  /\ missed' = [missed EXCEPT ![v] = \E j \in DOMAIN loads[v] :
                                        j > k /\ loads[v][j] # Asked]
  /\ UNCHANGED <<thread, unsent, connected, channel, wire, shown, counters>>

\* renderItem shows whatever arrives, in whatever order: the answer to an
\* earlier load may come later and be older.
RenderItem(v, k) ==
  /\ k \in DOMAIN loads[v] /\ loads[v][k] # Asked
  /\ shown' = [shown EXCEPT ![v] = loads[v][k]]
  /\ loads' = [loads EXCEPT ![v] = RemoveAt(@, k)]
  /\ missed' = [missed EXCEPT ![v] = @ \/ k > 1]
  /\ UNCHANGED <<thread, unsent, connected, channel, wire, counters>>

\* The catch of load(): a refused or broken request, before or after the server
\* has answered, leaves the page as it is, and nobody asks again.
FailLoad(v, k) ==
  /\ k \in DOMAIN loads[v] /\ failures < MaxFailures
  /\ loads' = [loads EXCEPT ![v] = RemoveAt(@, k)]
  /\ missed' = [missed EXCEPT ![v] = @ \/ k = Len(loads[v])]
  /\ failures' = failures + 1
  /\ UNCHANGED <<thread, unsent, connected, channel, wire, shown, typing, drops>>

ReadTicket(v) ==
  \E k \in 1..MaxLoads : AnswerLoad(v, k) \/ RenderItem(v, k) \/ FailLoad(v, k)

Next ==
  \/ CommitMessage \/ NotifyNewMessage \/ NotifyTyping
  \/ \E v \in Viewers : Subscribe(v) \/ Send(v) \/ Disconnect(v) \/ Receive(v)
                       \/ ReloadOwn(v) \/ ReadTicket(v)

\* Writers go on to publish, the SSE handler to write, the browser to read, a
\* load to be answered and rendered or to fail, and the EventSource to connect
\* again.
Fairness ==
  /\ WF_liveVars(NotifyNewMessage)
  /\ \A v \in Viewers :
       /\ WF_liveVars(Subscribe(v)) /\ WF_liveVars(Send(v))
       /\ WF_liveVars(Receive(v)) /\ WF_liveVars(ReadTicket(v))

Spec == Init /\ [][Next]_liveVars /\ Fairness

-----------------------------------------------------------------------------
(* Properties.                                                             *)

Current(v) == shown[v] = thread

\* The load that will be rendered last shows the whole thread.
LoadOnItsWay(v) ==
  loads[v] # <<>> /\ loads[v][Len(loads[v])] \in {Asked, thread}

\* A page that does not show the whole thread is going to load it: a writer
\* still has to publish, a message event is in the channel or on the wire, or a
\* load is under way.  Overlapping publications and events dropped behind a
\* queued message change nothing about that; only a broken connection, a channel
\* full of typing pings, a failed load that no later one follows and answers
\* that overtake each other make a page miss a message.
UpdateOnItsWay ==
  \A v \in Viewers :
    missed[v] \/ Current(v) \/ unsent > 0 \/ Queued(v) \/ LoadOnItsWay(v)

\* A page that misses nothing from some time on shows the whole thread in the
\* end.
CatchesUp ==
  \A v \in Viewers : <>[]~missed[v] => <>[]Current(v)
=============================================================================
