--------------------------------- MODULE Calls ---------------------------------
(***************************************************************************)
(* A live call: the webhook looks its number up while the directory of     *)
(* Contacts and the tickets go on changing, and broadcasts a screen-pop to *)
(* every operator's page, which shows the last one it has received until   *)
(* the operator dismisses it.  A page is one that stays open.              *)
(* ResolveCaller is several queries: whose number it is, what there is to  *)
(* know about them, which tickets they have.  Nothing is held in between,  *)
(* and an error of the later ones is ignored.  All calls come from one     *)
(* number, and tickets are active or done.  What a screen-pop says is      *)
(* settled when it is published; from then on it is the number of its call *)
(* (labels are left out).                                                  *)
(* (A suffixed name is a deliberately wrong variant that the properties    *)
(* must tell from the real definition.)                                    *)
(***************************************************************************)
EXTENDS Contacts, Naturals, Sequences, SequencesExt

CONSTANTS
  Hooks,      \* concurrent webhook requests
  Operators,  \* open pages
  Number,     \* the number they call from
  Limit,      \* how many tickets ResolveCaller asks for (5)
  Buffer,     \* capacity of an operator's channel (8)
  Wire,       \* bound: events written to a connection and not yet read
  MaxCalls,   \* bound: calls
  MaxDrops    \* bound: connections that break

ASSUME CallsConstantsOK ==
  /\ Number \in Addresses /\ Kind[Number] = "PHONE" /\ Canonical[Number] = Number
  /\ Limit \in Nat \ {0} /\ Buffer \in Nat \ {0} /\ Wire \in Nat \ {0}
  /\ MaxCalls \in Nat /\ MaxDrops \in Nat

VARIABLES
  done,       \* tickets that are resolved or closed
  call,       \* the local variables of each request
  connected,  \* operators whose EventSource is subscribed
  channel,    \* the calls in an operator's channel
  wire,       \* the calls the SSE handler has written to the operator's connection
  banner,     \* the call in the banner of an operator's page, 0 for none
  hidden,     \* operators whose banner is hidden
  dismissed,  \* history: the call an operator dismissed last
  latest,     \* history: the call published last
  missed,     \* history: operators it passed by
  calls, drops

bannerVars == <<banner, hidden, dismissed>>
pageVars == <<connected, channel, wire, bannerVars, latest, missed, drops>>
callsVars == <<contactsVars, done, call, pageVars, calls>>

\* party: whom ResolveCaller found; tickets: active_work_items; failed: history,
\* was there an error it ignored?
ScreenPop == [party : Parties \cup {None}, tickets : SUBSET Items, failed : BOOLEAN]
NoPop == [party |-> None, tickets |-> {}, failed |-> FALSE]

Idle == [pc |-> "idle", id |-> 0, owner |-> None, pop |-> NoPop]

CallsTypeOK ==
  /\ TypeOK
  /\ done \subseteq {i \in Items : Opened(i)}
  /\ call \in [Hooks -> [pc : {"idle", "lookup", "party", "tickets", "notify"},
                         id : 0..MaxCalls, owner : Parties \cup {None}, pop : ScreenPop]]
  /\ connected \subseteq Operators /\ missed \subseteq Operators /\ hidden \subseteq Operators
  /\ channel \in [Operators -> Seq(1..MaxCalls)] /\ wire \in [Operators -> Seq(1..MaxCalls)]
  /\ \A v \in Operators : /\ Len(channel[v]) <= Buffer /\ Len(wire[v]) <= Wire
                          /\ channel[v] # <<>> \/ wire[v] # <<>> => v \in connected
  /\ banner \in [Operators -> 0..MaxCalls] /\ dismissed \in [Operators -> 0..MaxCalls]
  /\ latest \in 0..MaxCalls
  /\ calls \in 0..MaxCalls /\ drops \in 0..MaxDrops

CallsInit ==
  /\ Init
  /\ done = {}
  /\ call = [r \in Hooks |-> Idle]
  /\ connected = {} /\ missed = {}
  /\ channel = [v \in Operators |-> <<>>] /\ wire = [v \in Operators |-> <<>>]
  /\ banner = [v \in Operators |-> 0] /\ dismissed = [v \in Operators |-> 0]
  /\ hidden = Operators /\ latest = 0
  /\ calls = 0 /\ drops = 0

-----------------------------------------------------------------------------
(* The webhook and ResolveCaller.                                          *)

Ring(r) ==
  /\ call[r] = Idle /\ calls < MaxCalls
  /\ call' = [call EXCEPT ![r].pc = "lookup", ![r].id = calls + 1]
  /\ calls' = calls + 1
  /\ UNCHANGED <<contactsVars, done, pageVars>>

\* The row of communication_channels, or an error: 500, and nobody is told.
QueryChannel(r) ==
  /\ call[r].pc = "lookup"
  /\ \/ \E p \in OwnerOf("PHONE", Number) :
          call' = [call EXCEPT ![r].pc = "party", ![r].owner = p]
     \/ /\ OwnerOf("PHONE", Number) = {}
        /\ call' = [call EXCEPT ![r].pc = "notify"]
     \/ call' = [call EXCEPT ![r] = Idle]
  /\ UNCHANGED <<contactsVars, done, pageVars, calls>>

\* GetContact or GetOrganization.
GetParty(p) == IF IsRow(p) THEN p ELSE None

\* A row that is gone and a query that fails both leave the screen-pop without
\* a name.
ReadParty(r) ==
  LET p == call[r].owner IN
  /\ call[r].pc = "party"
  /\ \/ call' = [call EXCEPT ![r].pc = "tickets",
                             ![r].pop.party = GetParty(p)]
     \/ call' = [call EXCEPT ![r].pc = "tickets", ![r].pop.failed = TRUE]
  /\ UNCHANGED <<contactsVars, done, pageVars, calls>>

TicketsOf(p) == {i \in Items : Opened(i) /\ p \in {ticket[i].contact, ticket[i].org}}

\* The first Limit tickets by priority and time of the last change, which are
\* not modelled: any of them may come first.
ListQueue(p) ==
  {S \in SUBSET TicketsOf(p) :
     \/ Cardinality(S) = Limit
     \/ Cardinality(S) < Limit /\ S = TicketsOf(p)}

\* What is resolved or closed is dropped after the limit has been applied.
ReadTickets(r) ==
  /\ call[r].pc = "tickets"
  /\ \/ \E S \in ListQueue(call[r].owner) :
          call' = [call EXCEPT ![r].pc = "notify", ![r].owner = None,
                               ![r].pop.tickets = S \ done]
     \/ call' = [call EXCEPT ![r].pc = "notify", ![r].owner = None, ![r].pop.failed = TRUE]
  /\ UNCHANGED <<contactsVars, done, pageVars, calls>>

-----------------------------------------------------------------------------
(* The hub's operator channels and the page.                               *)

Full(v) == Len(channel[v]) >= Buffer

PublishUnbounded(id) ==
  channel' = [v \in Operators |->
    IF v \in connected THEN Append(channel[v], id) ELSE channel[v]]

PublishOperator(id) ==
  channel' = [v \in Operators |->
    IF v \in connected /\ ~Full(v) THEN Append(channel[v], id) ELSE channel[v]]

\* Under the hub's mutex: every operator gets two screen-pops in one order.
NotifyIncomingCall(r) ==
  /\ call[r].pc = "notify"
  /\ PublishOperator(call[r].id)
  /\ latest' = call[r].id
  /\ missed' = {v \in Operators : v \notin connected \/ Full(v)}
  /\ call' = [call EXCEPT ![r] = Idle]
  /\ UNCHANGED <<contactsVars, done, connected, wire, bannerVars, calls, drops>>

SubscribeOperator(v) ==
  /\ v \notin connected
  /\ connected' = connected \cup {v}
  /\ UNCHANGED <<contactsVars, done, call, channel, wire, bannerVars, latest, missed, calls, drops>>

\* serveSSE takes an event out of the channel and writes it to the connection,
\* where the browser has still to read it.
SendEvent(v) ==
  /\ channel[v] # <<>> /\ Len(wire[v]) < Wire
  /\ channel' = [channel EXCEPT ![v] = Tail(@)]
  /\ wire' = [wire EXCEPT ![v] = Append(@, Head(channel[v]))]
  /\ UNCHANGED <<contactsVars, done, call, connected, bannerVars, latest, missed, calls, drops>>

\* The connection breaks; what was written to it is lost with what is in the
\* channel, and the EventSource that connects again asks for nothing.
Disconnect(v) ==
  /\ v \in connected /\ drops < MaxDrops
  /\ connected' = connected \ {v}
  /\ channel' = [channel EXCEPT ![v] = <<>>]
  /\ wire' = [wire EXCEPT ![v] = <<>>]
  /\ missed' = IF channel[v] = <<>> /\ wire[v] = <<>> THEN missed ELSE missed \cup {v}
  /\ drops' = drops + 1
  /\ UNCHANGED <<contactsVars, done, call, bannerVars, latest, calls>>

RenderKeepsFirst(v) ==
  /\ wire[v] # <<>>
  /\ wire' = [wire EXCEPT ![v] = Tail(@)]
  /\ banner' = [banner EXCEPT ![v] = IF v \in hidden THEN Head(wire[v]) ELSE @]
  /\ hidden' = hidden \ {v}
  /\ UNCHANGED <<contactsVars, done, call, connected, channel, dismissed, latest, missed,
                 calls, drops>>

\* There is one banner, and a screen-pop replaces the one before, dismissed or not.
RenderIncomingCall(v) ==
  /\ wire[v] # <<>>
  /\ wire' = [wire EXCEPT ![v] = Tail(@)]
  /\ banner' = [banner EXCEPT ![v] = Head(wire[v])]
  /\ hidden' = hidden \ {v}
  /\ UNCHANGED <<contactsVars, done, call, connected, channel, dismissed, latest, missed,
                 calls, drops>>

\* The dismiss button hides the banner.
Dismiss(v) ==
  /\ v \notin hidden
  /\ hidden' = hidden \cup {v}
  /\ dismissed' = [dismissed EXCEPT ![v] = banner[v]]
  /\ UNCHANGED <<contactsVars, done, call, connected, channel, wire, banner, latest, missed,
                 calls, drops>>

\* Where the banner's link leads: to the only ticket, or for an organization to
\* the queue of its tickets.
ViewLink(pop) ==
  IF Cardinality(pop.tickets) = 1 THEN pop.tickets
  ELSE IF Cardinality(pop.tickets) > 1 /\ pop.party \in Orgs THEN TicketsOf(pop.party)
  ELSE {}

-----------------------------------------------------------------------------

\* Operators resolve, close and reopen tickets.
ChangeStatus(i) ==
  /\ Opened(i)
  /\ done' = IF i \in done THEN done \ {i} ELSE done \cup {i}
  /\ UNCHANGED <<contactsVars, call, pageVars, calls>>

CallsNext ==
  \/ \E r \in Hooks : \/ Ring(r) \/ QueryChannel(r) \/ ReadParty(r) \/ ReadTickets(r)
                      \/ NotifyIncomingCall(r)
  \/ \E v \in Operators : \/ SubscribeOperator(v) \/ SendEvent(v) \/ Disconnect(v)
                          \/ RenderIncomingCall(v) \/ Dismiss(v)
  \/ \E i \in Items : ChangeStatus(i)
  \/ Next /\ UNCHANGED <<done, call, pageVars, calls>>

CallsSpec == CallsInit /\ [][CallsNext]_callsVars

-----------------------------------------------------------------------------
(* Properties.                                                             *)

\* A screen-pop that names nobody links no ticket, however the directory has
\* changed between the queries: who is found first and deleted before the
\* second query takes the tickets' links along.  The exceptions are an error
\* that was ignored and a deletion without foreign keys.
LinkHasCaller ==
  loose \/ \A r \in Hooks : LET pop == call[r].pop IN
    call[r].pc = "notify" /\ pop.party = None /\ ViewLink(pop) # {} => pop.failed

\* What the page has shown, is shown or is going to be shown last.
Newest(v) ==
  IF channel[v] # <<>> THEN Last(channel[v])
  ELSE IF wire[v] # <<>> THEN Last(wire[v]) ELSE banner[v]

\* The page of an operator whom the last call did not pass by shows it, or is
\* going to, and a banner is hidden only while it holds the very call its operator
\* dismissed: dismissing an older call does not hide the ones after it.
LatestOnItsWay ==
  \A v \in Operators : /\ v \notin missed => latest = Newest(v)
                       /\ v \in hidden => dismissed[v] = banner[v]
=============================================================================
