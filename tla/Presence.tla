------------------------------- MODULE Presence -------------------------------
(***************************************************************************)
(* The collision warning of one ticket: the in-memory presence.Tracker,    *)
(* the Heartbeat handler, which records the caller and then lists the      *)
(* others under two separate acquisitions of the mutex, and the item page  *)
(* of app.js, which heartbeats every 10 s and on every change of focus and *)
(* shows the warning of whichever answer arrived last.  Tickets share      *)
(* nothing but the sweep, so one is enough.  Time is counted in ticks and  *)
(* kept as ages; the unit is the heartbeat interval divided by Interval.   *)
(***************************************************************************)
EXTENDS Naturals, FiniteSets

CONSTANTS
  Users,       \* operators
  Pages,       \* browser tabs
  Owner,       \* the operator a tab belongs to
  None,
  Slots,       \* bound: requests in flight
  Interval,    \* 10 s, the timer of the page
  TTL,         \* 30 s, presence.TTL; also the period of the sweep
  Delay,       \* the longest a heartbeat takes to be answered
  MaxMoves,    \* bound: pages opened, closed, and changes of focus
  MaxFaults    \* bound: requests or answers lost and restarts of the server

Mode == {"VIEWING", "DRAFTING"}

ASSUME PresenceConstantsOK ==
  /\ Owner \in [Pages -> Users]
  /\ None \notin Users \cup Pages \cup Mode
  /\ IsFiniteSet(Slots)
  /\ Interval \in Nat \ {0} /\ TTL \in Nat \ {0} /\ Delay \in Nat
  /\ MaxMoves \in Nat /\ MaxFaults \in Nat

VARIABLES
  viewers,  \* Tracker.items of the ticket: user -> mode and age of LastSeen
  sweep,    \* ticks since the last sweep
  page,     \* the tabs
  request,  \* POST /presence requests in flight
  moves, faults

presenceVars == <<viewers, sweep, page, request, moves, faults>>

Gone == [mode |-> None, age |-> 0]
Closed == [open |-> FALSE, focus |-> FALSE, beat |-> 0,
           answered |-> FALSE, warning |-> {}]
Free == [pc |-> "free", page |-> None, user |-> None, mode |-> None,
         wait |-> 0, others |-> {}]

\* beat: ticks since the timer last fired; warning: whom the page says is here
\* too; answered: is that what the running server has answered?
Page == [open : BOOLEAN, focus : BOOLEAN, beat : 0..Interval,
         answered : BOOLEAN, warning : SUBSET Users]

\* page = None: sent by a page that is closed by now; late: answered before the
\* server restarted.
Request == [pc : {"free", "sent", "recorded", "answered", "late"},
            page : Pages \cup {None}, user : Users \cup {None},
            mode : Mode \cup {None}, wait : 0..Delay, others : SUBSET Users]

TypeOK ==
  /\ viewers \in [Users -> [mode : Mode \cup {None}, age : Nat]]
  /\ sweep \in 0..TTL
  /\ page \in [Pages -> Page]
  /\ request \in [Slots -> Request]
  /\ moves \in 0..MaxMoves /\ faults \in 0..MaxFaults

Init ==
  /\ viewers = [u \in Users |-> Gone]
  /\ sweep = 0
  /\ page = [p \in Pages |-> Closed]
  /\ request = [r \in Slots |-> Free]
  /\ moves = 0 /\ faults = 0

Here(u) == viewers[u] # Gone
Expired(u) == viewers[u].age > TTL

-----------------------------------------------------------------------------
(* The page.  (A suffixed name, here and below, is a deliberately wrong    *)
(* variant that the properties must tell from the real definition.)        *)

\* Of two free slots it does not matter which is taken.
Send(req, u, p, m) ==
  /\ \E r \in Slots : req[r] = Free
  /\ request' = [req EXCEPT ![CHOOSE r \in Slots : req[r] = Free] =
       [Free EXCEPT !.pc = "sent", !.page = p, !.user = u, !.mode = m]]

Move == moves < MaxMoves /\ moves' = moves + 1

Shown(focus) == IF focus THEN "DRAFTING" ELSE "VIEWING"

OpenPage(p) ==
  /\ Move
  /\ ~page[p].open
  /\ page' = [page EXCEPT ![p] = [Closed EXCEPT !.open = TRUE]]
  /\ Send(request, Owner[p], p, "VIEWING")
  /\ UNCHANGED <<viewers, sweep, faults>>

Beat(p) ==
  /\ page[p].open /\ page[p].beat = Interval
  /\ page' = [page EXCEPT ![p].beat = 0]
  /\ Send(request, Owner[p], p, Shown(page[p].focus))
  /\ UNCHANGED <<viewers, sweep, moves, faults>>

\* The composer gets or loses the focus.
Refocus(p) ==
  /\ Move
  /\ page[p].open
  /\ page' = [page EXCEPT ![p].focus = ~@]
  /\ Send(request, Owner[p], p, Shown(~page[p].focus))
  /\ UNCHANGED <<viewers, sweep, faults>>

\* A reply has been sent: the page reports VIEWING, wherever the focus is.
Sent(p) ==
  /\ Move
  /\ page[p].open
  /\ Send(request, Owner[p], p, "VIEWING")
  /\ UNCHANGED <<viewers, sweep, page, faults>>

\* beforeunload: the beacon is a POST without a body, which the handler takes
\* for a heartbeat.  Nobody reads its answer, nor those still on their way.
ClosePage(p) ==
  /\ Move
  /\ page[p].open
  /\ page' = [page EXCEPT ![p] = Closed]
  /\ Send([r \in Slots |-> IF request[r].page = p
                           THEN [request[r] EXCEPT !.page = None]
                           ELSE request[r]], Owner[p], None, "VIEWING")
  /\ UNCHANGED <<viewers, sweep, faults>>

ReceiveFirstOnly(r) ==
  /\ request[r].pc \in {"answered", "late"}
  /\ page' = [p \in Pages |->
       IF p = request[r].page /\ ~page[p].answered
       THEN [page[p] EXCEPT !.answered = TRUE, !.warning = request[r].others]
       ELSE page[p]]
  /\ request' = [request EXCEPT ![r] = Free]
  /\ UNCHANGED <<viewers, sweep, moves, faults>>

\* heartbeat() replaces the warning by what the answer says.
Receive(r) ==
  /\ request[r].pc \in {"answered", "late"}
  /\ page' = [p \in Pages |->
       IF p = request[r].page
       THEN [page[p] EXCEPT !.answered = request[r].pc = "answered",
                            !.warning = request[r].others]
       ELSE page[p]]
  /\ request' = [request EXCEPT ![r] = Free]
  /\ UNCHANGED <<viewers, sweep, moves, faults>>

\* The request or its answer is lost; the page ignores the error.
Lose(r) ==
  /\ request[r].pc \in {"sent", "answered", "late"} /\ faults < MaxFaults
  /\ request' = [request EXCEPT ![r] = Free]
  /\ faults' = faults + 1
  /\ UNCHANGED <<viewers, sweep, page, moves>>

-----------------------------------------------------------------------------
(* The tracker.                                                            *)

HeartbeatKeepsMode(r) ==
  LET u == request[r].user IN
  /\ request[r].pc = "sent"
  /\ viewers' = [viewers EXCEPT ![u] =
       [mode |-> IF Here(u) THEN @.mode ELSE request[r].mode, age |-> 0]]
  /\ request' = [request EXCEPT ![r].pc = "recorded"]
  /\ UNCHANGED <<sweep, page, moves, faults>>

HeartbeatUnrecorded(r) ==
  /\ request[r].pc = "sent"
  /\ request' = [request EXCEPT ![r].pc = "recorded"]
  /\ UNCHANGED <<viewers, sweep, page, moves, faults>>

HeartbeatAnyMode(r) ==
  LET u == request[r].user IN
  /\ request[r].pc = "sent"
  /\ viewers' = [viewers EXCEPT ![u] = [mode |-> "IDLE", age |-> 0]]
  /\ request' = [request EXCEPT ![r].pc = "recorded"]
  /\ UNCHANGED <<sweep, page, moves, faults>>

Heartbeat(r) ==
  /\ request[r].pc = "sent"
  /\ viewers' = [viewers EXCEPT ![request[r].user] =
                   [mode |-> request[r].mode, age |-> 0]]
  /\ request' = [request EXCEPT ![r].pc = "recorded"]
  /\ UNCHANGED <<sweep, page, moves, faults>>

Others(r) ==
  /\ request[r].pc = "recorded"
  /\ request' = [request EXCEPT ![r].pc = "answered",
       ![r].others = {v \in Users \ {request[r].user} : Here(v) /\ ~Expired(v)}]
  /\ UNCHANGED <<viewers, sweep, page, moves, faults>>

\* DELETE /presence: no page calls it; a client that does has left the ticket.
Release(u) ==
  /\ \A p \in Pages : Owner[p] = u => ~page[p].open
  /\ Here(u)
  /\ viewers' = [viewers EXCEPT ![u] = Gone]
  /\ UNCHANGED <<sweep, page, request, moves, faults>>

SweptInclusive == {u \in Users : viewers[u].age >= TTL}
Swept == {u \in Users : Expired(u)}

Sweep ==
  /\ sweep = TTL
  /\ viewers' = [u \in Users |-> IF u \in Swept THEN Gone ELSE viewers[u]]
  /\ sweep' = 0
  /\ UNCHANGED <<page, request, moves, faults>>

\* The tracker does not survive a restart, and neither do requests it has not
\* answered; the pages stay open, and answers on their way arrive.
Restart ==
  /\ faults < MaxFaults
  /\ viewers' = [u \in Users |-> Gone]
  /\ sweep' = 0
  /\ page' = [p \in Pages |-> [page[p] EXCEPT !.answered = FALSE]]
  /\ request' = [r \in Slots |-> IF request[r].pc \in {"answered", "late"}
                                 THEN [request[r] EXCEPT !.pc = "late"] ELSE Free]
  /\ faults' = faults + 1
  /\ UNCHANGED <<moves>>

-----------------------------------------------------------------------------
(* Time.  The timers of the pages and of the sweep fire when they are due, *)
(* and a heartbeat is answered within Delay.                               *)

Pending(r) == request[r].pc \in {"sent", "recorded"}

Tick ==
  /\ sweep < TTL
  /\ \A p \in Pages : page[p].open => page[p].beat < Interval
  /\ \A r \in Slots : Pending(r) => request[r].wait < Delay
  /\ viewers' = [u \in Users |-> IF Here(u) THEN [viewers[u] EXCEPT !.age = @ + 1]
                                 ELSE Gone]
  /\ sweep' = sweep + 1
  /\ page' = [p \in Pages |-> IF page[p].open THEN [page[p] EXCEPT !.beat = @ + 1]
                              ELSE Closed]
  /\ request' = [r \in Slots |->
       IF Pending(r) THEN [request[r] EXCEPT !.wait = @ + 1] ELSE request[r]]
  /\ UNCHANGED <<moves, faults>>

Next ==
  \/ \E p \in Pages : OpenPage(p) \/ Beat(p) \/ Refocus(p) \/ Sent(p) \/ ClosePage(p)
  \/ \E r \in Slots : Receive(r) \/ Lose(r) \/ Heartbeat(r) \/ Others(r)
  \/ \E u \in Users : Release(u)
  \/ Sweep \/ Restart \/ Tick

\* The timers keep firing, and every request is worked off.
Fairness ==
  /\ WF_presenceVars(Tick) /\ WF_presenceVars(Sweep)
  /\ \A p \in Pages : WF_presenceVars(Beat(p))
  /\ \A r \in Slots : WF_presenceVars(Heartbeat(r) \/ Others(r) \/ Receive(r))

Spec == Init /\ [][Next]_presenceVars /\ Fairness

-----------------------------------------------------------------------------
(* Properties.                                                             *)

\* An operator whose page is open stays listed for the others: the timer, the
\* time to live and the sweep leave room for a slow and for a lost heartbeat.
StillListed ==
  \A p \in Pages : page[p].open /\ page[p].answered =>
    Here(Owner[p]) /\ ~Expired(Owner[p])

\* Of two operators who have the ticket open and whose pages show an answer of
\* the running server, at least one is warned of the other, however requests
\* interleave and answers arrive: recording comes before listing.
OneIsWarned ==
  \A p, q \in Pages :
    Owner[p] # Owner[q] /\ page[p].answered /\ page[q].answered =>
      Owner[q] \in page[p].warning \/ Owner[p] \in page[q].warning

\* Two operators who keep the ticket open are both warned again and again, in
\* spite of a server that restarts, forgets them and drops their requests.
BothAreWarned ==
  \A p, q \in Pages : Owner[p] # Owner[q] =>
    (<>[](page[p].open /\ page[q].open) =>
       []<>(Owner[q] \in page[p].warning /\ Owner[p] \in page[q].warning))

\* An operator who keeps drafting is listed as drafting in the end, although
\* the heartbeats of a focus change can be handled in either order.
DraftsShow ==
  \A p \in Pages :
    <>[](page[p].open /\ page[p].focus) =>
      <>[](viewers[Owner[p]].mode = "DRAFTING")
=============================================================================
