--------------------------- MODULE Presence_proofs ---------------------------
(* Theorems about the collision warning, for every number of operators, tabs *)
(* and requests in flight, and for every setting of the timers: how much     *)
(* loss and delay the time to live outlasts, and why one of two operators is *)
(* always warned.                                                            *)
EXTENDS Presence, FiniteSetTheorems, TLAPS

\* A request belongs to an open page, or to none; one on its way names who is
\* where.  A closed page shows nothing.
RequestsInv ==
  /\ \A p \in Pages : ~page[p].open => page[p] = Closed
  /\ \A r \in Slots : request[r].pc # "free" =>
       request[r].user \in Users /\ request[r].mode \in Mode
  /\ \A r \in Slots, p \in Pages : request[r].page = p =>
       page[p].open /\ request[r].user = Owner[p]

\* The running server has recorded the page since it was opened.
Recorded(p) ==
  page[p].answered \/ \E r \in Slots :
    request[r].page = p /\ request[r].pc \in {"recorded", "answered"}

\* Heartbeats of the page that the server may still record, sent w ticks ago or
\* earlier; together with the faults so far, all that can have delayed it.
Waiting(p, w) ==
  {r \in Slots : request[r].pc = "sent" /\ request[r].page = p /\ request[r].wait >= w}

Delayed(p, w) == faults + Cardinality(Waiting(p, w))

\* Every Interval the page sent a heartbeat since its owner was recorded last,
\* and each of them is lost or still waiting.
Fresh(p) ==
  LET age == viewers[Owner[p]].age
  IN  /\ Here(Owner[p])
      /\ age <= page[p].beat + Delayed(p, 0) * Interval
      /\ \A w \in Nat \ {0} : age < w + (Delayed(p, w) + 1) * Interval

\* The time to live outlasts MaxFaults lost heartbeats in a row and a slow one.
RoomForFaults == TTL >= (MaxFaults + 1) * Interval + Delay

PresenceInv ==
  /\ TypeOK
  /\ RequestsInv
  /\ RoomForFaults
  /\ \A p \in Pages : Recorded(p) => Fresh(p)

\* The page shows x, or is about to: an answer of the running server.
Answer(p, x) ==
  \/ page[p].answered /\ page[p].warning = x
  \/ \E r \in Slots : request[r].page = p /\ request[r].pc = "answered" /\ request[r].others = x

\* Of two answers for two operators, one names the other operator.
WarningInv ==
  \A p, q \in Pages : Owner[p] # Owner[q] =>
    \A x, y : Answer(p, x) /\ Answer(q, y) => Owner[q] \in x \/ Owner[p] \in y

-----------------------------------------------------------------------------
(* Types.                                                                    *)

LEMMA Constants ==
  /\ Owner \in [Pages -> Users] /\ IsFiniteSet(Slots)
  /\ None \notin Users /\ None \notin Pages /\ None \notin Mode
  /\ "VIEWING" \in Mode /\ "DRAFTING" \in Mode
  /\ Interval \in Nat /\ Interval > 0 /\ TTL \in Nat /\ TTL > 0 /\ Delay \in Nat
  /\ MaxMoves \in Nat /\ MaxFaults \in Nat
BY PresenceConstantsOK DEF Mode

LEMMA RecordTypes ==
  /\ Gone \in [mode : Mode \cup {None}, age : Nat]
  /\ Closed \in Page /\ ~Closed.open /\ ~Closed.answered
  /\ Free \in Request /\ Free.pc = "free" /\ Free.page = None /\ Free.wait = 0
BY Constants DEF Gone, Closed, Page, Free, Request

\* What sending leaves in the slots: one that was free carries the request.
LEMMA SendIs ==
  ASSUME NEW req \in [Slots -> Request], NEW u \in Users, NEW p \in Pages \cup {None},
         NEW m \in Mode, Send(req, u, p, m)
  PROVE  \E r \in Slots, x \in Request :
           /\ req[r] = Free /\ request' = [req EXCEPT ![r] = x]
           /\ x.pc = "sent" /\ x.page = p /\ x.user = u /\ x.mode = m /\ x.wait = 0
<1> DEFINE r == CHOOSE s \in Slots : req[s] = Free
           x == [Free EXCEPT !.pc = "sent", !.page = p, !.user = u, !.mode = m]
<1>1. r \in Slots /\ req[r] = Free
  BY DEF Send
<1>2. request' = [req EXCEPT ![r] = x]
  BY DEF Send
<1>3. /\ x \in Request
      /\ x.pc = "sent" /\ x.page = p /\ x.user = u /\ x.mode = m /\ x.wait = 0
  BY RecordTypes DEF Request
<1> HIDE DEF r, x
<1> QED
  BY <1>1, <1>2, <1>3

\* The page's requests without it, and the pages of the steps that send.
LEMMA SendCases ==
  ASSUME TypeOK, NEW p \in Pages,
         OpenPage(p) \/ Beat(p) \/ Refocus(p) \/ Sent(p)
  PROVE  \E m \in Mode : Send(request, Owner[p], p, m)
BY Constants DEF OpenPage, Beat, Refocus, Sent, Shown

Unlinked(p) ==
  [r \in Slots |-> IF request[r].page = p THEN [request[r] EXCEPT !.page = None]
                  ELSE request[r]]

LEMMA UnlinkedType ==
  ASSUME TypeOK, NEW p \in Pages
  PROVE  Unlinked(p) \in [Slots -> Request]
BY DEF TypeOK, Unlinked, Request

LEMMA SentRequests ==
  ASSUME TypeOK, NEW p \in Pages,
         OpenPage(p) \/ Beat(p) \/ Refocus(p) \/ Sent(p) \/ ClosePage(p)
  PROVE  request' \in [Slots -> Request]
<1>1. request \in [Slots -> Request] /\ Unlinked(p) \in [Slots -> Request] /\ Owner[p] \in Users
  BY Constants, UnlinkedType DEF TypeOK
<1>2. CASE ClosePage(p)
  <2>1. Send(Unlinked(p), Owner[p], None, "VIEWING")
    BY <1>2 DEF ClosePage, Unlinked
  <2> QED
    BY <1>1, <2>1, SendIs, Constants
<1>3. CASE OpenPage(p) \/ Beat(p) \/ Refocus(p) \/ Sent(p)
  BY <1>1, <1>3, SendCases, SendIs
<1> QED
  BY <1>2, <1>3

LEMMA TypeStep == TypeOK /\ [Next]_presenceVars => TypeOK'
<1> SUFFICES ASSUME TypeOK, [Next]_presenceVars PROVE TypeOK'
  OBVIOUS
<1>1. /\ viewers \in [Users -> [mode : Mode \cup {None}, age : Nat]]
      /\ sweep \in 0..TTL /\ page \in [Pages -> Page] /\ request \in [Slots -> Request]
      /\ moves \in 0..MaxMoves /\ faults \in 0..MaxFaults
  BY DEF TypeOK
<1>2. Move => moves' \in 0..MaxMoves
  BY <1>1, Constants DEF Move
<1>3. faults < MaxFaults => faults + 1 \in 0..MaxFaults
  BY <1>1, Constants
<1>4. ASSUME NEW p \in Pages,
             OpenPage(p) \/ Beat(p) \/ Refocus(p) \/ Sent(p) \/ ClosePage(p)
      PROVE  TypeOK'
  <2>1. page' \in [Pages -> Page]
    <3>1. page[p] \in Page /\ Closed \in Page
      BY <1>1, RecordTypes
    <3>2. CASE OpenPage(p)
      <4>1. [Closed EXCEPT !.open = TRUE] \in Page
        BY <3>1 DEF Page
      <4> QED
        BY <1>1, <3>2, <4>1 DEF OpenPage
    <3>3. CASE Beat(p)
      <4>1. [page[p] EXCEPT !.beat = 0] \in Page
        BY <3>1, Constants DEF Page
      <4> QED
        BY <1>1, <3>3, <4>1 DEF Beat
    <3>4. CASE Refocus(p)
      <4>1. [page[p] EXCEPT !.focus = ~@] \in Page
        BY <3>1 DEF Page
      <4> QED
        BY <1>1, <3>4, <4>1 DEF Refocus
    <3>5. CASE Sent(p) \/ ClosePage(p)
      BY <1>1, <3>1, <3>5 DEF Sent, ClosePage
    <3> QED
      BY <1>4, <3>2, <3>3, <3>4, <3>5
  <2>2. request' \in [Slots -> Request]
    BY <1>4, SentRequests
  <2>3. moves' \in 0..MaxMoves /\ UNCHANGED <<viewers, sweep, faults>>
    BY <1>1, <1>2, <1>4 DEF OpenPage, Beat, Refocus, Sent, ClosePage
  <2> QED
    BY <1>1, <2>1, <2>2, <2>3 DEF TypeOK
<1>5. ASSUME NEW r \in Slots, Receive(r) PROVE TypeOK'
  <2>1. request' \in [Slots -> Request]
    BY <1>1, <1>5, RecordTypes DEF Receive
  <2>2. ASSUME NEW q \in Pages PROVE page'[q] \in Page
    <3>1. request[r].others \in SUBSET Users /\ (request[r].pc = "answered") \in BOOLEAN
      BY <1>1 DEF Request
    <3>2. \/ page'[q] = [page[q] EXCEPT !.answered = (request[r].pc = "answered"),
                                      !.warning = request[r].others]
          \/ page'[q] = page[q]
      BY <1>5 DEF Receive
    <3> DEFINE a == request[r].pc = "answered"
               w == request[r].others
    <3> HIDE DEF a, w
    <3> QED
      BY <1>1, <3>1, <3>2 DEF Page, a, w
  <2>3. page' \in [Pages -> Page]
    BY <1>5, <2>2 DEF Receive
  <2> QED
    BY <1>1, <1>5, <2>1, <2>3 DEF TypeOK, Receive
<1>6. ASSUME NEW r \in Slots, Lose(r) PROVE TypeOK'
  <2>1. request' \in [Slots -> Request]
    BY <1>1, <1>6, RecordTypes DEF Lose
  <2> QED
    BY <1>1, <1>3, <1>6, <2>1 DEF TypeOK, Lose
<1>7. ASSUME NEW r \in Slots, Heartbeat(r) PROVE TypeOK'
  <2>1. request' \in [Slots -> Request]
    BY <1>1, <1>7 DEF Heartbeat, Request
  <2>2. viewers' \in [Users -> [mode : Mode \cup {None}, age : Nat]]
    BY <1>1, <1>7 DEF Heartbeat, Request
  <2> QED
    BY <1>1, <1>7, <2>1, <2>2 DEF TypeOK, Heartbeat
<1>8. ASSUME NEW r \in Slots, Others(r) PROVE TypeOK'
  <2>1. request' \in [Slots -> Request]
    <3> DEFINE listed == {v \in Users \ {request[r].user} : Here(v) /\ ~Expired(v)}
    <3>1. request' = [request EXCEPT ![r].pc = "answered", ![r].others = listed]
      BY <1>8 DEF Others
    <3>2. listed \in SUBSET Users
      OBVIOUS
    <3> HIDE DEF listed
    <3>3. [request[r] EXCEPT !.pc = "answered", !.others = listed] \in Request
      BY <1>1, <3>2 DEF Request
    <3> QED
      BY <1>1, <3>1, <3>3
  <2> QED
    BY <1>1, <1>8, <2>1 DEF TypeOK, Others
<1>9. CASE (\E u \in Users : Release(u)) \/ Sweep
  <2>1. viewers' \in [Users -> [mode : Mode \cup {None}, age : Nat]]
    BY <1>1, <1>9, RecordTypes DEF Release, Sweep
  <2>2. sweep' \in 0..TTL /\ UNCHANGED <<page, request, moves, faults>>
    BY <1>1, <1>9, Constants DEF Release, Sweep
  <2> QED
    BY <1>1, <2>1, <2>2 DEF TypeOK
<1>10. CASE Restart
  <2>1. request' \in [Slots -> Request] /\ page' \in [Pages -> Page]
    <3>1. \A r \in Slots : [request[r] EXCEPT !.pc = "late"] \in Request
      BY <1>1 DEF Request
    <3>2. \A p \in Pages : [page[p] EXCEPT !.answered = FALSE] \in Page
      BY <1>1 DEF Page
    <3> QED
      BY <1>10, <3>1, <3>2, RecordTypes DEF Restart
  <2>2. viewers' \in [Users -> [mode : Mode \cup {None}, age : Nat]] /\ sweep' \in 0..TTL
    BY <1>10, RecordTypes, Constants DEF Restart
  <2> QED
    BY <1>1, <1>3, <1>10, <2>1, <2>2 DEF TypeOK, Restart
<1>11. CASE Tick
  <2>1. request' \in [Slots -> Request]
    <3>1. ASSUME NEW r \in Slots, Pending(r)
          PROVE  [request[r] EXCEPT !.wait = @ + 1] \in Request
      <4>1. request[r] \in Request /\ request[r].wait < Delay
        BY <1>1, <1>11, <3>1 DEF Tick
      <4>2. request[r].wait + 1 \in 0..Delay
        BY <4>1, Constants DEF Request
      <4> QED
        BY <4>1, <4>2 DEF Request
    <3> QED
      BY <1>1, <1>11, <3>1 DEF Tick
  <2>2. page' \in [Pages -> Page]
    BY <1>1, <1>11, RecordTypes, Constants DEF Tick, Page
  <2>3. viewers' \in [Users -> [mode : Mode \cup {None}, age : Nat]]
    BY <1>1, <1>11, RecordTypes DEF Tick
  <2>4. sweep' \in 0..TTL /\ UNCHANGED <<moves, faults>>
    BY <1>1, <1>11, Constants DEF Tick
  <2> QED
    BY <1>1, <2>1, <2>2, <2>3, <2>4 DEF TypeOK
<1>12. CASE UNCHANGED presenceVars
  BY <1>1, <1>12 DEF TypeOK, presenceVars
<1> QED
  BY <1>4, <1>5, <1>6, <1>7, <1>8, <1>9, <1>10, <1>11, <1>12 DEF Next

LEMMA TypeInit == Init => TypeOK
BY RecordTypes, Constants DEF Init, TypeOK

\* What the tracker, the pages and the requests hold is of its type.
THEOREM TypeCorrect == Spec => []TypeOK
BY TypeInit, TypeStep, PTL DEF Spec

-----------------------------------------------------------------------------
(* Requests and the pages they belong to.                                    *)

LEMMA SendEffects ==
  ASSUME TypeOK, NEW p \in Pages, OpenPage(p) \/ Beat(p) \/ Refocus(p) \/ Sent(p)
  PROVE  /\ \E r \in Slots, x \in Request :
              /\ request[r] = Free /\ request' = [request EXCEPT ![r] = x]
              /\ x.pc = "sent" /\ x.page = p /\ x.user = Owner[p] /\ x.mode \in Mode
              /\ x.wait = 0
         /\ page'[p].open
         /\ \A q \in Pages \ {p} : page'[q] = page[q]
         /\ UNCHANGED <<viewers, faults>>
<1>1. request \in [Slots -> Request] /\ page \in [Pages -> Page] /\ Owner[p] \in Users
  BY Constants DEF TypeOK
<1>2. \E r \in Slots, x \in Request :
        /\ request[r] = Free /\ request' = [request EXCEPT ![r] = x]
        /\ x.pc = "sent" /\ x.page = p /\ x.user = Owner[p] /\ x.mode \in Mode /\ x.wait = 0
  <2>1. PICK m \in Mode : Send(request, Owner[p], p, m)
    BY SendCases
  <2> QED
    BY <1>1, <2>1, SendIs
<1>3. page[p] \in Page
  BY <1>1
<1>4. /\ [Closed EXCEPT !.open = TRUE].open
      /\ page[p].open => [page[p] EXCEPT !.beat = 0].open /\ [page[p] EXCEPT !.focus = ~@].open
  BY <1>3, RecordTypes DEF Page
<1>5. page'[p].open /\ \A q \in Pages \ {p} : page'[q] = page[q]
  BY <1>1, <1>4 DEF OpenPage, Beat, Refocus, Sent
<1> QED
  BY <1>2, <1>5 DEF OpenPage, Beat, Refocus, Sent

LEMMA CloseEffects ==
  ASSUME TypeOK, NEW p \in Pages, ClosePage(p)
  PROVE  /\ \E r \in Slots, x \in Request :
              /\ request' = [Unlinked(p) EXCEPT ![r] = x]
              /\ x.pc = "sent" /\ x.page = None /\ x.user = Owner[p] /\ x.mode \in Mode
              /\ request[r].pc = "free"
         /\ page' = [page EXCEPT ![p] = Closed]
         /\ UNCHANGED <<viewers, faults>>
<1>1. /\ Unlinked(p) \in [Slots -> Request] /\ page \in [Pages -> Page] /\ Owner[p] \in Users
      /\ request \in [Slots -> Request]
  BY Constants, UnlinkedType DEF TypeOK
<1>2. Send(Unlinked(p), Owner[p], None, "VIEWING")
  BY DEF ClosePage, Unlinked
<1>3. PICK r \in Slots, x \in Request :
        /\ Unlinked(p)[r] = Free /\ request' = [Unlinked(p) EXCEPT ![r] = x]
        /\ x.pc = "sent" /\ x.page = None /\ x.user = Owner[p] /\ x.mode \in Mode
  BY <1>1, <1>2, SendIs, Constants
<1>4. request[r].pc = "free"
  BY <1>1, <1>3, RecordTypes DEF Unlinked, Request
<1> QED
  BY <1>3, <1>4 DEF ClosePage

\* A step that leaves the pages as open as they are and changes no request but
\* in how far it got, or frees it.
LEMMA SameLinks ==
  ASSUME RequestsInv,
         \A p \in Pages : page'[p].open = page[p].open /\ (~page[p].open => page'[p] = page[p]),
         \A r \in Slots : \/ request'[r] = Free
                          \/ /\ request[r].pc # "free"
                             /\ request'[r].page = request[r].page
                             /\ request'[r].user = request[r].user
                             /\ request'[r].mode = request[r].mode
                          \/ request'[r] = request[r]
  PROVE  RequestsInv'
<1>1. \A r \in Slots : request'[r].pc # "free" =>
        request'[r].user \in Users /\ request'[r].mode \in Mode
  BY RecordTypes DEF RequestsInv
<1>2. \A r \in Slots, p \in Pages : request'[r].page = p =>
        page'[p].open /\ request'[r].user = Owner[p]
  BY RecordTypes, Constants DEF RequestsInv
<1> QED
  BY <1>1, <1>2 DEF RequestsInv

LEMMA RequestsStep == TypeOK /\ RequestsInv /\ [Next]_presenceVars => RequestsInv'
<1> SUFFICES ASSUME TypeOK, RequestsInv, [Next]_presenceVars PROVE RequestsInv'
  OBVIOUS
<1>1. page \in [Pages -> Page] /\ request \in [Slots -> Request]
  BY DEF TypeOK
<1>2. ASSUME NEW p \in Pages, OpenPage(p) \/ Beat(p) \/ Refocus(p) \/ Sent(p)
      PROVE  RequestsInv'
  <2>1. PICK r \in Slots, x \in Request :
          /\ request' = [request EXCEPT ![r] = x]
          /\ x.page = p /\ x.user = Owner[p] /\ x.mode \in Mode
    BY <1>2, SendEffects
  <2>2. page'[p].open /\ \A q \in Pages \ {p} : page'[q] = page[q]
    BY <1>2, SendEffects
  <2>3. \A s \in Slots : request'[s] = IF s = r THEN x ELSE request[s]
    BY <1>1, <2>1
  <2>4. \A q \in Pages : page[q].open => page'[q].open
    BY <2>2
  <2>5. \A s \in Slots : request'[s].pc # "free" =>
          request'[s].user \in Users /\ request'[s].mode \in Mode
    BY <2>1, <2>3, Constants DEF RequestsInv
  <2>6. \A s \in Slots, q \in Pages : request'[s].page = q =>
          page'[q].open /\ request'[s].user = Owner[q]
    BY <2>1, <2>2, <2>3, <2>4 DEF RequestsInv
  <2> QED
    BY <2>2, <2>5, <2>6 DEF RequestsInv
<1>3. ASSUME NEW p \in Pages, ClosePage(p) PROVE RequestsInv'
  <2>1. PICK r \in Slots, x \in Request :
          /\ request' = [Unlinked(p) EXCEPT ![r] = x]
          /\ x.page = None /\ x.user = Owner[p] /\ x.mode \in Mode
    BY <1>3, CloseEffects
  <2>2. /\ page'[p] = Closed /\ \A q \in Pages \ {p} : page'[q] = page[q]
        /\ Unlinked(p) \in [Slots -> Request]
    BY <1>1, <1>3, CloseEffects, UnlinkedType
  <2>3. \A s \in Slots : request'[s] = IF s = r THEN x ELSE Unlinked(p)[s]
    BY <2>1, <2>2
  <2>4. \A s \in Slots : /\ Unlinked(p)[s].user = request[s].user
                         /\ Unlinked(p)[s].mode = request[s].mode
                         /\ Unlinked(p)[s].pc = request[s].pc
                         /\ Unlinked(p)[s].page =
                              IF request[s].page = p THEN None ELSE request[s].page
    BY <1>1 DEF Unlinked, Request
  <2>5. \A s \in Slots : request'[s].pc # "free" =>
          request'[s].user \in Users /\ request'[s].mode \in Mode
    BY <2>1, <2>3, <2>4, Constants DEF RequestsInv
  <2>6. \A s \in Slots, q \in Pages : request'[s].page = q =>
          page'[q].open /\ request'[s].user = Owner[q]
    BY <2>1, <2>2, <2>3, <2>4, Constants DEF RequestsInv
  <2> QED
    BY <2>2, <2>5, <2>6 DEF RequestsInv
<1>4. ASSUME NEW r \in Slots, Receive(r) PROVE RequestsInv'
  <2>1. /\ request[r].pc # "free"
        /\ \A s \in Slots : request'[s] = IF s = r THEN Free ELSE request[s]
    BY <1>1, <1>4 DEF Receive
  <2>2. \A p \in Pages : page'[p].open = page[p].open /\ (~page[p].open => page'[p] = page[p])
    BY <1>1, <1>4 DEF Receive, Page, RequestsInv
  <2> QED
    BY <2>1, <2>2, SameLinks
<1>5. ASSUME NEW r \in Slots, Lose(r) \/ Heartbeat(r) \/ Others(r) PROVE RequestsInv'
  <2>1. /\ page' = page /\ request[r].pc # "free"
        /\ \A s \in Slots \ {r} : request'[s] = request[s]
    BY <1>1, <1>5 DEF Lose, Heartbeat, Others
  <2>2. \/ request'[r] = Free
        \/ /\ request'[r].page = request[r].page /\ request'[r].user = request[r].user
           /\ request'[r].mode = request[r].mode
    BY <1>1, <1>5 DEF Lose, Heartbeat, Others, Request
  <2> QED
    BY <2>1, <2>2, SameLinks
<1>6. CASE (\E u \in Users : Release(u)) \/ Sweep \/ UNCHANGED presenceVars
  BY <1>6, SameLinks DEF Release, Sweep, presenceVars
<1>7. CASE Restart
  <2>1. \A p \in Pages : page'[p].open = page[p].open /\ (~page[p].open => page'[p] = page[p])
    BY <1>1, <1>7, RecordTypes DEF Restart, Page, RequestsInv, Closed
  <2>2. \A r \in Slots : \/ request'[r] = Free
                         \/ /\ request[r].pc # "free"
                            /\ request'[r] = [request[r] EXCEPT !.pc = "late"]
    BY <1>7 DEF Restart
  <2>3. \A r \in Slots : \/ request'[r] = Free
                         \/ /\ request[r].pc # "free"
                            /\ request'[r].page = request[r].page
                            /\ request'[r].user = request[r].user
                            /\ request'[r].mode = request[r].mode
    <3>1. ASSUME NEW x \in Request
          PROVE  LET y == [x EXCEPT !.pc = "late"]
                 IN  y.page = x.page /\ y.user = x.user /\ y.mode = x.mode
      BY DEF Request
    <3>2. \A r \in Slots : request[r] \in Request
      BY <1>1
    <3> QED
      BY <2>2, <3>1, <3>2
  <2> QED
    BY <2>1, <2>3, SameLinks
<1>8. CASE Tick
  <2>1. \A p \in Pages : page'[p].open = page[p].open /\ (~page[p].open => page'[p] = page[p])
    BY <1>1, <1>8, RecordTypes DEF Tick, Page, RequestsInv
  <2>2. \A r \in Slots : \/ request'[r] = request[r]
                         \/ /\ request[r].pc # "free"
                            /\ request'[r] = [request[r] EXCEPT !.wait = @ + 1]
    BY <1>8 DEF Tick, Pending
  <2>3. \A r \in Slots : \/ request'[r] = request[r]
                         \/ /\ request[r].pc # "free"
                            /\ request'[r].page = request[r].page
                            /\ request'[r].user = request[r].user
                            /\ request'[r].mode = request[r].mode
    <3>1. ASSUME NEW x \in Request
          PROVE  LET y == [x EXCEPT !.wait = @ + 1]
                 IN  y.page = x.page /\ y.user = x.user /\ y.mode = x.mode
      BY DEF Request
    <3>2. \A r \in Slots : request[r] \in Request
      BY <1>1
    <3> QED
      BY <2>2, <3>1, <3>2
  <2> QED
    BY <2>1, <2>3, SameLinks
<1> QED
  BY <1>2, <1>3, <1>4, <1>5, <1>6, <1>7, <1>8 DEF Next

-----------------------------------------------------------------------------
(* How old a record can be.                                                  *)

LEMMA Times ==
  ASSUME NEW m \in Nat, NEW n \in Nat
  PROVE  /\ m * Interval \in Nat /\ (n + 1) * Interval = n * Interval + Interval
         /\ m <= n => m * Interval <= n * Interval
BY Constants

LEMMA SomeSlots ==
  ASSUME NEW S \in SUBSET Slots
  PROVE  IsFiniteSet(S) /\ Cardinality(S) \in Nat
BY Constants, FS_Subset, FS_CardinalityType

LEMMA DelayedType ==
  ASSUME TypeOK, NEW p, NEW w
  PROVE  /\ IsFiniteSet(Waiting(p, w)) /\ Cardinality(Waiting(p, w)) \in Nat
         /\ Delayed(p, w) \in Nat /\ faults \in Nat
<1>1. Waiting(p, w) \in SUBSET Slots /\ faults \in Nat
  BY Constants DEF Waiting, TypeOK
<1> QED
  BY <1>1, SomeSlots DEF Delayed

LEMMA DelayedTypeNext ==
  ASSUME TypeOK', NEW p, NEW w
  PROVE  /\ IsFiniteSet(Waiting(p, w)') /\ Cardinality(Waiting(p, w)') \in Nat
         /\ Delayed(p, w)' \in Nat
<1>1. Waiting(p, w)' \in SUBSET Slots /\ faults' \in Nat
  BY Constants DEF Waiting, TypeOK
<1> QED
  BY <1>1, SomeSlots DEF Delayed

\* What is still waiting, or lost, is no less after a step that takes away no
\* waiting heartbeat, or only the one it counts as lost.
LEMMA DelayedKept ==
  ASSUME TypeOK, TypeOK', NEW p, NEW w, NEW v,
         \/ faults' = faults /\ Waiting(p, w) \subseteq Waiting(p, v)'
         \/ faults' = faults + 1 /\ \E r : Waiting(p, w) \subseteq Waiting(p, v)' \cup {r}
  PROVE  Delayed(p, w) <= Delayed(p, v)'
<1> DEFINE A == Waiting(p, w)
           B == Waiting(p, v)'
<1>1. IsFiniteSet(A) /\ Cardinality(A) \in Nat /\ IsFiniteSet(B) /\ Cardinality(B) \in Nat
  BY DelayedType, DelayedTypeNext
<1>2. faults \in Nat /\ Delayed(p, w) = faults + Cardinality(A)
      /\ Delayed(p, v)' = faults' + Cardinality(B)
  BY DelayedType DEF Delayed
<1>3. \/ faults' = faults /\ A \subseteq B
      \/ faults' = faults + 1 /\ \E r : A \subseteq B \cup {r}
  OBVIOUS
<1> HIDE DEF A, B
<1>4. CASE faults' = faults /\ A \subseteq B
  <2>1. Cardinality(A) <= Cardinality(B)
    BY <1>1, <1>4, FS_Subset
  <2> QED
    BY <1>1, <1>2, <1>4, <2>1
<1>5. CASE faults' = faults + 1 /\ \E r : A \subseteq B \cup {r}
  <2>1. PICK r : A \subseteq B \cup {r}
    BY <1>5
  <2>2. /\ IsFiniteSet(B \cup {r})
        /\ Cardinality(B \cup {r}) \in {Cardinality(B), Cardinality(B) + 1}
    BY <1>1, FS_AddElement
  <2>3. Cardinality(A) <= Cardinality(B \cup {r})
    BY <2>1, <2>2, FS_Subset
  <2> QED
    BY <1>1, <1>2, <1>5, <2>2, <2>3
<1> QED
  BY <1>3, <1>4, <1>5

LEMMA FreshKept ==
  ASSUME TypeOK, TypeOK', NEW p \in Pages, Fresh(p),
         viewers'[Owner[p]] = viewers[Owner[p]], page'[p].beat = page[p].beat,
         \A w \in Nat : Delayed(p, w) <= Delayed(p, w)'
  PROVE  Fresh(p)'
<1> DEFINE age == viewers[Owner[p]].age
           beat == page[p].beat
<1>1. Owner[p] \in Users /\ age \in Nat /\ beat \in Nat /\ Here(Owner[p])'
  BY Constants DEF TypeOK, Page, Here, Fresh
<1>2. \A w \in Nat : Delayed(p, w) \in Nat /\ Delayed(p, w)' \in Nat
  BY DelayedType, DelayedTypeNext
<1>3. \A w \in Nat : /\ Delayed(p, w) * Interval <= Delayed(p, w)' * Interval
                     /\ (Delayed(p, w) + 1) * Interval <= (Delayed(p, w)' + 1) * Interval
                     /\ Delayed(p, w) * Interval \in Nat /\ Delayed(p, w)' * Interval \in Nat
                     /\ (Delayed(p, w) + 1) * Interval \in Nat
                     /\ (Delayed(p, w)' + 1) * Interval \in Nat
  <2> SUFFICES ASSUME NEW w \in Nat
               PROVE  /\ Delayed(p, w) * Interval <= Delayed(p, w)' * Interval
                      /\ (Delayed(p, w) + 1) * Interval <= (Delayed(p, w)' + 1) * Interval
                      /\ Delayed(p, w) * Interval \in Nat /\ Delayed(p, w)' * Interval \in Nat
                      /\ (Delayed(p, w) + 1) * Interval \in Nat
                      /\ (Delayed(p, w)' + 1) * Interval \in Nat
    OBVIOUS
  <2>1. Delayed(p, w) \in Nat /\ Delayed(p, w)' \in Nat /\ Delayed(p, w) <= Delayed(p, w)'
    BY <1>2
  <2> QED
    BY <2>1, Times
<1>4. age <= beat + Delayed(p, 0)' * Interval
  <2>1. age <= beat + Delayed(p, 0) * Interval
    BY DEF Fresh
  <2> HIDE DEF age, beat
  <2> QED
    BY <1>1, <1>3, <2>1
<1>5. ASSUME NEW w \in Nat \ {0} PROVE age < w + (Delayed(p, w)' + 1) * Interval
  <2>1. age < w + (Delayed(p, w) + 1) * Interval
    BY DEF Fresh
  <2> HIDE DEF age, beat
  <2> QED
    BY <1>1, <1>3, <2>1
<1> QED
  BY <1>1, <1>4, <1>5 DEF Fresh

\* A record just made is fresh.
LEMMA FreshRecord ==
  ASSUME TypeOK', NEW p \in Pages, viewers'[Owner[p]].age = 0, Here(Owner[p])'
  PROVE  Fresh(p)'
<1>1. page'[p].beat \in Nat
  BY DEF TypeOK, Page
<1>2. \A w \in Nat : Delayed(p, w)' \in Nat
  BY DelayedTypeNext
<1>3. \A w \in Nat : Delayed(p, w)' * Interval \in Nat /\ (Delayed(p, w)' + 1) * Interval \in Nat
  BY <1>2, Times
<1> QED
  BY <1>1, <1>3 DEF Fresh

\* A fresh record has not expired: this is where the time to live counts.
LEMMA FreshLasts ==
  ASSUME TypeOK, RoomForFaults, NEW p \in Pages, Fresh(p)
  PROVE  Here(Owner[p]) /\ viewers[Owner[p]].age <= TTL
<1> DEFINE age == viewers[Owner[p]].age
<1>1. Owner[p] \in Users /\ age \in Nat /\ faults \in Nat /\ faults <= MaxFaults
  BY Constants DEF TypeOK
<1>2. Waiting(p, Delay + 1) = {}
  BY Constants DEF Waiting, TypeOK, Request
<1>3. Delayed(p, Delay + 1) = faults
  BY <1>1, <1>2, FS_EmptySet DEF Delayed
<1>4. age < Delay + 1 + (faults + 1) * Interval
  BY <1>3, Constants DEF Fresh
<1>5. /\ (faults + 1) * Interval <= (MaxFaults + 1) * Interval
      /\ (faults + 1) * Interval \in Nat /\ (MaxFaults + 1) * Interval \in Nat
  BY <1>1, Times, Constants
<1> HIDE DEF age
<1>6. age <= TTL
  BY <1>1, <1>4, <1>5, Constants DEF RoomForFaults
<1> QED
  BY <1>6 DEF Fresh, age

-----------------------------------------------------------------------------
(* Records stay fresh, step by step.                                         *)

\* A step that forgets no waiting heartbeat of the page and leaves its timer
\* and the record of its owner alone.
LEMMA Undisturbed ==
  ASSUME TypeOK, TypeOK', NEW p \in Pages, Fresh(p),
         viewers'[Owner[p]] = viewers[Owner[p]], page'[p].beat = page[p].beat,
         faults' = faults,
         \A r \in Slots : request[r].pc = "sent" /\ request[r].page = p => request'[r] = request[r]
  PROVE  Fresh(p)'
<1>1. \A w \in Nat : Waiting(p, w) \subseteq Waiting(p, w)'
  BY DEF Waiting
<1>2. \A w \in Nat : Delayed(p, w) <= Delayed(p, w)'
  BY <1>1, DelayedKept
<1> QED
  BY <1>2, FreshKept

\* The timer fires: a heartbeat more is waiting.
LEMMA FreshBeat ==
  ASSUME TypeOK, TypeOK', NEW p \in Pages, Fresh(p),
         viewers' = viewers, page[p].beat = Interval, page'[p].beat = 0,
         Delayed(p, 0) + 1 <= Delayed(p, 0)',
         \A w \in Nat : Delayed(p, w) <= Delayed(p, w)'
  PROVE  Fresh(p)'
<1> DEFINE age == viewers[Owner[p]].age
<1>1. /\ Owner[p] \in Users /\ age \in Nat /\ Here(Owner[p])'
      /\ age <= Interval + Delayed(p, 0) * Interval
      /\ \A w \in Nat \ {0} : age < w + (Delayed(p, w) + 1) * Interval
  BY Constants DEF TypeOK, Here, Fresh
<1> HIDE DEF age
<1>2. age <= Delayed(p, 0)' * Interval
  <2> DEFINE m == Delayed(p, 0)
             n == Delayed(p, 0)'
  <2>1. m \in Nat /\ n \in Nat /\ m + 1 <= n
    BY DelayedType, DelayedTypeNext
  <2>2. age <= Interval + m * Interval
    BY <1>1
  <2> HIDE DEF m, n
  <2>3. /\ (m + 1) * Interval <= n * Interval /\ (m + 1) * Interval = m * Interval + Interval
        /\ m * Interval \in Nat /\ n * Interval \in Nat
    BY <2>1, Times
  <2>4. age <= n * Interval
    BY <1>1, <2>2, <2>3, Constants
  <2> QED
    BY <2>4 DEF n
<1>3. ASSUME NEW w \in Nat \ {0} PROVE age < w + (Delayed(p, w)' + 1) * Interval
  <2> DEFINE m == Delayed(p, w)
             n == Delayed(p, w)'
  <2>1. m \in Nat /\ n \in Nat /\ m <= n
    BY DelayedType, DelayedTypeNext
  <2>2. age < w + (m + 1) * Interval
    BY <1>1
  <2> HIDE DEF m, n
  <2>3. /\ (m + 1) * Interval <= (n + 1) * Interval
        /\ (m + 1) * Interval \in Nat /\ (n + 1) * Interval \in Nat
    BY <2>1, Times
  <2>4. age < w + (n + 1) * Interval
    BY <1>1, <2>2, <2>3
  <2> QED
    BY <2>4 DEF n
<1>4. page'[p].beat + Delayed(p, 0)' * Interval = Delayed(p, 0)' * Interval
  BY Times, DelayedTypeNext
<1> QED
  BY <1>1, <1>2, <1>3, <1>4 DEF Fresh, age

\* Time passes: the record and the waiting heartbeats are all a tick older.
LEMMA FreshTick ==
  ASSUME TypeOK, TypeOK', NEW p \in Pages, Fresh(p),
         viewers'[Owner[p]].age = viewers[Owner[p]].age + 1, Here(Owner[p])',
         page[p].beat < Interval, page'[p].beat = page[p].beat + 1,
         Delayed(p, 0) <= Delayed(p, 0)',
         \A w \in Nat : Delayed(p, w) <= Delayed(p, w + 1)'
  PROVE  Fresh(p)'
<1> DEFINE age == viewers[Owner[p]].age
           beat == page[p].beat
<1>1. /\ Owner[p] \in Users /\ age \in Nat /\ beat \in Nat
      /\ age <= beat + Delayed(p, 0) * Interval /\ beat < Interval
      /\ \A w \in Nat \ {0} : age < w + (Delayed(p, w) + 1) * Interval
  BY Constants DEF TypeOK, Page, Fresh
<1> HIDE DEF age, beat
<1>2. ASSUME NEW v \in Nat, Delayed(p, 0) <= Delayed(p, v)'
      PROVE  age <= beat + Delayed(p, v)' * Interval
  <2> DEFINE m == Delayed(p, 0)
             n == Delayed(p, v)'
  <2>1. m \in Nat /\ n \in Nat /\ m <= n
    BY <1>2, DelayedType, DelayedTypeNext
  <2>2. age <= beat + m * Interval
    BY <1>1
  <2> HIDE DEF m, n
  <2>3. m * Interval <= n * Interval /\ m * Interval \in Nat /\ n * Interval \in Nat
    BY <2>1, Times
  <2>4. age <= beat + n * Interval
    BY <1>1, <2>2, <2>3
  <2> QED
    BY <2>4 DEF n
<1>3. ASSUME NEW w \in Nat \ {0}
      PROVE  age + 1 < w + (Delayed(p, w)' + 1) * Interval
  <2> DEFINE n == Delayed(p, w)'
  <2>1. n \in Nat
    BY DelayedTypeNext
  <2>2. (n + 1) * Interval = n * Interval + Interval /\ n * Interval \in Nat
    BY <2>1, Times
  <2>3. CASE w = 1
    <3>1. Delayed(p, 0) <= Delayed(p, 0 + 1)'
      OBVIOUS
    <3>2. Delayed(p, 0) <= n
      BY <2>3, <3>1
    <3>3. age <= beat + n * Interval
      BY <1>2, <3>2
    <3> HIDE DEF n
    <3>4. age + 1 < w + (n + 1) * Interval
      BY <1>1, <2>1, <2>2, <2>3, <3>3, Constants
    <3> QED
      BY <3>4 DEF n
  <2>4. CASE w # 1
    <3> DEFINE v == w - 1
               m == Delayed(p, v)
    <3>1. v \in Nat \ {0} /\ v + 1 = w
      BY <2>4
    <3>2. m \in Nat /\ m <= n /\ age < v + (m + 1) * Interval
      <4> HIDE DEF v
      <4>1. Delayed(p, v) <= Delayed(p, v + 1)'
        BY <3>1
      <4> QED
        BY <1>1, <3>1, <4>1, DelayedType
    <3>3. /\ (m + 1) * Interval <= (n + 1) * Interval
          /\ (m + 1) * Interval \in Nat /\ (n + 1) * Interval \in Nat
      <4> HIDE DEF m, n
      <4> QED
        BY <2>1, <3>2, Times
    <3> HIDE DEF m, n
    <3>4. age + 1 < w + (n + 1) * Interval
      BY <1>1, <3>1, <3>2, <3>3
    <3> QED
      BY <3>4 DEF n
  <2> QED
    BY <2>3, <2>4
<1>4. age + 1 <= (beat + 1) + Delayed(p, 0)' * Interval
  <2> DEFINE n == Delayed(p, 0)'
  <2>1. n * Interval \in Nat /\ age <= beat + n * Interval
    BY <1>2, DelayedTypeNext, Times
  <2> HIDE DEF n
  <2>2. age + 1 <= (beat + 1) + n * Interval
    BY <1>1, <2>1
  <2> QED
    BY <2>2 DEF n
<1> QED
  BY <1>3, <1>4 DEF Fresh, age, beat

\* No step but the server's records a page.
LEMMA SentKeepsRecords ==
  ASSUME TypeOK, RequestsInv, NEW p \in Pages, NEW q \in Pages, Recorded(q)',
         OpenPage(p) \/ Beat(p) \/ Refocus(p) \/ Sent(p)
  PROVE  Recorded(q) /\ (OpenPage(p) => q # p)
<1>1. request \in [Slots -> Request] /\ page \in [Pages -> Page]
  BY DEF TypeOK
<1>2. PICK r \in Slots, x \in Request :
        request[r] = Free /\ request' = [request EXCEPT ![r] = x] /\ x.pc = "sent"
  BY SendEffects
<1>3. \A s \in Slots : request'[s] = IF s = r THEN x ELSE request[s]
  BY <1>1, <1>2
<1>4. page'[q].answered => page[q].answered /\ (OpenPage(p) => q # p)
  <2>1. \A o \in Pages \ {p} : page'[o] = page[o]
    BY SendEffects
  <2>2. page[p] \in Page /\ ~[Closed EXCEPT !.open = TRUE].answered
    BY <1>1 DEF Closed
  <2>3. OpenPage(p) => page'[p] = [Closed EXCEPT !.open = TRUE]
    BY <1>1 DEF OpenPage
  <2>4. Beat(p) \/ Refocus(p) \/ Sent(p) => page'[p].answered = page[p].answered
    BY <1>1, <2>2 DEF Beat, Refocus, Sent, Page
  <2> QED
    BY <2>1, <2>2, <2>3, <2>4
<1>5. ASSUME NEW s \in Slots, request'[s].page = q, request'[s].pc \in {"recorded", "answered"}
      PROVE  Recorded(q) /\ (OpenPage(p) => q # p)
  <2>1. request[s].page = q /\ request[s].pc \in {"recorded", "answered"}
    BY <1>2, <1>3, <1>5
  <2>2. page[q].open
    BY <2>1 DEF RequestsInv
  <2> QED
    BY <2>1, <2>2 DEF Recorded, OpenPage
<1> QED
  BY <1>4, <1>5 DEF Recorded

LEMMA SentKeepsFresh ==
  ASSUME TypeOK, TypeOK', RequestsInv, NEW p \in Pages, NEW q \in Pages, Fresh(q),
         OpenPage(p) \/ Beat(p) \/ Refocus(p) \/ Sent(p), OpenPage(p) => q # p
  PROVE  Fresh(q)'
<1>1. /\ request \in [Slots -> Request] /\ page \in [Pages -> Page]
      /\ viewers' = viewers /\ faults' = faults
  BY SendEffects DEF TypeOK
<1>2. PICK r \in Slots, x \in Request :
        /\ request[r] = Free /\ request' = [request EXCEPT ![r] = x]
        /\ x.pc = "sent" /\ x.page = p /\ x.wait = 0
  BY SendEffects
<1>3. \A s \in Slots : request'[s] = IF s = r THEN x ELSE request[s]
  BY <1>1, <1>2
<1>4. \A s \in Slots : request[s].pc = "sent" => request'[s] = request[s]
  BY <1>2, <1>3, RecordTypes
<1>5. CASE ~(Beat(p) /\ q = p)
  <2>1. \A o \in Pages \ {p} : page'[o] = page[o]
    BY SendEffects
  <2>2. page'[p].beat = page[p].beat \/ Beat(p) \/ OpenPage(p)
    BY <1>1 DEF Refocus, Sent, Page
  <2>3. page'[q].beat = page[q].beat
    BY <1>5, <2>1, <2>2
  <2> QED
    BY <1>1, <1>4, <2>3, Undisturbed
<1>6. CASE Beat(p) /\ q = p
  <2>1. page[p] \in Page /\ page[p].beat = Interval /\ page' = [page EXCEPT ![p].beat = 0]
    BY <1>1, <1>6 DEF Beat
  <2>2. page'[p].beat = 0
    BY <1>1, <2>1 DEF Page
  <2>3. \A w \in Nat : Waiting(p, w) \subseteq Waiting(p, w)'
    BY <1>4 DEF Waiting
  <2>4. \A w \in Nat : Delayed(p, w) <= Delayed(p, w)'
    BY <1>1, <2>3, DelayedKept
  <2>5. Waiting(p, 0)' = Waiting(p, 0) \cup {r} /\ r \notin Waiting(p, 0)
    BY <1>2, <1>3, RecordTypes DEF Waiting
  <2>6. Cardinality(Waiting(p, 0)') = Cardinality(Waiting(p, 0)) + 1
    BY <2>5, DelayedType, FS_AddElement
  <2>7. Delayed(p, 0) + 1 <= Delayed(p, 0)'
    BY <1>1, <2>6, DelayedType, DelayedTypeNext DEF Delayed
  <2> QED
    BY <1>1, <1>6, <2>1, <2>2, <2>4, <2>7, FreshBeat
<1> QED
  BY <1>5, <1>6

LEMMA CloseKeepsFresh ==
  ASSUME TypeOK, TypeOK', RequestsInv, NEW p \in Pages, NEW q \in Pages, ClosePage(p), Recorded(q)'
  PROVE  Recorded(q) /\ (Fresh(q) => Fresh(q)')
<1>1. /\ request \in [Slots -> Request] /\ page \in [Pages -> Page]
      /\ Unlinked(p) \in [Slots -> Request] /\ viewers' = viewers /\ faults' = faults
      /\ page' = [page EXCEPT ![p] = Closed]
  BY CloseEffects, UnlinkedType DEF TypeOK
<1>2. PICK r \in Slots, x \in Request :
        /\ request' = [Unlinked(p) EXCEPT ![r] = x]
        /\ x.pc = "sent" /\ x.page = None /\ request[r].pc = "free"
  BY CloseEffects
<1>3. \A s \in Slots : request'[s] = IF s = r THEN x ELSE Unlinked(p)[s]
  BY <1>1, <1>2
<1>4. /\ \A s \in Slots : request[s].page # p => Unlinked(p)[s] = request[s]
      /\ \A s \in Slots : request[s].page = p => Unlinked(p)[s].page = None
  BY <1>1 DEF Unlinked, Request
<1>5. \A s \in Slots : request'[s].page = q => request'[s] = request[s] /\ request[s].page # p
  BY <1>2, <1>3, <1>4, Constants
<1>6. q # p
  BY <1>1, <1>4, <1>5, RecordTypes DEF Recorded
<1>7. page'[q] = page[q]
  BY <1>1, <1>6
<1>8. Recorded(q)
  BY <1>5, <1>7 DEF Recorded
<1>9. \A s \in Slots : request[s].pc = "sent" /\ request[s].page = q => request'[s] = request[s]
  BY <1>2, <1>3, <1>4, <1>6
<1> QED
  BY <1>1, <1>7, <1>8, <1>9, Undisturbed

LEMMA HeartbeatKeepsFresh ==
  ASSUME TypeOK, TypeOK', RequestsInv, NEW r \in Slots, NEW q \in Pages, Heartbeat(r),
         Recorded(q)', Recorded(q) => Fresh(q)
  PROVE  Fresh(q)'
<1>1. /\ request \in [Slots -> Request] /\ Owner[q] \in Users /\ request[r].pc = "sent"
      /\ viewers \in [Users -> [mode : Mode \cup {None}, age : Nat]]
      /\ request[r].user \in Users /\ request[r].mode \in Mode
      /\ page' = page /\ faults' = faults
      /\ viewers' = [viewers EXCEPT ![request[r].user] = [mode |-> request[r].mode, age |-> 0]]
  BY Constants DEF TypeOK, Heartbeat, RequestsInv
<1>2. CASE Owner[q] = request[r].user
  <2>1. viewers'[Owner[q]] = [mode |-> request[r].mode, age |-> 0]
    BY <1>1, <1>2
  <2>2. viewers'[Owner[q]].age = 0 /\ Here(Owner[q])'
    BY <1>1, <2>1, Constants DEF Here, Gone
  <2> QED
    BY <2>2, FreshRecord
<1>3. CASE Owner[q] # request[r].user
  <2>1. request[r].page # q
    BY <1>3 DEF RequestsInv
  <2>2. /\ request'[r] = [request[r] EXCEPT !.pc = "recorded"]
        /\ \A s \in Slots \ {r} : request'[s] = request[s]
    BY <1>1 DEF Heartbeat
  <2>3. request'[r].page = request[r].page
    BY <1>1, <2>2 DEF Request
  <2>4. \A s \in Slots : request'[s].page = q => request'[s] = request[s]
    BY <2>1, <2>2, <2>3
  <2>5. Recorded(q)
    BY <1>1, <2>4 DEF Recorded
  <2>6. viewers'[Owner[q]] = viewers[Owner[q]]
    BY <1>1, <1>3
  <2>7. \A s \in Slots : request[s].pc = "sent" /\ request[s].page = q => request'[s] = request[s]
    BY <2>1, <2>2
  <2> QED
    BY <1>1, <2>5, <2>6, <2>7, Undisturbed
<1> QED
  BY <1>2, <1>3

LEMMA AnswerKeepsFresh ==
  ASSUME TypeOK, TypeOK', RequestsInv, NEW r \in Slots, NEW q \in Pages,
         Receive(r) \/ Others(r) \/ Lose(r), Recorded(q)'
  PROVE  Recorded(q) /\ (Fresh(q) => Fresh(q)')
<1>1. /\ request \in [Slots -> Request] /\ page \in [Pages -> Page] /\ viewers' = viewers
      /\ \A s \in Slots \ {r} : request'[s] = request[s]
  BY DEF TypeOK, Receive, Others, Lose
<1>2. CASE Receive(r)
  <2>1. request'[r] = Free /\ request[r].pc \in {"answered", "late"} /\ faults' = faults
    BY <1>1, <1>2 DEF Receive
  <2>2. CASE q = request[r].page
    <3>1. page'[q] = [page[q] EXCEPT !.answered = (request[r].pc = "answered"),
                                     !.warning = request[r].others]
      BY <1>2, <2>2 DEF Receive
    <3>2. page[q] \in Page
      BY <1>1
    <3>3. page'[q].answered <=> request[r].pc = "answered"
      BY <3>1, <3>2 DEF Page
    <3>4. page'[q].beat = page[q].beat
      BY <3>1, <3>2 DEF Page
    <3>5. Recorded(q)
      BY <1>1, <2>1, <2>2, <3>3, RecordTypes DEF Recorded
    <3> QED
      BY <1>1, <2>1, <3>4, <3>5, Undisturbed
  <2>3. CASE q # request[r].page
    <3>1. page'[q] = page[q]
      BY <1>2, <2>3 DEF Receive
    <3>2. Recorded(q)
      BY <1>1, <2>1, <3>1, RecordTypes DEF Recorded
    <3> QED
      BY <1>1, <2>1, <3>1, <3>2, Undisturbed
  <2> QED
    BY <2>2, <2>3
<1>3. CASE Others(r)
  <2>1. request[r].pc = "recorded" /\ page' = page /\ faults' = faults
    BY <1>3 DEF Others
  <2>2. PICK listed : request' = [request EXCEPT ![r].pc = "answered", ![r].others = listed]
    BY <1>3 DEF Others
  <2>3. request'[r] = [request[r] EXCEPT !.pc = "answered", !.others = listed]
    BY <1>1, <2>2
  <2>4. request'[r].page = request[r].page
    BY <1>1, <2>3 DEF Request
  <2>5. Recorded(q)
    BY <1>1, <2>1, <2>4 DEF Recorded
  <2> QED
    BY <1>1, <2>1, <2>5, Undisturbed
<1>4. CASE Lose(r)
  <2>1. request'[r] = Free /\ page' = page /\ faults' = faults + 1
    BY <1>1, <1>4 DEF Lose
  <2>2. Recorded(q)
    BY <1>1, <2>1, RecordTypes DEF Recorded
  <2>3. \A w \in Nat : Waiting(q, w) \subseteq Waiting(q, w)' \cup {r}
    BY <1>1 DEF Waiting
  <2>4. \A w \in Nat : Delayed(q, w) <= Delayed(q, w)'
    BY <2>1, <2>3, DelayedKept
  <2> QED
    BY <1>1, <2>1, <2>2, <2>4, FreshKept
<1> QED
  BY <1>2, <1>3, <1>4

LEMMA RecordedIsOpen ==
  ASSUME RequestsInv, NEW q \in Pages, Recorded(q)
  PROVE  page[q].open
BY RecordTypes DEF RequestsInv, Recorded

LEMMA TickKeepsFresh ==
  ASSUME TypeOK, TypeOK', RequestsInv, NEW q \in Pages, Tick, Recorded(q)'
  PROVE  Recorded(q) /\ (Fresh(q) => Fresh(q)')
<1>1. /\ request \in [Slots -> Request] /\ page \in [Pages -> Page] /\ Owner[q] \in Users
      /\ viewers \in [Users -> [mode : Mode \cup {None}, age : Nat]] /\ faults' = faults
  BY Constants DEF TypeOK, Tick
<1>2. ASSUME NEW r \in Slots
      PROVE  /\ request'[r].pc = request[r].pc /\ request'[r].page = request[r].page
             /\ request[r].pc = "sent" => request'[r].wait = request[r].wait + 1
  <2>1. request[r] \in Request
    BY <1>1
  <2>2. request'[r] = IF Pending(r) THEN [request[r] EXCEPT !.wait = @ + 1] ELSE request[r]
    BY DEF Tick
  <2> QED
    BY <2>1, <2>2 DEF Pending, Request
<1>3. page[q].open => /\ page[q].beat < Interval /\ page'[q].beat = page[q].beat + 1
                      /\ page'[q].answered = page[q].answered
  <2>1. page[q] \in Page
    BY <1>1
  <2>2. page'[q] = IF page[q].open THEN [page[q] EXCEPT !.beat = @ + 1] ELSE Closed
    BY DEF Tick
  <2>3. page[q].open => page[q].beat < Interval
    BY DEF Tick
  <2> QED
    BY <2>1, <2>2, <2>3 DEF Page
<1>4. ~page[q].open => page'[q] = Closed
  BY DEF Tick
<1>5. Recorded(q)
  BY <1>2, <1>3, <1>4, RecordTypes DEF Recorded
<1>6. page[q].open
  BY <1>5, RecordedIsOpen
<1>7. ASSUME Fresh(q) PROVE Fresh(q)'
  <2>1. Here(Owner[q]) /\ viewers[Owner[q]] \in [mode : Mode \cup {None}, age : Nat]
    BY <1>1, <1>7 DEF Fresh
  <2>2. viewers'[Owner[q]] = [viewers[Owner[q]] EXCEPT !.age = @ + 1]
    BY <1>1, <2>1 DEF Tick
  <2>3. viewers'[Owner[q]].age = viewers[Owner[q]].age + 1
    BY <2>1, <2>2
  <2>4. Here(Owner[q])'
    BY <2>1, <2>3 DEF Here, Gone
  <2>5. ASSUME NEW w \in Nat PROVE Delayed(q, w) <= Delayed(q, w + 1)'
    <3>1. \A r \in Slots : request[r].wait \in Nat
      BY <1>1, Constants DEF Request
    <3>2. Waiting(q, w) \subseteq Waiting(q, w + 1)'
      BY <1>2, <3>1 DEF Waiting
    <3> QED
      BY <1>1, <3>2, DelayedKept
  <2>6. Delayed(q, 0) <= Delayed(q, 0)'
    <3>1. \A r \in Slots : request[r].wait \in Nat
      BY <1>1, Constants DEF Request
    <3>2. Waiting(q, 0) \subseteq Waiting(q, 0)'
      BY <1>2, <3>1 DEF Waiting
    <3> QED
      BY <1>1, <3>2, DelayedKept
  <2> QED
    BY <1>3, <1>6, <1>7, <2>3, <2>4, <2>5, <2>6, FreshTick
<1> QED
  BY <1>5, <1>7

LEMMA ServerKeepsFresh ==
  ASSUME TypeOK, TypeOK', RequestsInv, RoomForFaults, NEW q \in Pages, Recorded(q)',
         (\E u \in Users : Release(u)) \/ Sweep \/ Restart
  PROVE  Recorded(q) /\ (Fresh(q) => Fresh(q)')
<1>1. /\ request \in [Slots -> Request] /\ page \in [Pages -> Page] /\ Owner[q] \in Users
      /\ viewers \in [Users -> [mode : Mode \cup {None}, age : Nat]]
  BY Constants DEF TypeOK
<1>2. CASE (\E u \in Users : Release(u)) \/ Sweep
  <2>1. page' = page /\ request' = request /\ faults' = faults
    BY <1>2 DEF Release, Sweep
  <2>2. Recorded(q) /\ page[q].open
    BY <2>1, RecordedIsOpen DEF Recorded
  <2>3. ASSUME Fresh(q) PROVE viewers'[Owner[q]] = viewers[Owner[q]]
    <3>1. CASE \E u \in Users : Release(u)
      BY <1>1, <2>2, <3>1 DEF Release
    <3>2. CASE Sweep
      <4>1. viewers[Owner[q]].age <= TTL /\ viewers[Owner[q]].age \in Nat
        BY <1>1, <2>3, FreshLasts
      <4>2. Owner[q] \notin Swept
        BY <1>1, <4>1, Constants DEF Swept, Expired
      <4> QED
        BY <1>1, <3>2, <4>2 DEF Sweep
    <3> QED
      BY <1>2, <3>1, <3>2
  <2> QED
    BY <2>1, <2>2, <2>3, Undisturbed
<1>3. CASE Restart
  <2>1. page'[q].answered = FALSE
    <3>1. page'[q] = [page[q] EXCEPT !.answered = FALSE] /\ page[q] \in Page
      BY <1>1, <1>3 DEF Restart
    <3> QED
      BY <3>1 DEF Page
  <2>2. \A r \in Slots : request'[r].pc \notin {"recorded", "answered"}
    <3>1. \A x \in Request : [x EXCEPT !.pc = "late"].pc = "late"
      BY DEF Request
    <3> QED
      BY <1>1, <1>3, <3>1, RecordTypes DEF Restart
  <2> QED
    BY <2>1, <2>2 DEF Recorded
<1> QED
  BY <1>2, <1>3

LEMMA PresenceStep == PresenceInv /\ [Next]_presenceVars => PresenceInv'
<1> SUFFICES ASSUME PresenceInv, [Next]_presenceVars PROVE PresenceInv'
  OBVIOUS
<1>1. TypeOK /\ TypeOK' /\ RequestsInv /\ RequestsInv' /\ RoomForFaults
  BY TypeStep, RequestsStep DEF PresenceInv
<1>2. ASSUME NEW q \in Pages, Recorded(q)' PROVE Fresh(q)'
  <2>1. Recorded(q) => Fresh(q)
    BY DEF PresenceInv
  <2>2. ASSUME NEW p \in Pages, OpenPage(p) \/ Beat(p) \/ Refocus(p) \/ Sent(p) PROVE Fresh(q)'
    <3>1. Recorded(q) /\ (OpenPage(p) => q # p)
      BY <1>1, <1>2, <2>2, SentKeepsRecords
    <3> QED
      BY <1>1, <2>1, <2>2, <3>1, SentKeepsFresh
  <2>3. ASSUME NEW p \in Pages, ClosePage(p) PROVE Fresh(q)'
    BY <1>1, <1>2, <2>1, <2>3, CloseKeepsFresh
  <2>4. ASSUME NEW r \in Slots, Receive(r) \/ Lose(r) \/ Others(r) PROVE Fresh(q)'
    BY <1>1, <1>2, <2>1, <2>4, AnswerKeepsFresh
  <2>5. ASSUME NEW r \in Slots, Heartbeat(r) PROVE Fresh(q)'
    BY <1>1, <1>2, <2>1, <2>5, HeartbeatKeepsFresh
  <2>6. CASE (\E u \in Users : Release(u)) \/ Sweep \/ Restart
    BY <1>1, <1>2, <2>1, <2>6, ServerKeepsFresh
  <2>7. CASE Tick
    BY <1>1, <1>2, <2>1, <2>7, TickKeepsFresh
  <2>8. CASE UNCHANGED presenceVars
    <3>1. UNCHANGED <<viewers, page, request, faults>>
      BY <2>8 DEF presenceVars
    <3>2. Recorded(q)
      BY <1>2, <3>1 DEF Recorded
    <3> QED
      BY <1>1, <2>1, <3>1, <3>2, Undisturbed
  <2> QED
    BY <2>2, <2>3, <2>4, <2>5, <2>6, <2>7, <2>8 DEF Next
<1> QED
  BY <1>1, <1>2 DEF PresenceInv, RoomForFaults

LEMMA PresenceInit == RoomForFaults /\ Init => PresenceInv
<1> SUFFICES ASSUME RoomForFaults, Init PROVE PresenceInv
  OBVIOUS
<1>1. /\ \A p \in Pages : page[p] = Closed
      /\ \A r \in Slots : request[r] = Free
  BY DEF Init
<1>2. RequestsInv /\ \A p \in Pages : ~Recorded(p)
  BY <1>1, RecordTypes, Constants DEF RequestsInv, Recorded
<1> QED
  BY <1>2, TypeInit DEF PresenceInv

\* An operator whose page has heard from the running server is listed for the
\* others, and is not swept, as long as the time to live outlasts the lost
\* heartbeats and the slowest one.
THEOREM ListedWhileOpen == RoomForFaults /\ Spec => []StillListed
<1>1. PresenceInv => StillListed
  <2> SUFFICES ASSUME PresenceInv, NEW p \in Pages, page[p].open, page[p].answered
               PROVE  Here(Owner[p]) /\ ~Expired(Owner[p])
    BY DEF StillListed
  <2>1. Fresh(p) /\ TypeOK /\ RoomForFaults
    BY DEF PresenceInv, Recorded
  <2>2. viewers[Owner[p]].age <= TTL /\ viewers[Owner[p]].age \in Nat
    BY <2>1, FreshLasts, Constants DEF TypeOK
  <2> QED
    BY <2>1, <2>2, FreshLasts, Constants DEF Expired
<1> QED
  BY <1>1, PresenceInit, PresenceStep, PTL DEF Spec

-----------------------------------------------------------------------------
(* The warning.  The server alone makes an answer, and when it does, whoever *)
(* has been answered before is listed.                                       *)

\* A step that only takes answers away.
LEMMA NoNewAnswer ==
  ASSUME WarningInv, \A p \in Pages : \A x : Answer(p, x)' => Answer(p, x)
  PROVE  WarningInv'
BY DEF WarningInv

\* Slots that are new, or got no further, and pages that show what they showed.
LEMMA SameAnswers ==
  ASSUME NEW q \in Pages,
         page'[q].answered => page[q].answered /\ page'[q].warning = page[q].warning,
         \A s \in Slots : request'[s].page = q /\ request'[s].pc = "answered" =>
           /\ request[s].page = q /\ request[s].pc = "answered"
           /\ request'[s].others = request[s].others
  PROVE  \A x : Answer(q, x)' => Answer(q, x)
BY DEF Answer

LEMMA PageAnswers ==
  ASSUME TypeOK, NEW p \in Pages, NEW q \in Pages,
         OpenPage(p) \/ Beat(p) \/ Refocus(p) \/ Sent(p) \/ ClosePage(p)
  PROVE  \A x : Answer(q, x)' => Answer(q, x)
<1>1. /\ request \in [Slots -> Request] /\ page \in [Pages -> Page] /\ page[p] \in Page
      /\ Unlinked(p) \in [Slots -> Request]
  BY UnlinkedType DEF TypeOK
<1>2. page'[q].answered => page[q].answered /\ page'[q].warning = page[q].warning
  <2>1. CASE OpenPage(p)
    <3>1. page' = [page EXCEPT ![p] = [Closed EXCEPT !.open = TRUE]]
          /\ ~[Closed EXCEPT !.open = TRUE].answered
      BY <2>1 DEF OpenPage, Closed
    <3> QED
      BY <1>1, <3>1
  <2>2. CASE Beat(p)
    <3>1. page' = [page EXCEPT ![p] = [page[p] EXCEPT !.beat = 0]]
      BY <1>1, <2>2 DEF Beat
    <3>2. /\ [page[p] EXCEPT !.beat = 0].answered = page[p].answered
          /\ [page[p] EXCEPT !.beat = 0].warning = page[p].warning
      BY <1>1 DEF Page
    <3> QED
      BY <1>1, <3>1, <3>2
  <2>3. CASE Refocus(p)
    <3>1. page' = [page EXCEPT ![p] = [page[p] EXCEPT !.focus = ~@]]
      BY <1>1, <2>3 DEF Refocus
    <3>2. /\ [page[p] EXCEPT !.focus = ~@].answered = page[p].answered
          /\ [page[p] EXCEPT !.focus = ~@].warning = page[p].warning
      BY <1>1 DEF Page
    <3> QED
      BY <1>1, <3>1, <3>2
  <2>4. CASE Sent(p) \/ ClosePage(p)
    BY <1>1, <2>4, RecordTypes DEF Sent, ClosePage
  <2> QED
    BY <2>1, <2>2, <2>3, <2>4
<1>3. ASSUME NEW s \in Slots, request'[s].page = q, request'[s].pc = "answered"
      PROVE  /\ request[s].page = q /\ request[s].pc = "answered"
             /\ request'[s].others = request[s].others
  <2>1. CASE ClosePage(p)
    <3>1. PICK r \in Slots, x \in Request :
            request' = [Unlinked(p) EXCEPT ![r] = x] /\ x.pc = "sent"
      BY <2>1, CloseEffects
    <3>2. request'[s] = Unlinked(p)[s]
      BY <1>1, <1>3, <3>1
    <3>3. Unlinked(p)[s] = request[s] \/ Unlinked(p)[s].page = None
      BY <1>1 DEF Unlinked, Request
    <3> QED
      BY <1>3, <3>2, <3>3, Constants
  <2>2. CASE OpenPage(p) \/ Beat(p) \/ Refocus(p) \/ Sent(p)
    <3>1. PICK r \in Slots, x \in Request :
            request' = [request EXCEPT ![r] = x] /\ x.pc = "sent"
      BY <2>2, SendEffects
    <3>2. request'[s] = request[s]
      BY <1>1, <1>3, <3>1
    <3> QED
      BY <1>3, <3>2
  <2> QED
    BY <2>1, <2>2
<1> QED
  BY <1>2, <1>3, SameAnswers

LEMMA ReceiveAnswers ==
  ASSUME TypeOK, NEW r \in Slots, NEW q \in Pages, NEW x, Receive(r), Answer(q, x)'
  PROVE  Answer(q, x)
<1>1. /\ request \in [Slots -> Request] /\ page[q] \in Page
      /\ \A s \in Slots : request'[s] = IF s = r THEN Free ELSE request[s]
  BY DEF TypeOK, Receive
<1>2. CASE \E s \in Slots :
             request'[s].page = q /\ request'[s].pc = "answered" /\ request'[s].others = x
  BY <1>1, <1>2, RecordTypes DEF Answer
<1>3. CASE page'[q].answered /\ page'[q].warning = x
  <2>1. CASE q = request[r].page
    <3>1. page'[q] = [page[q] EXCEPT !.answered = (request[r].pc = "answered"),
                                     !.warning = request[r].others]
      BY <2>1 DEF Receive
    <3>2. (page'[q].answered <=> request[r].pc = "answered") /\ page'[q].warning = request[r].others
      BY <1>1, <3>1 DEF Page
    <3> QED
      BY <1>3, <2>1, <3>2 DEF Answer
  <2>2. CASE q # request[r].page
    <3>1. page'[q] = page[q]
      BY <2>2 DEF Receive
    <3> QED
      BY <1>3, <3>1 DEF Answer
  <2> QED
    BY <2>1, <2>2
<1> QED
  BY <1>2, <1>3 DEF Answer

LEMMA OtherAnswers ==
  ASSUME TypeOK, NEW q \in Pages,
         \/ \E r \in Slots : Lose(r) \/ Heartbeat(r)
         \/ (\E u \in Users : Release(u)) \/ Sweep \/ Restart \/ Tick \/ UNCHANGED presenceVars
  PROVE  \A x : Answer(q, x)' => Answer(q, x)
<1>1. /\ request \in [Slots -> Request] /\ page \in [Pages -> Page] /\ page[q] \in Page
  BY DEF TypeOK
<1>2. ASSUME NEW r \in Slots, Lose(r) \/ Heartbeat(r) PROVE \A x : Answer(q, x)' => Answer(q, x)
  <2>1. page' = page /\ \A s \in Slots \ {r} : request'[s] = request[s]
    BY <1>1, <1>2 DEF Lose, Heartbeat
  <2>2. request'[r].pc # "answered"
    <3>1. [request[r] EXCEPT !.pc = "recorded"].pc = "recorded"
      BY <1>1 DEF Request
    <3> QED
      BY <1>1, <1>2, <3>1, RecordTypes DEF Lose, Heartbeat
  <2> QED
    BY <2>1, <2>2, SameAnswers
<1>3. CASE (\E u \in Users : Release(u)) \/ Sweep \/ UNCHANGED presenceVars
  BY <1>3, SameAnswers DEF Release, Sweep, presenceVars
<1>4. CASE Restart
  <2>1. page'[q] = [page[q] EXCEPT !.answered = FALSE]
    BY <1>1, <1>4 DEF Restart
  <2>2. ~page'[q].answered
    BY <1>1, <2>1 DEF Page
  <2>3. \A s \in Slots : request'[s].pc # "answered"
    <3>1. \A y \in Request : [y EXCEPT !.pc = "late"].pc = "late"
      BY DEF Request
    <3> QED
      BY <1>1, <1>4, <3>1, RecordTypes DEF Restart
  <2> QED
    BY <2>2, <2>3, SameAnswers
<1>5. CASE Tick
  <2>1. page'[q] = IF page[q].open THEN [page[q] EXCEPT !.beat = @ + 1] ELSE Closed
    BY <1>5 DEF Tick
  <2>2. page'[q].answered => page[q].answered /\ page'[q].warning = page[q].warning
    BY <1>1, <2>1, RecordTypes DEF Page
  <2>3. \A s \in Slots : \/ request'[s] = request[s]
                         \/ request'[s] = [request[s] EXCEPT !.wait = @ + 1]
    BY <1>5 DEF Tick
  <2>4. \A y \in Request : LET z == [y EXCEPT !.wait = @ + 1]
                           IN  z.pc = y.pc /\ z.page = y.page /\ z.others = y.others
    BY DEF Request
  <2>5. \A s \in Slots : /\ request'[s].pc = request[s].pc /\ request'[s].page = request[s].page
                         /\ request'[s].others = request[s].others
    BY <1>1, <2>3, <2>4
  <2> QED
    BY <2>2, <2>5, SameAnswers
<1> QED
  BY <1>2, <1>3, <1>4, <1>5

\* The listing comes after the recording: it names everyone answered before.
LEMMA ListedAnswers ==
  ASSUME PresenceInv, WarningInv, NEW r \in Slots, Others(r)
  PROVE  WarningInv'
<1> DEFINE listed == {v \in Users \ {request[r].user} : Here(v) /\ ~Expired(v)}
           New(p, x) == request[r].page = p /\ x = listed
<1>1. /\ TypeOK /\ RequestsInv /\ RoomForFaults /\ request \in [Slots -> Request]
      /\ \A p \in Pages : Owner[p] \in Users /\ (Recorded(p) => Fresh(p))
  BY Constants DEF PresenceInv, TypeOK
<1>2. /\ page' = page
      /\ request' = [request EXCEPT ![r].pc = "answered", ![r].others = listed]
  BY DEF Others
<1>3. ASSUME NEW p \in Pages, NEW x, Answer(p, x)' PROVE Answer(p, x) \/ New(p, x)
  <2> HIDE DEF listed
  <2>1. \A s \in Slots \ {r} : request'[s] = request[s]
    BY <1>1, <1>2
  <2>2. request'[r] = [request[r] EXCEPT !.pc = "answered", !.others = listed]
    BY <1>1, <1>2
  <2>3. request'[r].page = request[r].page /\ request'[r].others = listed
    BY <1>1, <2>2 DEF Request
  <2> QED
    BY <1>2, <1>3, <2>1, <2>3 DEF Answer
<1>4. ASSUME NEW p \in Pages, NEW q \in Pages, Owner[p] # Owner[q], request[r].page = p,
             NEW y, Answer(q, y)
      PROVE  Owner[q] \in listed
  <2>1. Recorded(q)
    BY <1>4 DEF Answer, Recorded
  <2>2. Here(Owner[q]) /\ viewers[Owner[q]].age <= TTL /\ viewers[Owner[q]].age \in Nat
    BY <1>1, <2>1, FreshLasts DEF TypeOK
  <2>3. ~Expired(Owner[q])
    BY <2>2, Constants DEF Expired
  <2>4. request[r].user = Owner[p]
    BY <1>1, <1>4 DEF RequestsInv
  <2> QED
    BY <1>1, <1>4, <2>2, <2>3, <2>4
<1> HIDE DEF listed
<1>5. ASSUME NEW p \in Pages, NEW q \in Pages, Owner[p] # Owner[q],
             NEW x, NEW y, Answer(p, x)', Answer(q, y)'
      PROVE  Owner[q] \in x \/ Owner[p] \in y
  <2>1. (Answer(p, x) \/ New(p, x)) /\ (Answer(q, y) \/ New(q, y))
    BY <1>3, <1>5
  <2>2. CASE Answer(p, x) /\ Answer(q, y)
    BY <1>5, <2>2 DEF WarningInv
  <2>3. CASE New(p, x) /\ Answer(q, y)
    BY <1>4, <1>5, <2>3
  <2>4. CASE Answer(p, x) /\ New(q, y)
    BY <1>4, <1>5, <2>4
  <2>5. ~(New(p, x) /\ New(q, y))
    BY <1>5
  <2> QED
    BY <2>1, <2>2, <2>3, <2>4, <2>5
<1> QED
  BY <1>5 DEF WarningInv

LEMMA WarningStep == PresenceInv /\ WarningInv /\ [Next]_presenceVars => WarningInv'
<1> SUFFICES ASSUME PresenceInv, WarningInv, [Next]_presenceVars PROVE WarningInv'
  OBVIOUS
<1>1. TypeOK
  BY DEF PresenceInv
<1>2. ASSUME NEW p \in Pages,
             OpenPage(p) \/ Beat(p) \/ Refocus(p) \/ Sent(p) \/ ClosePage(p)
      PROVE  WarningInv'
  BY <1>1, <1>2, PageAnswers, NoNewAnswer
<1>3. ASSUME NEW r \in Slots, Receive(r) PROVE WarningInv'
  BY <1>1, <1>3, ReceiveAnswers, NoNewAnswer
<1>4. CASE \/ \E r \in Slots : Lose(r) \/ Heartbeat(r)
           \/ (\E u \in Users : Release(u)) \/ Sweep \/ Restart \/ Tick \/ UNCHANGED presenceVars
  BY <1>1, <1>4, OtherAnswers, NoNewAnswer
<1> QED
  BY <1>2, <1>3, <1>4, ListedAnswers DEF Next

\* However heartbeats and answers of two operators interleave, overtake each
\* other, are lost or survive a restart: once both pages show an answer of the
\* running server, one of them shows the warning.
THEOREM AlwaysOneWarned == RoomForFaults /\ Spec => []OneIsWarned
<1>1. Init => WarningInv
  <2> SUFFICES ASSUME Init PROVE \A p \in Pages : \A x : ~Answer(p, x)
    BY DEF WarningInv
  <2>1. /\ \A p \in Pages : page[p] = Closed
        /\ \A r \in Slots : request[r] = Free
    BY DEF Init
  <2> QED
    BY <2>1, RecordTypes DEF Answer
<1>2. WarningInv => OneIsWarned
  BY DEF WarningInv, OneIsWarned, Answer
<1> QED
  BY <1>1, <1>2, WarningStep, PresenceInit, PresenceStep, PTL DEF Spec
=============================================================================
