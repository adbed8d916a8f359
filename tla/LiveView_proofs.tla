---------------------------- MODULE LiveView_proofs ----------------------------
(* Theorems about the live item page, for every number of pages and every    *)
(* capacity of a subscriber's channel.                                       *)
EXTENDS LiveView, SequenceTheorems, TLAPS

\* UpdateOnItsWay is not inductive: a page that shows the whole thread could
\* still have an old answer to render.  It does not, unless it missed something:
\* the load asked for last is the one that counts, and when none is under way
\* the page is current.
OnItsWay(v) ==
  \/ missed[v] \/ unsent > 0 \/ Queued(v) \/ LoadOnItsWay(v)
  \/ Current(v) /\ loads[v] = <<>>

LiveInv == TypeOK /\ \A v \in Viewers : OnItsWay(v)

LEMMA ConstantTypes ==
  /\ Buffer \in Nat /\ Buffer > 0 /\ MaxMessages \in Nat /\ Asked \in Nat /\ MaxTyping \in Nat
  /\ MaxDrops \in Nat /\ MaxFailures \in Nat /\ MaxLoads \in Nat /\ MaxLoads > 0
  /\ Wire \in Nat /\ Wire > 0
BY LiveConstantsOK DEF Asked

LEMMA PageTypes ==
  ASSUME TypeOK, NEW v \in Viewers
  PROVE  /\ channel[v] \in Seq(Event) /\ Len(channel[v]) \in Nat /\ Len(channel[v]) <= Buffer
         /\ wire[v] \in Seq(Event) /\ Len(wire[v]) \in Nat /\ Len(wire[v]) <= Wire
         /\ loads[v] \in Seq(0..Asked) /\ Len(loads[v]) \in Nat
         /\ thread \in Nat /\ thread <= MaxMessages /\ thread \in 0..Asked
         /\ unsent \in Nat /\ unsent <= thread
<1>1. thread \in Nat /\ thread <= MaxMessages /\ thread \in 0..Asked
  BY ConstantTypes DEF TypeOK, Asked
<1>2. channel[v] \in Seq(Event) /\ wire[v] \in Seq(Event) /\ loads[v] \in Seq(0..Asked)
  BY DEF TypeOK
<1> QED
  BY <1>1, <1>2 DEF TypeOK

-----------------------------------------------------------------------------
(* Sequences.                                                                *)

LEMMA Appended ==
  ASSUME NEW S, NEW s \in Seq(S), NEW e \in S
  PROVE  /\ Append(s, e) \in Seq(S) /\ Append(s, e) # <<>>
         /\ Len(Append(s, e)) = Len(s) + 1
         /\ \A k \in DOMAIN s : k \in DOMAIN Append(s, e) /\ Append(s, e)[k] = s[k]
         /\ Len(s) + 1 \in DOMAIN Append(s, e) /\ Append(s, e)[Len(s) + 1] = e
OBVIOUS

LEMMA TailOf ==
  ASSUME NEW S, NEW s \in Seq(S), s # <<>>
  PROVE  /\ Tail(s) \in Seq(S) /\ Len(Tail(s)) = Len(s) - 1
         /\ \A k \in DOMAIN s : k = 1 \/ (k - 1 \in DOMAIN Tail(s) /\ Tail(s)[k - 1] = s[k])
OBVIOUS

\* What appending and taking the first element do to what a sequence contains.
LEMMA AppendContains ==
  ASSUME NEW S, NEW s \in Seq(S), NEW e \in S, NEW d
  PROVE  Contains(Append(s, e), d) <=> Contains(s, d) \/ d = e
<1>1. Append(s, e) \in Seq(S) /\ Len(Append(s, e)) = Len(s) + 1 /\ Len(s) \in Nat
  OBVIOUS
<1>2. ASSUME Contains(Append(s, e), d) PROVE Contains(s, d) \/ d = e
  <2>1. PICK k \in 1..(Len(s) + 1) : Append(s, e)[k] = d
    BY <1>1, <1>2 DEF Contains
  <2>2. CASE k = Len(s) + 1
    BY <1>1, <2>1, <2>2
  <2>3. CASE k # Len(s) + 1
    <3>1. k \in 1..Len(s) /\ s[k] = d
      BY <1>1, <2>1, <2>3
    <3> QED
      BY <3>1 DEF Contains
  <2> QED
    BY <2>2, <2>3
<1>3. ASSUME Contains(s, d) PROVE Contains(Append(s, e), d)
  <2>1. PICK k \in 1..Len(s) : s[k] = d
    BY <1>3 DEF Contains
  <2>2. k \in 1..Len(Append(s, e)) /\ Append(s, e)[k] = d
    BY <1>1, <2>1
  <2> QED
    BY <2>2 DEF Contains
<1>4. ASSUME d = e PROVE Contains(Append(s, e), d)
  <2>1. /\ Len(s) + 1 \in 1..Len(Append(s, e))
        /\ Append(s, e)[Len(s) + 1] = d
    BY <1>1, <1>4
  <2> QED
    BY <2>1 DEF Contains
<1> QED
  BY <1>2, <1>3, <1>4

LEMMA TailContains ==
  ASSUME NEW S, NEW s \in Seq(S), s # <<>>, NEW d, Contains(s, d)
  PROVE  Head(s) = d \/ Contains(Tail(s), d)
<1>1. PICK k \in 1..Len(s) : s[k] = d
  BY DEF Contains
<1>2. CASE k = 1
  BY <1>1, <1>2
<1>3. CASE k # 1
  <2>1. k \in DOMAIN s
    BY <1>1
  <2>2. k - 1 \in 1..Len(Tail(s)) /\ Tail(s)[k - 1] = d
    BY <1>1, <1>3, <2>1, TailOf
  <2> QED
    BY <2>2 DEF Contains
<1> QED
  BY <1>2, <1>3

LEMMA Removed ==
  ASSUME NEW S, NEW s \in Seq(S), NEW k \in 1..Len(s)
  PROVE  /\ RemoveAt(s, k) \in Seq(S)
         /\ Len(RemoveAt(s, k)) = Len(s) - 1
         /\ k = 1 => \A j \in 1..(Len(s) - 1) : RemoveAt(s, k)[j] = s[j + 1]
         /\ k < Len(s) => RemoveAt(s, k)[Len(s) - 1] = s[Len(s)]
<1> DEFINE front == SubSeq(s, 1, k - 1)
           back == SubSeq(s, k + 1, Len(s))
<1>1. Len(s) \in Nat /\ \A i \in 1..Len(s) : s[i] \in S
  OBVIOUS
<1>2. front \in Seq(S) /\ Len(front) = k - 1
  BY <1>1
<1>3. /\ back \in Seq(S) /\ Len(back) = Len(s) - k
      /\ \A j \in 1..(Len(s) - k) : back[j] = s[k + j]
  BY <1>1
<1>4. RemoveAt(s, k) = front \o back
  BY DEF RemoveAt
<1> HIDE DEF front, back
<1>5. front \o back \in Seq(S) /\ Len(front \o back) = Len(s) - 1
  <2>1. front \o back \in Seq(S) /\ Len(front \o back) = Len(front) + Len(back)
    BY <1>2, <1>3, ConcatProperties
  <2>2. Len(front) + Len(back) = Len(s) - 1
    BY <1>1, <1>2, <1>3
  <2> QED
    BY <2>1, <2>2
<1>6. ASSUME k = 1, NEW j \in 1..(Len(s) - 1)
      PROVE  (front \o back)[j] = s[j + 1]
  <2>1. Len(front) = 0 /\ Len(back) = Len(s) - 1
    BY <1>1, <1>2, <1>3, <1>6
  <2>2. (front \o back)[j] = back[j]
    BY <1>1, <1>2, <1>3, <1>6, <2>1
  <2> QED
    BY <1>1, <1>3, <1>6, <2>2
<1>7. ASSUME k < Len(s) PROVE (front \o back)[Len(s) - 1] = s[Len(s)]
  <2>1. /\ Len(s) - 1 \in 1..(Len(front) + Len(back)) /\ ~(Len(s) - 1 <= Len(front))
        /\ (Len(s) - 1) - Len(front) = Len(s) - k /\ Len(s) - k \in 1..(Len(s) - k)
    BY <1>1, <1>2, <1>3, <1>7
  <2>2. (front \o back)[Len(s) - 1] = back[(Len(s) - 1) - Len(front)]
    BY <1>2, <1>3, <2>1, ConcatProperties
  <2>3. back[Len(s) - k] = s[k + (Len(s) - k)] /\ k + (Len(s) - k) = Len(s)
    BY <1>1, <1>3, <2>1
  <2> QED
    BY <2>1, <2>2, <2>3
<1> QED
  BY <1>4, <1>5, <1>6, <1>7

-----------------------------------------------------------------------------
(* The hub.                                                                  *)

LEMMA PublishTypes ==
  ASSUME TypeOK, NEW event \in Event, Publish(event)
  PROVE  /\ channel' \in [Viewers -> Seq(Event)]
         /\ \A v \in Viewers : Len(channel'[v]) <= Buffer
         /\ missed' \in [Viewers -> BOOLEAN]
<1>1. ASSUME NEW v \in Viewers
      PROVE  /\ channel'[v] \in Seq(Event) /\ Len(channel'[v]) <= Buffer
  <2>1. /\ channel[v] \in Seq(Event) /\ Len(channel[v]) \in Nat /\ Len(channel[v]) <= Buffer
    BY PageTypes
  <2>2. channel'[v] = IF connected[v] /\ ~Full(v) THEN Append(channel[v], event) ELSE channel[v]
    BY DEF Publish
  <2>3. CASE connected[v] /\ ~Full(v)
    <3>1. channel'[v] = Append(channel[v], event) /\ Len(channel[v]) < Buffer
      BY <2>1, <2>2, <2>3, ConstantTypes DEF Full
    <3> QED
      BY <2>1, <3>1, Appended, ConstantTypes
  <2>4. CASE ~(connected[v] /\ ~Full(v))
    BY <2>1, <2>2, <2>4
  <2> QED
    BY <2>3, <2>4
<1>2. missed' \in [Viewers -> BOOLEAN]
  BY DEF Publish
<1>3. channel' \in [Viewers -> Seq(Event)]
  BY <1>1 DEF Publish
<1> QED
  BY <1>1, <1>2, <1>3

\* No publication takes a queued message away.
LEMMA PublishKeepsQueued ==
  ASSUME TypeOK, NEW event \in Event, Publish(event), wire' = wire, NEW v \in Viewers, Queued(v)
  PROVE  Queued(v)'
<1>1. channel[v] \in Seq(Event)
  BY PageTypes
<1>2. channel'[v] = Append(channel[v], event) \/ channel'[v] = channel[v]
  BY DEF Publish
<1>3. Contains(Append(channel[v], event), "message")
        <=> Contains(channel[v], "message") \/ "message" = event
  BY <1>1, AppendContains
<1>4. Contains(channel[v], "message") => Contains(channel'[v], "message")
  BY <1>2, <1>3
<1> QED
  BY <1>4 DEF Queued

\* After a published message each page either has one queued or missed it.
LEMMA PublishedReachesAll ==
  ASSUME TypeOK, Publish("message"), wire' = wire, NEW v \in Viewers
  PROVE  Queued(v)' \/ missed'[v]
<1>1. CASE ~connected[v] \/ (Full(v) /\ ~Queued(v))
  BY <1>1 DEF Publish
<1>2. CASE Queued(v)
  BY <1>2, PublishKeepsQueued DEF Event
<1>3. CASE connected[v] /\ ~Full(v)
  <2>1. channel[v] \in Seq(Event) /\ channel'[v] = Append(channel[v], "message")
    BY <1>3, PageTypes DEF Publish
  <2>2. Contains(channel'[v], "message")
    BY <2>1, AppendContains DEF Event
  <2> QED
    BY <2>2 DEF Queued
<1> QED
  BY <1>1, <1>2, <1>3

-----------------------------------------------------------------------------
(* Types, step by step.                                                      *)

LEMMA TypeStep ==
  ASSUME TypeOK, [Next]_liveVars
  PROVE  TypeOK'
<1>1. CASE CommitMessage
  BY <1>1, ConstantTypes DEF CommitMessage, TypeOK, pageVars, counters
<1>2. CASE NotifyNewMessage
  <2>1. unsent' \in 0..thread /\ thread' = thread
    BY <1>2, ConstantTypes DEF NotifyNewMessage, TypeOK
  <2> QED
    BY <1>2, <2>1, PublishTypes DEF NotifyNewMessage, TypeOK, pageVars, counters, Event
<1>3. CASE NotifyTyping
  <2>1. typing' \in 0..MaxTyping
    BY <1>3, ConstantTypes DEF NotifyTyping, TypeOK
  <2> QED
    BY <1>3, <2>1, PublishTypes DEF NotifyTyping, TypeOK, pageVars, Event
<1>4. ASSUME NEW v \in Viewers, Subscribe(v) PROVE TypeOK'
  BY <1>4 DEF Subscribe, TypeOK, pageVars, counters
<1>5. ASSUME NEW v \in Viewers, Disconnect(v) PROVE TypeOK'
  <2>1. drops' \in 0..MaxDrops
    BY <1>5, ConstantTypes DEF Disconnect, TypeOK
  <2>2. missed' \in [Viewers -> BOOLEAN]
    BY <1>5 DEF Disconnect, TypeOK
  <2>3. /\ channel' \in [Viewers -> Seq(Event)]
        /\ wire' \in [Viewers -> Seq(Event)]
        /\ \A w \in Viewers : Len(channel'[w]) <= Buffer /\ Len(wire'[w]) <= Wire
    <3>1. <<>> \in Seq(Event) /\ Len(<<>>) <= Buffer /\ Len(<<>>) <= Wire
      BY ConstantTypes
    <3> QED
      BY <1>5, <3>1 DEF Disconnect, TypeOK
  <2> QED
    BY <1>5, <2>1, <2>2, <2>3 DEF Disconnect, TypeOK, pageVars
<1>6. ASSUME NEW v \in Viewers, Receive(v) PROVE TypeOK'
  <2>1. /\ Tail(wire[v]) \in Seq(Event) /\ Len(Tail(wire[v])) <= Wire
    <3>1. wire[v] # <<>> /\ wire[v] \in Seq(Event) /\ Len(wire[v]) \in Nat
          /\ Len(wire[v]) <= Wire
      BY <1>6, PageTypes DEF Receive
    <3> QED
      BY <3>1, TailOf, ConstantTypes
  <2>2. /\ wire' \in [Viewers -> Seq(Event)]
        /\ \A w \in Viewers : Len(wire'[w]) <= Wire
    BY <1>6, <2>1 DEF Receive, TypeOK
  <2>3. Append(loads[v], Asked) \in Seq(0..Asked)
    BY PageTypes, ConstantTypes, Appended
  <2>4. loads' \in [Viewers -> Seq(0..Asked)]
    BY <1>6, <2>3 DEF Receive, TypeOK
  <2> QED
    BY <1>6, <2>2, <2>4 DEF Receive, TypeOK, counters
<1>11. ASSUME NEW v \in Viewers, Send(v) PROVE TypeOK'
  <2>1. /\ channel[v] # <<>> /\ channel[v] \in Seq(Event) /\ Len(channel[v]) \in Nat
        /\ Len(channel[v]) <= Buffer /\ Head(channel[v]) \in Event
        /\ wire[v] \in Seq(Event) /\ Len(wire[v]) \in Nat /\ Len(wire[v]) < Wire
    BY <1>11, PageTypes DEF Send
  <2>2. Tail(channel[v]) \in Seq(Event) /\ Len(Tail(channel[v])) <= Buffer
    BY <2>1, TailOf, ConstantTypes
  <2>3. /\ Append(wire[v], Head(channel[v])) \in Seq(Event)
        /\ Len(Append(wire[v], Head(channel[v]))) <= Wire
    BY <2>1, Appended, ConstantTypes
  <2>4. /\ channel' \in [Viewers -> Seq(Event)] /\ wire' \in [Viewers -> Seq(Event)]
        /\ \A w \in Viewers : Len(channel'[w]) <= Buffer /\ Len(wire'[w]) <= Wire
    BY <1>11, <2>2, <2>3 DEF Send, TypeOK
  <2> QED
    BY <1>11, <2>4 DEF Send, TypeOK, pageVars, counters
<1>7. ASSUME NEW v \in Viewers, ReloadOwn(v) PROVE TypeOK'
  <2>1. Append(loads[v], Asked) \in Seq(0..Asked)
    BY PageTypes, ConstantTypes, Appended
  <2> QED
    BY <1>7, <2>1 DEF ReloadOwn, TypeOK, counters
<1>8. ASSUME NEW v \in Viewers, NEW k \in 1..MaxLoads, AnswerLoad(v, k) PROVE TypeOK'
  <2>1. [loads[v] EXCEPT ![k] = thread] \in Seq(0..Asked)
    BY <1>8, PageTypes DEF AnswerLoad
  <2>2. loads' \in [Viewers -> Seq(0..Asked)]
    BY <1>8, <2>1 DEF AnswerLoad, TypeOK
  <2>3. missed' \in [Viewers -> BOOLEAN]
    BY <1>8 DEF AnswerLoad, TypeOK
  <2> QED
    BY <1>8, <2>2, <2>3 DEF AnswerLoad, TypeOK, counters
<1>9. ASSUME NEW v \in Viewers, NEW k \in 1..MaxLoads, RenderItem(v, k) PROVE TypeOK'
  <2>1. /\ loads[v] \in Seq(0..Asked) /\ k \in 1..Len(loads[v])
        /\ loads[v][k] \in 0..MaxMessages
    BY <1>9, PageTypes, ConstantTypes DEF RenderItem, Asked
  <2>2. RemoveAt(loads[v], k) \in Seq(0..Asked)
    BY <2>1, Removed
  <2>3. loads' \in [Viewers -> Seq(0..Asked)] /\ shown' \in [Viewers -> 0..MaxMessages]
    BY <1>9, <2>1, <2>2 DEF RenderItem, TypeOK
  <2>4. missed' \in [Viewers -> BOOLEAN]
    BY <1>9 DEF RenderItem, TypeOK
  <2> QED
    BY <1>9, <2>3, <2>4 DEF RenderItem, TypeOK, counters
<1>12. ASSUME NEW v \in Viewers, NEW k \in 1..MaxLoads, FailLoad(v, k) PROVE TypeOK'
  <2>1. loads[v] \in Seq(0..Asked) /\ k \in 1..Len(loads[v])
    BY <1>12, PageTypes DEF FailLoad
  <2>2. RemoveAt(loads[v], k) \in Seq(0..Asked)
    BY <2>1, Removed
  <2>3. loads' \in [Viewers -> Seq(0..Asked)] /\ missed' \in [Viewers -> BOOLEAN]
    BY <1>12, <2>2 DEF FailLoad, TypeOK
  <2>4. failures' \in 0..MaxFailures
    BY <1>12, ConstantTypes DEF FailLoad, TypeOK
  <2> QED
    BY <1>12, <2>3, <2>4 DEF FailLoad, TypeOK
<1>10. CASE UNCHANGED liveVars
  BY <1>10 DEF liveVars, TypeOK
<1> QED
  BY <1>1, <1>2, <1>3, <1>4, <1>5, <1>6, <1>7, <1>8, <1>9, <1>10, <1>11, <1>12
  DEF Next, ReadTicket

-----------------------------------------------------------------------------
(* A page's own steps keep the update on its way.                            *)

LEMMA SendKeeps ==
  ASSUME LiveInv, NEW v \in Viewers, Send(v)
  PROVE  OnItsWay(v)'
<1>1. /\ channel[v] \in Seq(Event) /\ channel[v] # <<>> /\ Head(channel[v]) \in Event
      /\ wire[v] \in Seq(Event)
      /\ channel'[v] = Tail(channel[v]) /\ wire'[v] = Append(wire[v], Head(channel[v]))
      /\ UNCHANGED <<thread, unsent, shown, loads, missed>>
  BY PageTypes DEF LiveInv, TypeOK, Send, pageVars
<1>2. ASSUME Contains(channel[v], "message")
      PROVE  Contains(channel'[v], "message") \/ Contains(wire'[v], "message")
  BY <1>1, <1>2, TailContains, AppendContains
<1>3. Contains(wire[v], "message") => Contains(wire'[v], "message")
  BY <1>1, AppendContains
<1>4. Queued(v) => Queued(v)'
  BY <1>2, <1>3 DEF Queued
<1> QED
  BY <1>1, <1>4 DEF LiveInv, OnItsWay, LoadOnItsWay, Current

LEMMA ReceiveKeeps ==
  ASSUME LiveInv, NEW v \in Viewers, Receive(v)
  PROVE  OnItsWay(v)'
<1>1. /\ wire[v] \in Seq(Event) /\ wire[v] # <<>> /\ loads[v] \in Seq(0..Asked)
      /\ wire'[v] = Tail(wire[v])
      /\ UNCHANGED <<thread, unsent, channel, shown, missed>>
  BY PageTypes DEF LiveInv, TypeOK, Receive
<1>2. CASE Head(wire[v]) = "message"
  <2>1. loads'[v] = Append(loads[v], Asked)
    BY <1>2 DEF LiveInv, TypeOK, Receive
  <2>2. loads'[v] # <<>> /\ loads'[v][Len(loads'[v])] = Asked
    BY <1>1, <2>1, ConstantTypes, Appended
  <2> QED
    BY <2>2 DEF OnItsWay, LoadOnItsWay
<1>3. CASE Head(wire[v]) # "message"
  <2>1. loads'[v] = loads[v]
    BY <1>3 DEF LiveInv, TypeOK, Receive
  <2>2. Queued(v) => Queued(v)'
    BY <1>1, <1>3, TailContains DEF Queued
  <2> QED
    BY <1>1, <2>1, <2>2 DEF LiveInv, OnItsWay, LoadOnItsWay, Current
<1> QED
  BY <1>2, <1>3

LEMMA ReloadKeeps ==
  ASSUME LiveInv, NEW v \in Viewers, ReloadOwn(v)
  PROVE  OnItsWay(v)'
<1>1. loads'[v] = Append(loads[v], Asked) /\ loads[v] \in Seq(0..Asked)
  BY PageTypes DEF LiveInv, TypeOK, ReloadOwn
<1>2. loads'[v] # <<>> /\ loads'[v][Len(loads'[v])] = Asked
  BY <1>1, ConstantTypes, Appended
<1> QED
  BY <1>2 DEF OnItsWay, LoadOnItsWay

\* The load asked for last is answered with the whole thread; an earlier one
\* that is answered before it leaves it asked for.
LEMMA AnswerKeeps ==
  ASSUME LiveInv, NEW v \in Viewers, NEW k \in 1..MaxLoads, AnswerLoad(v, k)
  PROVE  OnItsWay(v)'
<1> DEFINE n == Len(loads[v])
<1>1. /\ loads[v] \in Seq(0..Asked) /\ k \in 1..n /\ n \in Nat /\ n > 0
      /\ loads'[v] = [loads[v] EXCEPT ![k] = thread] /\ thread' = thread
      /\ missed'[v] = \E j \in DOMAIN loads[v] : j > k /\ loads[v][j] # Asked
  BY PageTypes DEF LiveInv, TypeOK, AnswerLoad
<1>2. Len(loads'[v]) = n /\ loads'[v] # <<>>
  BY <1>1
<1>3. CASE n = k
  <2>1. loads'[v][n] = thread
    BY <1>1, <1>3
  <2> QED
    BY <1>1, <1>2, <2>1 DEF OnItsWay, LoadOnItsWay
<1>4. CASE n # k /\ loads[v][n] = Asked
  <2>1. loads'[v][n] = Asked
    BY <1>1, <1>4
  <2> QED
    BY <1>2, <2>1 DEF OnItsWay, LoadOnItsWay
<1>5. CASE n # k /\ loads[v][n] # Asked
  <2>1. n \in DOMAIN loads[v] /\ n > k
    BY <1>1, <1>5
  <2>2. missed'[v]
    BY <1>1, <1>5, <2>1
  <2> QED
    BY <2>2 DEF OnItsWay
<1> QED
  BY <1>3, <1>4, <1>5

\* Only the last answer makes a page current that has no other load under way.
LEMMA RenderKeeps ==
  ASSUME LiveInv, NEW v \in Viewers, NEW k \in 1..MaxLoads, RenderItem(v, k)
  PROVE  OnItsWay(v)'
<1> DEFINE n == Len(loads[v])
<1>1. /\ loads[v] \in Seq(0..Asked) /\ k \in 1..n /\ n \in Nat
      /\ loads[v][k] # Asked
      /\ loads'[v] = RemoveAt(loads[v], k) /\ shown'[v] = loads[v][k]
      /\ missed'[v] = (missed[v] \/ k > 1)
      /\ UNCHANGED <<thread, unsent, channel, wire>>
  BY PageTypes DEF LiveInv, TypeOK, RenderItem
<1>2. /\ loads'[v] \in Seq(0..Asked) /\ Len(loads'[v]) = n - 1
      /\ k = 1 => \A j \in 1..(n - 1) : loads'[v][j] = loads[v][j + 1]
  BY <1>1, Removed
<1>3. CASE missed[v] \/ unsent > 0 \/ Queued(v) \/ k > 1
  BY <1>1, <1>3 DEF OnItsWay, Queued
<1>4. CASE LoadOnItsWay(v) /\ k = 1
  <2>1. loads[v][n] \in {Asked, thread}
    BY <1>4 DEF LoadOnItsWay
  <2>2. CASE n = 1
    <3>1. shown'[v] = thread /\ loads'[v] = <<>>
      BY <1>1, <1>2, <1>4, <2>1, <2>2
    <3> QED
      BY <1>1, <3>1 DEF OnItsWay, Current
  <2>3. CASE n # 1
    <3>0. n \in Nat /\ n >= 1 /\ n # 1 /\ k = 1
      BY <1>1, <1>4, <2>3
    <3> HIDE DEF n
    <3>1. n - 1 \in 1..(n - 1) /\ (n - 1) + 1 = n
      BY <3>0
    <3>2. loads'[v][n - 1] = loads[v][n]
      <4>1. \A j \in 1..(n - 1) : loads'[v][j] = loads[v][j + 1]
        BY <1>2, <3>0
      <4> QED
        BY <3>1, <4>1
    <3>3. loads'[v] # <<>>
      BY <1>2, <3>1
    <3> QED
      BY <1>1, <1>2, <2>1, <3>2, <3>3 DEF OnItsWay, LoadOnItsWay
  <2> QED
    BY <2>2, <2>3
<1>5. loads[v] # <<>> /\ k \in Nat /\ k >= 1
  BY <1>1
<1> QED
  BY <1>3, <1>4, <1>5 DEF LiveInv, OnItsWay

\* A failed load behind which another is under way is not missed.
LEMMA FailKeeps ==
  ASSUME LiveInv, NEW v \in Viewers, NEW k \in 1..MaxLoads, FailLoad(v, k)
  PROVE  OnItsWay(v)'
<1> DEFINE n == Len(loads[v])
<1>1. /\ loads[v] \in Seq(0..Asked) /\ k \in 1..n /\ n \in Nat /\ loads[v] # <<>>
      /\ loads'[v] = RemoveAt(loads[v], k)
      /\ missed'[v] = (missed[v] \/ k = n)
      /\ UNCHANGED <<thread, unsent, channel, wire, shown>>
  BY PageTypes DEF LiveInv, TypeOK, FailLoad
<1>2. CASE missed[v] \/ unsent > 0 \/ Queued(v) \/ k = n
  BY <1>1, <1>2 DEF OnItsWay, Queued
<1>3. CASE LoadOnItsWay(v) /\ k # n
  <2>1. loads[v][n] \in {Asked, thread} /\ k < n
    BY <1>1, <1>3 DEF LoadOnItsWay
  <2>2. Len(loads'[v]) = n - 1 /\ n - 1 > 0 /\ loads'[v][n - 1] = loads[v][n]
    BY <1>1, <2>1, Removed
  <2>3. loads'[v] # <<>>
    BY <2>2
  <2> QED
    BY <1>1, <2>1, <2>2, <2>3 DEF OnItsWay, LoadOnItsWay
<1> QED
  BY <1>1, <1>2, <1>3 DEF LiveInv, OnItsWay

LEMMA OthersKeep ==
  ASSUME LiveInv, NEW v \in Viewers,
         UNCHANGED <<thread, unsent, shown[v], missed[v], channel[v], wire[v], loads[v]>>
  PROVE  OnItsWay(v)'
BY DEF LiveInv, OnItsWay, Queued, LoadOnItsWay, Current

-----------------------------------------------------------------------------
(* The inductive invariant and what follows from it.                         *)

LEMMA LiveInvInit == Init => LiveInv
<1> SUFFICES ASSUME Init PROVE LiveInv
  OBVIOUS
<1>1. <<Asked>> \in Seq(0..Asked) /\ <<>> \in Seq(Event) /\ Len(<<>>) <= Buffer
      /\ Len(<<>>) <= Wire
  BY ConstantTypes
<1>2. TypeOK
  BY <1>1, ConstantTypes DEF Init, TypeOK
<1>3. ASSUME NEW v \in Viewers PROVE LoadOnItsWay(v)
  BY <1>1 DEF Init, LoadOnItsWay
<1> QED
  BY <1>2, <1>3 DEF LiveInv, OnItsWay

LEMMA OnItsWayStep ==
  ASSUME LiveInv, [Next]_liveVars, NEW v \in Viewers
  PROVE  OnItsWay(v)'
<1>0. TypeOK
  BY DEF LiveInv
<1>1. CASE CommitMessage
  <2>1. unsent' > 0
    BY <1>0, <1>1, PageTypes DEF CommitMessage
  <2> QED
    BY <2>1 DEF OnItsWay
<1>2. CASE NotifyNewMessage
  BY <1>0, <1>2, PublishedReachesAll DEF NotifyNewMessage, OnItsWay
<1>3. CASE NotifyTyping
  <2>1. /\ UNCHANGED <<thread, unsent, wire, shown, loads>> /\ Publish("typing")
    BY <1>3 DEF NotifyTyping, pageVars
  <2>2. missed[v] => missed'[v]
    BY <2>1 DEF Publish
  <2>3. Queued(v) => Queued(v)'
    BY <1>0, <2>1, PublishKeepsQueued DEF Event
  <2> QED
    BY <2>1, <2>2, <2>3 DEF LiveInv, OnItsWay, LoadOnItsWay, Current
<1>4. CASE Subscribe(v)
  BY <1>4, OthersKeep DEF Subscribe, pageVars, counters
<1>5. CASE Disconnect(v)
  <2>1. /\ missed'[v] = (missed[v] \/ Queued(v))
        /\ UNCHANGED <<thread, unsent, shown, loads>>
    BY <1>0, <1>5 DEF Disconnect, TypeOK, pageVars
  <2> QED
    BY <2>1 DEF LiveInv, OnItsWay, LoadOnItsWay, Current
<1>6. CASE Receive(v)
  BY <1>6, ReceiveKeeps
<1>7. CASE ReloadOwn(v)
  BY <1>7, ReloadKeeps
<1>8. CASE ReadTicket(v)
  BY <1>8, AnswerKeeps, RenderKeeps, FailKeeps DEF ReadTicket
<1>9. ASSUME NEW w \in Viewers, w # v,
             \/ Subscribe(w) \/ Send(w) \/ Disconnect(w) \/ Receive(w)
             \/ ReloadOwn(w) \/ ReadTicket(w)
      PROVE  OnItsWay(v)'
  <2>1. UNCHANGED <<thread, unsent, shown[v], missed[v], channel[v], wire[v], loads[v]>>
    <3>1. CASE ReadTicket(w)
      BY <1>0, <1>9, <3>1 DEF TypeOK, ReadTicket, AnswerLoad, RenderItem, FailLoad
    <3>2. CASE Subscribe(w) \/ Send(w) \/ Disconnect(w) \/ Receive(w) \/ ReloadOwn(w)
      BY <1>0, <1>9, <3>2 DEF TypeOK, Subscribe, Send, Disconnect, Receive, ReloadOwn, pageVars
    <3> QED
      BY <1>9, <3>1, <3>2
  <2> QED
    BY <2>1, OthersKeep
<1>10. CASE UNCHANGED liveVars
  BY <1>10, OthersKeep DEF liveVars
<1>11. CASE Send(v)
  BY <1>11, SendKeeps
<1> QED
  BY <1>1, <1>2, <1>3, <1>4, <1>5, <1>6, <1>7, <1>8, <1>9, <1>10, <1>11 DEF Next

LEMMA LiveInvStep == LiveInv /\ [Next]_liveVars => LiveInv'
BY TypeStep, OnItsWayStep DEF LiveInv

THEOREM LiveInvariant == Spec => []LiveInv
BY LiveInvInit, LiveInvStep, PTL DEF Spec

\* The channels stay within their capacity, and every load and every page holds
\* a length the thread has had.
THEOREM TypeCorrect == Spec => []TypeOK
<1>1. LiveInv => TypeOK
  BY DEF LiveInv
<1> QED
  BY <1>1, LiveInvariant, PTL

\* A page that does not show the whole thread is going to load it, unless its
\* connection broke, its channel was full of typing pings, its last load failed
\* or two answers overtook each other.
THEOREM UpdateIsOnItsWay == Spec => []UpdateOnItsWay
<1>1. LiveInv => UpdateOnItsWay
  BY DEF LiveInv, OnItsWay, UpdateOnItsWay
<1> QED
  BY <1>1, LiveInvariant, PTL
=============================================================================
