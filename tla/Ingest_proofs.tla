---------------------------- MODULE Ingest_proofs ----------------------------
(* Theorems about the ingestion of messages, for every number of webhook     *)
(* requests, messages and tickets: what overlapping deliveries, failing      *)
(* calls, crashes and the operators' own changes leave true of the tickets.  *)
EXTENDS Ingest, WorkItems_proofs, FiniteSetTheorems

Inbound == Mails \cup Voicemails

LEMMA InboundTypes ==
  /\ \A m \in Inbound : m.ext \in Exts /\ m.ext # None /\ m.party \in Parties \cup {None}
  /\ \A m, n \in Inbound : m.ext = n.ext => m = n
  /\ None \notin Items /\ FirstCode \in Nat
BY IngestConstantsOK, ConstantsOK DEF Inbound

Existing == {i \in Items : Exists(i)}

\* A call in flight carries a message of its sender, and the ticket it found
\* still exists when it comes to store: tickets are never deleted.
CallInv(d) ==
  call[d].pc # "idle" =>
    /\ call[d].msg \in Handed(d)
    /\ call[d].target # None => Exists(call[d].target)

BaseInv ==
  /\ IngestTypeOK
  /\ IsFiniteSet(Existing)
  /\ TablesInv
  /\ \A d \in Senders : CallInv(d)

-----------------------------------------------------------------------------
(* The steps, by what they do to the tickets.                                *)

\* A step of a call that writes no ticket.
CallStep ==
  \E d \in Senders :
    \/ \E m \in Handed(d) : Deliver(d, m)
    \/ Correlate(d) \/ NotifyNewMessage(d) \/ Fail(d)

LEMMA StepCases ==
  ASSUME [Next]_ingestVars
  PROVE  \/ \E i \in Items, u \in Staff, s \in Status :
              TransitionStatus(i, u, s) /\ UNCHANGED <<call, alerts, raced>>
         \/ \E i \in Items, u \in Staff, internal \in BOOLEAN :
              AddThreadMessage(i, u, internal, None) /\ UNCHANGED <<call, alerts, raced>>
         \/ \E i \in Items, c \in Codes :
              CreateItem(i, c, "NEW", None, None) /\ UNCHANGED <<call, alerts, raced>>
         \/ \E d \in Senders : StoreReply(d)
         \/ \E d \in Senders, i \in Items : StoreNewItem(d, i)
         \/ UNCHANGED ticketVars /\ (CallStep \/ Crash \/ UNCHANGED <<call, alerts, raced>>)
<1>1. CASE UNCHANGED ingestVars
  BY <1>1 DEF ingestVars
<1>2. ASSUME Next
      PROVE  \/ OperatorStep /\ UNCHANGED <<call, alerts, raced>>
             \/ ManualItem /\ UNCHANGED <<call, alerts, raced>>
             \/ \E d \in Senders : StoreReply(d)
             \/ \E d \in Senders, i \in Items : StoreNewItem(d, i)
             \/ CallStep \/ Crash
  BY <1>2 DEF Next, CallStep
<1>3. CallStep \/ Crash => UNCHANGED ticketVars
  BY DEF CallStep, Deliver, Correlate, NotifyNewMessage, Fail, Crash
<1> QED
  BY <1>1, <1>2, <1>3 DEF OperatorStep, ManualItem

\* The row and the trail entry of a stored message.
LEMMA MailRows ==
  ASSUME TypeOK, NEW i \in Items, NEW m \in Inbound,
         NEW setting \in Status \cup {NoStatus}
  PROVE  LET r == MailRow(i, m)
             e == MailEntry(i, setting)
         IN  /\ r \in Message /\ r.item = i /\ r.ext = m.ext
             /\ r.author = None /\ ~r.internal
             /\ e \in AuditLog /\ e.item = i /\ e.to = setting /\ e.actor = None
             /\ e.action = "MAIL_CORRELATED" /\ e.ref = Len(messages) + 1
<1>1. Len(messages) + 1 \in Nat
  BY DEF TypeOK
<1>2. MailRow(i, m) \in Message
  BY InboundTypes DEF MailRow, Message
<1>3. MailEntry(i, setting) \in AuditLog
  BY <1>1 DEF MailEntry, AuditLog, AuditAction
<1> QED
  BY <1>2, <1>3 DEF MailRow, MailEntry

\* The two ways a reply and a new ticket end.
LEMMA ReplyEffects ==
  ASSUME BaseInv, NEW d \in Senders, StoreReply(d)
  PROVE  LET i == call[d].target
             m == call[d].msg
         IN  /\ i \in Items /\ Exists(i) /\ m \in Handed(d) /\ m \in Inbound
             /\ call[d].pc = "store"
             /\ UNCHANGED <<code, party, assignee, resolvedAt, links, alerts, raced>>
             /\ \/ /\ FreeExt(m.ext)
                   /\ messages' = Append(messages, MailRow(i, m))
                   /\ audit' = Append(audit, MailEntry(i, NoStatus))
                   /\ status' = [status EXCEPT ![i] = AfterMail(@)]
                   /\ call' = [call EXCEPT ![d].pc = "notify"]
                \/ /\ ~FreeExt(m.ext)
                   /\ UNCHANGED <<messages, audit, status>>
                   /\ call' = [call EXCEPT ![d] = Idle]
<1>1. call[d].pc = "store" /\ call[d].target # None /\ call[d] \in Call
  BY DEF StoreReply, BaseInv, IngestTypeOK
<1>2. call[d].target \in Items /\ Exists(call[d].target) /\ call[d].msg \in Handed(d)
  BY <1>1 DEF BaseInv, CallInv, Call
<1>3. call[d].msg \in Inbound
  BY <1>2 DEF Handed, Inbound
<1> QED
  BY <1>1, <1>2, <1>3 DEF StoreReply, InsertMessage

LEMMA NewItemEffects ==
  ASSUME BaseInv, NEW d \in Senders, NEW i \in Items, StoreNewItem(d, i)
  PROVE  LET m == call[d].msg
         IN  /\ ~Exists(i) /\ m \in Handed(d) /\ m \in Inbound
             /\ call[d].pc = "store" /\ call[d].target = None
             /\ status' = [status EXCEPT ![i] = "NEW"]
             /\ code' = [code EXCEPT ![i] = GeneratedCode]
             /\ \E p \in {m.party, None} : party' = [party EXCEPT ![i] = p]
             /\ UNCHANGED <<assignee, resolvedAt, links, alerts, raced>>
             /\ \/ /\ FreeExt(m.ext)
                   /\ messages' = Append(messages, MailRow(i, m))
                   /\ audit' = Append(audit, MailEntry(i, "NEW"))
                   /\ call' = [call EXCEPT ![d].pc = "notify"]
                \/ /\ ~FreeExt(m.ext)
                   /\ UNCHANGED <<messages, audit>>
                   /\ call' = [call EXCEPT ![d] = Idle]
<1>1. call[d].pc = "store" /\ call[d].target = None
  BY DEF StoreNewItem
<1>2. call[d].msg \in Handed(d)
  BY <1>1 DEF BaseInv, CallInv
<1>3. call[d].msg \in Inbound
  BY <1>2 DEF Handed, Inbound
<1> QED
  BY <1>1, <1>2, <1>3 DEF StoreNewItem, NewRow, InsertMessage

-----------------------------------------------------------------------------
(* Types.                                                                    *)

LEMMA GeneratedCodeType ==
  ASSUME IsFiniteSet(Existing)
  PROVE  GeneratedCode \in Nat /\ GeneratedCode = Cardinality(Existing) + FirstCode
BY FS_CardinalityType, InboundTypes DEF GeneratedCode, Existing

LEMMA ReplyTypes ==
  ASSUME BaseInv, NEW d \in Senders, StoreReply(d)
  PROVE  TypeOK' /\ (\A i \in Items : Exists(i)' <=> Exists(i))
<1> DEFINE i == call[d].target
           m == call[d].msg
<1>1. TypeOK /\ i \in Items /\ Exists(i) /\ m \in Inbound
  BY ReplyEffects DEF BaseInv, IngestTypeOK
<1>2. AfterMail(status[i]) \in Status
  BY <1>1 DEF AfterMail, TypeOK, Exists, Status
<1>3. status' = [status EXCEPT ![i] = AfterMail(@)] \/ status' = status
  BY ReplyEffects
<1>4. /\ status' \in [Items -> Status \cup {Absent}]
      /\ \A j \in Items : Exists(j)' <=> Exists(j)
  BY <1>1, <1>2, <1>3 DEF TypeOK, Exists, Status, Absent
<1>5. MailRow(i, m) \in Message /\ MailEntry(i, NoStatus) \in AuditLog
  BY <1>1, MailRows
<1>6. messages' \in Seq(Message) /\ audit' \in Seq(AuditLog)
  <2>1. \/ /\ messages' = Append(messages, MailRow(i, m))
           /\ audit' = Append(audit, MailEntry(i, NoStatus))
        \/ messages' = messages /\ audit' = audit
    BY ReplyEffects
  <2>2. messages \in Seq(Message) /\ audit \in Seq(AuditLog)
    BY <1>1 DEF TypeOK
  <2> HIDE DEF i, m
  <2>3. Append(messages, MailRow(i, m)) \in Seq(Message)
    BY <1>5, <2>2, AppendFacts
  <2>4. Append(audit, MailEntry(i, NoStatus)) \in Seq(AuditLog)
    BY <1>5, <2>2, AppendFacts
  <2> QED
    BY <2>1, <2>2, <2>3, <2>4
<1>7. UNCHANGED <<code, party, assignee, resolvedAt, links>>
  BY ReplyEffects
<1> QED
  BY <1>1, <1>4, <1>6, <1>7 DEF TypeOK

LEMMA NewItemTypes ==
  ASSUME BaseInv, NEW d \in Senders, NEW i \in Items, StoreNewItem(d, i)
  PROVE  TypeOK' /\ Existing' = Existing \cup {i}
<1> DEFINE m == call[d].msg
<1>1. TypeOK /\ ~Exists(i) /\ m \in Inbound /\ status' = [status EXCEPT ![i] = "NEW"]
  BY NewItemEffects DEF BaseInv, IngestTypeOK
<1>2. /\ status' \in [Items -> Status \cup {Absent}]
      /\ \A j \in Items : Exists(j)' <=> Exists(j) \/ j = i
  BY <1>1 DEF TypeOK, Exists, Status, Absent
<1>3. GeneratedCode \in Nat /\ m.party \in Parties \cup {None}
  BY <1>1, GeneratedCodeType, InboundTypes DEF BaseInv
<1>4. code' \in [Items -> Nat \cup {None}] /\ party' \in [Items -> Parties \cup {None}]
  <2>1. /\ code' = [code EXCEPT ![i] = GeneratedCode]
        /\ \E p \in {m.party, None} : party' = [party EXCEPT ![i] = p]
    BY NewItemEffects
  <2> HIDE DEF m
  <2> QED
    BY <1>1, <1>3, <2>1 DEF TypeOK
<1>5. MailRow(i, m) \in Message /\ MailEntry(i, "NEW") \in AuditLog
  BY <1>1, MailRows DEF Status
<1>6. messages' \in Seq(Message) /\ audit' \in Seq(AuditLog)
  <2>1. \/ /\ messages' = Append(messages, MailRow(i, m))
           /\ audit' = Append(audit, MailEntry(i, "NEW"))
        \/ messages' = messages /\ audit' = audit
    BY NewItemEffects
  <2>2. messages \in Seq(Message) /\ audit \in Seq(AuditLog)
    BY <1>1 DEF TypeOK
  <2> HIDE DEF m
  <2>3. Append(messages, MailRow(i, m)) \in Seq(Message)
    BY <1>5, <2>2, AppendFacts
  <2>4. Append(audit, MailEntry(i, "NEW")) \in Seq(AuditLog)
    BY <1>5, <2>2, AppendFacts
  <2> QED
    BY <2>1, <2>2, <2>3, <2>4
<1>7. UNCHANGED <<assignee, resolvedAt, links>>
  BY NewItemEffects
<1>8. TypeOK'
  BY <1>1, <1>2, <1>4, <1>6, <1>7 DEF TypeOK
<1> QED
  BY <1>2, <1>8 DEF Existing

-----------------------------------------------------------------------------
(* The base invariant, step by step.                                         *)

\* No step deletes a ticket, and each adds at most one.
LEMMA OperatorBase ==
  ASSUME BaseInv, NEW i \in Items,
         \/ \E u \in Staff, s \in Status : TransitionStatus(i, u, s)
         \/ \E u \in Staff, internal \in BOOLEAN : AddThreadMessage(i, u, internal, None)
         \/ \E c \in Codes : CreateItem(i, c, "NEW", None, None)
  PROVE  /\ TypeOK' /\ TablesInv'
         /\ Existing' = Existing \/ Existing' = Existing \cup {i}
<1>1. TypeOK /\ TablesInv /\ status \in [Items -> Status \cup {Absent}]
  BY DEF BaseInv, IngestTypeOK, TypeOK
<1>2. ASSUME NEW u \in Staff, NEW s \in Status, TransitionStatus(i, u, s)
      PROVE  TypeOK' /\ TablesInv' /\ Existing' = Existing
  <2>1. \A j \in Items : Exists(j)' <=> Exists(j)
    BY <1>1, <1>2 DEF TransitionStatus, Exists, Status, Absent
  <2> QED
    BY <1>1, <1>2, <2>1, TransitionTypes, TransitionKeepsTables DEF Existing
<1>3. ASSUME NEW u \in Staff, NEW internal \in BOOLEAN, AddThreadMessage(i, u, internal, None)
      PROVE  TypeOK' /\ TablesInv' /\ Existing' = Existing
  <2>1. TypeOK'
    BY <1>1, <1>3, MessageTypes
  <2>2. TablesInv'
    BY <1>1, <1>3, AddMessageKeepsThread, MessageKeepsLinks DEF TablesInv
  <2>3. AfterMessage(status[i], u, internal) \in Status
    BY <1>1, <1>3, AfterMessageType DEF AddThreadMessage, Exists
  <2>4. \A j \in Items : Exists(j)' <=> Exists(j)
    BY <1>1, <1>3, <2>3 DEF AddThreadMessage, Exists, Status, Absent
  <2> QED
    BY <2>1, <2>2, <2>4 DEF Existing
<1>4. ASSUME NEW c \in Codes, CreateItem(i, c, "NEW", None, None)
      PROVE  TypeOK' /\ TablesInv' /\ Existing' = Existing \cup {i}
  <2>1. c \in Nat /\ "NEW" \in Status
    BY ConstantsOK DEF Status
  <2>2. TypeOK'
    BY <1>1, <1>4, <2>1, CreateTypes
  <2>3. TablesInv'
    BY <1>1, <1>4, <2>1, CreateKeepsThread, CreateKeepsLinks DEF TablesInv
  <2>4. \A j \in Items : Exists(j)' <=> Exists(j) \/ j = i
    BY <1>1, <1>4 DEF CreateItem, NewRow, Exists, Absent
  <2> QED
    BY <2>2, <2>3, <2>4 DEF Existing
<1> QED
  BY <1>2, <1>3, <1>4

LEMMA MailKeepsTables ==
  ASSUME TypeOK, TablesInv, NEW i \in Items, NEW m \in Inbound,
         NEW setting \in Status \cup {NoStatus},
         messages' = Append(messages, MailRow(i, m)),
         audit' = Append(audit, MailEntry(i, setting)), links' = links,
         \A j \in Items : Exists(j) => Exists(j)', Exists(i)'
  PROVE  TablesInv'
<1> DEFINE r == MailRow(i, m)
           e == MailEntry(i, setting)
<1>1. /\ r \in Message /\ r.item = i /\ r.author = None /\ ~r.internal
      /\ e \in AuditLog /\ e.item = i /\ e.actor = None
      /\ e.action = "MAIL_CORRELATED" /\ e.ref = Len(messages) + 1
  BY MailRows
<1>2. Tells(e, r) /\ e.action \in MessageActions
  BY <1>1 DEF Tells, MessageActions
<1>3. audit \in Seq(AuditLog) /\ ThreadInv /\ ThreadTold(audit, messages) /\ LinksTold(audit, links)
  BY DEF TypeOK, TablesInv, ThreadInv
<1> HIDE DEF r, e
<1>4. audit' = Append(audit, e) /\ messages' = Append(messages, r)
  BY DEF r, e
<1>5. ThreadInv'
  BY <1>1, <1>2, <1>3, <1>4, MessageRowKeepsThread
<1>6. LinksTold(Append(audit, e), links)
  BY <1>1, <1>3, OtherRowLinks
<1> QED
  BY <1>4, <1>5, <1>6 DEF TablesInv

\* The ticket is there, or not, as before: what the tables tell of each other
\* does not depend on anything else.
LEMMA SameRowsKeepTables ==
  ASSUME TypeOK, TablesInv, UNCHANGED <<messages, audit, links>>,
         \A j \in Items : Exists(j) => Exists(j)'
  PROVE  TablesInv'
BY MessageItems DEF TablesInv, ThreadInv, ThreadsExist

LEMMA ReplyBase ==
  ASSUME BaseInv, NEW d \in Senders, StoreReply(d)
  PROVE  TypeOK' /\ TablesInv' /\ Existing' = Existing
<1>1. TypeOK' /\ (\A j \in Items : Exists(j)' <=> Exists(j))
  BY ReplyTypes
<1>2. TypeOK /\ TablesInv
  BY DEF BaseInv, IngestTypeOK
<1>3. TablesInv'
  BY <1>1, <1>2, ReplyEffects, MailKeepsTables, SameRowsKeepTables DEF Status
<1> QED
  BY <1>1, <1>3 DEF Existing

LEMMA NewItemBase ==
  ASSUME BaseInv, NEW d \in Senders, NEW i \in Items, StoreNewItem(d, i)
  PROVE  TypeOK' /\ TablesInv' /\ Existing' = Existing \cup {i}
<1>1. TypeOK' /\ Existing' = Existing \cup {i}
  BY NewItemTypes
<1>2. TypeOK /\ TablesInv
  BY DEF BaseInv, IngestTypeOK
<1>3. \A j \in Items : Exists(j)' <=> Exists(j) \/ j = i
  BY <1>1 DEF Existing
<1>4. TablesInv'
  BY <1>2, <1>3, NewItemEffects, MailKeepsTables, SameRowsKeepTables DEF Status
<1> QED
  BY <1>1, <1>4

LEMMA MatchesExist ==
  ASSUME BaseInv, NEW m \in Inbound, NEW t \in Matches(m)
  PROVE  t \in Items \cup {None} /\ (t # None => Exists(t))
<1>1. ASSUME t \in PhoneMatches(m) PROVE t \in Items /\ Exists(t)
  BY <1>1 DEF PhoneMatches, Active, Exists, Absent
<1>2. ASSUME t \in HeaderMatches(m) PROVE t \in Items /\ Exists(t)
  BY <1>2, MessageItems DEF HeaderMatches, BaseInv, IngestTypeOK, TablesInv, ThreadInv, ThreadsExist
<1>3. ASSUME t \in SubjectMatches(m) PROVE t \in Items /\ Exists(t)
  BY <1>3 DEF SubjectMatches
<1> QED
  BY <1>1, <1>2, <1>3 DEF Matches

\* What a step of a call leaves in its local variables.
LEMMA CallEffects ==
  ASSUME BaseInv, CallStep
  PROVE  \E d \in Senders, c \in Call :
           /\ call' = [call EXCEPT ![d] = c]
           /\ c.pc # "idle" => /\ c.msg \in Handed(d)
                               /\ c.target # None => Exists(c.target)
           /\ alerts' \in [Exts -> Nat] /\ raced' \in BOOLEAN
<1>1. /\ call \in [Senders -> Call] /\ alerts \in [Exts -> Nat] /\ raced \in BOOLEAN
      /\ Idle \in Call /\ Idle.pc = "idle"
  BY DEF BaseInv, IngestTypeOK, Idle, Call
<1>2. PICK d \in Senders : (\E m \in Handed(d) : Deliver(d, m)) \/ Correlate(d)
                          \/ NotifyNewMessage(d) \/ Fail(d)
  BY DEF CallStep
<1>3. ASSUME NEW m \in Handed(d), Deliver(d, m)
      PROVE  \E c \in Call :
               /\ call' = [call EXCEPT ![d] = c]
               /\ c.pc # "idle" => c.msg \in Handed(d) /\ (c.target # None => Exists(c.target))
               /\ alerts' \in [Exts -> Nat] /\ raced' \in BOOLEAN
  <2> DEFINE c == [pc |-> "correlate", msg |-> m, target |-> None]
  <2>1. c \in Call
    BY DEF Call, Handed
  <2>2. call' = [call EXCEPT ![d] = c] /\ alerts' = alerts /\ raced' \in BOOLEAN
    BY <1>1, <1>3 DEF Deliver
  <2> QED
    BY <1>1, <2>1, <2>2
<1>4. ASSUME Correlate(d)
      PROVE  \E c \in Call :
               /\ call' = [call EXCEPT ![d] = c]
               /\ c.pc # "idle" => c.msg \in Handed(d) /\ (c.target # None => Exists(c.target))
               /\ alerts' \in [Exts -> Nat] /\ raced' \in BOOLEAN
  <2>1. /\ call[d].pc = "correlate" /\ call[d] \in Call /\ call[d].msg \in Handed(d)
        /\ call[d].msg \in Inbound
    BY <1>1, <1>4 DEF Correlate, BaseInv, CallInv, Handed, Inbound
  <2>2. PICK t \in Matches(call[d].msg) :
          call' = [call EXCEPT ![d].pc = "store", ![d].target = t]
    BY <1>4 DEF Correlate
  <2>3. t \in Items \cup {None} /\ (t # None => Exists(t))
    BY <2>1, <2>2, MatchesExist
  <2> DEFINE c == [call[d] EXCEPT !.pc = "store", !.target = t]
  <2>4. c \in Call /\ c.msg = call[d].msg /\ c.target = t
    BY <2>1, <2>3 DEF Call
  <2>5. call' = [call EXCEPT ![d] = c]
    BY <1>1, <2>2
  <2>6. alerts' = alerts /\ raced' = raced
    BY <1>4 DEF Correlate
  <2> HIDE DEF c
  <2> QED
    BY <1>1, <2>1, <2>3, <2>4, <2>5, <2>6
<1>5. ASSUME NotifyNewMessage(d) \/ Fail(d)
      PROVE  /\ call' = [call EXCEPT ![d] = Idle]
             /\ alerts' \in [Exts -> Nat] /\ raced' \in BOOLEAN
  BY <1>1, <1>5 DEF NotifyNewMessage, Fail
<1> QED
  BY <1>1, <1>2, <1>3, <1>4, <1>5

LEMMA BaseInit == Init => BaseInv
<1> SUFFICES ASSUME Init PROVE BaseInv
  OBVIOUS
<1>1. TicketInit /\ Existing = {}
  BY DEF Init, TicketInit, Existing, Exists
<1>2. TypeOK
  BY <1>1, ConstantsOK DEF TicketInit, TypeOK, Absent
<1>3. IngestTypeOK
  BY <1>2 DEF Init, IngestTypeOK, Idle, Call
<1>4. \A d \in Senders : CallInv(d)
  BY DEF Init, CallInv, Idle
<1> QED
  BY <1>1, <1>3, <1>4, TablesInit, FS_EmptySet DEF BaseInv

LEMMA BaseStep == BaseInv /\ [Next]_ingestVars => BaseInv'
<1> SUFFICES ASSUME BaseInv, [Next]_ingestVars PROVE BaseInv'
  OBVIOUS
<1>1. /\ call \in [Senders -> Call] /\ alerts \in [Exts -> Nat] /\ raced \in BOOLEAN
      /\ TypeOK /\ TablesInv /\ IsFiniteSet(Existing)
      /\ \A d \in Senders : CallInv(d)
  BY DEF BaseInv, IngestTypeOK
<1>2. ASSUME NEW i \in Items, Existing' = Existing \/ Existing' = Existing \cup {i}
      PROVE  IsFiniteSet(Existing') /\ \A j \in Items : Exists(j) => Exists(j)'
  BY <1>1, <1>2, FS_AddElement DEF Existing
<1>3. ASSUME NEW i \in Items, UNCHANGED <<call, alerts, raced>>, TypeOK', TablesInv',
             Existing' = Existing \/ Existing' = Existing \cup {i}
      PROVE  BaseInv'
  <2>1. IsFiniteSet(Existing') /\ \A j \in Items : Exists(j) => Exists(j)'
    BY <1>2, <1>3
  <2>2. \A d \in Senders : call[d].target \in Items \cup {None}
    BY <1>1 DEF Call
  <2>3. ASSUME NEW d \in Senders PROVE CallInv(d)'
    BY <1>1, <1>3, <2>1, <2>2 DEF CallInv
  <2> QED
    BY <1>1, <1>3, <2>1, <2>3 DEF BaseInv, IngestTypeOK
<1>4. ASSUME NEW d \in Senders, NEW i \in Items,
             call' = [call EXCEPT ![d].pc = "notify"] \/ call' = [call EXCEPT ![d] = Idle],
             call[d].pc = "store", UNCHANGED <<alerts, raced>>, TypeOK', TablesInv',
             Existing' = Existing \/ Existing' = Existing \cup {i}
      PROVE  BaseInv'
  <2>1. IsFiniteSet(Existing') /\ \A j \in Items : Exists(j) => Exists(j)'
    BY <1>2, <1>4
  <2>2. \A o \in Senders : call[o].target \in Items \cup {None}
    BY <1>1 DEF Call
  <2>3. \A o \in Senders \ {d} : call'[o] = call[o]
    BY <1>1, <1>4
  <2>4. \/ call'[d] = [call[d] EXCEPT !.pc = "notify"]
        \/ call'[d] = Idle
    BY <1>1, <1>4
  <2>5. /\ call'[d] \in Call
        /\ call'[d].pc # "idle" => call'[d].msg = call[d].msg /\ call'[d].target = call[d].target
    BY <1>1, <2>4 DEF Call, Idle
  <2>6. call' \in [Senders -> Call]
    <3>1. DOMAIN call' = Senders /\ call' = [o \in Senders |-> call'[o]]
      BY <1>1, <1>4
    <3> QED
      BY <1>1, <2>3, <2>5, <3>1
  <2>7. ASSUME NEW o \in Senders PROVE CallInv(o)'
    <3>1. CASE o = d
      BY <1>1, <1>4, <2>1, <2>2, <2>5, <3>1 DEF CallInv
    <3>2. CASE o # d
      BY <1>1, <2>1, <2>2, <2>3, <3>2 DEF CallInv
    <3> QED
      BY <3>1, <3>2
  <2> QED
    BY <1>1, <1>4, <2>1, <2>6, <2>7 DEF BaseInv, IngestTypeOK
<1>5. CASE UNCHANGED ticketVars /\ (CallStep \/ Crash \/ UNCHANGED <<call, alerts, raced>>)
  <2>1. UNCHANGED <<status, code, party, assignee, resolvedAt, messages, links, audit>>
    BY <1>5 DEF ticketVars, rowVars
  <2>2. TypeOK' /\ TablesInv' /\ Existing' = Existing /\ \A j : Exists(j)' = Exists(j)
    BY <1>1, <2>1, SameRowsKeepTables DEF TypeOK, Existing, Exists
  <2>3. CASE UNCHANGED <<call, alerts, raced>>
    <3>1. \A d \in Senders : CallInv(d)'
      BY <1>1, <2>2, <2>3 DEF CallInv
    <3> QED
      BY <1>1, <2>2, <2>3, <3>1 DEF BaseInv, IngestTypeOK
  <2>4. CASE Crash
    <3>1. \A d \in Senders : call'[d] = Idle
      BY <2>4 DEF Crash
    <3>2. call' \in [Senders -> Call] /\ \A d \in Senders : CallInv(d)'
      BY <2>4, <3>1 DEF Crash, CallInv, Call, Idle
    <3> QED
      BY <1>1, <2>2, <2>4, <3>2 DEF BaseInv, IngestTypeOK, Crash
  <2>5. CASE CallStep
    <3>1. PICK d \in Senders, c \in Call :
            /\ call' = [call EXCEPT ![d] = c]
            /\ c.pc # "idle" => c.msg \in Handed(d) /\ (c.target # None => Exists(c.target))
            /\ alerts' \in [Exts -> Nat] /\ raced' \in BOOLEAN
      BY <2>5, CallEffects
    <3>2. call' \in [Senders -> Call]
      BY <1>1, <3>1
    <3>3. ASSUME NEW o \in Senders PROVE CallInv(o)'
      BY <1>1, <2>2, <3>1 DEF CallInv
    <3> QED
      BY <1>1, <2>2, <3>1, <3>2, <3>3 DEF BaseInv, IngestTypeOK
  <2> QED
    BY <1>5, <2>3, <2>4, <2>5
<1>6. ASSUME NEW d \in Senders, StoreReply(d) PROVE BaseInv'
  BY <1>4, <1>6, ReplyBase, ReplyEffects
<1>7. ASSUME NEW d \in Senders, NEW i \in Items, StoreNewItem(d, i) PROVE BaseInv'
  BY <1>4, <1>7, NewItemBase, NewItemEffects
<1> QED
  BY <1>3, <1>5, <1>6, <1>7, StepCases, OperatorBase

LEMMA BaseInvariant == Spec => []BaseInv
BY BaseInit, BaseStep, PTL DEF Spec

\* Calls, alerts, tickets, thread and trail stay well typed.
THEOREM IngestTypeCorrect == Spec => []IngestTypeOK
<1>1. BaseInv => IngestTypeOK
  BY DEF BaseInv
<1> QED
  BY <1>1, BaseInvariant, PTL

\* The trail tells of every ingested message too: the thread and the links are
\* rebuilt from it whatever overlaps, fails or crashes.
THEOREM MailIsTold == Spec => []TrailMatchesTables
<1>1. BaseInv => TrailMatchesTables
  BY ThreadToldIs, LinksToldIs DEF BaseInv, TablesInv, ThreadInv, TrailMatchesTables
<1> QED
  BY <1>1, BaseInvariant, PTL

-----------------------------------------------------------------------------
(* Requester messages and parked tickets.                                    *)

LEMMA ReplyKeepsSeen ==
  ASSUME BaseInv, NoUnseenReply, NEW d \in Senders, StoreReply(d)
  PROVE  NoUnseenReply'
<1> DEFINE i == call[d].target
           m == call[d].msg
           e == MailEntry(i, NoStatus)
<1>1. /\ TypeOK /\ audit \in Seq(AuditLog) /\ i \in Items /\ m \in Inbound
      /\ status \in [Items -> Status \cup {Absent}]
  BY ReplyEffects DEF BaseInv, IngestTypeOK, TypeOK
<1>2. e \in AuditLog /\ e.item = i
  BY <1>1, MailRows
<1>3. \/ audit' = Append(audit, e) /\ status' = [status EXCEPT ![i] = AfterMail(@)]
      \/ audit' = audit /\ status' = status
  BY ReplyEffects
<1> HIDE DEF i, m, e
<1>4. CASE audit' = Append(audit, e) /\ status' = [status EXCEPT ![i] = AfterMail(@)]
  <2>1. /\ \A j \in Items : j # e.item => status'[j] = status[j]
        /\ status'[e.item] \notin Parked
    BY <1>1, <1>2, <1>4 DEF AfterMail, Parked
  <2>2. NothingSince(Append(audit, e), status')
    BY <1>1, <1>2, <2>1, NothingSinceIs, NothingSinceAppend
  <2> QED
    BY <1>4, <2>2 DEF NoUnseenReply, NothingSince, ParkingRow
<1>5. CASE audit' = audit /\ status' = status
  BY <1>5 DEF NoUnseenReply
<1> QED
  BY <1>3, <1>4, <1>5

LEMMA NewItemKeepsSeen ==
  ASSUME BaseInv, NoUnseenReply, NEW d \in Senders, NEW i \in Items, StoreNewItem(d, i)
  PROVE  NoUnseenReply'
<1> DEFINE m == call[d].msg
           e == MailEntry(i, "NEW")
<1>1. /\ TypeOK /\ audit \in Seq(AuditLog) /\ m \in Inbound
      /\ status \in [Items -> Status \cup {Absent}]
      /\ status' = [status EXCEPT ![i] = "NEW"]
  BY NewItemEffects DEF BaseInv, IngestTypeOK, TypeOK
<1>2. e \in AuditLog /\ e.item = i
  BY <1>1, MailRows DEF Status
<1>3. audit' = Append(audit, e) \/ audit' = audit
  BY NewItemEffects
<1> HIDE DEF m, e
<1>4. /\ \A j \in Items : j # i => status'[j] = status[j]
      /\ status'[i] \notin Parked
  BY <1>1 DEF Parked
<1>5. CASE audit' = Append(audit, e)
  <2>1. NothingSince(Append(audit, e), status')
    BY <1>1, <1>2, <1>4, NothingSinceIs, NothingSinceAppend
  <2> QED
    BY <1>5, <2>1 DEF NoUnseenReply, NothingSince, ParkingRow
<1>6. CASE audit' = audit
  <2>1. /\ NothingSince(audit, status)
        /\ \A j \in Items : status'[j] \in Parked => status[j] \in Parked
    BY <1>4, NothingSinceIs
  <2>2. NothingSince(audit, status')
    BY <2>1 DEF NothingSince
  <2> QED
    BY <1>6, <2>2 DEF NoUnseenReply, NothingSince, ParkingRow
<1> QED
  BY <1>3, <1>5, <1>6

LEMMA MailSeenStep == BaseInv /\ NoUnseenReply /\ [Next]_ingestVars => NoUnseenReply'
<1> SUFFICES ASSUME BaseInv, NoUnseenReply, [Next]_ingestVars PROVE NoUnseenReply'
  OBVIOUS
<1>1. TypeOK /\ "NEW" \in Status
  BY DEF BaseInv, IngestTypeOK, Status
<1>2. UNCHANGED ticketVars => NoUnseenReply'
  BY DEF ticketVars, rowVars, NoUnseenReply
<1> QED
  BY <1>1, <1>2, StepCases, TransitionKeepsSeen, MessageKeepsSeen, CreateKeepsSeen,
     ReplyKeepsSeen, NewItemKeepsSeen

\* Whatever overlaps it, a requester's message never rests unseen in a ticket
\* that waits for the requester or is resolved.
THEOREM MailIsSeen == Spec => []NoUnseenReply
<1>1. Init => NoUnseenReply
  BY SeenInit DEF Init
<1> QED
  BY <1>1, MailSeenStep, BaseInvariant, PTL DEF Spec

\* Mail never takes a ticket out of CLOSED, only an operator does.
THEOREM MailLeavesClosed == Spec => ClosedNeedsOperator
<1> DEFINE Shut == \A i \in Items : Reopened(i) => OperatorReopened
<1>1. BaseInv /\ [Next]_ingestVars => [Shut]_status
  <2> SUFFICES ASSUME BaseInv, [Next]_ingestVars, NEW j \in Items, Reopened(j)
               PROVE  OperatorReopened
    OBVIOUS
  <2>1. TypeOK /\ status \in [Items -> Status \cup {Absent}]
    BY DEF BaseInv, IngestTypeOK, TypeOK
  <2>2. ASSUME NEW d \in Senders, StoreReply(d) PROVE ~Reopened(j)
    <3>1. /\ call[d].target \in Items
          /\ \/ status' = [status EXCEPT ![call[d].target] = AfterMail(@)]
             \/ status' = status
      BY <2>2, ReplyEffects
    <3> QED
      BY <2>1, <3>1 DEF Reopened, AfterMail
  <2>3. ASSUME NEW d \in Senders, NEW i \in Items, StoreNewItem(d, i) PROVE ~Reopened(j)
    <3>1. status' = [status EXCEPT ![i] = "NEW"] /\ ~Exists(i)
      BY <2>3, NewItemEffects
    <3> QED
      BY <2>1, <3>1 DEF Reopened, Exists, Absent
  <2>4. ~UNCHANGED ticketVars
    BY DEF ticketVars, rowVars, Reopened
  <2> QED
    BY <2>1, <2>2, <2>3, <2>4, StepCases, CreateReopensNone, MessageReopensNone,
       TransitionIsTheOperators
<1>2. [Shut]_status <=> [\A i \in Items : status[i] = "CLOSED" /\ status'[i] # "CLOSED" =>
                          /\ Len(audit') = Len(audit) + 1
                          /\ audit'[Len(audit')].action = "STATUS_CHANGED"
                          /\ audit'[Len(audit')].actor \in Staff]_status
  BY DEF Reopened, OperatorReopened
<1> QED
  BY <1>1, <1>2, BaseInvariant, PTL DEF Spec, ClosedNeedsOperator

-----------------------------------------------------------------------------
(* Once stored, once announced.  An alert that is due names a stored message *)
(* no alert was given for yet, and no two calls owe the same alert.          *)

HasStored(ms, e) == \E k \in DOMAIN ms : ms[k].ext = e

OnceIn(ms) ==
  \A k, l \in DOMAIN ms : ms[k].ext = ms[l].ext /\ ms[k].ext # None => k = l

Due(d) == call[d].pc = "notify"

AlertInv ==
  /\ OnceIn(messages)
  /\ \A e \in Exts : alerts[e] <= 1 /\ (alerts[e] = 1 => HasStored(messages, e))
  /\ \A d \in Senders : Due(d) =>
       alerts[call[d].msg.ext] = 0 /\ HasStored(messages, call[d].msg.ext)
  /\ \A d, o \in Senders : d # o /\ Due(d) /\ Due(o) => call[d].msg.ext # call[o].msg.ext

LEMMA Grown ==
  ASSUME NEW ms \in Seq(Message), NEW m \in Message
  PROVE  /\ \A e : HasStored(Append(ms, m), e) <=> HasStored(ms, e) \/ e = m.ext
         /\ OnceIn(ms) /\ (m.ext = None \/ ~HasStored(ms, m.ext)) => OnceIn(Append(ms, m))
<1> DEFINE new == Append(ms, m)
           N == Len(ms)
<1>1. /\ N \in Nat /\ DOMAIN new = 1..(N + 1) /\ new[N + 1] = m
      /\ DOMAIN ms = 1..N /\ \A k \in 1..N : new[k] = ms[k]
  BY AppendFacts
<1> HIDE DEF new, N
<1>2. 1..(N + 1) = 1..N \cup {N + 1}
  BY <1>1
<1>3. \A e : HasStored(new, e) <=> HasStored(ms, e) \/ e = m.ext
  BY <1>1, <1>2 DEF HasStored
<1>4. ASSUME OnceIn(ms), m.ext = None \/ ~HasStored(ms, m.ext),
             NEW k \in 1..(N + 1), NEW l \in 1..(N + 1), new[k].ext = new[l].ext, new[k].ext # None
      PROVE  k = l
  <2>1. CASE k \in 1..N /\ l \in 1..N
    BY <1>1, <1>4, <2>1 DEF OnceIn
  <2>2. CASE k \in 1..N /\ l = N + 1
    BY <1>1, <1>4, <2>2 DEF HasStored
  <2>3. CASE k = N + 1 /\ l \in 1..N
    BY <1>1, <1>4, <2>3 DEF HasStored
  <2> QED
    BY <1>2, <1>4, <2>1, <2>2, <2>3
<1>5. OnceIn(ms) /\ (m.ext = None \/ ~HasStored(ms, m.ext)) => OnceIn(new)
  BY <1>1, <1>4 DEF OnceIn
<1> QED
  BY <1>3, <1>5 DEF new

LEMMA FreeExtIs == \A e : FreeExt(e) <=> e = None \/ ~HasStored(messages, e)
BY DEF FreeExt, HasStored

\* A step that gives no alert and owes no new one.
LEMMA NoNewAlert ==
  ASSUME AlertInv, alerts' = alerts, OnceIn(messages'),
         \A e : HasStored(messages, e) => HasStored(messages', e),
         \A o \in Senders : call'[o].pc = "notify" => call'[o] = call[o]
  PROVE  AlertInv'
BY DEF AlertInv, Due

\* What the operators add to a thread has no Message-ID.
LEMMA OperatorMessages ==
  ASSUME TypeOK, NEW i \in Items,
         \/ \E u \in Staff, s \in Status : TransitionStatus(i, u, s)
         \/ \E u \in Staff, internal \in BOOLEAN : AddThreadMessage(i, u, internal, None)
         \/ \E c \in Codes : CreateItem(i, c, "NEW", None, None)
  PROVE  messages' = messages
         \/ \E m \in Message : m.ext = None /\ messages' = Append(messages, m)
<1>1. ASSUME NEW u \in Staff, NEW internal \in BOOLEAN, AddThreadMessage(i, u, internal, None)
      PROVE  \E m \in Message : m.ext = None /\ messages' = Append(messages, m)
  <2> DEFINE m == [item |-> i, author |-> u, internal |-> internal, ext |-> None]
  <2>1. m \in Message /\ m.ext = None
    BY DEF Message
  <2>2. messages' = Append(messages, m)
    BY <1>1 DEF AddThreadMessage
  <2> HIDE DEF m
  <2> QED
    BY <2>1, <2>2
<1>2. ASSUME NEW c \in Codes, CreateItem(i, c, "NEW", None, None)
      PROVE  messages' = messages
  BY <1>2 DEF CreateItem
<1> QED
  BY <1>1, <1>2 DEF TransitionStatus

LEMMA StoreAlert ==
  ASSUME BaseInv, AlertInv, NEW d \in Senders, NEW r \in Message,
         call[d].msg \in Inbound, r.ext = call[d].msg.ext, FreeExt(call[d].msg.ext),
         messages' = Append(messages, r), call' = [call EXCEPT ![d].pc = "notify"],
         alerts' = alerts
  PROVE  AlertInv'
<1> DEFINE x == call[d].msg.ext
<1>1. /\ messages \in Seq(Message) /\ call \in [Senders -> Call] /\ alerts \in [Exts -> Nat]
      /\ x \in Exts /\ x # None
  BY InboundTypes DEF BaseInv, IngestTypeOK, TypeOK
<1>2. /\ ~HasStored(messages, x) /\ OnceIn(messages')
      /\ \A e : HasStored(messages', e) <=> HasStored(messages, e) \/ e = x
  BY <1>1, Grown, FreeExtIs DEF AlertInv
<1>3. alerts[x] = 0
  <2>1. alerts[x] \in Nat /\ alerts[x] <= 1 /\ alerts[x] # 1
    BY <1>1, <1>2 DEF AlertInv
  <2> QED
    BY <2>1
<1>4. /\ \A o \in Senders \ {d} : call'[o] = call[o]
      /\ call'[d].msg = call[d].msg
  <2>1. call'[d] = [call[d] EXCEPT !.pc = "notify"]
    BY <1>1
  <2> QED
    BY <1>1, <2>1 DEF Call
<1>5. \A o \in Senders \ {d} : Due(o) => call[o].msg.ext # x
  BY <1>2 DEF AlertInv
<1> HIDE DEF x
<1>6. call'[d].msg.ext = x
  BY <1>4 DEF x
<1>7. ASSUME NEW o \in Senders, Due(o)'
      PROVE  alerts'[call'[o].msg.ext] = 0 /\ HasStored(messages', call'[o].msg.ext)
  <2>1. CASE o = d
    BY <1>2, <1>3, <1>6, <2>1
  <2>2. CASE o # d
    BY <1>2, <1>4, <1>7, <2>2 DEF AlertInv, Due
  <2> QED
    BY <2>1, <2>2
<1>8. ASSUME NEW o \in Senders, NEW q \in Senders, o # q, Due(o)', Due(q)'
      PROVE  call'[o].msg.ext # call'[q].msg.ext
  BY <1>4, <1>5, <1>6, <1>8 DEF AlertInv, Due
<1>9. \A e \in Exts : alerts'[e] <= 1 /\ (alerts'[e] = 1 => HasStored(messages', e))
  BY <1>2 DEF AlertInv
<1> QED
  BY <1>2, <1>7, <1>8, <1>9 DEF AlertInv

LEMMA GiveAlert ==
  ASSUME BaseInv, AlertInv, NEW d \in Senders, NotifyNewMessage(d)
  PROVE  AlertInv'
<1> DEFINE x == call[d].msg.ext
<1>1. /\ call \in [Senders -> Call] /\ alerts \in [Exts -> Nat] /\ Due(d)
      /\ messages' = messages /\ call' = [call EXCEPT ![d] = Idle]
      /\ alerts' = [alerts EXCEPT ![x] = @ + 1]
  BY DEF BaseInv, IngestTypeOK, NotifyNewMessage, ticketVars, Due
<1>2. call[d].msg \in Inbound
  BY <1>1 DEF BaseInv, CallInv, Handed, Inbound, Due
<1>3. x \in Exts /\ alerts[x] = 0 /\ HasStored(messages, x)
  BY <1>1, <1>2, InboundTypes DEF AlertInv
<1>4. \A o \in Senders \ {d} : call'[o] = call[o] /\ (Due(o) => call[o].msg.ext # x)
  BY <1>1 DEF AlertInv
<1>5. call'[d].pc # "notify"
  BY <1>1 DEF Idle
<1> HIDE DEF x
<1>6. \A e \in Exts : alerts'[e] = IF e = x THEN 1 ELSE alerts[e]
  BY <1>1, <1>3
<1>7. \A e \in Exts : alerts'[e] <= 1 /\ (alerts'[e] = 1 => HasStored(messages', e))
  BY <1>1, <1>3, <1>6 DEF AlertInv
<1>8. ASSUME NEW o \in Senders, Due(o)'
      PROVE  alerts'[call'[o].msg.ext] = 0 /\ HasStored(messages', call'[o].msg.ext)
  <2>1. o # d /\ call'[o] = call[o] /\ Due(o)
    BY <1>4, <1>5, <1>8 DEF Due
  <2>2. call[o].msg.ext \in Exts
    BY <2>1, InboundTypes DEF BaseInv, CallInv, Handed, Inbound, Due
  <2> QED
    BY <1>1, <1>4, <1>6, <2>1, <2>2 DEF AlertInv
<1>9. ASSUME NEW o \in Senders, NEW q \in Senders, o # q, Due(o)', Due(q)'
      PROVE  call'[o].msg.ext # call'[q].msg.ext
  BY <1>4, <1>5, <1>9 DEF AlertInv, Due
<1>10. OnceIn(messages')
  BY <1>1 DEF AlertInv
<1> QED
  BY <1>7, <1>8, <1>9, <1>10 DEF AlertInv

LEMMA AlertStep == BaseInv /\ AlertInv /\ [Next]_ingestVars => AlertInv'
<1> SUFFICES ASSUME BaseInv, AlertInv, [Next]_ingestVars PROVE AlertInv'
  OBVIOUS
<1>1. /\ TypeOK /\ messages \in Seq(Message) /\ call \in [Senders -> Call]
      /\ OnceIn(messages)
  BY DEF BaseInv, IngestTypeOK, TypeOK, AlertInv
<1>2. ASSUME NEW i \in Items, UNCHANGED <<call, alerts, raced>>,
             \/ \E u \in Staff, s \in Status : TransitionStatus(i, u, s)
             \/ \E u \in Staff, internal \in BOOLEAN : AddThreadMessage(i, u, internal, None)
             \/ \E c \in Codes : CreateItem(i, c, "NEW", None, None)
      PROVE  AlertInv'
  <2>1. messages' = messages \/ \E m \in Message : m.ext = None /\ messages' = Append(messages, m)
    BY <1>1, <1>2, OperatorMessages
  <2>2. OnceIn(messages') /\ \A e : HasStored(messages, e) => HasStored(messages', e)
    BY <1>1, <2>1, Grown
  <2> QED
    BY <1>2, <2>2, NoNewAlert
<1>3. ASSUME NEW d \in Senders, messages' = messages, alerts' = alerts,
             call' = [call EXCEPT ![d] = Idle]
      PROVE  AlertInv'
  <2>1. \A o \in Senders : call'[o].pc = "notify" => call'[o] = call[o]
    BY <1>1, <1>3 DEF Idle
  <2> QED
    BY <1>1, <1>3, <2>1, NoNewAlert
<1>4. ASSUME NEW d \in Senders, StoreReply(d) PROVE AlertInv'
  <2> DEFINE i == call[d].target
             m == call[d].msg
  <2>1. /\ i \in Items /\ m \in Inbound /\ alerts' = alerts
        /\ \/ /\ FreeExt(m.ext) /\ messages' = Append(messages, MailRow(i, m))
              /\ call' = [call EXCEPT ![d].pc = "notify"]
           \/ messages' = messages /\ call' = [call EXCEPT ![d] = Idle]
    BY <1>4, ReplyEffects
  <2>2. MailRow(i, m) \in Message /\ MailRow(i, m).ext = m.ext
    BY <1>1, <2>1, MailRows DEF Status
  <2> QED
    BY <1>3, <2>1, <2>2, StoreAlert
<1>5. ASSUME NEW d \in Senders, NEW i \in Items, StoreNewItem(d, i) PROVE AlertInv'
  <2> DEFINE m == call[d].msg
  <2>1. /\ m \in Inbound /\ alerts' = alerts
        /\ \/ /\ FreeExt(m.ext) /\ messages' = Append(messages, MailRow(i, m))
              /\ call' = [call EXCEPT ![d].pc = "notify"]
           \/ messages' = messages /\ call' = [call EXCEPT ![d] = Idle]
    BY <1>5, NewItemEffects
  <2>2. MailRow(i, m) \in Message /\ MailRow(i, m).ext = m.ext
    BY <1>1, <2>1, MailRows DEF Status
  <2> QED
    BY <1>3, <2>1, <2>2, StoreAlert
<1>6. CASE UNCHANGED ticketVars /\ UNCHANGED <<call, alerts, raced>>
  BY <1>1, <1>6, NoNewAlert DEF ticketVars
<1>7. CASE UNCHANGED ticketVars /\ Crash
  <2>1. alerts' = alerts /\ messages' = messages /\ \A o \in Senders : call'[o].pc # "notify"
    BY <1>7 DEF Crash, ticketVars, Idle
  <2> QED
    BY <1>1, <2>1, NoNewAlert
<1>8. CASE CallStep
  <2>1. PICK d \in Senders : (\E m \in Handed(d) : Deliver(d, m)) \/ Correlate(d)
                            \/ NotifyNewMessage(d) \/ Fail(d)
    BY <1>8 DEF CallStep
  <2>2. ASSUME NEW m \in Handed(d), Deliver(d, m) PROVE AlertInv'
    <3>1. /\ alerts' = alerts /\ messages' = messages
          /\ \A o \in Senders : call'[o].pc = "notify" => call'[o] = call[o]
      BY <1>1, <2>2 DEF Deliver, ticketVars
    <3> QED
      BY <1>1, <3>1, NoNewAlert
  <2>3. CASE Correlate(d)
    <3>1. PICK t : call' = [call EXCEPT ![d].pc = "store", ![d].target = t]
      BY <2>3 DEF Correlate
    <3>2. call'[d] = [call[d] EXCEPT !.pc = "store", !.target = t] /\ call[d] \in Call
      BY <1>1, <3>1
    <3>3. call'[d].pc = "store"
      BY <3>2 DEF Call
    <3>4. /\ alerts' = alerts /\ messages' = messages
          /\ \A o \in Senders \ {d} : call'[o] = call[o]
      BY <1>1, <2>3, <3>1 DEF Correlate, ticketVars
    <3> QED
      BY <1>1, <3>3, <3>4, NoNewAlert
  <2>4. CASE Fail(d)
    BY <1>3, <2>4 DEF Fail, ticketVars
  <2> QED
    BY <2>1, <2>2, <2>3, <2>4, GiveAlert
<1> QED
  BY <1>2, <1>4, <1>5, <1>6, <1>7, <1>8, StepCases

LEMMA AlertInit == Init => AlertInv
<1> SUFFICES ASSUME Init PROVE AlertInv
  OBVIOUS
<1>1. DOMAIN messages = {} /\ \A d \in Senders : ~Due(d)
  BY DEF Init, TicketInit, Due, Idle
<1>2. \A e \in Exts : alerts[e] = 0
  BY DEF Init
<1> QED
  BY <1>1, <1>2 DEF AlertInv, OnceIn

\* A message is stored once, however many of its deliveries overlap, and live
\* viewers are told of it at most once, after it is committed and by the call
\* that committed it.
THEOREM AlertedOnceStoredOnce == Spec => []AlertsFollowCommit
<1>1. AlertInv => AlertsFollowCommit
  BY DEF AlertInv, AlertsFollowCommit, StoredOnce, OnceIn, HasStored, Stored, Due
<1> QED
  BY <1>1, AlertInit, AlertStep, BaseInvariant, PTL DEF Spec

-----------------------------------------------------------------------------
(* Tickets callers made.  Their ITEM_CREATED row stays in the trail.         *)

MadeIn(a, i) == \E k \in DOMAIN a : a[k].item = i /\ a[k].action = "ITEM_CREATED"

LEMMA MadeByCallerIs == \A i : MadeByCaller(i) <=> MadeIn(audit, i)
BY DEF MadeByCaller, MadeIn

LEMMA MadeGrows ==
  ASSUME NEW a \in Seq(AuditLog), NEW e \in AuditLog
  PROVE  /\ Append(a, e) \in Seq(AuditLog)
         /\ \A i : MadeIn(a, i) => MadeIn(Append(a, e), i)
         /\ e.action = "ITEM_CREATED" => MadeIn(Append(a, e), e.item)
<1> DEFINE b == Append(a, e)
           n == Len(a)
<1>1. /\ n \in Nat /\ DOMAIN b = 1..(n + 1) /\ b[n + 1] = e /\ b \in Seq(AuditLog)
      /\ DOMAIN a = 1..n /\ \A k \in 1..n : b[k] = a[k]
  BY AppendFacts
<1> HIDE DEF b, n
<1>2. /\ \A i : MadeIn(a, i) => MadeIn(b, i)
      /\ e.action = "ITEM_CREATED" => MadeIn(b, e.item)
  BY <1>1 DEF MadeIn
<1> QED
  BY <1>1, <1>2 DEF b

\* No step takes the row away, and CreateItem adds it.
LEMMA CallersStay ==
  ASSUME BaseInv, [Next]_ingestVars
  PROVE  \A j \in Items : MadeByCaller(j) => MadeByCaller(j)'
<1> SUFFICES ASSUME NEW j \in Items, MadeIn(audit, j) PROVE MadeIn(audit', j)
  BY DEF MadeByCaller, MadeIn
<1>1. TypeOK /\ audit \in Seq(AuditLog)
  BY DEF BaseInv, IngestTypeOK, TypeOK
<1>2. ASSUME NEW i \in Items, NEW u \in Staff, NEW s \in Status, TransitionStatus(i, u, s)
      PROVE  MadeIn(audit', j)
  <2>1. /\ audit' = Append(audit, StatusEntry(i, "STATUS_CHANGED", u, status[i], s))
        /\ status[i] \in Status
    BY <1>1, <1>2 DEF TransitionStatus, TypeOK, Exists
  <2>2. StatusEntry(i, "STATUS_CHANGED", u, status[i], s) \in AuditLog
    BY <2>1, StatusEntryType DEF AuditAction
  <2> QED
    BY <1>1, <2>1, <2>2, MadeGrows
<1>3. ASSUME NEW i \in Items, NEW u \in Staff, NEW internal \in BOOLEAN,
             AddThreadMessage(i, u, internal, None)
      PROVE  MadeIn(audit', j)
  <2> DEFINE e1 == ChangeRow(i, u, internal)
             e2 == OwnRow(i, u, internal)
  <2>1. /\ e1 \in AuditLog /\ e2 \in AuditLog
        /\ audit' = Append(audit, e2) \/ audit' = Append(Append(audit, e1), e2)
    BY <1>1, <1>3, MessageRows
  <2> HIDE DEF e1, e2
  <2>2. Append(audit, e1) \in Seq(AuditLog) /\ MadeIn(Append(audit, e1), j)
    BY <1>1, <2>1, MadeGrows
  <2> QED
    BY <1>1, <2>1, <2>2, MadeGrows
<1>4. ASSUME NEW i \in Items, NEW c \in Codes, CreateItem(i, c, "NEW", None, None)
      PROVE  MadeIn(audit', j)
  <2>1. audit' = Append(audit, StatusEntry(i, "ITEM_CREATED", None, NoStatus, "NEW"))
    BY <1>4 DEF CreateItem, FirstMessage
  <2>2. StatusEntry(i, "ITEM_CREATED", None, NoStatus, "NEW") \in AuditLog
    BY StatusEntryType DEF AuditAction, Status
  <2> QED
    BY <1>1, <2>1, <2>2, MadeGrows
<1>5. ASSUME NEW i \in Items, NEW m \in Inbound, NEW setting \in Status \cup {NoStatus},
             audit' = Append(audit, MailEntry(i, setting))
      PROVE  MadeIn(audit', j)
  <2>1. MailEntry(i, setting) \in AuditLog
    BY <1>1, MailRows
  <2> QED
    BY <1>1, <1>5, <2>1, MadeGrows
<1>6. ASSUME NEW d \in Senders, StoreReply(d) PROVE MadeIn(audit', j)
  BY <1>5, <1>6, ReplyEffects
<1>7. ASSUME NEW d \in Senders, NEW i \in Items, StoreNewItem(d, i) PROVE MadeIn(audit', j)
  BY <1>5, <1>7, NewItemEffects DEF Status
<1>8. UNCHANGED ticketVars => MadeIn(audit', j)
  BY DEF ticketVars
<1> QED
  BY <1>2, <1>3, <1>4, <1>6, <1>7, <1>8, StepCases

LEMMA CallerMakes ==
  ASSUME BaseInv, NEW i \in Items, NEW c \in Codes, CreateItem(i, c, "NEW", None, None)
  PROVE  MadeByCaller(i)'
<1> DEFINE e == StatusEntry(i, "ITEM_CREATED", None, NoStatus, "NEW")
<1>1. audit' = Append(audit, e) /\ audit \in Seq(AuditLog)
  BY DEF CreateItem, FirstMessage, BaseInv, IngestTypeOK, TypeOK
<1>2. e \in AuditLog /\ e.item = i /\ e.action = "ITEM_CREATED"
  BY StatusEntryType, StatusEntryFields DEF AuditAction, Status
<1> HIDE DEF e
<1>3. MadeIn(audit', i)
  BY <1>1, <1>2, MadeGrows
<1> QED
  BY <1>3 DEF MadeByCaller, MadeIn

-----------------------------------------------------------------------------
(* Generated codes.                                                          *)

\* No code the counter generated reaches it: it counts the tickets that have
\* one, and others besides.
CodesInv ==
  \A i \in Existing : ~MadeByCaller(i) =>
    code[i] \in Nat /\ code[i] < FirstCode + Cardinality(Existing)

LEMMA SameCodes ==
  ASSUME CodesInv, Existing' = Existing, code' = code,
         \A j \in Items : MadeByCaller(j) => MadeByCaller(j)'
  PROVE  CodesInv'
<1> DEFINE n == Cardinality(Existing)
<1>1. Cardinality(Existing') = n /\ Existing \subseteq Items
  BY DEF Existing
<1>2. \A i \in Existing : ~MadeByCaller(i) => code[i] \in Nat /\ code[i] < FirstCode + n
  BY DEF CodesInv
<1> HIDE DEF n
<1> QED
  BY <1>1, <1>2 DEF CodesInv

LEMMA OneMoreCode ==
  ASSUME BaseInv, CodesInv, NEW i \in Items, NEW c \in Nat, ~Exists(i),
         MadeByCaller(i)' \/ c < FirstCode + Cardinality(Existing) + 1,
         \A j \in Items : MadeByCaller(j) => MadeByCaller(j)',
         Existing' = Existing \cup {i}, code' = [code EXCEPT ![i] = c]
  PROVE  CodesInv'
<1> DEFINE n == Cardinality(Existing)
<1>1. i \notin Existing /\ IsFiniteSet(Existing) /\ Existing \subseteq Items
  BY DEF Existing, BaseInv
<1>2. n \in Nat /\ Cardinality(Existing') = n + 1 /\ FirstCode \in Nat
  BY <1>1, FS_CardinalityType, FS_AddElement, InboundTypes
<1>3. /\ \A j \in Existing : ~MadeByCaller(j) => code[j] \in Nat /\ code[j] < FirstCode + n
      /\ MadeByCaller(i)' \/ c < FirstCode + n + 1
  BY DEF CodesInv
<1>4. \A j \in Existing' : code'[j] = IF j = i THEN c ELSE code[j]
  BY DEF BaseInv, IngestTypeOK, TypeOK, Existing
<1> HIDE DEF n
<1>5. ASSUME NEW j \in Existing', ~MadeByCaller(j)'
      PROVE  code'[j] \in Nat /\ code'[j] < FirstCode + (n + 1)
  <2>1. CASE j = i
    BY <1>2, <1>3, <1>4, <1>5, <2>1
  <2>2. CASE j # i
    <3>1. j \in Existing /\ code'[j] = code[j] /\ ~MadeByCaller(j)
      BY <1>1, <1>4, <1>5, <2>2
    <3> QED
      BY <1>2, <1>3, <3>1
  <2> QED
    BY <2>1, <2>2
<1> QED
  BY <1>2, <1>5 DEF CodesInv

LEMMA CodesStep == BaseInv /\ CodesInv /\ [Next]_ingestVars => CodesInv'
<1> SUFFICES ASSUME BaseInv, CodesInv, [Next]_ingestVars PROVE CodesInv'
  OBVIOUS
<1>0. \A j \in Items : MadeByCaller(j) => MadeByCaller(j)'
  BY CallersStay
<1>1. ASSUME NEW i \in Items, NEW u \in Staff, NEW s \in Status, TransitionStatus(i, u, s)
      PROVE  CodesInv'
  <2>1. Existing' = Existing /\ code' = code
    BY <1>1, OperatorBase DEF TransitionStatus, Existing
  <2> QED
    BY <1>0, <2>1, SameCodes
<1>2. ASSUME NEW i \in Items, NEW u \in Staff, NEW internal \in BOOLEAN,
             AddThreadMessage(i, u, internal, None)
      PROVE  CodesInv'
  <2>1. Existing' = Existing /\ code' = code
    BY <1>2, OperatorBase DEF AddThreadMessage, Existing
  <2> QED
    BY <1>0, <2>1, SameCodes
<1>3. ASSUME NEW i \in Items, NEW c \in Codes, CreateItem(i, c, "NEW", None, None)
      PROVE  CodesInv'
  <2>1. /\ ~Exists(i) /\ code' = [code EXCEPT ![i] = c]
        /\ status' = [status EXCEPT ![i] = "NEW"]
    BY <1>3 DEF CreateItem, NewRow
  <2>2. Existing' = Existing \cup {i}
    <3>1. \A j \in Items : Exists(j)' <=> Exists(j) \/ j = i
      BY <2>1 DEF BaseInv, IngestTypeOK, TypeOK, Exists, Absent
    <3> QED
      BY <3>1 DEF Existing
  <2>3. c \in Nat /\ MadeByCaller(i)'
    BY <1>3, ConstantsOK, CallerMakes
  <2> QED
    BY <1>0, <2>1, <2>2, <2>3, OneMoreCode
<1>4. ASSUME NEW d \in Senders, StoreReply(d) PROVE CodesInv'
  BY <1>0, <1>4, ReplyBase, ReplyEffects, SameCodes
<1>5. ASSUME NEW d \in Senders, NEW i \in Items, StoreNewItem(d, i) PROVE CodesInv'
  <2>1. ~Exists(i) /\ code' = [code EXCEPT ![i] = GeneratedCode] /\ Existing' = Existing \cup {i}
    BY <1>5, NewItemEffects, NewItemBase
  <2>2. /\ GeneratedCode \in Nat /\ GeneratedCode = Cardinality(Existing) + FirstCode
        /\ Cardinality(Existing) \in Nat /\ FirstCode \in Nat
    BY GeneratedCodeType, FS_CardinalityType, InboundTypes DEF BaseInv
  <2> DEFINE n == Cardinality(Existing)
  <2>3. GeneratedCode < FirstCode + n + 1
    <3>1. n \in Nat /\ GeneratedCode = n + FirstCode
      BY <2>2
    <3> HIDE DEF n
    <3> QED
      BY <2>2, <3>1
  <2> QED
    BY <1>0, <2>1, <2>2, <2>3, OneMoreCode
<1>6. CASE UNCHANGED ticketVars
  <2>1. code' = code /\ Existing' = Existing
    BY <1>6 DEF ticketVars, rowVars, Existing, Exists
  <2> QED
    BY <1>0, <2>1, SameCodes
<1> QED
  BY <1>1, <1>2, <1>3, <1>4, <1>5, <1>6, StepCases

\* A ticket that holds the code the counter generates next was made by a caller
\* of CreateItem: the counter never generates a code twice.
THEOREM CodesAreGeneratedOnce == Spec => []GeneratedCodesDiffer
<1>1. Init => CodesInv
  BY DEF Init, TicketInit, CodesInv, Existing, Exists
<1>2. BaseInv /\ CodesInv => GeneratedCodesDiffer
  <2> SUFFICES ASSUME BaseInv, CodesInv, NEW i \in Items, Exists(i), ~MadeByCaller(i)
               PROVE  code[i] # GeneratedCode
    BY DEF GeneratedCodesDiffer
  <2> DEFINE n == Cardinality(Existing)
  <2>1. n \in Nat /\ FirstCode \in Nat /\ GeneratedCode = n + FirstCode
    BY GeneratedCodeType, FS_CardinalityType, InboundTypes DEF BaseInv
  <2>2. code[i] \in Nat /\ code[i] < FirstCode + n
    BY DEF CodesInv, Existing
  <2> HIDE DEF n
  <2> QED
    BY <2>1, <2>2
<1> QED
  BY <1>1, <1>2, CodesStep, BaseInvariant, PTL DEF Spec

-----------------------------------------------------------------------------
(* Gaps.  As long as no message was let in that was stored or on its way,    *)
(* what a call is to store is new, and no two calls carry the same message.  *)

FlightInv ==
  /\ \A d \in Senders : call[d].pc \in {"correlate", "store"} => FreeExt(call[d].msg.ext)
  /\ \A d, o \in Senders :
       d # o /\ call[d].pc # "idle" /\ call[o].pc # "idle" => call[d].msg # call[o].msg

GapInv == raced \/ (NoEmptyTicket /\ TrailInv /\ FlightInv)

LEMMA MailKeepsTrail ==
  ASSUME TypeOK, TrailInv, NEW i \in Items, NEW e \in AuditLog, e.item = i,
         e.action = "MAIL_CORRELATED", audit' = Append(audit, e),
         \/ e.to = NoStatus /\ status' = [status EXCEPT ![i] = AfterMail(@)]
         \/ e.to = "NEW" /\ status' = [status EXCEPT ![i] = "NEW"]
  PROVE  TrailInv'
<1>1. /\ audit \in Seq(AuditLog) /\ status \in [Items -> Status \cup {Absent}]
      /\ Chained(audit) /\ Explains(audit, status) /\ e.action # "STATUS_CHANGED"
  BY DEF TypeOK, TrailInv
<1>2. CASE e.to = "NEW" /\ status' = [status EXCEPT ![i] = "NEW"]
  <2>1. e.to # NoStatus
    BY <1>2 DEF NoStatus
  <2>2. Explains(Append(audit, e), [status EXCEPT ![e.item] = e.to])
    BY <1>1, <2>1, ExplainsSetter
  <2>3. Chained(Append(audit, e))
    BY <1>1, ChainedAppend
  <2> QED
    BY <1>2, <2>2, <2>3 DEF TrailInv
<1>3. CASE e.to = NoStatus /\ status' = [status EXCEPT ![i] = AfterMail(@)]
  <2>1. /\ Chained(Append(audit, e))
        /\ Explains(Append(audit, e), [status EXCEPT ![e.item] = StatusAfter(@, e)])
    BY <1>1, <1>3, RowStep
  <2>2. \A s : StatusAfter(s, e) = AfterMail(s)
    BY DEF StatusAfter, AfterMail, RequesterRow, ReplyRow, Parked
  <2>3. [status EXCEPT ![e.item] = StatusAfter(@, e)] = status'
    BY <1>1, <1>3, <2>2
  <2> QED
    BY <2>1, <2>3 DEF TrailInv
<1> QED
  BY <1>2, <1>3

HasItem(ms, i) == \E k \in DOMAIN ms : ms[k].item = i

LEMMA EmptyIs ==
  \A i \in Items : Empty(i) <=> Exists(i) /\ ~MadeByCaller(i) /\ ~HasItem(messages, i)
BY DEF Empty, HasItem

LEMMA GrownItems ==
  ASSUME NEW ms \in Seq(Message), NEW m \in Message
  PROVE  \A i : HasItem(Append(ms, m), i) <=> HasItem(ms, i) \/ i = m.item
<1> DEFINE new == Append(ms, m)
           N == Len(ms)
<1>1. /\ N \in Nat /\ DOMAIN new = 1..(N + 1) /\ new[N + 1] = m
      /\ DOMAIN ms = 1..N /\ \A k \in 1..N : new[k] = ms[k]
  BY AppendFacts
<1> HIDE DEF new, N
<1>2. 1..(N + 1) = 1..N \cup {N + 1}
  BY <1>1
<1>3. \A i : HasItem(new, i) <=> HasItem(ms, i) \/ i = m.item
  BY <1>1, <1>2 DEF HasItem
<1> QED
  BY <1>3 DEF new

\* The operators' steps open no empty ticket and let no message in.
LEMMA OperatorGaps ==
  ASSUME BaseInv, NoEmptyTicket, TrailInv, FlightInv, [Next]_ingestVars,
         UNCHANGED <<call, alerts, raced>>, NEW i \in Items,
         \/ \E u \in Staff, s \in Status : TransitionStatus(i, u, s)
         \/ \E u \in Staff, internal \in BOOLEAN : AddThreadMessage(i, u, internal, None)
         \/ \E c \in Codes : CreateItem(i, c, "NEW", None, None)
  PROVE  NoEmptyTicket' /\ TrailInv' /\ FlightInv'
<1>1. /\ TypeOK /\ messages \in Seq(Message) /\ "NEW" \in Status
      /\ status \in [Items -> Status \cup {Absent}] /\ code \in [Items -> Nat \cup {None}]
  BY DEF BaseInv, IngestTypeOK, TypeOK, Status
<1>2. messages' = messages \/ \E m \in Message : m.ext = None /\ messages' = Append(messages, m)
  BY <1>1, OperatorMessages
<1>3. TrailInv'
  BY <1>1, TransitionKeepsTrail, MessageKeepsTrail, CreateKeepsTrail
<1>4. \A e : HasStored(messages', e) => HasStored(messages, e) \/ e = None
  BY <1>1, <1>2, Grown
<1>5. FlightInv'
  <2>1. ASSUME NEW d \in Senders, call[d].pc \in {"correlate", "store"}
        PROVE  ~HasStored(messages', call[d].msg.ext)
    <3>1. call[d].msg.ext # None /\ ~HasStored(messages, call[d].msg.ext)
      BY <2>1, FreeExtIs, InboundTypes DEF BaseInv, CallInv, Handed, Inbound, FlightInv
    <3> QED
      BY <1>4, <3>1
  <2> QED
    BY <2>1 DEF FlightInv, FreeExt, HasStored
<1>6. \A j \in Items : HasItem(messages, j) => HasItem(messages', j)
  BY <1>1, <1>2, GrownItems
<1>7. \A j \in Items : Exists(j)' /\ ~MadeByCaller(j)' => Exists(j) /\ ~MadeByCaller(j)
  <2>1. \A j \in Items : MadeByCaller(j) => MadeByCaller(j)'
    BY CallersStay
  <2>2. \A j \in Items : Exists(j)' => Exists(j) \/ j = i
    BY OperatorBase DEF Existing
  <2>3. Exists(i) \/ MadeByCaller(i)'
    BY CallerMakes DEF TransitionStatus, AddThreadMessage
  <2> QED
    BY <2>1, <2>2, <2>3
<1>8. NoEmptyTicket'
  BY <1>6, <1>7, EmptyIs DEF NoEmptyTicket, Empty, HasItem
<1> QED
  BY <1>3, <1>5, <1>8

\* What a call stores is a message of its ticket that no other call carries.
LEMMA StoreGaps ==
  ASSUME BaseInv, FlightInv, NEW d \in Senders, call[d].pc = "store",
         NEW r \in Message, r.ext = call[d].msg.ext,
         messages' = Append(messages, r), call' = [call EXCEPT ![d].pc = "notify"]
  PROVE  FlightInv'
<1>1. /\ messages \in Seq(Message) /\ call \in [Senders -> Call]
      /\ \A o \in Senders : call[o].pc # "idle" => call[o].msg \in Inbound
  BY DEF BaseInv, IngestTypeOK, TypeOK, CallInv, Handed, Inbound
<1>2. \A e : HasStored(messages', e) <=> HasStored(messages, e) \/ e = call[d].msg.ext
  BY <1>1, Grown
<1>3. /\ \A o \in Senders \ {d} : call'[o] = call[o]
      /\ call'[d].msg = call[d].msg /\ call'[d].pc = "notify"
  <2>1. call'[d] = [call[d] EXCEPT !.pc = "notify"]
    BY <1>1
  <2> QED
    BY <1>1, <2>1 DEF Call
<1>4. ASSUME NEW o \in Senders, call'[o].pc \in {"correlate", "store"}
      PROVE  ~HasStored(messages', call'[o].msg.ext)
  <2>1. o # d /\ call'[o] = call[o] /\ call[o].pc # "idle"
    BY <1>3, <1>4
  <2>2. call[o].msg # call[d].msg /\ call[o].msg \in Inbound /\ call[d].msg \in Inbound
    BY <1>1, <2>1 DEF FlightInv
  <2>3. call[o].msg.ext # call[d].msg.ext /\ call[o].msg.ext # None
    BY <2>2, InboundTypes
  <2>4. ~HasStored(messages, call[o].msg.ext)
    BY <1>4, <2>1, <2>3, FreeExtIs DEF FlightInv
  <2> QED
    BY <1>2, <2>1, <2>3, <2>4
<1>5. ASSUME NEW o \in Senders, NEW q \in Senders, o # q, call'[o].pc # "idle", call'[q].pc # "idle"
      PROVE  call'[o].msg # call'[q].msg
  BY <1>3, <1>5 DEF FlightInv
<1> QED
  BY <1>4, <1>5 DEF FlightInv, FreeExt, HasStored

LEMMA ReplyGaps ==
  ASSUME BaseInv, NoEmptyTicket, TrailInv, FlightInv, [Next]_ingestVars,
         NEW d \in Senders, StoreReply(d)
  PROVE  NoEmptyTicket' /\ TrailInv' /\ FlightInv'
<1> DEFINE i == call[d].target
           m == call[d].msg
<1>1. /\ TypeOK /\ messages \in Seq(Message) /\ i \in Items /\ m \in Inbound
      /\ call[d].pc = "store" /\ code' = code /\ Existing' = Existing
  BY ReplyEffects, ReplyBase DEF BaseInv, IngestTypeOK, TypeOK
<1>2. FreeExt(m.ext)
  BY <1>1 DEF FlightInv
<1>3. /\ messages' = Append(messages, MailRow(i, m))
      /\ audit' = Append(audit, MailEntry(i, NoStatus))
      /\ status' = [status EXCEPT ![i] = AfterMail(@)]
      /\ call' = [call EXCEPT ![d].pc = "notify"]
  BY <1>2, ReplyEffects
<1>4. /\ MailRow(i, m) \in Message /\ MailRow(i, m).ext = m.ext
      /\ MailEntry(i, NoStatus) \in AuditLog /\ MailEntry(i, NoStatus).item = i
      /\ MailEntry(i, NoStatus).to = NoStatus
      /\ MailEntry(i, NoStatus).action = "MAIL_CORRELATED"
  <2>1. TypeOK /\ i \in Items /\ m \in Inbound /\ NoStatus \in Status \cup {NoStatus}
    BY <1>1
  <2> HIDE DEF i, m
  <2> QED
    BY <2>1, MailRows
<1>5. TrailInv'
  BY <1>1, <1>3, <1>4, MailKeepsTrail
<1>6. FlightInv'
  BY <1>1, <1>3, <1>4, StoreGaps
<1>7. \A j \in Items : HasItem(messages, j) => HasItem(messages', j)
  BY <1>1, <1>3, <1>4, GrownItems
<1>8. NoEmptyTicket'
  BY <1>1, <1>7, CallersStay DEF NoEmptyTicket, Empty, HasItem, Existing
<1> QED
  BY <1>5, <1>6, <1>8

LEMMA NewItemGaps ==
  ASSUME BaseInv, NoEmptyTicket, TrailInv, FlightInv, [Next]_ingestVars,
         NEW d \in Senders, NEW i \in Items, StoreNewItem(d, i)
  PROVE  NoEmptyTicket' /\ TrailInv' /\ FlightInv'
<1> DEFINE m == call[d].msg
<1>1. /\ TypeOK /\ messages \in Seq(Message) /\ m \in Inbound /\ call[d].pc = "store"
      /\ code' = [code EXCEPT ![i] = GeneratedCode] /\ Existing' = Existing \cup {i}
  BY NewItemEffects, NewItemBase DEF BaseInv, IngestTypeOK, TypeOK
<1>2. FreeExt(m.ext)
  BY <1>1 DEF FlightInv
<1>3. /\ messages' = Append(messages, MailRow(i, m))
      /\ audit' = Append(audit, MailEntry(i, "NEW"))
      /\ status' = [status EXCEPT ![i] = "NEW"]
      /\ call' = [call EXCEPT ![d].pc = "notify"]
  BY <1>2, NewItemEffects
<1>4. /\ MailRow(i, m) \in Message /\ MailRow(i, m).ext = m.ext /\ MailRow(i, m).item = i
      /\ MailEntry(i, "NEW") \in AuditLog /\ MailEntry(i, "NEW").item = i
      /\ MailEntry(i, "NEW").to = "NEW"
      /\ MailEntry(i, "NEW").action = "MAIL_CORRELATED"
  BY <1>1, MailRows DEF Status
<1>5. TrailInv'
  BY <1>1, <1>3, <1>4, MailKeepsTrail
<1>6. FlightInv'
  BY <1>1, <1>3, <1>4, StoreGaps
<1>7. HasItem(messages', i) /\ \A j \in Items : HasItem(messages, j) => HasItem(messages', j)
  BY <1>1, <1>3, <1>4, GrownItems
<1>8. \A j \in Items \ {i} : Exists(j)' <=> Exists(j)
  BY <1>1 DEF Existing
<1>9. NoEmptyTicket'
  BY <1>7, <1>8, CallersStay DEF NoEmptyTicket, Empty, HasItem
<1> QED
  BY <1>5, <1>6, <1>9

\* A call lets a message in that is new and not on its way, or this is the race.
LEMMA CallGaps ==
  ASSUME BaseInv, FlightInv, CallStep, ~raced'
  PROVE  FlightInv'
<1>1. call \in [Senders -> Call]
  BY DEF BaseInv, IngestTypeOK
<1>2. messages' = messages
  BY DEF CallStep, Deliver, Correlate, NotifyNewMessage, Fail, ticketVars
<1>3. PICK d \in Senders : (\E m \in Handed(d) : Deliver(d, m)) \/ Correlate(d)
                          \/ NotifyNewMessage(d) \/ Fail(d)
  BY DEF CallStep
<1>4. ASSUME NEW m \in Handed(d), Deliver(d, m) PROVE FlightInv'
  <2> DEFINE c == [pc |-> "correlate", msg |-> m, target |-> None]
  <2>1. /\ call' = [call EXCEPT ![d] = c]
        /\ FreeExt(m.ext) /\ \A o \in Senders : call[o].msg # m
    BY <1>4 DEF Deliver
  <2>2. call'[d].msg = m /\ \A o \in Senders \ {d} : call'[o] = call[o]
    BY <1>1, <2>1
  <2> QED
    BY <1>2, <2>1, <2>2 DEF FlightInv, FreeExt
<1>5. CASE Correlate(d)
  <2>1. PICK t : call' = [call EXCEPT ![d].pc = "store", ![d].target = t]
    BY <1>5 DEF Correlate
  <2>2. call'[d] = [call[d] EXCEPT !.pc = "store", !.target = t] /\ call[d] \in Call
    BY <1>1, <2>1
  <2>3. call'[d].msg = call[d].msg /\ call[d].pc = "correlate"
    BY <1>5, <2>2 DEF Call, Correlate
  <2>4. \A o \in Senders \ {d} : call'[o] = call[o]
    BY <1>1, <2>1
  <2> QED
    BY <1>2, <2>3, <2>4 DEF FlightInv, FreeExt
<1>6. CASE NotifyNewMessage(d) \/ Fail(d)
  <2>1. call'[d].pc = "idle" /\ \A o \in Senders \ {d} : call'[o] = call[o]
    BY <1>1, <1>6 DEF NotifyNewMessage, Fail, Idle
  <2> QED
    BY <1>2, <2>1 DEF FlightInv, FreeExt
<1> QED
  BY <1>3, <1>4, <1>5, <1>6

LEMMA GapStep == BaseInv /\ GapInv /\ [Next]_ingestVars => GapInv'
<1> SUFFICES ASSUME BaseInv, GapInv, [Next]_ingestVars, ~raced'
             PROVE  NoEmptyTicket' /\ TrailInv' /\ FlightInv'
  BY DEF GapInv
<1>1. CASE UNCHANGED ticketVars /\ (CallStep \/ Crash \/ UNCHANGED <<call, alerts, raced>>)
  <2>1. ~raced
    BY <1>1 DEF CallStep, Deliver, Correlate, NotifyNewMessage, Fail, Crash
  <2>2. NoEmptyTicket /\ TrailInv /\ FlightInv
    BY <2>1 DEF GapInv
  <2>3. UNCHANGED <<status, code, messages, audit>>
    BY <1>1 DEF ticketVars, rowVars
  <2>4. NoEmptyTicket' /\ TrailInv'
    BY <2>2, <2>3 DEF NoEmptyTicket, Empty, Exists, MadeByCaller, TrailInv
  <2>5. Crash \/ UNCHANGED <<call, alerts, raced>> => FlightInv'
    BY <2>2, <2>3 DEF Crash, FlightInv, FreeExt, Idle
  <2> QED
    BY <1>1, <2>2, <2>4, <2>5, CallGaps
<1>2. ASSUME NEW i \in Items, UNCHANGED <<call, alerts, raced>>,
             \/ \E u \in Staff, s \in Status : TransitionStatus(i, u, s)
             \/ \E u \in Staff, internal \in BOOLEAN : AddThreadMessage(i, u, internal, None)
             \/ \E c \in Codes : CreateItem(i, c, "NEW", None, None)
      PROVE  NoEmptyTicket' /\ TrailInv' /\ FlightInv'
  BY <1>2, OperatorGaps DEF GapInv
<1>3. ASSUME NEW d \in Senders, StoreReply(d) PROVE NoEmptyTicket' /\ TrailInv' /\ FlightInv'
  <2>1. ~raced
    BY <1>3 DEF StoreReply
  <2> QED
    BY <1>3, <2>1, ReplyGaps DEF GapInv
<1>4. ASSUME NEW d \in Senders, NEW i \in Items, StoreNewItem(d, i)
      PROVE  NoEmptyTicket' /\ TrailInv' /\ FlightInv'
  <2>1. ~raced
    BY <1>4 DEF StoreNewItem
  <2> QED
    BY <1>4, <2>1, NewItemGaps DEF GapInv
<1> QED
  BY <1>1, <1>2, <1>3, <1>4, StepCases

LEMMA GapInit == Init => GapInv
<1> SUFFICES ASSUME Init PROVE GapInv
  OBVIOUS
<1>1. audit = <<>> /\ \A i \in Items : status[i] = Absent
  BY DEF Init, TicketInit
<1>2. 1..Len(audit) = {}
  BY <1>1
<1>3. TrailInv /\ NoEmptyTicket
  BY <1>1, <1>2 DEF TrailInv, Chained, Explains, NoEmptyTicket, Empty, Exists
<1>4. FlightInv
  BY DEF Init, FlightInv, Idle
<1> QED
  BY <1>3, <1>4 DEF GapInv

\* Only deliveries of one message that overlap, and a deduplication query that
\* fails on a stored one, leave a ticket without a message or a status that the
\* trail does not explain: no failed call, crash, lost audit row or operator does.
THEOREM GapsComeFromRaces == Spec => []GapsNeedRace
<1>1. GapInv => GapsNeedRace
  BY TrailInvIs DEF GapInv, GapsNeedRace
<1> QED
  BY <1>1, GapInit, GapStep, BaseInvariant, PTL DEF Spec

-----------------------------------------------------------------------------
(* A conversation stays together.  The target a mail was given before the    *)
(* transaction is still right inside it: only the worker stores mail, and    *)
(* what the others store is never referred to.                               *)

\* Message-IDs are stored the way references are looked up, and no mail refers
\* to a voicemail: the webhook makes those ids up.
IdsApart ==
  /\ \A e \in Exts : Trimmed[e] = e
  /\ \A m \in Mails, v \in Voicemails :
       v.ext # m.ext /\ \A r \in DOMAIN m.refs : m.refs[r] # v.ext

\* Message j of the first n is the first of the mail's references stored there.
FirstOf(ms, m, r, j, n) ==
  /\ j \in 1..n /\ ms[j].ext = m.refs[r]
  /\ \A q \in 1..(r-1), l \in 1..n : ms[l].ext # m.refs[q]

AimedAt(ms, m, t) ==
  \A r \in DOMAIN m.refs, j \in 1..Len(ms) :
    FirstOf(ms, m, r, j, Len(ms)) => ms[j].item = t

Together(ms) ==
  \A m \in Mails, k \in 1..Len(ms) :
    ms[k].ext = m.ext /\ ~m.byPhone =>
      \A r \in DOMAIN m.refs, j \in 1..(k-1) :
        FirstOf(ms, m, r, j, k-1) => ms[j].item = ms[k].item

\* Where the worker's mail is about to be stored is where its first stored
\* reference is.
ThreadsInv ==
  /\ IdsApart
  /\ Together(messages)
  /\ call[Worker].pc = "store" /\ ~call[Worker].msg.byPhone =>
       AimedAt(messages, call[Worker].msg, call[Worker].target)

LEMMA MailRefs ==
  ASSUME NEW m \in Mails
  PROVE  /\ m \in Inbound /\ m.refs \in Seq(Exts)
         /\ \A r \in DOMAIN m.refs : m.refs[r] \in Exts /\ m.refs[r] # None
<1>1. m \in Inbound /\ m.refs \in Seq(Exts)
  BY IngestConstantsOK DEF Inbound
<1>2. DOMAIN m.refs = 1..Len(m.refs) /\ Len(m.refs) \in Nat
  BY <1>1
<1>3. \A r \in DOMAIN m.refs : m.refs[r] \in Exts /\ m.refs[r] # None
  BY <1>1, <1>2, ConstantsOK
<1> QED
  BY <1>1, <1>3

\* A message more: what came before it is as it was.
LEMMA FirstGrown ==
  ASSUME NEW ms \in Seq(Message), NEW x \in Message, NEW m \in Mails,
         NEW r \in DOMAIN m.refs, NEW j, NEW n \in 0..Len(ms)
  PROVE  /\ FirstOf(Append(ms, x), m, r, j, n) <=> FirstOf(ms, m, r, j, n)
         /\ FirstOf(Append(ms, x), m, r, j, Len(ms) + 1) /\ x.ext # m.refs[r]
              => FirstOf(ms, m, r, j, Len(ms))
<1> DEFINE new == Append(ms, x)
           N == Len(ms)
<1>1. N \in Nat /\ \A k \in 1..N : new[k] = ms[k]
  BY AppendFacts
<1>2. new[N + 1] = x
  BY AppendFacts
<1> HIDE DEF new, N
<1>3. 1..(N + 1) = 1..N \cup {N + 1}
  BY <1>1
<1>4. n \in 0..N /\ 1..n \subseteq 1..N
  BY <1>1 DEF N
<1>5. FirstOf(new, m, r, j, n) <=> FirstOf(ms, m, r, j, n)
  BY <1>1, <1>4 DEF FirstOf
<1>6. ASSUME FirstOf(new, m, r, j, N + 1), x.ext # m.refs[r]
      PROVE  FirstOf(ms, m, r, j, N)
  BY <1>1, <1>2, <1>3, <1>6 DEF FirstOf
<1> QED
  BY <1>5, <1>6 DEF new, N

LEMMA GrownAim ==
  ASSUME NEW ms \in Seq(Message), NEW x \in Message, NEW m \in Mails, NEW t,
         \A r \in DOMAIN m.refs : m.refs[r] # x.ext, AimedAt(ms, m, t)
  PROVE  AimedAt(Append(ms, x), m, t)
<1> DEFINE new == Append(ms, x)
           N == Len(ms)
<1>1. N \in Nat /\ Len(new) = N + 1 /\ \A k \in 1..N : new[k] = ms[k]
  BY AppendFacts
<1>2. ASSUME NEW r \in DOMAIN m.refs, NEW j, FirstOf(new, m, r, j, N + 1)
      PROVE  FirstOf(ms, m, r, j, N)
  BY <1>1, <1>2, FirstGrown
<1> HIDE DEF new, N
<1>3. ASSUME NEW r \in DOMAIN m.refs, NEW j \in 1..Len(new), FirstOf(new, m, r, j, Len(new))
      PROVE  new[j].item = t
  <2>1. FirstOf(ms, m, r, j, N) /\ j \in 1..N
    BY <1>1, <1>2, <1>3 DEF FirstOf
  <2> QED
    BY <1>1, <2>1 DEF AimedAt, N
<1> QED
  BY <1>3 DEF AimedAt, new

LEMMA GrownTogether ==
  ASSUME NEW ms \in Seq(Message), NEW x \in Message, Together(ms),
         \A m \in Mails : x.ext = m.ext /\ ~m.byPhone => AimedAt(ms, m, x.item)
  PROVE  Together(Append(ms, x))
<1> DEFINE new == Append(ms, x)
           N == Len(ms)
<1>1. /\ N \in Nat /\ Len(new) = N + 1 /\ \A k \in 1..N : new[k] = ms[k]
      /\ new[N + 1] = x
  BY AppendFacts
<1>2. ASSUME NEW m \in Mails, NEW r \in DOMAIN m.refs, NEW j, NEW n \in 0..N,
             FirstOf(new, m, r, j, n)
      PROVE  FirstOf(ms, m, r, j, n)
  BY <1>2, FirstGrown
<1> HIDE DEF new
<1>3. ASSUME NEW m \in Mails, NEW k \in 1..(N + 1), new[k].ext = m.ext, ~m.byPhone,
             NEW r \in DOMAIN m.refs, NEW j \in 1..(k-1), FirstOf(new, m, r, j, k-1)
      PROVE  new[j].item = new[k].item
  <2> HIDE DEF N
  <2>1. k - 1 \in 0..N /\ j \in 1..N
    BY <1>1
  <2>2. FirstOf(ms, m, r, j, k-1) /\ new[j] = ms[j]
    BY <1>1, <1>2, <1>3, <2>1
  <2>3. CASE k \in 1..N
    BY <1>1, <1>3, <2>2, <2>3 DEF Together, N
  <2>4. CASE k = N + 1
    <3>1. x.ext = m.ext /\ new[k] = x /\ k - 1 = N
      BY <1>1, <1>3, <2>4
    <3>2. AimedAt(ms, m, x.item) /\ FirstOf(ms, m, r, j, N)
      BY <1>3, <2>2, <3>1
    <3> QED
      BY <2>1, <2>2, <3>1, <3>2 DEF AimedAt, N
  <2> QED
    BY <1>1, <2>3, <2>4
<1> QED
  BY <1>1, <1>3 DEF Together, new

\* What correlation finds for a mail is the thread of its first stored reference.
LEMMA Aims ==
  ASSUME TypeOK, OnceIn(messages), IdsApart, NEW m \in Mails, ~m.byPhone, NEW t \in Matches(m)
  PROVE  AimedAt(messages, m, t)
<1> SUFFICES ASSUME NEW r \in DOMAIN m.refs, NEW j \in 1..Len(messages),
                    FirstOf(messages, m, r, j, Len(messages))
             PROVE  messages[j].item = t
  BY DEF AimedAt
<1>1. /\ DOMAIN messages = 1..Len(messages) /\ messages \in Seq(Message)
      /\ DOMAIN m.refs = 1..Len(m.refs) /\ Len(m.refs) \in Nat
      /\ \A q \in DOMAIN m.refs : m.refs[q] # None /\ Trimmed[m.refs[q]] = m.refs[q]
  BY MailRefs DEF TypeOK, IdsApart
<1> DEFINE stored == {q \in DOMAIN m.refs : ~FreeExt(Trimmed[m.refs[q]])}
<1>2. \A q \in DOMAIN m.refs : q \in stored <=> HasStored(messages, m.refs[q])
  BY <1>1, FreeExtIs
<1>3. messages[j].ext = m.refs[r] /\ \A q \in 1..(r-1) : ~HasStored(messages, m.refs[q])
  BY <1>1 DEF FirstOf, HasStored
<1>4. r \in stored
  BY <1>1, <1>2, <1>3 DEF HasStored
<1>5. \A q \in stored : r <= q
  BY <1>1, <1>2, <1>3
<1>6. \A q \in stored : (\A o \in stored : q <= o) => q = r
  BY <1>1, <1>4, <1>5
<1>7. HeaderMatches(m) = {messages[k].item : k \in {n \in DOMAIN messages :
         \E q \in stored : /\ messages[n].ext = Trimmed[m.refs[q]]
                           /\ \A o \in stored : q <= o}}
  BY DEF HeaderMatches
<1> HIDE DEF stored
<1>8. messages[j].item \in HeaderMatches(m)
  BY <1>1, <1>3, <1>4, <1>5, <1>7
<1>9. PhoneMatches(m) = {}
  BY DEF PhoneMatches
<1>10. t \in HeaderMatches(m)
  BY <1>8, <1>9 DEF Matches
<1>11. PICK k \in DOMAIN messages : messages[k].item = t /\ messages[k].ext = m.refs[r]
  BY <1>1, <1>4, <1>6, <1>7, <1>10
<1>12. k = j
  BY <1>1, <1>3, <1>11 DEF OnceIn
<1> QED
  BY <1>11, <1>12

LEMMA WorkerMail ==
  ASSUME BaseInv, call[Worker].pc # "idle"
  PROVE  call[Worker].msg \in Mails
BY DEF BaseInv, CallInv, Handed, Senders

\* A step that stores nothing.
LEMMA NothingStored ==
  ASSUME ThreadsInv, messages' = messages,
         call'[Worker].pc = "store" => call'[Worker] = call[Worker]
  PROVE  ThreadsInv'
BY DEF ThreadsInv, IdsApart

\* A message no mail refers to, and that is none.
LEMMA OtherStored ==
  ASSUME BaseInv, ThreadsInv, NEW x \in Message, messages' = Append(messages, x),
         \A m \in Mails : x.ext # m.ext /\ \A r \in DOMAIN m.refs : m.refs[r] # x.ext,
         call'[Worker].pc = "store" => call'[Worker] = call[Worker]
  PROVE  ThreadsInv'
<1>1. messages \in Seq(Message) /\ Together(messages) /\ IdsApart
  BY DEF BaseInv, IngestTypeOK, TypeOK, ThreadsInv
<1>2. Together(messages')
  BY <1>1, GrownTogether
<1>3. ASSUME call'[Worker].pc = "store", ~call'[Worker].msg.byPhone
      PROVE  AimedAt(messages', call'[Worker].msg, call'[Worker].target)
  <2>1. call'[Worker] = call[Worker] /\ call[Worker].msg \in Mails
    BY <1>3, WorkerMail
  <2>2. AimedAt(messages, call[Worker].msg, call[Worker].target)
    BY <1>3, <2>1 DEF ThreadsInv
  <2> QED
    BY <1>1, <2>1, <2>2, GrownAim
<1> QED
  BY <1>1, <1>2, <1>3 DEF ThreadsInv, IdsApart

\* A call stores its message in the ticket x names.
LEMMA CallStored ==
  ASSUME BaseInv, ThreadsInv, NEW d \in Senders, call[d].pc = "store",
         NEW x \in Message, messages' = Append(messages, x), x.ext = call[d].msg.ext,
         call' = [call EXCEPT ![d].pc = "notify"],
         AimedAt(messages, call[d].msg, call[d].target) => AimedAt(messages, call[d].msg, x.item)
  PROVE  ThreadsInv'
<1>1. /\ messages \in Seq(Message) /\ Together(messages) /\ IdsApart
      /\ call \in [Senders -> Call] /\ Worker \in Senders /\ call[d].msg \in Handed(d)
  BY DEF BaseInv, IngestTypeOK, TypeOK, ThreadsInv, CallInv, Senders
<1>2. CASE d = Worker
  <2>1. call'[Worker] = [call[Worker] EXCEPT !.pc = "notify"] /\ call[Worker] \in Call
    BY <1>1, <1>2
  <2>2. call'[Worker].pc # "store"
    BY <2>1 DEF Call
  <2>3. ASSUME NEW m \in Mails, x.ext = m.ext, ~m.byPhone PROVE AimedAt(messages, m, x.item)
    <3>1. call[d].msg \in Mails
      BY <1>1, <1>2 DEF Handed
    <3>2. m = call[d].msg
      BY <2>3, <3>1, InboundTypes DEF Inbound
    <3> QED
      BY <1>2, <2>3, <3>2 DEF ThreadsInv
  <2>4. Together(messages')
    BY <1>1, <2>3, GrownTogether
  <2> QED
    BY <1>1, <2>2, <2>4 DEF ThreadsInv, IdsApart
<1>3. CASE d # Worker
  <2>1. call[d].msg \in Voicemails /\ call'[Worker] = call[Worker]
    BY <1>1, <1>3 DEF Handed
  <2>2. \A m \in Mails : x.ext # m.ext /\ \A r \in DOMAIN m.refs : m.refs[r] # x.ext
    BY <1>1, <2>1 DEF IdsApart
  <2> QED
    BY <2>1, <2>2, OtherStored
<1> QED
  BY <1>2, <1>3

LEMMA ThreadsStep == BaseInv /\ AlertInv /\ ThreadsInv /\ [Next]_ingestVars => ThreadsInv'
<1> SUFFICES ASSUME BaseInv, AlertInv, ThreadsInv, [Next]_ingestVars PROVE ThreadsInv'
  OBVIOUS
<1>1. /\ TypeOK /\ messages \in Seq(Message) /\ call \in [Senders -> Call]
      /\ OnceIn(messages) /\ IdsApart /\ Worker \in Senders
  BY DEF BaseInv, IngestTypeOK, TypeOK, AlertInv, ThreadsInv, Senders
<1>2. ASSUME NEW i \in Items, UNCHANGED <<call, alerts, raced>>,
             \/ \E u \in Staff, s \in Status : TransitionStatus(i, u, s)
             \/ \E u \in Staff, internal \in BOOLEAN : AddThreadMessage(i, u, internal, None)
             \/ \E c \in Codes : CreateItem(i, c, "NEW", None, None)
      PROVE  ThreadsInv'
  <2>1. messages' = messages \/ \E x \in Message : x.ext = None /\ messages' = Append(messages, x)
    BY <1>1, <1>2, OperatorMessages
  <2>2. \A m \in Mails : None # m.ext /\ \A r \in DOMAIN m.refs : m.refs[r] # None
    BY MailRefs, InboundTypes
  <2> QED
    BY <1>2, <2>1, <2>2, NothingStored, OtherStored
<1>3. ASSUME NEW d \in Senders, messages' = messages, call' = [call EXCEPT ![d] = Idle]
      PROVE  ThreadsInv'
  <2>1. call'[Worker].pc = "store" => call'[Worker] = call[Worker]
    BY <1>1, <1>3 DEF Idle
  <2> QED
    BY <1>3, <2>1, NothingStored
<1>4. ASSUME NEW d \in Senders, StoreReply(d) PROVE ThreadsInv'
  <2> DEFINE i == call[d].target
             m == call[d].msg
  <2>1. /\ i \in Items /\ m \in Inbound /\ call[d].pc = "store"
        /\ \/ /\ messages' = Append(messages, MailRow(i, m))
              /\ call' = [call EXCEPT ![d].pc = "notify"]
           \/ messages' = messages /\ call' = [call EXCEPT ![d] = Idle]
    BY <1>4, ReplyEffects
  <2>2. MailRow(i, m) \in Message /\ MailRow(i, m).ext = m.ext /\ MailRow(i, m).item = i
    BY <1>1, <2>1, MailRows DEF Status
  <2> QED
    BY <1>3, <2>1, <2>2, CallStored
<1>5. ASSUME NEW d \in Senders, NEW i \in Items, StoreNewItem(d, i) PROVE ThreadsInv'
  <2> DEFINE m == call[d].msg
  <2>1. /\ m \in Inbound /\ call[d].pc = "store" /\ call[d].target = None
        /\ \/ /\ messages' = Append(messages, MailRow(i, m))
              /\ call' = [call EXCEPT ![d].pc = "notify"]
           \/ messages' = messages /\ call' = [call EXCEPT ![d] = Idle]
    BY <1>5, NewItemEffects
  <2>2. MailRow(i, m) \in Message /\ MailRow(i, m).ext = m.ext /\ MailRow(i, m).item = i
    BY <1>1, <2>1, MailRows DEF Status
  <2>3. AimedAt(messages, m, None) => AimedAt(messages, m, i)
    <3>1. \A j \in 1..Len(messages) : messages[j].item # None
      BY <1>1, InboundTypes, MessageItems
    <3> QED
      BY <3>1 DEF AimedAt
  <2> QED
    BY <1>3, <2>1, <2>2, <2>3, CallStored
<1>6. CASE UNCHANGED ticketVars /\ UNCHANGED <<call, alerts, raced>>
  BY <1>6, NothingStored DEF ticketVars
<1>7. CASE UNCHANGED ticketVars /\ Crash
  <2>1. messages' = messages /\ call'[Worker].pc # "store"
    BY <1>1, <1>7 DEF Crash, ticketVars, Idle
  <2> QED
    BY <2>1, NothingStored
<1>8. CASE CallStep
  <2>1. PICK d \in Senders : (\E m \in Handed(d) : Deliver(d, m)) \/ Correlate(d)
                            \/ NotifyNewMessage(d) \/ Fail(d)
    BY <1>8 DEF CallStep
  <2>2. ASSUME NEW m \in Handed(d), Deliver(d, m) PROVE ThreadsInv'
    <3>1. messages' = messages /\ (call'[Worker].pc = "store" => call'[Worker] = call[Worker])
      BY <1>1, <2>2 DEF Deliver, ticketVars
    <3> QED
      BY <3>1, NothingStored
  <2>3. CASE Correlate(d)
    <3>1. PICK t \in Matches(call[d].msg) : call' = [call EXCEPT ![d].pc = "store", ![d].target = t]
      BY <2>3 DEF Correlate
    <3>2. messages' = messages /\ call[d].pc = "correlate" /\ call[d] \in Call
      BY <1>1, <2>3 DEF Correlate, ticketVars
    <3>3. CASE d = Worker
      <4>1. call'[d] = [call[d] EXCEPT !.pc = "store", !.target = t]
        BY <1>1, <3>1
      <4>2. call'[d].msg = call[d].msg /\ call'[d].target = t /\ call[d].msg \in Mails
        BY <3>2, <3>3, <4>1, WorkerMail DEF Call
      <4>3. ~call[d].msg.byPhone => AimedAt(messages, call[d].msg, t)
        BY <1>1, <3>1, <4>2, Aims
      <4> QED
        BY <1>1, <3>2, <3>3, <4>2, <4>3 DEF ThreadsInv, IdsApart
    <3>4. CASE d # Worker
      <4>1. call'[Worker] = call[Worker]
        BY <1>1, <3>1, <3>4
      <4> QED
        BY <3>2, <4>1, NothingStored
    <3> QED
      BY <3>3, <3>4
  <2>4. CASE NotifyNewMessage(d) \/ Fail(d)
    BY <1>3, <2>4 DEF NotifyNewMessage, Fail, ticketVars
  <2> QED
    BY <2>1, <2>2, <2>3, <2>4
<1> QED
  BY <1>2, <1>4, <1>5, <1>6, <1>7, <1>8, StepCases

LEMMA ThreadsInit == Init /\ IdsApart => ThreadsInv
<1> SUFFICES ASSUME Init, IdsApart PROVE ThreadsInv
  OBVIOUS
<1>1. messages = <<>> /\ call[Worker].pc # "store"
  BY DEF Init, TicketInit, Senders, Idle
<1>2. 1..Len(messages) = {}
  BY <1>1
<1> QED
  BY <1>1, <1>2 DEF ThreadsInv, Together

\* A mail that refers to stored messages joins the thread of the first of them,
\* whatever the webhook and the operators change between its correlation and
\* its transaction, where stored Message-IDs and references are written alike.
THEOREM ConversationsStayTogether == IdsApart /\ Spec => []ThreadNotSplit
<1>1. BaseInv /\ ThreadsInv => ThreadNotSplit
  <2> SUFFICES ASSUME BaseInv, ThreadsInv, NEW m \in Mails, NEW k \in DOMAIN messages,
                      Stored(m.ext, k), ~m.byPhone,
                      NEW r \in DOMAIN m.refs, NEW j \in 1..(k-1), Stored(m.refs[r], j),
                      \A q \in 1..(r-1), l \in 1..(k-1) : ~Stored(m.refs[q], l)
               PROVE  messages[j].item = messages[k].item
    BY DEF ThreadNotSplit
  <2>1. DOMAIN messages = 1..Len(messages) /\ Len(messages) \in Nat
    BY DEF BaseInv, IngestTypeOK, TypeOK
  <2>2. FirstOf(messages, m, r, j, k-1)
    BY <2>1 DEF FirstOf, Stored
  <2> QED
    BY <2>1, <2>2 DEF ThreadsInv, Together, Stored
<1> QED
  BY <1>1, ThreadsInit, ThreadsStep, AlertInit, AlertStep, BaseInvariant, PTL DEF Spec
=============================================================================
