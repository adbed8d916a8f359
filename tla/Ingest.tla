-------------------------------- MODULE Ingest --------------------------------
(***************************************************************************)
(* mailengine.IngestInbound: how one inbound message (mail fetched by the  *)
(* sync worker, or a voicemail posted to the telephony webhook) becomes a  *)
(* row of a thread.  A call is four steps with nothing held between them:  *)
(* the deduplication query, the correlation queries, one IMMEDIATE         *)
(* transaction, and the notification after it.  The worker handles one     *)
(* mail at a time; every webhook request runs on its own goroutine; the    *)
(* operators keep changing the tickets meanwhile.                          *)
(***************************************************************************)
EXTENDS WorkItems

CONSTANTS
  Worker,      \* the sync worker
  Hooks,       \* concurrent webhook requests
  Mails,       \* inbound messages the worker may be handed
  Voicemails,  \* inbound messages the webhook may be handed
  Trimmed,     \* a Message-ID without the angle brackets around it
  QueryFails,  \* may the deduplication query fail?
  FirstCode    \* 1001, where generated item codes start

Senders == Hooks \cup {Worker}

\* ext: the Message-ID as the provider reports it; party: the contact or
\* organization that owns the sender's address; byPhone: is that address a
\* phone number?; refs: the Message-IDs of In-Reply-To, then of References;
\* subjectCode: the item code in the subject.
InboundMessage ==
  [ext : Exts, byPhone : BOOLEAN, party : Parties \cup {None},
   refs : Seq(Exts), subjectCode : Nat \cup {None}]

ASSUME IngestConstantsOK ==
  /\ Worker \notin Hooks
  /\ \A m \in Mails \cup Voicemails :
       /\ m.ext \in Exts /\ m.byPhone \in BOOLEAN
       /\ m.party \in Parties \cup {None}
       /\ m.refs \in Seq(Exts)
       /\ m.subjectCode \in Nat \cup {None}
  /\ \A m, n \in Mails \cup Voicemails : m.ext = n.ext => m = n
  /\ Trimmed \in [Exts -> Exts] /\ \A e \in Exts : Trimmed[Trimmed[e]] = Trimmed[e]
  /\ QueryFails \in BOOLEAN
  /\ FirstCode \in Nat

VARIABLES
  call,    \* the local variables of each IngestInbound call
  alerts,  \* how often the notifier was called for a message
  raced    \* history: has a message been let in that was stored, or on its way?

ingestVars == <<ticketVars, call, alerts, raced>>

Idle == [pc |-> "idle", msg |-> None, target |-> None]

\* target = None after correlation is stage NEW_ITEM.
Call == [pc : {"idle", "correlate", "store", "notify"},
         msg : Mails \cup Voicemails \cup {None},
         target : Items \cup {None}]

IngestTypeOK ==
  /\ TypeOK
  /\ call \in [Senders -> Call]
  /\ alerts \in [Exts -> Nat]
  /\ raced \in BOOLEAN

Init ==
  /\ TicketInit
  /\ call = [d \in Senders |-> Idle]
  /\ alerts = [e \in Exts |-> 0]
  /\ raced = FALSE

Handed(d) == IF d = Worker THEN Mails ELSE Voicemails

\* The first-pass deduplication: a message already stored is dropped here. A
\* query that fails counts as not stored.
Deliver(d, m) ==
  /\ call[d] = Idle
  /\ m \in Handed(d)
  /\ FreeExt(m.ext) \/ QueryFails
  /\ raced' = (raced \/ ~FreeExt(m.ext) \/ \E o \in Senders : call[o].msg = m)
  /\ call' = [call EXCEPT ![d] = [pc |-> "correlate", msg |-> m,
                                  target |-> None]]
  /\ UNCHANGED <<ticketVars, alerts>>

-----------------------------------------------------------------------------
(* Threader.Correlate.                                                     *)

Active == {"NEW", "OPEN", "PENDING_USER"}

\* Stage 0: the party's active tickets.  The query takes the one updated
\* last, but updated_at has a resolution of a second: any of them may win.
PhoneMatches(m) ==
  {i \in Items : /\ m.byPhone /\ m.party # None
                 /\ status[i] \in Active /\ party[i] = m.party}

\* Stage 1: the ticket of the first referenced message that is stored. The
\* references are trimmed, the stored ids are not.
HeaderMatches(m) ==
  LET stored == {r \in DOMAIN m.refs : ~FreeExt(Trimmed[m.refs[r]])}
  IN  {messages[k].item : k \in {n \in DOMAIN messages :
         \E r \in stored : /\ messages[n].ext = Trimmed[m.refs[r]]
                           /\ \A q \in stored : r <= q}}

\* Stage 2: the ticket the subject names.
SubjectMatches(m) ==
  {i \in Items : Exists(i) /\ m.subjectCode # None /\ code[i] = m.subjectCode}

MatchesSubjectFirst(m) ==
  IF PhoneMatches(m) # {} THEN PhoneMatches(m)
  ELSE IF SubjectMatches(m) # {} THEN SubjectMatches(m)
  ELSE IF HeaderMatches(m) # {} THEN HeaderMatches(m) ELSE {None}

Matches(m) ==
  IF PhoneMatches(m) # {} THEN PhoneMatches(m)
  ELSE IF HeaderMatches(m) # {} THEN HeaderMatches(m)
  ELSE IF SubjectMatches(m) # {} THEN SubjectMatches(m) ELSE {None}

Correlate(d) ==
  /\ call[d].pc = "correlate"
  /\ \E t \in Matches(call[d].msg) :
       call' = [call EXCEPT ![d].pc = "store", ![d].target = t]
  /\ UNCHANGED <<ticketVars, alerts, raced>>

-----------------------------------------------------------------------------
(* The transaction.                                                        *)

GeneratedCodeFromOpen ==
  Cardinality({i \in Items : status[i] \in Active}) + FirstCode

\* generateItemCode counts the tickets with the prefix.
GeneratedCode == Cardinality({i \in Items : Exists(i)}) + FirstCode

MailRow(i, m) ==
  [item |-> i, author |-> None, internal |-> FALSE, ext |-> m.ext]

\* details_json names the message by its external id; setting is the status a
\* NEW_ITEM row starts the ticket with.
MailEntry(i, setting) ==
  [item |-> i, action |-> "MAIL_CORRELATED", actor |-> None,
   from |-> NoStatus, to |-> setting, ref |-> Len(messages) + 1]

InsertMessageAlertsDuplicate(d, i, setting) ==
  /\ \/ /\ FreeExt(call[d].msg.ext)
        /\ messages' = Append(messages, MailRow(i, call[d].msg))
        /\ audit' = Append(audit, MailEntry(i, setting))
     \/ /\ ~FreeExt(call[d].msg.ext)
        /\ UNCHANGED <<messages, audit>>
  /\ call' = [call EXCEPT ![d].pc = "notify"]

\* INSERT ... ON CONFLICT DO NOTHING: when the message is already there the
\* transaction stops early and commits what it did so far.
InsertMessage(d, i, setting) ==
  \/ /\ FreeExt(call[d].msg.ext)
     /\ messages' = Append(messages, MailRow(i, call[d].msg))
     /\ audit' = Append(audit, MailEntry(i, setting))
     /\ call' = [call EXCEPT ![d].pc = "notify"]
  \/ /\ ~FreeExt(call[d].msg.ext)
     /\ UNCHANGED <<messages, audit>>
     /\ call' = [call EXCEPT ![d] = Idle]

\* An error of the query for the sender's address is ignored: the ticket may be
\* stored without its party.
StoreNewItem(d, i) ==
  /\ call[d].pc = "store" /\ call[d].target = None
  /\ ~Exists(i) /\ FreeCode(GeneratedCode)
  /\ \E p \in {call[d].msg.party, None} : NewRow(i, GeneratedCode, "NEW", p)
  /\ InsertMessage(d, i, "NEW")
  /\ UNCHANGED <<links, alerts, raced>>

AfterMailReopensClosed(current) ==
  IF current \in {"PENDING_USER", "RESOLVED", "CLOSED"} THEN "OPEN" ELSE current
AfterMailForgetsResolved(current) ==
  IF current = "PENDING_USER" THEN "OPEN" ELSE current
AfterMailToOpen(current) ==
  IF current = "NEW" THEN "OPEN" ELSE AfterMailReopensClosed(current)
AfterMailMisnamed(current) ==
  IF current \in {"PENDING_USER", "RESOLVED"} THEN "REOPENED" ELSE current
AfterMail(current) ==
  IF current \in {"PENDING_USER", "RESOLVED"} THEN "OPEN" ELSE current

\* The status is read again inside the transaction, the target is not.
StoreReply(d) ==
  LET i == call[d].target IN
  /\ call[d].pc = "store" /\ i # None
  /\ InsertMessage(d, i, NoStatus)
  /\ status' = IF FreeExt(call[d].msg.ext)
               THEN [status EXCEPT ![i] = AfterMail(@)] ELSE status
  /\ UNCHANGED <<code, party, assignee, resolvedAt, links, alerts, raced>>

-----------------------------------------------------------------------------

NotifyNewMessage(d) ==
  /\ call[d].pc = "notify"
  /\ alerts' = [alerts EXCEPT ![call[d].msg.ext] = @ + 1]
  /\ call' = [call EXCEPT ![d] = Idle]
  /\ UNCHANGED <<ticketVars, raced>>

\* A query or the transaction fails (cancelled request, busy database, taken
\* item code): the call returns an error and has changed nothing.
Fail(d) ==
  /\ call[d].pc \in {"correlate", "store"}
  /\ call' = [call EXCEPT ![d] = Idle]
  /\ UNCHANGED <<ticketVars, alerts, raced>>

\* The process dies: calls in flight are forgotten, and so is an alert whose
\* message was just committed.
Crash ==
  /\ \E d \in Senders : call[d] # Idle
  /\ call' = [d \in Senders |-> Idle]
  /\ UNCHANGED <<ticketVars, alerts, raced>>

\* The operators' operations that can meet a message on its way in.
OperatorStep ==
  \E i \in Items, u \in Staff :
    \/ \E s \in Status : TransitionStatus(i, u, s)
    \/ \E internal \in BOOLEAN : AddThreadMessage(i, u, internal, None)

\* CreateItem has no route; tests call it with codes of their own, also with
\* those the counter would generate.
ManualItem == \E i \in Items, c \in Codes : CreateItem(i, c, "NEW", None, None)

Next ==
  \/ Room /\ (OperatorStep \/ ManualItem) /\ UNCHANGED <<call, alerts, raced>>
  \/ \E d \in Senders :
       \/ \E m \in Handed(d) : Deliver(d, m)
       \/ Correlate(d)
       \/ Room /\ (StoreReply(d) \/ \E i \in Items : StoreNewItem(d, i))
       \/ NotifyNewMessage(d)
       \/ Fail(d)
  \/ Crash

Spec == Init /\ [][Next]_ingestVars

-----------------------------------------------------------------------------
(* Invariants.                                                             *)

Stored(e, k) == k \in DOMAIN messages /\ messages[k].ext = e

\* However many deliveries of the same message overlap, one row of one thread
\* holds it: the unique index backs up the deduplication query, which two
\* deliveries can both pass.
StoredOnce ==
  \A k, l \in DOMAIN messages :
    messages[k].ext = messages[l].ext /\ messages[k].ext # None => k = l

\* A message is stored once, and live viewers are told of it at most once,
\* never before it is committed, and by the call that stored it.
AlertsFollowCommit ==
  /\ StoredOnce
  /\ \A e \in Exts :
       /\ alerts[e] <= 1
       /\ alerts[e] = 1 => \E k \in DOMAIN messages : Stored(e, k)
       /\ \A d \in Senders : call[d].pc = "notify" /\ call[d].msg.ext = e =>
            alerts[e] = 0 /\ \E k \in DOMAIN messages : Stored(e, k)

\* A conversation is not split: a mail that refers to messages stored before
\* it is in the thread of the first of them, whatever its subject says and
\* whatever the webhook and the operators did in the meantime.
ThreadNotSplit ==
  \A m \in Mails, k \in DOMAIN messages :
    Stored(m.ext, k) /\ ~m.byPhone =>
      \A r \in DOMAIN m.refs, j \in 1..(k-1) :
        /\ Stored(m.refs[r], j)
        /\ \A q \in 1..(r-1), l \in 1..(k-1) : ~Stored(m.refs[q], l)
        => messages[j].item = messages[k].item

\* Tickets that CreateItem made have an ITEM_CREATED row, those mail opened
\* have none.
MadeByCaller(i) ==
  \E k \in DOMAIN audit : audit[k].item = i /\ audit[k].action = "ITEM_CREATED"

\* The counter behind generated codes never runs into a code it has generated:
\* only a ticket that a caller of CreateItem gave a code ahead of the counter
\* can keep mail from opening a ticket.
GeneratedCodesDiffer ==
  \A i \in Items : Exists(i) /\ code[i] = GeneratedCode => MadeByCaller(i)

\* A ticket opened for a message and without one.
Empty(i) == /\ Exists(i) /\ ~MadeByCaller(i)
            /\ \A k \in DOMAIN messages : messages[k].item # i

\* Every ticket opened for a message contains a message: redelivery of a
\* message already ingested opens nothing.
NoEmptyTicket == \A i \in Items : ~Empty(i)

\* What the code does keep: redelivery after a failed call, a crash or a
\* closed ticket opens no empty ticket, and the audit trail, mail's rows
\* between those of the operators, explains every status.  Only deliveries of
\* one message that overlap, or a deduplication query that fails on a stored
\* one, leave a ticket with neither message nor audit row.
GapsNeedRace == raced \/ (NoEmptyTicket /\ AuditExplainsStatus)
=============================================================================
