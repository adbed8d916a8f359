------------------------------ MODULE WorkItems ------------------------------
(***************************************************************************)
(* The ticket store: work_items, thread_messages, work_item_assets and     *)
(* audit_logs, and the operations internal/db/repository.go performs on    *)
(* them.  Every operation of the code is one IMMEDIATE transaction, so it  *)
(* is one action here; a call the code refuses changes nothing and is no   *)
(* step.  Timestamps, subjects and bodies are left out; resolved_at is     *)
(* kept as "has it ever been set".                                         *)
(***************************************************************************)
EXTENDS Naturals, Sequences, FiniteSets

CONSTANTS
  Items,            \* row ids of work_items
  Staff,            \* ids of active users
  Assets,           \* row ids of assets
  Codes,            \* item_code values callers of CreateItem pass
  Exts,             \* external_message_id values
  Parties,          \* contacts and organizations a ticket may belong to
  None,             \* SQL NULL
  InitialStatuses,  \* statuses callers of CreateItem pass
  LooseForeignKeys, \* may a pooled connection run with foreign_keys off?
  MaxMessages,      \* bound: rows in thread_messages
  MaxAudit          \* bound: rows in audit_logs

Status == {"NEW", "OPEN", "PENDING_USER", "RESOLVED", "CLOSED"}
Absent == "ABSENT"    \* status of a row that does not exist
NoStatus == ""        \* from/to of an audit row that is not about the status

ASSUME ConstantsOK ==
  /\ None \notin Items \cup Staff \cup Assets \cup Exts \cup Parties \cup Nat
  /\ Codes \subseteq Nat
  /\ InitialStatuses \subseteq Status
  /\ LooseForeignKeys \in BOOLEAN
  /\ MaxMessages \in Nat
  /\ MaxAudit \in Nat

VARIABLES
  status,      \* work_items.status
  code,        \* work_items.item_code
  party,       \* work_items.contact_id / organization_id
  assignee,    \* work_items.assigned_user_id
  resolvedAt,  \* is work_items.resolved_at set?
  messages,    \* thread_messages in id order
  links,       \* work_item_assets
  audit        \* audit_logs in id order

rowVars == <<status, code, party, assignee, resolvedAt>>
ticketVars == <<rowVars, messages, links, audit>>

Exists(i) == status[i] # Absent

Message == [item : Items, author : Staff \cup {None}, internal : BOOLEAN,
            ext : Exts \cup {None}]

AuditAction == {"ITEM_CREATED", "STATUS_CHANGED", "REASSIGNED", "NOTE_ADDED",
                "PUBLIC_REPLY", "ASSET_LINKED", "ASSET_UNLINKED",
                "MAIL_CORRELATED"}

\* details_json is reduced to the status change it reports (from, to) and the
\* row it refers to (the message id or the asset id).
AuditLog == [item : Items, action : AuditAction, actor : Staff \cup {None},
             from : Status \cup {NoStatus}, to : Status \cup {NoStatus},
             ref : Nat \cup Assets \cup {None}]

StatusEntry(i, action, actor, from, to) ==
  [item |-> i, action |-> action, actor |-> actor,
   from |-> from, to |-> to, ref |-> None]

Entry(i, action, actor, ref) ==
  [item |-> i, action |-> action, actor |-> actor,
   from |-> NoStatus, to |-> NoStatus, ref |-> ref]

TypeOK ==
  /\ status \in [Items -> Status \cup {Absent}]
  /\ code \in [Items -> Nat \cup {None}]
  /\ party \in [Items -> Parties \cup {None}]
  /\ assignee \in [Items -> Staff \cup {None}]
  /\ resolvedAt \in [Items -> BOOLEAN]
  /\ messages \in Seq(Message)
  /\ links \subseteq Items \X Assets
  /\ audit \in Seq(AuditLog)

TicketInit ==
  /\ status = [i \in Items |-> Absent]
  /\ code = [i \in Items |-> None]
  /\ party = [i \in Items |-> None]
  /\ assignee = [i \in Items |-> None]
  /\ resolvedAt = [i \in Items |-> FALSE]
  /\ messages = <<>>
  /\ links = {}
  /\ audit = <<>>

-----------------------------------------------------------------------------
(* The status machine.  A definition named after another one with a suffix *)
(* (AfterMessageAnyReply, ...) is a deliberately wrong variant of it, kept  *)
(* to confirm that the properties below notice the difference.             *)

CanTransition(current, next) ==
  \/ current = next
  \/ current = "NEW" /\ next \in {"OPEN", "CLOSED"}
  \/ current = "OPEN" /\ next \in {"PENDING_USER", "RESOLVED", "CLOSED"}
  \/ current = "PENDING_USER" /\ next \in {"OPEN", "RESOLVED", "CLOSED"}
  \/ current = "RESOLVED" /\ next \in {"OPEN", "CLOSED"}
  \/ current = "CLOSED" /\ next = "OPEN"

AfterMessageAnyReply(current, author, internal) ==
  IF author = None /\ current \in {"PENDING_USER", "RESOLVED"} THEN "OPEN"
  ELSE IF author # None /\ ~internal THEN "PENDING_USER" ELSE current

AfterMessageMisnamed(current, author, internal) ==
  IF author = None /\ current \in {"PENDING_USER", "RESOLVED"} THEN "OPEN"
  ELSE IF author # None /\ ~internal /\ current = "OPEN" THEN "PENDING"
  ELSE current

\* What a message does to the status of its ticket.
AfterMessage(current, author, internal) ==
  IF author = None /\ current \in {"PENDING_USER", "RESOLVED"} THEN "OPEN"
  ELSE IF author # None /\ ~internal /\ current = "OPEN" THEN "PENDING_USER"
  ELSE current

-----------------------------------------------------------------------------
(* The operations.                                                         *)

FreeCode(c) == \A i \in Items : Exists(i) => code[i] # c
FreeExt(e) == e = None \/ \A k \in DOMAIN messages : messages[k].ext # e

NewRow(i, c, s, p) ==
  /\ status' = [status EXCEPT ![i] = s]
  /\ code' = [code EXCEPT ![i] = c]
  /\ party' = [party EXCEPT ![i] = p]
  /\ UNCHANGED <<assignee, resolvedAt>>

\* The optional first message of a ticket that is created by a caller.
FirstMessage == [author : Staff \cup {None}, internal : BOOLEAN,
                 ext : Exts \cup {None}]

CreateItem(i, c, s, p, first) ==
  /\ ~Exists(i) /\ FreeCode(c)
  /\ NewRow(i, c, s, p)
  /\ \/ /\ first = None
        /\ UNCHANGED messages
        /\ audit' = Append(audit,
                           StatusEntry(i, "ITEM_CREATED", None, NoStatus, s))
     \/ /\ first # None
        /\ FreeExt(first.ext)
        /\ messages' = Append(messages,
                         [item |-> i, author |-> first.author,
                          internal |-> first.internal, ext |-> first.ext])
        /\ audit' = Append(audit, StatusEntry(i, "ITEM_CREATED", first.author,
                                              NoStatus, s))
  /\ UNCHANGED links

TransitionStatusIgnoresLog(i, u, s) ==
  /\ Exists(i) /\ CanTransition(status[i], s)
  /\ status' = [status EXCEPT ![i] = s]
  /\ resolvedAt' = [resolvedAt EXCEPT ![i] = @ \/ s = "RESOLVED"]
  /\ audit' \in {audit, Append(audit, StatusEntry(i, "STATUS_CHANGED", u, status[i], s))}
  /\ UNCHANGED <<code, party, assignee, messages, links>>

TransitionStatusLogsNew(i, u, s) ==
  /\ Exists(i) /\ CanTransition(status[i], s)
  /\ status' = [status EXCEPT ![i] = s]
  /\ resolvedAt' = [resolvedAt EXCEPT ![i] = @ \/ s = "RESOLVED"]
  /\ audit' = Append(audit, StatusEntry(i, "STATUS_CHANGED", u, s, s))
  /\ UNCHANGED <<code, party, assignee, messages, links>>

\* resolved_at is stamped on every move to RESOLVED and never cleared.
TransitionStatus(i, u, s) ==
  /\ Exists(i) /\ CanTransition(status[i], s)
  /\ status' = [status EXCEPT ![i] = s]
  /\ resolvedAt' = [resolvedAt EXCEPT ![i] = @ \/ s = "RESOLVED"]
  /\ audit' = Append(audit,
                     StatusEntry(i, "STATUS_CHANGED", u, status[i], s))
  /\ UNCHANGED <<code, party, assignee, messages, links>>

MessageAction(internal) == IF internal THEN "NOTE_ADDED" ELSE "PUBLIC_REPLY"

\* The status change, when there is one, is logged before the message.  An error
\* of that insert is ignored: the change may be committed without its row.
LogMessage(i, a, internal) ==
  LET next == AfterMessage(status[i], a, internal)
      change == StatusEntry(i, "STATUS_CHANGED", a, status[i], next)
      logged == IF next = status[i] THEN {audit}
                ELSE {audit, Append(audit, change)}
      own == Entry(i, MessageAction(internal), a, Len(messages) + 1)
  IN  audit' \in {Append(l, own) : l \in logged}

AddThreadMessage(i, a, internal, e) ==
  /\ Exists(i) /\ FreeExt(e)
  /\ messages' = Append(messages, [item |-> i, author |-> a,
                                   internal |-> internal, ext |-> e])
  /\ status' = [status EXCEPT ![i] = AfterMessage(@, a, internal)]
  /\ LogMessage(i, a, internal)
  /\ UNCHANGED <<code, party, assignee, resolvedAt, links>>

\* A target who is not an active user is refused: Staff holds active users.
AssignItem(i, u, target) ==
  /\ Exists(i)
  /\ target \in Staff \cup {None}
  /\ assignee' = [assignee EXCEPT ![i] = target]
  /\ audit' = Append(audit, Entry(i, "REASSIGNED", u, None))
  /\ UNCHANGED <<status, code, party, resolvedAt, messages, links>>

\* Neither operation reads the ticket: that it exists is left to the foreign
\* keys, which the connection may not be enforcing.
LinkAsset(i, u, x) ==
  /\ Exists(i) \/ LooseForeignKeys
  /\ links' = links \cup {<<i, x>>}
  /\ audit' = Append(audit, Entry(i, "ASSET_LINKED", u, x))
  /\ UNCHANGED <<rowVars, messages>>

UnlinkAssetKeepsRow(i, u, x) ==
  /\ Exists(i) \/ LooseForeignKeys
  /\ audit' = Append(audit, Entry(i, "ASSET_UNLINKED", u, x))
  /\ UNCHANGED <<rowVars, messages, links>>

UnlinkAsset(i, u, x) ==
  /\ Exists(i) \/ LooseForeignKeys
  /\ links' = links \ {<<i, x>>}
  /\ audit' = Append(audit, Entry(i, "ASSET_UNLINKED", u, x))
  /\ UNCHANGED <<rowVars, messages>>

-----------------------------------------------------------------------------
(* The specification.                                                      *)

Room == Len(messages) < MaxMessages /\ Len(audit) + 2 <= MaxAudit

Operation ==
  \E i \in Items :
    \/ \E c \in Codes, s \in InitialStatuses, p \in Parties \cup {None},
          first \in FirstMessage \cup {None} : CreateItem(i, c, s, p, first)
    \/ \E u \in Staff, s \in Status : TransitionStatus(i, u, s)
    \/ \E a \in Staff \cup {None}, internal \in BOOLEAN,
          e \in Exts \cup {None} : AddThreadMessage(i, a, internal, e)
    \/ \E u \in Staff, target \in Staff \cup {None} : AssignItem(i, u, target)
    \/ \E u \in Staff, x \in Assets :
          LinkAsset(i, u, x) \/ UnlinkAsset(i, u, x)

TicketNext == Room /\ Operation

TicketSpec == TicketInit /\ [][TicketNext]_ticketVars

-----------------------------------------------------------------------------
(* Reading the audit trail.                                                *)

\* Row k of trail a is the last one up to row n that gives ticket i a status.
LastSetter(a, i, k, n) ==
  /\ k \in 1..n /\ a[k].item = i /\ a[k].to # NoStatus
  /\ \A m \in (k+1)..n : a[m].item = i => a[m].to = NoStatus

Parked == {"PENDING_USER", "RESOLVED"}

\* A row about a message of the requester's, and one about an operator's reply.
RequesterRow(e) ==
  \/ e.action = "MAIL_CORRELATED"
  \/ e.action \in {"PUBLIC_REPLY", "NOTE_ADDED"} /\ e.actor = None
ReplyRow(e) == e.action = "PUBLIC_REPLY" /\ e.actor # None

\* Of ticket i, rows k+1 to n tell of a requester's message; of an operator's
\* reply and no requester's message after it.
Heard(a, i, k, n) ==
  \E m \in (k+1)..n : a[m].item = i /\ RequesterRow(a[m])
Answered(a, i, k, n) ==
  \E m \in (k+1)..n : a[m].item = i /\ ReplyRow(a[m]) /\ ~Heard(a, i, m, n)

\* Mail reopens a parked ticket without a STATUS_CHANGED row, and the row of any
\* other message's change may be lost: a reader who starts from row k applies
\* the rows about messages too.
Replayed(a, i, k, n) ==
  LET reopened == a[k].to \in Parked /\ Heard(a, i, k, n)
  IN  IF (a[k].to = "OPEN" \/ reopened) /\ Answered(a, i, k, n) THEN "PENDING_USER"
      ELSE IF reopened THEN "OPEN" ELSE a[k].to

\* The first n rows of the trail lead ticket i to status s.
LeadsTo(a, i, n, s) ==
  \E k \in 1..n : LastSetter(a, i, k, n) /\ s = Replayed(a, i, k, n)

-----------------------------------------------------------------------------
(* Invariants.                                                             *)

\* Replaying a ticket's audit trail gives its current status, even when the
\* STATUS_CHANGED row of a reply was lost: every change leaves a row that tells
\* of it, and the operations others log between do not hide it.
AuditExplainsStatus ==
  \A i \in Items : Exists(i) => LeadsTo(audit, i, Len(audit), status[i])

\* Every STATUS_CHANGED row starts from the status the rows before it lead
\* to: lost rows leave no break in the trail of a ticket.
AuditChain ==
  \A n \in 1..Len(audit) : audit[n].action = "STATUS_CHANGED" =>
    LeadsTo(audit, audit[n].item, n-1, audit[n].from)

\* In a ticket that waits for its requester or is resolved, every message of
\* the requester's is older than an operator's reply or decision to park the
\* ticket: a reply always brings the ticket back to the operators.
NoUnseenReply ==
  \A i \in Items : status[i] \in Parked =>
    \A m \in DOMAIN audit : audit[m].item = i /\ RequesterRow(audit[m]) =>
      \E k \in (m+1)..Len(audit) :
        audit[k].item = i /\ (audit[k].to \in Parked \/ ReplyRow(audit[k]))

\* The trail and the thread tell the same story: rows about messages name a
\* message of their ticket with its author and its visibility, in thread
\* order, and only the message a ticket was created with has no row.
TrailMatchesThread ==
  LET Rows == {k \in DOMAIN audit : audit[k].action \in
                 {"PUBLIC_REPLY", "NOTE_ADDED", "MAIL_CORRELATED"}}
  IN  /\ \A k \in Rows :
           /\ audit[k].ref \in DOMAIN messages
           /\ messages[audit[k].ref].item = audit[k].item
           /\ messages[audit[k].ref].author = audit[k].actor
           /\ messages[audit[k].ref].internal <=> audit[k].action = "NOTE_ADDED"
      /\ \A k, l \in Rows : k < l => audit[k].ref < audit[l].ref
      /\ \A r \in DOMAIN messages :
           \/ \E k \in Rows : audit[k].ref = r
           \/ \A q \in 1..(r-1) : messages[q].item # messages[r].item

\* An asset is linked to a ticket exactly when the last link row about the
\* two says so, although linking twice and unlinking nothing are both logged.
LinksMatchTrail ==
  LET About(k, i, x, action) == audit[k].item = i /\ audit[k].ref = x
                                /\ audit[k].action = action
  IN  \A i \in Items, x \in Assets : <<i, x>> \in links <=>
        \E k \in DOMAIN audit :
          /\ About(k, i, x, "ASSET_LINKED")
          /\ \A m \in (k+1)..Len(audit) : ~About(m, i, x, "ASSET_UNLINKED")

\* Whoever rebuilds a ticket from its trail finds the thread and the links the
\* tables hold.
TrailMatchesTables == TrailMatchesThread /\ LinksMatchTrail

-----------------------------------------------------------------------------
(* Action properties.                                                      *)

\* Automatic transitions respect the table too: AddThreadMessage and mail
\* ingestion write the status without calling ValidateTransition.
LegalSteps ==
  [][\A i \in Items : Exists(i) => CanTransition(status[i], status'[i])]_status

\* Only an operator's own request brings a ticket back from CLOSED; a
\* requester's message or a public reply to a closed ticket never does.
ClosedNeedsOperator ==
  [][\A i \in Items : status[i] = "CLOSED" /\ status'[i] # "CLOSED" =>
       /\ Len(audit') = Len(audit) + 1
       /\ audit'[Len(audit')].action = "STATUS_CHANGED"
       /\ audit'[Len(audit')].actor \in Staff]_status
=============================================================================
