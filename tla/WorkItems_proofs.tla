--------------------------- MODULE WorkItems_proofs ---------------------------
(* Theorems about the ticket store.                                          *)
EXTENDS WorkItems, TLAPS

-----------------------------------------------------------------------------
(* Types.                                                                  *)

LEMMA StatusEntryType ==
  ASSUME NEW i \in Items, NEW action \in AuditAction,
         NEW actor \in Staff \cup {None},
         NEW from \in Status \cup {NoStatus}, NEW to \in Status \cup {NoStatus}
  PROVE  StatusEntry(i, action, actor, from, to) \in AuditLog
BY DEF StatusEntry, AuditLog

LEMMA EntryType ==
  ASSUME NEW i \in Items, NEW action \in AuditAction,
         NEW actor \in Staff \cup {None}, NEW ref \in Nat \cup Assets \cup {None}
  PROVE  Entry(i, action, actor, ref) \in AuditLog
BY DEF Entry, AuditLog

LEMMA AfterMessageType ==
  ASSUME NEW s \in Status, NEW a, NEW internal
  PROVE  AfterMessage(s, a, internal) \in Status
BY DEF AfterMessage, Status

\* The two rows a message may add to the trail are well formed.
LEMMA LogMessageType ==
  ASSUME TypeOK, NEW i \in Items, Exists(i), NEW a \in Staff \cup {None},
         NEW internal \in BOOLEAN, LogMessage(i, a, internal)
  PROVE  audit' \in Seq(AuditLog)
<1> DEFINE next == AfterMessage(status[i], a, internal)
           e1 == StatusEntry(i, "STATUS_CHANGED", a, status[i], next)
           e2 == Entry(i, MessageAction(internal), a, Len(messages) + 1)
<1>1. status[i] \in Status
  BY DEF TypeOK, Exists
<1>2. next \in Status
  BY <1>1, AfterMessageType
<1>3. e1 \in AuditLog
  BY <1>1, <1>2, StatusEntryType DEF AuditAction
<1>4. e2 \in AuditLog
  <2>1. Len(messages) + 1 \in Nat
    BY DEF TypeOK
  <2>2. MessageAction(internal) \in AuditAction
    BY DEF MessageAction, AuditAction
  <2> QED
    BY <2>1, <2>2, EntryType
<1>5. audit' = Append(audit, e2) \/ audit' = Append(Append(audit, e1), e2)
  BY DEF LogMessage
<1> HIDE DEF e1, e2
<1>6. audit \in Seq(AuditLog)
  BY DEF TypeOK
<1>7. Append(audit, e1) \in Seq(AuditLog)
  BY <1>3, <1>6
<1> QED
  BY <1>4, <1>5, <1>6, <1>7

LEMMA CreateTypes ==
  ASSUME TypeOK, NEW i \in Items, NEW c \in Nat, NEW s \in Status,
         NEW p \in Parties \cup {None}, NEW first \in FirstMessage \cup {None},
         CreateItem(i, c, s, p, first)
  PROVE  TypeOK'
<1>. /\ status' \in [Items -> Status \cup {Absent}]
     /\ code' \in [Items -> Nat \cup {None}]
     /\ party' \in [Items -> Parties \cup {None}]
     /\ assignee' \in [Items -> Staff \cup {None}]
     /\ resolvedAt' \in [Items -> BOOLEAN]
     /\ links' \subseteq Items \X Assets
  BY DEF CreateItem, NewRow, TypeOK
<1>1. CASE first = None
  <2>1. StatusEntry(i, "ITEM_CREATED", None, NoStatus, s) \in AuditLog
    BY StatusEntryType DEF AuditAction
  <2>2. messages' = messages
        /\ audit' = Append(audit, StatusEntry(i, "ITEM_CREATED", None, NoStatus, s))
    BY <1>1 DEF CreateItem
  <2> QED
    BY <2>1, <2>2 DEF TypeOK
<1>2. CASE first # None
  <2>1. first \in FirstMessage
    BY <1>2
  <2>2. StatusEntry(i, "ITEM_CREATED", first.author, NoStatus, s) \in AuditLog
    BY <2>1, StatusEntryType DEF AuditAction, FirstMessage
  <2>3. [item |-> i, author |-> first.author, internal |-> first.internal,
         ext |-> first.ext] \in Message
    BY <2>1 DEF FirstMessage, Message
  <2>4. /\ messages' = Append(messages,
              [item |-> i, author |-> first.author,
               internal |-> first.internal, ext |-> first.ext])
        /\ audit' = Append(audit,
              StatusEntry(i, "ITEM_CREATED", first.author, NoStatus, s))
    BY <1>2 DEF CreateItem
  <2> QED
    BY <2>2, <2>3, <2>4 DEF TypeOK
<1> QED
  BY <1>1, <1>2

LEMMA TransitionTypes ==
  ASSUME TypeOK, NEW i \in Items, NEW u \in Staff, NEW s \in Status,
         TransitionStatus(i, u, s)
  PROVE  TypeOK'
<1>1. StatusEntry(i, "STATUS_CHANGED", u, status[i], s) \in AuditLog
  BY StatusEntryType DEF TransitionStatus, TypeOK, Exists, AuditAction
<1> QED
  BY <1>1 DEF TransitionStatus, TypeOK

LEMMA MessageTypes ==
  ASSUME TypeOK, NEW i \in Items, NEW a \in Staff \cup {None},
         NEW internal \in BOOLEAN, NEW e \in Exts \cup {None},
         AddThreadMessage(i, a, internal, e)
  PROVE  TypeOK'
<1>1. audit' \in Seq(AuditLog)
  BY LogMessageType DEF AddThreadMessage
<1>2. AfterMessage(status[i], a, internal) \in Status
  BY AfterMessageType DEF AddThreadMessage, TypeOK, Exists
<1>3. [item |-> i, author |-> a, internal |-> internal, ext |-> e] \in Message
  BY DEF Message
<1> QED
  BY <1>1, <1>2, <1>3 DEF AddThreadMessage, TypeOK

LEMMA AssignTypes ==
  ASSUME TypeOK, NEW i \in Items, NEW u \in Staff, NEW target \in Staff \cup {None},
         AssignItem(i, u, target)
  PROVE  TypeOK'
<1>1. Entry(i, "REASSIGNED", u, None) \in AuditLog
  BY EntryType DEF AuditAction
<1> QED
  BY <1>1 DEF AssignItem, TypeOK

LEMMA LinkTypes ==
  ASSUME TypeOK, NEW i \in Items, NEW u \in Staff, NEW x \in Assets,
         LinkAsset(i, u, x) \/ UnlinkAsset(i, u, x)
  PROVE  TypeOK'
<1>1. /\ Entry(i, "ASSET_LINKED", u, x) \in AuditLog
      /\ Entry(i, "ASSET_UNLINKED", u, x) \in AuditLog
  BY EntryType DEF AuditAction
<1>2. audit' \in Seq(AuditLog)
  <2>1. \/ audit' = Append(audit, Entry(i, "ASSET_LINKED", u, x))
        \/ audit' = Append(audit, Entry(i, "ASSET_UNLINKED", u, x))
    BY DEF LinkAsset, UnlinkAsset
  <2>2. audit \in Seq(AuditLog)
    BY DEF TypeOK
  <2> QED
    BY <1>1, <2>1, <2>2
<1>3. links' \subseteq Items \X Assets
  BY DEF LinkAsset, UnlinkAsset, TypeOK
<1>4. UNCHANGED <<status, code, party, assignee, resolvedAt, messages>>
  BY DEF LinkAsset, UnlinkAsset, rowVars
<1> QED
  BY <1>2, <1>3, <1>4 DEF TypeOK

LEMMA TypeStep == TypeOK /\ [TicketNext]_ticketVars => TypeOK'
<1> SUFFICES ASSUME TypeOK, [TicketNext]_ticketVars PROVE TypeOK'
  OBVIOUS
<1>1. CASE UNCHANGED ticketVars
  BY <1>1 DEF ticketVars, rowVars, TypeOK
<1>2. Codes \subseteq Nat /\ InitialStatuses \subseteq Status
  BY ConstantsOK
<1> QED
  BY <1>1, <1>2, CreateTypes, TransitionTypes, MessageTypes, AssignTypes, LinkTypes
     DEF TicketNext, Operation

\* Every reachable state of the store is well typed: rows keep a legal status,
\* the thread and the trail only ever gain well-formed rows.
THEOREM TypeCorrect == TicketSpec => []TypeOK
<1>1. TicketInit => TypeOK
  BY ConstantsOK DEF TicketInit, TypeOK, Absent
<1> QED
  BY <1>1, TypeStep, PTL DEF TicketSpec

-----------------------------------------------------------------------------
(* The audit trail.  The two invariants about it are proved together: the  *)
(* chain needs the rows to lead to the current status, which is what the   *)
(* next STATUS_CHANGED row takes its "from" field from.                    *)

Chained(a) ==
  \A n \in 1..Len(a) : a[n].action = "STATUS_CHANGED" =>
    LeadsTo(a, a[n].item, n-1, a[n].from)

Explains(a, st) ==
  \A i \in Items : st[i] # Absent => LeadsTo(a, i, Len(a), st[i])

LEMMA AppendFacts ==
  ASSUME NEW S, NEW a \in Seq(S), NEW e \in S
  PROVE  /\ Append(a, e) \in Seq(S)
         /\ Len(a) \in Nat
         /\ Len(Append(a, e)) = Len(a) + 1
         /\ \A k \in 1..Len(a) : Append(a, e)[k] = a[k]
         /\ Append(a, e)[Len(a) + 1] = e
OBVIOUS

\* What the first n rows say does not change when a row is added after them.
LEMMA PrefixStable ==
  ASSUME NEW S, NEW a \in Seq(S), NEW e \in S, NEW i, NEW s,
         NEW n \in 0..Len(a)
  PROVE  LeadsTo(a, i, n, s) => LeadsTo(Append(a, e), i, n, s)
<1> DEFINE b == Append(a, e)
<1>1. \A k \in 1..n : b[k] = a[k]
  BY AppendFacts
<1> HIDE DEF b
<1> SUFFICES ASSUME LeadsTo(a, i, n, s) PROVE LeadsTo(b, i, n, s)
  BY DEF b
<1>2. PICK k \in 1..n : LastSetter(a, i, k, n) /\ s = Replayed(a, i, k, n)
  BY DEF LeadsTo
<1>3. n \in Nat /\ (k+1)..n \subseteq 1..n
  BY AppendFacts
<1>4. LastSetter(b, i, k, n)
  BY <1>1, <1>2, <1>3 DEF LastSetter
<1>5. \A l \in 1..n : Heard(b, i, l, n) <=> Heard(a, i, l, n)
  BY <1>1, <1>3 DEF Heard
<1>6. Answered(b, i, k, n) <=> Answered(a, i, k, n)
  BY <1>1, <1>3, <1>5 DEF Answered
<1>7. Replayed(b, i, k, n) = Replayed(a, i, k, n)
  BY <1>1, <1>5, <1>6 DEF Replayed
<1> QED
  BY <1>2, <1>4, <1>7 DEF LeadsTo

\* A row that sets a status leads its ticket to that status.
LEMMA SetterLeads ==
  ASSUME NEW S, NEW a \in Seq(S), NEW e \in S, e.to # NoStatus
  PROVE  LeadsTo(Append(a, e), e.item, Len(a) + 1, e.to)
<1> DEFINE b == Append(a, e)
           n == Len(a) + 1
<1>1. n \in Nat /\ n \in 1..n /\ b[n] = e
  BY AppendFacts
<1>2. (n+1)..n = {}
  BY <1>1
<1> HIDE DEF b, n
<1>3. LastSetter(b, e.item, n, n)
  BY <1>1, <1>2 DEF LastSetter
<1>4. Replayed(b, e.item, n, n) = e.to
  BY <1>1, <1>2 DEF Replayed, Heard, Answered
<1> QED
  BY <1>1, <1>3, <1>4 DEF LeadsTo, b, n

\* What a row that sets no status says of its ticket's status.
StatusAfter(s, e) ==
  IF RequesterRow(e) /\ s \in Parked THEN "OPEN"
  ELSE IF ReplyRow(e) /\ s = "OPEN" THEN "PENDING_USER" ELSE s

\* Such a row moves its own ticket and leaves the others where they were.
LEMMA RowLeads ==
  ASSUME NEW S, NEW a \in Seq(S), NEW e \in S, NEW i, NEW s,
         LeadsTo(a, i, Len(a), s), e.item = i => e.to = NoStatus
  PROVE  LeadsTo(Append(a, e), i, Len(a) + 1,
                 IF e.item = i THEN StatusAfter(s, e) ELSE s)
<1> DEFINE b == Append(a, e)
           n == Len(a)
           new == IF e.item = i THEN StatusAfter(s, e) ELSE s
<1>1. n \in Nat /\ b[n+1] = e /\ \A k \in 1..n : b[k] = a[k]
  BY AppendFacts
<1> HIDE DEF b
<1>2. PICK k \in 1..n : LastSetter(a, i, k, n) /\ s = Replayed(a, i, k, n)
  BY DEF LeadsTo
<1> HIDE DEF n
<1>3. k \in 1..(n+1) /\ \A l \in 1..n : /\ (l+1)..n \subseteq 1..n
                                       /\ (l+1)..(n+1) = (l+1)..n \cup {n+1}
  BY <1>1
<1>4. LastSetter(b, i, k, n+1)
  BY <1>1, <1>2, <1>3 DEF LastSetter
<1>5. \A l \in 1..n : Heard(b, i, l, n+1) <=>
                       Heard(a, i, l, n) \/ (e.item = i /\ RequesterRow(e))
  BY <1>1, <1>3 DEF Heard
<1>6. ~Heard(b, i, n+1, n+1)
  BY <1>1 DEF Heard
<1>7. ~(RequesterRow(e) /\ ReplyRow(e))
  BY DEF RequesterRow, ReplyRow
<1>8. Answered(b, i, k, n+1) <=>
        \/ e.item = i /\ ReplyRow(e)
        \/ Answered(a, i, k, n) /\ ~(e.item = i /\ RequesterRow(e))
  <2>1. Answered(b, i, k, n+1) <=>
          \/ b[n+1].item = i /\ ReplyRow(b[n+1]) /\ ~Heard(b, i, n+1, n+1)
          \/ \E m \in (k+1)..n : b[m].item = i /\ ReplyRow(b[m]) /\ ~Heard(b, i, m, n+1)
    BY <1>3 DEF Answered
  <2>2. \A m \in (k+1)..n : m \in 1..n /\ b[m] = a[m]
    BY <1>1, <1>3
  <2> QED
    BY <1>1, <1>5, <1>6, <1>7, <2>1, <2>2 DEF Answered
<1>9. Replayed(b, i, k, n+1) = new
  <2>1. b[k] = a[k]
    BY <1>1
  <2>2. s = Replayed(a, i, k, n)
    BY <1>2
  <2>3. Heard(b, i, k, n+1) <=> Heard(a, i, k, n) \/ (e.item = i /\ RequesterRow(e))
    BY <1>5
  <2> QED
    BY <1>7, <1>8, <2>1, <2>2, <2>3 DEF Replayed, StatusAfter, Parked
<1> HIDE DEF new
<1> QED
  BY <1>3, <1>4, <1>9 DEF LeadsTo, b, n, new

LEMMA ChainedAppend ==
  ASSUME NEW a \in Seq(AuditLog), NEW e \in AuditLog, Chained(a),
         e.action = "STATUS_CHANGED" => LeadsTo(a, e.item, Len(a), e.from)
  PROVE  Chained(Append(a, e))
<1> DEFINE b == Append(a, e)
<1>1. /\ Len(a) \in Nat /\ Len(b) = Len(a) + 1 /\ b[Len(a) + 1] = e
      /\ \A k \in 1..Len(a) : b[k] = a[k]
  BY AppendFacts
<1> SUFFICES ASSUME NEW n \in 1..Len(b), b[n].action = "STATUS_CHANGED"
             PROVE  LeadsTo(b, b[n].item, n-1, b[n].from)
  BY DEF Chained
<1>2. CASE n \in 1..Len(a)
  <2>1. b[n] = a[n] /\ n-1 \in 0..Len(a)
    BY <1>1, <1>2
  <2>2. LeadsTo(a, a[n].item, n-1, a[n].from)
    BY <1>2, <2>1 DEF Chained
  <2> QED
    BY <2>1, <2>2, PrefixStable
<1>3. CASE n = Len(a) + 1
  <2>1. b[n] = e /\ n-1 = Len(a) /\ Len(a) \in 0..Len(a)
    BY <1>1, <1>3
  <2>2. LeadsTo(a, e.item, Len(a), e.from)
    BY <2>1
  <2>3. LeadsTo(b, e.item, Len(a), e.from)
    BY <2>1, <2>2, PrefixStable
  <2> QED
    BY <2>1, <2>3
<1> QED
  BY <1>1, <1>2, <1>3

\* A row explains the status it sets and leaves the others explained.
LEMMA ExplainsSetter ==
  ASSUME NEW a \in Seq(AuditLog), NEW e \in AuditLog,
         NEW st \in [Items -> Status \cup {Absent}],
         Explains(a, st), e.to # NoStatus
  PROVE  Explains(Append(a, e), [st EXCEPT ![e.item] = e.to])
<1> DEFINE b == Append(a, e)
           new == [st EXCEPT ![e.item] = e.to]
<1>1. Len(b) = Len(a) + 1
  BY AppendFacts
<1> SUFFICES ASSUME NEW i \in Items, new[i] # Absent
             PROVE  LeadsTo(b, i, Len(a) + 1, new[i])
  BY <1>1 DEF Explains
<1>2. CASE i = e.item
  BY <1>2, SetterLeads
<1>3. CASE i # e.item
  <2>1. new[i] = st[i]
    BY <1>3
  <2>2. LeadsTo(a, i, Len(a), st[i])
    BY <2>1 DEF Explains
  <2> QED
    BY <1>3, <2>1, <2>2, RowLeads
<1> QED
  BY <1>2, <1>3

\* A row that sets no status explains what it did to its ticket's.
LEMMA ExplainsRow ==
  ASSUME NEW a \in Seq(AuditLog), NEW e \in AuditLog,
         NEW st \in [Items -> Status \cup {Absent}], Explains(a, st), e.to = NoStatus
  PROVE  Explains(Append(a, e), [st EXCEPT ![e.item] = StatusAfter(@, e)])
<1> DEFINE b == Append(a, e)
           new == [st EXCEPT ![e.item] = StatusAfter(@, e)]
<1>1. Len(b) = Len(a) + 1
  BY AppendFacts
<1> SUFFICES ASSUME NEW i \in Items, new[i] # Absent
             PROVE  LeadsTo(b, i, Len(a) + 1, new[i])
  BY <1>1 DEF Explains
<1>2. new[i] = IF e.item = i THEN StatusAfter(st[i], e) ELSE st[i]
  OBVIOUS
<1>3. st[i] # Absent
  BY <1>2 DEF StatusAfter, Parked, Absent
<1>4. LeadsTo(a, i, Len(a), st[i])
  BY <1>3 DEF Explains
<1> QED
  BY <1>2, <1>4, RowLeads

TrailInv == Chained(audit) /\ Explains(audit, status)

LEMMA TrailInvIs == TrailInv <=> AuditChain /\ AuditExplainsStatus
BY DEF TrailInv, Chained, Explains, AuditChain, AuditExplainsStatus, Exists

\* One status row: it starts from the present status and sets the next one.
LEMMA StatusRowStep ==
  ASSUME TypeOK, TrailInv, NEW e \in AuditLog, e.item \in Items,
         e.to # NoStatus,
         e.action = "STATUS_CHANGED" => Exists(e.item) /\ e.from = status[e.item]
  PROVE  /\ Chained(Append(audit, e))
         /\ Explains(Append(audit, e), [status EXCEPT ![e.item] = e.to])
<1>1. /\ audit \in Seq(AuditLog) /\ status \in [Items -> Status \cup {Absent}]
      /\ Chained(audit) /\ Explains(audit, status)
  BY DEF TypeOK, TrailInv
<1>2. e.action = "STATUS_CHANGED" => LeadsTo(audit, e.item, Len(audit), e.from)
  BY <1>1 DEF Explains, Exists
<1>3. Chained(Append(audit, e))
  BY <1>1, <1>2, ChainedAppend
<1>4. Explains(Append(audit, e), [status EXCEPT ![e.item] = e.to])
  BY <1>1, ExplainsSetter
<1> QED
  BY <1>3, <1>4

\* One row that sets no status.
LEMMA RowStep ==
  ASSUME NEW a \in Seq(AuditLog), NEW st \in [Items -> Status \cup {Absent}],
         Chained(a), Explains(a, st),
         NEW e \in AuditLog, e.to = NoStatus, e.action # "STATUS_CHANGED"
  PROVE  /\ Chained(Append(a, e))
         /\ Explains(Append(a, e), [st EXCEPT ![e.item] = StatusAfter(@, e)])
BY ChainedAppend, ExplainsRow

LEMMA EntryFields ==
  ASSUME NEW i, NEW action, NEW actor, NEW ref
  PROVE  /\ Entry(i, action, actor, ref).item = i
         /\ Entry(i, action, actor, ref).action = action
         /\ Entry(i, action, actor, ref).actor = actor
         /\ Entry(i, action, actor, ref).to = NoStatus
         /\ Entry(i, action, actor, ref).ref = ref
BY DEF Entry

LEMMA StatusEntryFields ==
  ASSUME NEW i, NEW action, NEW actor, NEW from, NEW to
  PROVE  /\ StatusEntry(i, action, actor, from, to).item = i
         /\ StatusEntry(i, action, actor, from, to).action = action
         /\ StatusEntry(i, action, actor, from, to).actor = actor
         /\ StatusEntry(i, action, actor, from, to).from = from
         /\ StatusEntry(i, action, actor, from, to).to = to
BY DEF StatusEntry

LEMMA StatusIsNotNoStatus == NoStatus \notin Status
BY DEF NoStatus, Status

LEMMA CreateKeepsTrail ==
  ASSUME TypeOK, TrailInv, NEW i \in Items, NEW c, NEW s \in Status, NEW p,
         NEW first \in FirstMessage \cup {None}, CreateItem(i, c, s, p, first)
  PROVE  TrailInv'
<1>1. s \in Status
  OBVIOUS
<1>2. PICK actor \in Staff \cup {None} :
        audit' = Append(audit, StatusEntry(i, "ITEM_CREATED", actor, NoStatus, s))
  BY DEF CreateItem, FirstMessage
<1> DEFINE e == StatusEntry(i, "ITEM_CREATED", actor, NoStatus, s)
<1>3. e \in AuditLog
  BY <1>1, StatusEntryType DEF AuditAction
<1>4. e.item = i /\ e.action = "ITEM_CREATED" /\ e.to = s
  BY StatusEntryFields
<1>5. status' = [status EXCEPT ![i] = s]
  BY DEF CreateItem, NewRow
<1> HIDE DEF e
<1>6. Chained(Append(audit, e))
      /\ Explains(Append(audit, e), [status EXCEPT ![e.item] = e.to])
  BY <1>1, <1>3, <1>4, StatusRowStep, StatusIsNotNoStatus
<1> QED
  BY <1>2, <1>4, <1>5, <1>6 DEF TrailInv, e

LEMMA TransitionKeepsTrail ==
  ASSUME TypeOK, TrailInv, NEW i \in Items, NEW u \in Staff, NEW s \in Status,
         TransitionStatus(i, u, s)
  PROVE  TrailInv'
<1> DEFINE e == StatusEntry(i, "STATUS_CHANGED", u, status[i], s)
<1>1. Exists(i) /\ status[i] \in Status
  BY DEF TransitionStatus, TypeOK, Exists
<1>2. e \in AuditLog
  BY <1>1, StatusEntryType DEF AuditAction
<1>3. e.item = i /\ e.from = status[i] /\ e.to = s
  BY StatusEntryFields
<1>4. audit' = Append(audit, e) /\ status' = [status EXCEPT ![i] = s]
  BY DEF TransitionStatus
<1> HIDE DEF e
<1>5. Chained(Append(audit, e))
      /\ Explains(Append(audit, e), [status EXCEPT ![e.item] = e.to])
  BY <1>1, <1>2, <1>3, StatusRowStep, StatusIsNotNoStatus
<1> QED
  BY <1>3, <1>4, <1>5 DEF TrailInv

\* The rows a message leaves: one for the change of status it causes, if it
\* causes one and the insert works, and one of its own.

ChangeRow(i, a, internal) ==
  StatusEntry(i, "STATUS_CHANGED", a, status[i], AfterMessage(status[i], a, internal))
OwnRow(i, a, internal) ==
  Entry(i, MessageAction(internal), a, Len(messages) + 1)

LEMMA MessageRows ==
  ASSUME TypeOK, NEW i \in Items, NEW a \in Staff \cup {None},
         NEW internal \in BOOLEAN, NEW x, AddThreadMessage(i, a, internal, x)
  PROVE  LET next == AfterMessage(status[i], a, internal)
             e1 == ChangeRow(i, a, internal)
             e2 == OwnRow(i, a, internal)
         IN  /\ status[i] \in Status /\ next \in Status
             /\ e1 \in AuditLog /\ e1.item = i /\ e1.to = next
             /\ e1.from = status[i] /\ e1.action = "STATUS_CHANGED" /\ e1.actor = a
             /\ e2 \in AuditLog /\ e2.item = i /\ e2.to = NoStatus
             /\ e2.action = MessageAction(internal) /\ e2.actor = a
             /\ e2.ref = Len(messages) + 1
             /\ status' = [status EXCEPT ![i] = next]
             /\ \/ audit' = Append(audit, e2)
                \/ next # status[i] /\ audit' = Append(Append(audit, e1), e2)
<1> DEFINE next == AfterMessage(status[i], a, internal)
           e1 == ChangeRow(i, a, internal)
           e2 == OwnRow(i, a, internal)
<1>1. status[i] \in Status /\ next \in Status
  BY AfterMessageType DEF AddThreadMessage, TypeOK, Exists
<1>2. /\ e1 \in AuditLog /\ e1.item = i /\ e1.to = next
      /\ e1.from = status[i] /\ e1.action = "STATUS_CHANGED" /\ e1.actor = a
  BY <1>1, StatusEntryType, StatusEntryFields DEF ChangeRow, AuditAction
<1>3. e2 \in AuditLog
  <2>1. Len(messages) + 1 \in Nat
    BY DEF TypeOK
  <2>2. MessageAction(internal) \in AuditAction
    BY DEF MessageAction, AuditAction
  <2> QED
    BY <2>1, <2>2, EntryType DEF OwnRow
<1>4. /\ e2.item = i /\ e2.to = NoStatus /\ e2.action = MessageAction(internal)
      /\ e2.actor = a /\ e2.ref = Len(messages) + 1
  BY EntryFields DEF OwnRow
<1>5. status' = [status EXCEPT ![i] = next]
  BY DEF AddThreadMessage
<1>6. \/ audit' = Append(audit, e2)
      \/ next # status[i] /\ audit' = Append(Append(audit, e1), e2)
  BY DEF AddThreadMessage, LogMessage, ChangeRow, OwnRow
<1> QED
  BY <1>1, <1>2, <1>3, <1>4, <1>5, <1>6

\* A message logs the status change it causes, if any, and then itself; when the
\* first row is lost, the second one still tells of the change.
LEMMA MessageKeepsTrail ==
  ASSUME TypeOK, TrailInv, NEW i \in Items, NEW a \in Staff \cup {None},
         NEW internal \in BOOLEAN, NEW x, AddThreadMessage(i, a, internal, x)
  PROVE  TrailInv'
<1> DEFINE next == AfterMessage(status[i], a, internal)
           e1 == ChangeRow(i, a, internal)
           e2 == OwnRow(i, a, internal)
           st == [status EXCEPT ![i] = next]
<1>1. /\ Exists(i) /\ status \in [Items -> Status \cup {Absent}]
      /\ audit \in Seq(AuditLog) /\ Chained(audit) /\ Explains(audit, status)
  BY DEF AddThreadMessage, TypeOK, TrailInv
<1>2. /\ next \in Status /\ e1 \in AuditLog /\ e1.item = i /\ e1.to = next
      /\ e1.from = status[i]
      /\ e2 \in AuditLog /\ e2.item = i /\ e2.to = NoStatus /\ e2.actor = a
      /\ e2.action = MessageAction(internal)
      /\ status' = st
      /\ \/ audit' = Append(audit, e2)
         \/ next # status[i] /\ audit' = Append(Append(audit, e1), e2)
  BY MessageRows
<1>3. e2.action # "STATUS_CHANGED" /\ e2.action # "MAIL_CORRELATED"
  BY <1>2 DEF MessageAction
<1>4. /\ StatusAfter(status[i], e2) = next
      /\ next # status[i] => StatusAfter(next, e2) = next
  <2>1. /\ RequesterRow(e2) <=> a = None
        /\ ReplyRow(e2) <=> a # None /\ ~internal
    BY <1>2 DEF RequesterRow, ReplyRow, MessageAction
  <2> HIDE DEF e2
  <2> QED
    BY <2>1 DEF AfterMessage, StatusAfter, Parked
<1> HIDE DEF e1, e2, next
<1>5. CASE audit' = Append(audit, e2)
  <2>1. [status EXCEPT ![e2.item] = StatusAfter(@, e2)] = st
    BY <1>1, <1>2, <1>4
  <2>2. Chained(Append(audit, e2))
        /\ Explains(Append(audit, e2), [status EXCEPT ![e2.item] = StatusAfter(@, e2)])
    BY <1>1, <1>2, <1>3, RowStep
  <2> QED
    BY <1>2, <1>5, <2>1, <2>2 DEF TrailInv
<1>6. CASE next # status[i] /\ audit' = Append(Append(audit, e1), e2)
  <2> DEFINE logged == Append(audit, e1)
  <2>0. e1 \in AuditLog /\ e1.item \in Items /\ e1.to # NoStatus
        /\ Exists(e1.item) /\ e1.from = status[e1.item]
    BY <1>1, <1>2, StatusIsNotNoStatus
  <2>1. logged \in Seq(AuditLog) /\ Chained(logged) /\ Explains(logged, st)
    <3>1. Chained(Append(audit, e1))
          /\ Explains(Append(audit, e1), [status EXCEPT ![e1.item] = e1.to])
      BY <2>0, StatusRowStep
    <3>2. Append(audit, e1) \in Seq(AuditLog)
      BY <1>1, <2>0
    <3> QED
      BY <1>2, <3>1, <3>2
  <2>2. st \in [Items -> Status \cup {Absent}] /\ st[i] = next
    BY <1>1, <1>2
  <2>3. [st EXCEPT ![e2.item] = StatusAfter(@, e2)] = st
    BY <1>2, <1>4, <1>6, <2>2
  <2> HIDE DEF logged, st
  <2>4. Chained(Append(logged, e2))
        /\ Explains(Append(logged, e2), [st EXCEPT ![e2.item] = StatusAfter(@, e2)])
    BY <1>2, <1>3, <2>1, <2>2, RowStep
  <2> QED
    BY <1>2, <1>6, <2>3, <2>4 DEF TrailInv, logged
<1> QED
  BY <1>2, <1>5, <1>6

LEMMA OtherOperationKeepsTrail ==
  ASSUME TypeOK, TrailInv, NEW e \in AuditLog, e.to = NoStatus,
         e.action \in {"REASSIGNED", "ASSET_LINKED", "ASSET_UNLINKED"},
         audit' = Append(audit, e), status' = status
  PROVE  TrailInv'
<1>1. /\ audit \in Seq(AuditLog) /\ status \in [Items -> Status \cup {Absent}]
      /\ Chained(audit) /\ Explains(audit, status)
  BY DEF TypeOK, TrailInv
<1>2. [status EXCEPT ![e.item] = StatusAfter(@, e)] = status
  BY <1>1 DEF StatusAfter, RequesterRow, ReplyRow
<1>3. Chained(Append(audit, e))
      /\ Explains(Append(audit, e), [status EXCEPT ![e.item] = StatusAfter(@, e)])
  <2>1. e.action # "STATUS_CHANGED"
    OBVIOUS
  <2> QED
    BY <1>1, <2>1, RowStep
<1> QED
  BY <1>2, <1>3 DEF TrailInv

LEMMA TrailInvariant == TicketSpec => []TrailInv
<1>1. TicketInit => TrailInv
  <2> SUFFICES ASSUME TicketInit PROVE TrailInv
    OBVIOUS
  <2>1. audit = <<>> /\ \A i \in Items : status[i] = Absent
    BY DEF TicketInit
  <2>2. 1..Len(audit) = {}
    BY <2>1
  <2> QED
    BY <2>1, <2>2 DEF TrailInv, Chained, Explains
<1>2. TypeOK /\ TrailInv /\ [TicketNext]_ticketVars => TrailInv'
  <2> SUFFICES ASSUME TypeOK, TrailInv, [TicketNext]_ticketVars PROVE TrailInv'
    OBVIOUS
  <2>1. ASSUME NEW i \in Items, NEW c \in Codes, NEW s \in InitialStatuses,
               NEW p \in Parties \cup {None},
               NEW first \in FirstMessage \cup {None},
               CreateItem(i, c, s, p, first)
        PROVE  TrailInv'
    BY <2>1, ConstantsOK, CreateKeepsTrail
  <2>2. ASSUME NEW i \in Items, NEW u \in Staff, NEW s \in Status,
               TransitionStatus(i, u, s)
        PROVE  TrailInv'
    BY <2>2, TransitionKeepsTrail
  <2>3. ASSUME NEW i \in Items, NEW a \in Staff \cup {None},
               NEW internal \in BOOLEAN, NEW e \in Exts \cup {None},
               AddThreadMessage(i, a, internal, e)
        PROVE  TrailInv'
    BY <2>3, MessageKeepsTrail
  <2>4. ASSUME NEW i \in Items, NEW u \in Staff, NEW target \in Staff \cup {None},
               AssignItem(i, u, target)
        PROVE  TrailInv'
    <3> DEFINE e == Entry(i, "REASSIGNED", u, None)
    <3>0. e \in AuditLog
      BY EntryType DEF AuditAction
    <3>1. e.to = NoStatus /\ e.action = "REASSIGNED"
      BY EntryFields
    <3>2. audit' = Append(audit, e) /\ status' = status
      BY <2>4 DEF AssignItem
    <3> HIDE DEF e
    <3> QED
      BY <3>0, <3>1, <3>2, OtherOperationKeepsTrail
  <2>5. ASSUME NEW i \in Items, NEW u \in Staff, NEW x \in Assets,
               LinkAsset(i, u, x) \/ UnlinkAsset(i, u, x)
        PROVE  TrailInv'
    <3>1. PICK action \in {"ASSET_LINKED", "ASSET_UNLINKED"} :
            audit' = Append(audit, Entry(i, action, u, x)) /\ status' = status
      BY <2>5 DEF LinkAsset, UnlinkAsset, rowVars
    <3> DEFINE e == Entry(i, action, u, x)
    <3>0. e \in AuditLog
      BY EntryType DEF AuditAction
    <3>2. e.to = NoStatus /\ e.action = action
      BY EntryFields
    <3> HIDE DEF e
    <3>3. audit' = Append(audit, e)
      BY <3>1 DEF e
    <3> QED
      BY <3>0, <3>1, <3>2, <3>3, OtherOperationKeepsTrail
  <2>6. CASE UNCHANGED ticketVars
    BY <2>6 DEF ticketVars, rowVars, TrailInv
  <2> QED
    BY <2>1, <2>2, <2>3, <2>4, <2>5, <2>6 DEF TicketNext, Operation
<1> QED
  BY <1>1, <1>2, TypeCorrect, PTL DEF TicketSpec

\* However operations interleave, the audit trail of every ticket is an
\* unbroken chain of status changes.
THEOREM TrailIsChain == TicketSpec => []AuditChain
<1>1. TrailInv => AuditChain
  BY TrailInvIs
<1> QED
  BY <1>1, TrailInvariant, PTL

\* The audit trail alone tells the current status of every ticket.
THEOREM TrailExplainsStatus == TicketSpec => []AuditExplainsStatus
<1>1. TrailInv => AuditExplainsStatus
  BY TrailInvIs
<1> QED
  BY <1>1, TrailInvariant, PTL

-----------------------------------------------------------------------------
(* Steps.                                                                  *)

LEMMA AfterMessageLegal ==
  ASSUME NEW s, NEW a, NEW internal
  PROVE  CanTransition(s, AfterMessage(s, a, internal))
BY DEF AfterMessage, CanTransition

\* Explicit and automatic status changes alike follow the table of
\* CanTransition.
THEOREM StepsAreLegal == TicketSpec => LegalSteps
<1> DEFINE Legal == \A i \in Items : Exists(i) => CanTransition(status[i], status'[i])
<1>1. TypeOK /\ [TicketNext]_ticketVars => [Legal]_status
  <2> SUFFICES ASSUME TypeOK, TicketNext, NEW j \in Items, Exists(j)
               PROVE  CanTransition(status[j], status'[j])
    BY DEF ticketVars, rowVars
  <2>1. CanTransition(status[j], status[j])
    BY DEF CanTransition
  <2>2. ASSUME NEW i \in Items, NEW c \in Codes, NEW s \in InitialStatuses,
               NEW p \in Parties \cup {None},
               NEW first \in FirstMessage \cup {None},
               CreateItem(i, c, s, p, first)
        PROVE  status'[j] = status[j]
    BY <2>2 DEF CreateItem, NewRow, TypeOK
  <2>3. ASSUME NEW i \in Items, NEW u \in Staff, NEW s \in Status,
               TransitionStatus(i, u, s)
        PROVE  CanTransition(status[j], status'[j])
    BY <2>1, <2>3 DEF TransitionStatus, TypeOK
  <2>4. ASSUME NEW i \in Items, NEW a \in Staff \cup {None},
               NEW internal \in BOOLEAN, NEW e \in Exts \cup {None},
               AddThreadMessage(i, a, internal, e)
        PROVE  CanTransition(status[j], status'[j])
    BY <2>1, <2>4, AfterMessageLegal DEF AddThreadMessage, TypeOK
  <2>5. ASSUME NEW i \in Items, NEW u \in Staff, NEW x \in Assets,
               LinkAsset(i, u, x) \/ UnlinkAsset(i, u, x)
        PROVE  status' = status
    BY <2>5 DEF LinkAsset, UnlinkAsset, rowVars
  <2>6. ASSUME NEW i \in Items, NEW u \in Staff, NEW target \in Staff \cup {None},
               AssignItem(i, u, target)
        PROVE  status' = status
    BY <2>6 DEF AssignItem
  <2> QED
    BY <2>1, <2>2, <2>3, <2>4, <2>5, <2>6 DEF TicketNext, Operation
<1> QED
  BY <1>1, TypeCorrect, PTL DEF TicketSpec, LegalSteps

-----------------------------------------------------------------------------
(* Requester messages and parked tickets.                                    *)

\* The row of a reply or of a decision that parks its ticket.
ParkingRow(e) == e.to \in Parked \/ ReplyRow(e)

NothingSince(a, st) ==
  \A i \in Items : st[i] \in Parked =>
    \A m \in DOMAIN a : a[m].item = i /\ RequesterRow(a[m]) =>
      \E k \in (m+1)..Len(a) : a[k].item = i /\ ParkingRow(a[k])

LEMMA NothingSinceIs == NoUnseenReply <=> NothingSince(audit, status)
BY DEF NoUnseenReply, NothingSince, ParkingRow

\* A row keeps it when its ticket is not parked, or it is not the requester's and
\* the ticket was parked before or is parked by it.
LEMMA NothingSinceAppend ==
  ASSUME NEW a \in Seq(AuditLog), NEW e \in AuditLog, NEW st, NEW new,
         NothingSince(a, st), \A i \in Items : i # e.item => new[i] = st[i],
         new[e.item] \in Parked =>
           ~RequesterRow(e) /\ (ParkingRow(e) \/ st[e.item] \in Parked)
  PROVE  NothingSince(Append(a, e), new)
<1> DEFINE b == Append(a, e)
           n == Len(a)
<1>1. /\ n \in Nat /\ Len(b) = n + 1 /\ DOMAIN b = 1..(n + 1) /\ b[n + 1] = e
      /\ DOMAIN a = 1..n /\ \A k \in 1..n : b[k] = a[k]
  BY AppendFacts
<1> HIDE DEF b, n
<1>2. SUFFICES ASSUME NEW i \in Items, new[i] \in Parked, NEW m \in 1..(n + 1),
                      b[m].item = i, RequesterRow(b[m])
               PROVE  \E k \in (m+1)..(n+1) : b[k].item = i /\ ParkingRow(b[k])
  BY <1>1 DEF NothingSince, b
<1>3. m \in 1..n /\ b[m] = a[m]
  BY <1>1, <1>2
<1>4. n + 1 \in (m+1)..(n+1) /\ (m+1)..n \subseteq (m+1)..(n+1)
      /\ (m+1)..n \subseteq 1..n
  BY <1>1, <1>3
<1>5. CASE e.item = i /\ ParkingRow(e)
  BY <1>1, <1>4, <1>5
<1>6. CASE st[i] \in Parked
  <2>1. PICK k \in (m+1)..n : a[k].item = i /\ ParkingRow(a[k])
    BY <1>1, <1>2, <1>3, <1>6 DEF NothingSince, n
  <2> QED
    BY <1>1, <1>4, <2>1
<1> QED
  BY <1>2, <1>5, <1>6

LEMMA CreateKeepsSeen ==
  ASSUME TypeOK, NoUnseenReply, NEW i \in Items, NEW c, NEW s \in Status, NEW p,
         NEW first \in FirstMessage \cup {None}, CreateItem(i, c, s, p, first)
  PROVE  NoUnseenReply'
<1>1. PICK actor \in Staff \cup {None} :
        audit' = Append(audit, StatusEntry(i, "ITEM_CREATED", actor, NoStatus, s))
  BY DEF CreateItem, FirstMessage
<1> DEFINE e == StatusEntry(i, "ITEM_CREATED", actor, NoStatus, s)
<1>2. e \in AuditLog /\ e.item = i /\ e.to = s /\ e.action = "ITEM_CREATED"
  BY StatusEntryType, StatusEntryFields DEF AuditAction
<1>3. status' = [status EXCEPT ![i] = s]
  BY DEF CreateItem, NewRow
<1> HIDE DEF e
<1>4. /\ audit \in Seq(AuditLog) /\ \A j \in Items : j # e.item => status'[j] = status[j]
      /\ status'[e.item] = s /\ ~RequesterRow(e) /\ (s \in Parked => ParkingRow(e))
  BY <1>2, <1>3 DEF TypeOK, RequesterRow, ParkingRow
<1>5. NothingSince(Append(audit, e), status')
  BY <1>2, <1>4, NothingSinceIs, NothingSinceAppend
<1> QED
  BY <1>1, <1>5 DEF e, NoUnseenReply, NothingSince, ParkingRow

LEMMA TransitionKeepsSeen ==
  ASSUME TypeOK, NoUnseenReply, NEW i \in Items, NEW u \in Staff, NEW s \in Status,
         TransitionStatus(i, u, s)
  PROVE  NoUnseenReply'
<1> DEFINE e == StatusEntry(i, "STATUS_CHANGED", u, status[i], s)
<1>1. status[i] \in Status
  BY DEF TransitionStatus, TypeOK, Exists
<1>2. e \in AuditLog /\ e.item = i /\ e.to = s /\ e.action = "STATUS_CHANGED"
  BY <1>1, StatusEntryType, StatusEntryFields DEF AuditAction
<1>3. audit' = Append(audit, e) /\ status' = [status EXCEPT ![i] = s]
  BY DEF TransitionStatus
<1> HIDE DEF e
<1>4. /\ audit \in Seq(AuditLog) /\ \A j \in Items : j # e.item => status'[j] = status[j]
      /\ status'[e.item] = s /\ ~RequesterRow(e) /\ (s \in Parked => ParkingRow(e))
  BY <1>2, <1>3 DEF TypeOK, RequesterRow, ParkingRow
<1>5. NothingSince(Append(audit, e), status')
  BY <1>2, <1>4, NothingSinceIs, NothingSinceAppend
<1> QED
  BY <1>3, <1>5 DEF NoUnseenReply, NothingSince, ParkingRow

\* A requester's message parks no ticket and reopens a parked one; another
\* message is not the requester's, and parks a ticket only if it is a reply.
LEMMA MessageKeepsSeen ==
  ASSUME TypeOK, NoUnseenReply, NEW i \in Items, NEW a \in Staff \cup {None},
         NEW internal \in BOOLEAN, NEW x, AddThreadMessage(i, a, internal, x)
  PROVE  NoUnseenReply'
<1> DEFINE next == AfterMessage(status[i], a, internal)
           e1 == ChangeRow(i, a, internal)
           e2 == OwnRow(i, a, internal)
<1>1. /\ next \in Status /\ e1 \in AuditLog /\ e1.item = i /\ e1.to = next
      /\ e1.action = "STATUS_CHANGED"
      /\ e2 \in AuditLog /\ e2.item = i /\ e2.actor = a
      /\ e2.action = MessageAction(internal)
      /\ status' = [status EXCEPT ![i] = next]
      /\ \/ audit' = Append(audit, e2)
         \/ next # status[i] /\ audit' = Append(Append(audit, e1), e2)
  BY MessageRows
<1>2. status'[i] = next /\ \A j \in Items : j # i => status'[j] = status[j]
  BY <1>1 DEF TypeOK
<1>3. next \in Parked => ~RequesterRow(e2) /\ (ReplyRow(e2) \/ status[i] \in Parked)
  <2>1. next \in Parked => a # None /\ (~internal \/ status[i] \in Parked)
    BY DEF AfterMessage, Parked
  <2>2. /\ RequesterRow(e2) <=> a = None
        /\ ReplyRow(e2) <=> a # None /\ ~internal
    BY <1>1 DEF RequesterRow, ReplyRow, MessageAction
  <2> QED
    BY <2>1, <2>2
<1>4. audit \in Seq(AuditLog) /\ NothingSince(audit, status)
  BY NothingSinceIs DEF TypeOK
<1>5. /\ e1 \in AuditLog /\ e2 \in AuditLog /\ ~RequesterRow(e1)
      /\ next \in Parked => ParkingRow(e1)
      /\ ReplyRow(e2) => ParkingRow(e2)
  BY <1>1 DEF RequesterRow, ParkingRow
<1> HIDE DEF next, e1, e2
<1>6. CASE audit' = Append(audit, e2)
  <2>0. /\ \A j \in Items : j # e2.item => status'[j] = status[j]
        /\ status'[e2.item] \in Parked =>
             ~RequesterRow(e2) /\ (ParkingRow(e2) \/ status[e2.item] \in Parked)
    BY <1>1, <1>2, <1>3, <1>5
  <2>1. NothingSince(Append(audit, e2), status')
    BY <1>4, <1>5, <2>0, NothingSinceAppend
  <2> QED
    BY <1>6, <2>1 DEF NoUnseenReply, NothingSince, ParkingRow
<1>7. CASE audit' = Append(Append(audit, e1), e2)
  <2>0. /\ \A j \in Items : j # e1.item => status'[j] = status[j]
        /\ status'[e1.item] \in Parked => ~RequesterRow(e1) /\ ParkingRow(e1)
        /\ status'[e2.item] \in Parked =>
             ~RequesterRow(e2) /\ status'[e2.item] \in Parked
    BY <1>1, <1>2, <1>3, <1>5
  <2>1. NothingSince(Append(audit, e1), status')
    BY <1>4, <1>5, <2>0, NothingSinceAppend
  <2> DEFINE logged == Append(audit, e1)
  <2>2. logged \in Seq(AuditLog)
    BY <1>1, <1>4
  <2> HIDE DEF logged
  <2>3. NothingSince(logged, status')
    BY <2>1 DEF logged
  <2>4. NothingSince(Append(logged, e2), status')
    BY <1>5, <2>0, <2>2, <2>3, NothingSinceAppend
  <2> QED
    BY <1>7, <2>4 DEF logged, NoUnseenReply, NothingSince, ParkingRow
<1> QED
  BY <1>1, <1>6, <1>7

LEMMA OtherOperationKeepsSeen ==
  ASSUME TypeOK, NoUnseenReply, NEW e \in AuditLog,
         e.action \in {"REASSIGNED", "ASSET_LINKED", "ASSET_UNLINKED"},
         audit' = Append(audit, e), status' = status
  PROVE  NoUnseenReply'
<1>1. audit \in Seq(AuditLog) /\ NothingSince(audit, status) /\ ~RequesterRow(e)
  BY NothingSinceIs DEF TypeOK, RequesterRow
<1>2. NothingSince(Append(audit, e), status)
  BY <1>1, NothingSinceAppend
<1> QED
  BY <1>2 DEF NoUnseenReply, NothingSince, ParkingRow

LEMMA SeenInit == TicketInit => NoUnseenReply
BY DEF TicketInit, NoUnseenReply, Absent

LEMMA AssignRow ==
  ASSUME NEW i \in Items, NEW u \in Staff, NEW target \in Staff \cup {None},
         AssignItem(i, u, target)
  PROVE  \E e \in AuditLog :
           /\ e.action = "REASSIGNED"
           /\ audit' = Append(audit, e)
           /\ UNCHANGED <<status, messages, links>>
<1>1. Entry(i, "REASSIGNED", u, None) \in AuditLog
  BY EntryType DEF AuditAction
<1>2. Entry(i, "REASSIGNED", u, None).action = "REASSIGNED"
  BY EntryFields
<1>3. /\ audit' = Append(audit, Entry(i, "REASSIGNED", u, None))
      /\ UNCHANGED <<status, messages, links>>
  BY DEF AssignItem
<1> QED
  BY <1>1, <1>2, <1>3

LEMMA LinkRow ==
  ASSUME NEW i \in Items, NEW u \in Staff, NEW x \in Assets,
         LinkAsset(i, u, x) \/ UnlinkAsset(i, u, x)
  PROVE  \E e \in AuditLog :
           /\ e.item = i /\ e.ref = x
           /\ audit' = Append(audit, e)
           /\ UNCHANGED <<status, messages>>
           /\ \/ e.action = "ASSET_LINKED" /\ links' = links \cup {<<i, x>>}
              \/ e.action = "ASSET_UNLINKED" /\ links' = links \ {<<i, x>>}
<1>1. ASSUME NEW action \in {"ASSET_LINKED", "ASSET_UNLINKED"}
      PROVE  Entry(i, action, u, x) \in AuditLog
  BY EntryType DEF AuditAction
<1>2. UNCHANGED <<status, messages>>
  BY DEF LinkAsset, UnlinkAsset, rowVars
<1>3. CASE LinkAsset(i, u, x)
  <2>1. /\ audit' = Append(audit, Entry(i, "ASSET_LINKED", u, x))
        /\ links' = links \cup {<<i, x>>}
    BY <1>3 DEF LinkAsset
  <2>2. /\ Entry(i, "ASSET_LINKED", u, x).item = i /\ Entry(i, "ASSET_LINKED", u, x).ref = x
        /\ Entry(i, "ASSET_LINKED", u, x).action = "ASSET_LINKED"
    BY EntryFields
  <2> QED
    BY <1>1, <1>2, <2>1, <2>2
<1>4. CASE UnlinkAsset(i, u, x)
  <2>1. /\ audit' = Append(audit, Entry(i, "ASSET_UNLINKED", u, x))
        /\ links' = links \ {<<i, x>>}
    BY <1>4 DEF UnlinkAsset
  <2>2. /\ Entry(i, "ASSET_UNLINKED", u, x).item = i
        /\ Entry(i, "ASSET_UNLINKED", u, x).ref = x
        /\ Entry(i, "ASSET_UNLINKED", u, x).action = "ASSET_UNLINKED"
    BY EntryFields
  <2> QED
    BY <1>1, <1>2, <2>1, <2>2
<1> QED
  BY <1>3, <1>4

LEMMA SeenStep == TypeOK /\ NoUnseenReply /\ [TicketNext]_ticketVars => NoUnseenReply'
<1> SUFFICES ASSUME TypeOK, NoUnseenReply, [TicketNext]_ticketVars PROVE NoUnseenReply'
  OBVIOUS
<1>1. CASE UNCHANGED ticketVars
  BY <1>1 DEF ticketVars, rowVars, NoUnseenReply
<1>2. ASSUME NEW i \in Items, NEW u \in Staff, NEW target \in Staff \cup {None},
             AssignItem(i, u, target)
      PROVE  NoUnseenReply'
  BY <1>2, AssignRow, OtherOperationKeepsSeen
<1>3. ASSUME NEW i \in Items, NEW u \in Staff, NEW x \in Assets,
             LinkAsset(i, u, x) \/ UnlinkAsset(i, u, x)
      PROVE  NoUnseenReply'
  BY <1>3, LinkRow, OtherOperationKeepsSeen
<1>4. InitialStatuses \subseteq Status
  BY ConstantsOK
<1> QED
  BY <1>1, <1>2, <1>3, <1>4, CreateKeepsSeen, TransitionKeepsSeen, MessageKeepsSeen
     DEF TicketNext, Operation

\* In a ticket that waits for its requester or is resolved, no message of the
\* requester's is newer than the operators' last reply or decision to park it.
THEOREM ParkedHeardNothing == TicketSpec => []NoUnseenReply
BY SeenInit, SeenStep, TypeCorrect, PTL DEF TicketSpec

-----------------------------------------------------------------------------
(* The trail and the thread.                                                 *)

MessageActions == {"PUBLIC_REPLY", "NOTE_ADDED", "MAIL_CORRELATED"}

RowsOf(a) == {k \in DOMAIN a : a[k].action \in MessageActions}

\* Row e tells of message m.
Tells(e, m) ==
  /\ m.item = e.item /\ m.author = e.actor
  /\ m.internal <=> e.action = "NOTE_ADDED"

ThreadTold(a, ms) ==
  /\ \A k \in RowsOf(a) : a[k].ref \in DOMAIN ms /\ Tells(a[k], ms[a[k].ref])
  /\ \A k, l \in RowsOf(a) : k < l => a[k].ref < a[l].ref
  /\ \A r \in DOMAIN ms :
       \/ \E k \in RowsOf(a) : a[k].ref = r
       \/ \A q \in 1..(r-1) : ms[q].item # ms[r].item

LEMMA ThreadToldIs == TrailMatchesThread <=> ThreadTold(audit, messages)
BY DEF TrailMatchesThread, ThreadTold, RowsOf, MessageActions, Tells

\* A row that is not about a message.
LEMMA OtherRowTold ==
  ASSUME NEW a \in Seq(AuditLog), NEW e \in AuditLog, NEW ms, ThreadTold(a, ms),
         e.action \notin MessageActions
  PROVE  ThreadTold(Append(a, e), ms)
<1> DEFINE b == Append(a, e)
           n == Len(a)
<1>1. /\ n \in Nat /\ DOMAIN b = 1..(n + 1) /\ b[n + 1] = e
      /\ DOMAIN a = 1..n /\ \A k \in 1..n : b[k] = a[k]
  BY AppendFacts
<1> HIDE DEF b, n
<1>2. RowsOf(b) = RowsOf(a) /\ \A k \in RowsOf(a) : b[k] = a[k]
  BY <1>1 DEF RowsOf
<1>3. ThreadTold(b, ms)
  BY <1>2 DEF ThreadTold
<1> QED
  BY <1>3 DEF b

\* A message and its row.
LEMMA MessageTold ==
  ASSUME NEW a \in Seq(AuditLog), NEW e \in AuditLog,
         NEW ms \in Seq(Message), NEW m \in Message,
         ThreadTold(a, ms), e.action \in MessageActions,
         e.ref = Len(ms) + 1, Tells(e, m)
  PROVE  ThreadTold(Append(a, e), Append(ms, m))
<1> DEFINE b == Append(a, e)
           n == Len(a)
           new == Append(ms, m)
           N == Len(ms)
<1>1. /\ n \in Nat /\ DOMAIN b = 1..(n + 1) /\ b[n + 1] = e
      /\ DOMAIN a = 1..n /\ \A k \in 1..n : b[k] = a[k]
  BY AppendFacts
<1>2. /\ N \in Nat /\ DOMAIN new = 1..(N + 1) /\ new[N + 1] = m
      /\ DOMAIN ms = 1..N /\ \A k \in 1..N : new[k] = ms[k]
  BY AppendFacts
<1>3. e.ref = N + 1
  OBVIOUS
<1> HIDE DEF b, n, new, N
<1>4. RowsOf(b) = RowsOf(a) \cup {n + 1} /\ \A k \in RowsOf(a) : k \in 1..n /\ b[k] = a[k]
  BY <1>1 DEF RowsOf
<1>5. ASSUME NEW k \in RowsOf(b)
      PROVE  b[k].ref \in DOMAIN new /\ Tells(b[k], new[b[k].ref])
  BY <1>1, <1>2, <1>3, <1>4, <1>5 DEF ThreadTold
<1>6. ASSUME NEW k \in RowsOf(b), NEW l \in RowsOf(b), k < l
      PROVE  b[k].ref < b[l].ref
  <2>1. k \in RowsOf(a) /\ b[k] = a[k] /\ a[k].ref \in 1..N
    BY <1>1, <1>2, <1>4, <1>6 DEF ThreadTold
  <2>2. CASE l \in RowsOf(a)
    BY <1>4, <1>6, <2>1, <2>2 DEF ThreadTold
  <2>3. CASE l = n + 1
    BY <1>1, <1>2, <1>3, <2>1, <2>3
  <2> QED
    BY <1>4, <2>2, <2>3
<1>7. ASSUME NEW r \in DOMAIN new
      PROVE  \/ \E k \in RowsOf(b) : b[k].ref = r
             \/ \A q \in 1..(r-1) : new[q].item # new[r].item
  <2>1. CASE r \in 1..N
    <3>1. \A q \in 1..(r-1) : q \in 1..N
      BY <1>2, <2>1
    <3> QED
      BY <1>2, <1>4, <2>1, <3>1 DEF ThreadTold
  <2>2. CASE r = N + 1
    BY <1>1, <1>3, <1>4, <2>2
  <2> QED
    BY <1>2, <2>1, <2>2
<1>8. ThreadTold(b, new)
  BY <1>5, <1>6, <1>7 DEF ThreadTold
<1> QED
  BY <1>8 DEF b, new

\* The message a ticket is created with.
LEMMA FirstMessageTold ==
  ASSUME NEW a, NEW ms \in Seq(Message), NEW m \in Message, ThreadTold(a, ms),
         \A q \in DOMAIN ms : ms[q].item # m.item
  PROVE  ThreadTold(a, Append(ms, m))
<1> DEFINE new == Append(ms, m)
           N == Len(ms)
<1>1. /\ N \in Nat /\ DOMAIN new = 1..(N + 1) /\ new[N + 1] = m
      /\ DOMAIN ms = 1..N /\ \A k \in 1..N : new[k] = ms[k]
  BY AppendFacts
<1> HIDE DEF new, N
<1>2. ASSUME NEW k \in RowsOf(a)
      PROVE  a[k].ref \in DOMAIN new /\ Tells(a[k], new[a[k].ref])
  BY <1>1 DEF ThreadTold
<1>3. ASSUME NEW r \in DOMAIN new
      PROVE  \/ \E k \in RowsOf(a) : a[k].ref = r
             \/ \A q \in 1..(r-1) : new[q].item # new[r].item
  <2>1. CASE r \in 1..N
    <3>1. \A q \in 1..(r-1) : q \in 1..N
      BY <1>1, <2>1
    <3> QED
      BY <1>1, <2>1, <3>1 DEF ThreadTold
  <2>2. CASE r = N + 1
    BY <1>1, <2>2
  <2> QED
    BY <1>1, <2>1, <2>2
<1>4. ThreadTold(a, new)
  BY <1>2, <1>3 DEF ThreadTold
<1> QED
  BY <1>4 DEF new

\* Only tickets that exist have messages: a ticket's first one has no row.
ThreadsExist == \A r \in DOMAIN messages : Exists(messages[r].item)

ThreadInv == ThreadsExist /\ ThreadTold(audit, messages)

LEMMA MessageItems ==
  ASSUME TypeOK
  PROVE  /\ messages \in Seq(Message) /\ audit \in Seq(AuditLog)
         /\ \A r \in DOMAIN messages : messages[r] \in Message /\ messages[r].item \in Items
<1>1. messages \in Seq(Message) /\ audit \in Seq(AuditLog)
  BY DEF TypeOK
<1>2. \A r \in DOMAIN messages : messages[r] \in Message
  BY <1>1
<1>3. \A m \in Message : m.item \in Items
  BY DEF Message
<1> QED
  BY <1>1, <1>2, <1>3

LEMMA CreateKeepsThread ==
  ASSUME TypeOK, ThreadInv, NEW i \in Items, NEW c, NEW s \in Status, NEW p,
         NEW first \in FirstMessage \cup {None}, CreateItem(i, c, s, p, first)
  PROVE  ThreadInv'
<1>1. PICK actor \in Staff \cup {None} :
        audit' = Append(audit, StatusEntry(i, "ITEM_CREATED", actor, NoStatus, s))
  BY DEF CreateItem, FirstMessage
<1> DEFINE e == StatusEntry(i, "ITEM_CREATED", actor, NoStatus, s)
<1>2. e \in AuditLog
  BY StatusEntryType DEF AuditAction
<1>3. e.action \notin MessageActions
  BY StatusEntryFields DEF MessageActions
<1> HIDE DEF e
<1>4. /\ audit \in Seq(AuditLog) /\ messages \in Seq(Message)
      /\ status \in [Items -> Status \cup {Absent}]
      /\ ~Exists(i) /\ status' = [status EXCEPT ![i] = s]
  BY DEF TypeOK, CreateItem, NewRow
<1>5. ThreadTold(audit', messages)
  BY <1>1, <1>2, <1>3, <1>4, OtherRowTold DEF ThreadInv, e
<1>6. s # Absent
  BY DEF Status, Absent
<1>7. CASE first = None
  <2>1. messages' = messages
    BY <1>7 DEF CreateItem
  <2>2. ThreadsExist'
    BY <1>4, <1>6, <2>1 DEF ThreadInv, ThreadsExist, Exists
  <2> QED
    BY <1>5, <2>1, <2>2 DEF ThreadInv
<1>8. CASE first # None
  <2> DEFINE m == [item |-> i, author |-> first.author,
                   internal |-> first.internal, ext |-> first.ext]
  <2>1. messages' = Append(messages, m)
    BY <1>8 DEF CreateItem
  <2>2. m \in Message /\ m.item = i
    BY <1>8 DEF FirstMessage, Message
  <2> HIDE DEF m
  <2>3. \A q \in DOMAIN messages : messages[q].item # i
    BY <1>4 DEF ThreadInv, ThreadsExist
  <2>4. ThreadTold(audit', messages')
    BY <1>4, <1>5, <2>1, <2>2, <2>3, FirstMessageTold
  <2>5. ThreadsExist'
    <3>1. /\ Len(messages) \in Nat /\ DOMAIN messages' = 1..(Len(messages) + 1)
          /\ DOMAIN messages = 1..Len(messages)
          /\ messages'[Len(messages) + 1] = m
          /\ \A k \in 1..Len(messages) : messages'[k] = messages[k]
      BY <1>4, <2>1, <2>2, AppendFacts
    <3>2. \A k \in 1..Len(messages) : messages[k].item \in Items
      BY <3>1, MessageItems
    <3> QED
      BY <1>4, <1>6, <2>2, <3>1, <3>2 DEF ThreadInv, ThreadsExist, Exists
  <2> QED
    BY <2>4, <2>5 DEF ThreadInv
<1> QED
  BY <1>7, <1>8

\* One row, no message and no ticket more or less.
LEMMA RowKeepsThread ==
  ASSUME TypeOK, ThreadInv, NEW e \in AuditLog, e.action \notin MessageActions,
         audit' = Append(audit, e), messages' = messages,
         \A i \in Items : Exists(i) => Exists(i)'
  PROVE  ThreadInv'
<1>1. /\ audit \in Seq(AuditLog) /\ messages \in Seq(Message)
      /\ \A r \in DOMAIN messages : messages[r].item \in Items
  BY MessageItems
<1>2. ThreadTold(audit', messages)
  BY <1>1, OtherRowTold DEF ThreadInv
<1>3. ThreadsExist'
  BY <1>1 DEF ThreadInv, ThreadsExist
<1> QED
  BY <1>2, <1>3 DEF ThreadInv

\* A message of an existing ticket, told of by the last row.
LEMMA MessageRowKeepsThread ==
  ASSUME TypeOK, ThreadInv, NEW a \in Seq(AuditLog), ThreadTold(a, messages),
         NEW e \in AuditLog, NEW m \in Message, e.action \in MessageActions,
         e.ref = Len(messages) + 1, Tells(e, m),
         audit' = Append(a, e), messages' = Append(messages, m),
         \A i \in Items : Exists(i) => Exists(i)', Exists(m.item)'
  PROVE  ThreadInv'
<1>1. /\ messages \in Seq(Message)
      /\ \A r \in DOMAIN messages : messages[r].item \in Items
  BY MessageItems
<1>2. ThreadTold(audit', messages')
  BY <1>1, MessageTold
<1>3. ThreadsExist'
  <2>1. /\ Len(messages) \in Nat /\ DOMAIN messages' = 1..(Len(messages) + 1)
        /\ DOMAIN messages = 1..Len(messages)
        /\ messages'[Len(messages) + 1] = m
        /\ \A k \in 1..Len(messages) : messages'[k] = messages[k]
    BY <1>1, AppendFacts
  <2> QED
    BY <1>1, <2>1 DEF ThreadInv, ThreadsExist
<1> QED
  BY <1>2, <1>3 DEF ThreadInv

LEMMA AddMessageKeepsThread ==
  ASSUME TypeOK, ThreadInv, NEW i \in Items, NEW a \in Staff \cup {None},
         NEW internal \in BOOLEAN, NEW x \in Exts \cup {None},
         AddThreadMessage(i, a, internal, x)
  PROVE  ThreadInv'
<1> DEFINE next == AfterMessage(status[i], a, internal)
           e1 == ChangeRow(i, a, internal)
           e2 == OwnRow(i, a, internal)
           m == [item |-> i, author |-> a, internal |-> internal, ext |-> x]
<1>1. /\ next \in Status /\ e1 \in AuditLog /\ e1.action = "STATUS_CHANGED"
      /\ e2 \in AuditLog /\ e2.item = i /\ e2.actor = a
      /\ e2.action = MessageAction(internal) /\ e2.ref = Len(messages) + 1
      /\ status' = [status EXCEPT ![i] = next]
      /\ \/ audit' = Append(audit, e2)
         \/ audit' = Append(Append(audit, e1), e2)
  BY MessageRows
<1>2. m \in Message /\ messages' = Append(messages, m) /\ Exists(i)
  BY DEF AddThreadMessage, Message
<1>3. Tells(e2, m) /\ e2.action \in MessageActions
  BY <1>1 DEF Tells, MessageAction, MessageActions
<1>4. m.item = i /\ e1.action \notin MessageActions
  BY <1>1 DEF MessageActions
<1>5. audit \in Seq(AuditLog) /\ ThreadTold(audit, messages)
  BY DEF TypeOK, ThreadInv
<1>6. (\A j \in Items : Exists(j) => Exists(j)') /\ Exists(i)'
  BY <1>1 DEF TypeOK, Exists, Status, Absent
<1>7. PICK logged \in {audit, Append(audit, e1)} : audit' = Append(logged, e2)
  BY <1>1
<1>8. e1 \in AuditLog /\ e2 \in AuditLog /\ e2.ref = Len(messages) + 1
  BY <1>1
<1> HIDE DEF next, e1, e2, m
<1>9. logged \in Seq(AuditLog) /\ ThreadTold(logged, messages)
  <2>1. Append(audit, e1) \in Seq(AuditLog) /\ ThreadTold(Append(audit, e1), messages)
    BY <1>4, <1>5, <1>8, OtherRowTold
  <2> QED
    BY <1>5, <1>7, <2>1
<1> QED
  BY <1>2, <1>3, <1>4, <1>6, <1>7, <1>8, <1>9, MessageRowKeepsThread

-----------------------------------------------------------------------------
(* The trail and the links.                                                  *)

About(e, i, x, action) == e.item = i /\ e.ref = x /\ e.action = action

LinksTold(a, ls) ==
  \A i \in Items, x \in Assets : <<i, x>> \in ls <=>
    \E k \in DOMAIN a :
      /\ About(a[k], i, x, "ASSET_LINKED")
      /\ \A m \in (k+1)..Len(a) : ~About(a[m], i, x, "ASSET_UNLINKED")

LEMMA LinksToldIs == LinksMatchTrail <=> LinksTold(audit, links)
BY DEF LinksMatchTrail, LinksTold, About

\* What a row does to the links the trail tells of.
LEMMA LinksAppend ==
  ASSUME NEW a \in Seq(AuditLog), NEW e \in AuditLog, NEW ls, NEW new,
         LinksTold(a, ls),
         \A i \in Items, x \in Assets :
           <<i, x>> \in new <=>
             \/ About(e, i, x, "ASSET_LINKED")
             \/ <<i, x>> \in ls /\ ~About(e, i, x, "ASSET_UNLINKED")
  PROVE  LinksTold(Append(a, e), new)
<1> DEFINE b == Append(a, e)
           n == Len(a)
<1>1. /\ n \in Nat /\ Len(b) = n + 1 /\ DOMAIN b = 1..(n + 1) /\ b[n + 1] = e
      /\ DOMAIN a = 1..n /\ \A k \in 1..n : b[k] = a[k]
  BY AppendFacts
<1> HIDE DEF b, n
<1> SUFFICES ASSUME NEW i \in Items, NEW x \in Assets
             PROVE  <<i, x>> \in new <=>
                      \E k \in 1..(n + 1) :
                        /\ About(b[k], i, x, "ASSET_LINKED")
                        /\ \A m \in (k+1)..(n+1) : ~About(b[m], i, x, "ASSET_UNLINKED")
  BY <1>1 DEF LinksTold, b
<1>2. <<i, x>> \in ls <=>
        \E k \in 1..n : /\ About(a[k], i, x, "ASSET_LINKED")
                        /\ \A m \in (k+1)..n : ~About(a[m], i, x, "ASSET_UNLINKED")
  BY <1>1 DEF LinksTold, n
<1>3. \A k \in 1..n : (k+1)..(n+1) = (k+1)..n \cup {n + 1} /\ (k+1)..n \subseteq 1..n
  BY <1>1
<1>4. (n+1+1)..(n+1) = {} /\ 1..(n + 1) = 1..n \cup {n + 1}
  BY <1>1
<1>5. ~(About(e, i, x, "ASSET_LINKED") /\ About(e, i, x, "ASSET_UNLINKED"))
  BY DEF About
<1>6. ASSUME <<i, x>> \in new
      PROVE  \E k \in 1..(n + 1) :
               /\ About(b[k], i, x, "ASSET_LINKED")
               /\ \A m \in (k+1)..(n+1) : ~About(b[m], i, x, "ASSET_UNLINKED")
  <2>1. CASE About(e, i, x, "ASSET_LINKED")
    BY <1>1, <1>4, <2>1
  <2>2. CASE <<i, x>> \in ls /\ ~About(e, i, x, "ASSET_UNLINKED")
    <3>1. PICK k \in 1..n : /\ About(a[k], i, x, "ASSET_LINKED")
                           /\ \A m \in (k+1)..n : ~About(a[m], i, x, "ASSET_UNLINKED")
      BY <1>2, <2>2
    <3>2. About(b[k], i, x, "ASSET_LINKED")
      BY <1>1, <3>1
    <3>3. \A m \in (k+1)..(n+1) : ~About(b[m], i, x, "ASSET_UNLINKED")
      BY <1>1, <1>3, <2>2, <3>1
    <3> QED
      BY <1>4, <3>2, <3>3
  <2> QED
    BY <1>6, <2>1, <2>2
<1>7. ASSUME NEW k \in 1..(n + 1), About(b[k], i, x, "ASSET_LINKED"),
             \A m \in (k+1)..(n+1) : ~About(b[m], i, x, "ASSET_UNLINKED")
      PROVE  <<i, x>> \in new
  <2>1. CASE k = n + 1
    BY <1>1, <1>7, <2>1
  <2>2. CASE k \in 1..n
    <3>1. <<i, x>> \in ls
      BY <1>1, <1>2, <1>3, <1>7, <2>2
    <3>2. ~About(e, i, x, "ASSET_UNLINKED")
      BY <1>1, <1>3, <1>7, <2>2
    <3> QED
      BY <3>1, <3>2
  <2> QED
    BY <1>4, <2>1, <2>2
<1> QED
  BY <1>6, <1>7

\* A row that is not about a link.
LEMMA OtherRowLinks ==
  ASSUME NEW a \in Seq(AuditLog), NEW e \in AuditLog, NEW ls, LinksTold(a, ls),
         e.action \notin {"ASSET_LINKED", "ASSET_UNLINKED"}
  PROVE  LinksTold(Append(a, e), ls)
<1>1. \A i, x : ~About(e, i, x, "ASSET_LINKED") /\ ~About(e, i, x, "ASSET_UNLINKED")
  BY DEF About
<1> QED
  BY <1>1, LinksAppend

LEMMA LinkRowLinks ==
  ASSUME TypeOK, LinksTold(audit, links), NEW i \in Items, NEW x \in Assets,
         NEW e \in AuditLog, e.item = i, e.ref = x,
         \/ e.action = "ASSET_LINKED" /\ links' = links \cup {<<i, x>>}
         \/ e.action = "ASSET_UNLINKED" /\ links' = links \ {<<i, x>>}
  PROVE  LinksTold(Append(audit, e), links')
<1>1. ASSUME NEW j \in Items, NEW y \in Assets
      PROVE  <<j, y>> \in links' <=>
               \/ About(e, j, y, "ASSET_LINKED")
               \/ <<j, y>> \in links /\ ~About(e, j, y, "ASSET_UNLINKED")
  BY DEF About
<1>2. audit \in Seq(AuditLog)
  BY DEF TypeOK
<1> QED
  BY <1>1, <1>2, LinksAppend

LEMMA CreateKeepsLinks ==
  ASSUME TypeOK, LinksTold(audit, links), NEW i \in Items, NEW c, NEW s \in Status,
         NEW p, NEW first \in FirstMessage \cup {None}, CreateItem(i, c, s, p, first)
  PROVE  LinksTold(audit', links')
<1>1. PICK actor \in Staff \cup {None} :
        audit' = Append(audit, StatusEntry(i, "ITEM_CREATED", actor, NoStatus, s))
  BY DEF CreateItem, FirstMessage
<1> DEFINE e == StatusEntry(i, "ITEM_CREATED", actor, NoStatus, s)
<1>2. e \in AuditLog
  BY StatusEntryType DEF AuditAction
<1>3. e.action = "ITEM_CREATED"
  BY StatusEntryFields
<1>4. audit \in Seq(AuditLog) /\ links' = links
  BY DEF TypeOK, CreateItem
<1> HIDE DEF e
<1> QED
  BY <1>1, <1>2, <1>3, <1>4, OtherRowLinks DEF e

LEMMA TransitionKeepsLinks ==
  ASSUME TypeOK, LinksTold(audit, links), NEW i \in Items, NEW u \in Staff,
         NEW s \in Status, TransitionStatus(i, u, s)
  PROVE  LinksTold(audit', links')
<1> DEFINE e == StatusEntry(i, "STATUS_CHANGED", u, status[i], s)
<1>1. status[i] \in Status
  BY DEF TransitionStatus, TypeOK, Exists
<1>2. e \in AuditLog
  BY <1>1, StatusEntryType DEF AuditAction
<1>3. e.action = "STATUS_CHANGED"
  BY StatusEntryFields
<1>4. audit \in Seq(AuditLog) /\ audit' = Append(audit, e) /\ links' = links
  BY DEF TypeOK, TransitionStatus
<1> HIDE DEF e
<1> QED
  BY <1>2, <1>3, <1>4, OtherRowLinks

LEMMA MessageKeepsLinks ==
  ASSUME TypeOK, LinksTold(audit, links), NEW i \in Items, NEW a \in Staff \cup {None},
         NEW internal \in BOOLEAN, NEW x, AddThreadMessage(i, a, internal, x)
  PROVE  LinksTold(audit', links')
<1> DEFINE next == AfterMessage(status[i], a, internal)
           e1 == ChangeRow(i, a, internal)
           e2 == OwnRow(i, a, internal)
<1>0. /\ e1 \in AuditLog /\ e1.action = "STATUS_CHANGED"
      /\ e2 \in AuditLog /\ e2.action = MessageAction(internal)
      /\ \/ audit' = Append(audit, e2)
         \/ audit' = Append(Append(audit, e1), e2)
  BY MessageRows
<1>1. PICK logged \in {audit, Append(audit, e1)} :
        /\ e1 \in AuditLog /\ e1.action = "STATUS_CHANGED"
        /\ e2 \in AuditLog /\ e2.action = MessageAction(internal)
        /\ audit' = Append(logged, e2)
  BY <1>0
<1>2. e2.action \notin {"ASSET_LINKED", "ASSET_UNLINKED"}
  BY <1>1 DEF MessageAction
<1>3. audit \in Seq(AuditLog) /\ links' = links
  BY DEF TypeOK, AddThreadMessage
<1> HIDE DEF next, e1, e2
<1>4. logged \in Seq(AuditLog) /\ LinksTold(logged, links)
  <2>1. Append(audit, e1) \in Seq(AuditLog) /\ LinksTold(Append(audit, e1), links)
    BY <1>1, <1>3, OtherRowLinks
  <2> QED
    BY <1>1, <1>3, <2>1
<1>5. LinksTold(Append(logged, e2), links)
  BY <1>1, <1>2, <1>4, OtherRowLinks
<1> QED
  BY <1>1, <1>3, <1>5

TablesInv == ThreadInv /\ LinksTold(audit, links)

LEMMA TransitionKeepsTables ==
  ASSUME TypeOK, TablesInv, NEW i \in Items, NEW u \in Staff, NEW s \in Status,
         TransitionStatus(i, u, s)
  PROVE  TablesInv'
<1> DEFINE e == StatusEntry(i, "STATUS_CHANGED", u, status[i], s)
<1>1. status[i] \in Status
  BY DEF TransitionStatus, TypeOK, Exists
<1>2. e \in AuditLog
  BY <1>1, StatusEntryType DEF AuditAction
<1>3. e.action \notin MessageActions
  BY StatusEntryFields DEF MessageActions
<1>4. audit' = Append(audit, e) /\ messages' = messages
  BY DEF TransitionStatus
<1>5. \A j \in Items : Exists(j) => Exists(j)'
  BY DEF TransitionStatus, TypeOK, Exists, Status, Absent
<1>6. ThreadInv /\ LinksTold(audit, links)
  BY DEF TablesInv
<1> HIDE DEF e
<1> QED
  BY <1>2, <1>3, <1>4, <1>5, <1>6, RowKeepsThread, TransitionKeepsLinks DEF TablesInv

LEMMA TablesInit == TicketInit => TablesInv
<1> SUFFICES ASSUME TicketInit PROVE TablesInv
  OBVIOUS
<1>1. audit = <<>> /\ messages = <<>> /\ links = {}
  BY DEF TicketInit
<1>2. DOMAIN audit = {} /\ DOMAIN messages = {}
  BY <1>1
<1> QED
  BY <1>1, <1>2 DEF TablesInv, ThreadInv, ThreadsExist, ThreadTold, RowsOf, LinksTold

LEMMA TablesStep == TypeOK /\ TablesInv /\ [TicketNext]_ticketVars => TablesInv'
<1> SUFFICES ASSUME TypeOK, TablesInv, [TicketNext]_ticketVars PROVE TablesInv'
  OBVIOUS
<1>0. ThreadInv /\ LinksTold(audit, links) /\ audit \in Seq(AuditLog)
  BY DEF TablesInv, TypeOK
<1>1. CASE UNCHANGED ticketVars
  BY <1>1 DEF ticketVars, rowVars, TablesInv, ThreadInv, ThreadsExist, Exists
<1>2. ASSUME NEW i \in Items, NEW c \in Codes, NEW s \in InitialStatuses,
             NEW p \in Parties \cup {None}, NEW first \in FirstMessage \cup {None},
             CreateItem(i, c, s, p, first)
      PROVE  TablesInv'
  BY <1>0, <1>2, ConstantsOK, CreateKeepsThread, CreateKeepsLinks DEF TablesInv
<1>3. ASSUME NEW i \in Items, NEW u \in Staff, NEW s \in Status,
             TransitionStatus(i, u, s)
      PROVE  TablesInv'
  BY <1>3, TransitionKeepsTables
<1>4. ASSUME NEW i \in Items, NEW a \in Staff \cup {None}, NEW internal \in BOOLEAN,
             NEW x \in Exts \cup {None}, AddThreadMessage(i, a, internal, x)
      PROVE  TablesInv'
  BY <1>0, <1>4, AddMessageKeepsThread, MessageKeepsLinks DEF TablesInv
<1>5. ASSUME NEW i \in Items, NEW u \in Staff, NEW target \in Staff \cup {None},
             AssignItem(i, u, target)
      PROVE  TablesInv'
  <2>1. PICK e \in AuditLog : /\ e.action = "REASSIGNED" /\ audit' = Append(audit, e)
                              /\ UNCHANGED <<status, messages, links>>
    BY <1>5, AssignRow
  <2>2. e.action \notin MessageActions \cup {"ASSET_LINKED", "ASSET_UNLINKED"}
    BY <2>1 DEF MessageActions
  <2>3. \A j \in Items : Exists(j) => Exists(j)'
    BY <2>1 DEF Exists
  <2> QED
    BY <1>0, <2>1, <2>2, <2>3, RowKeepsThread, OtherRowLinks DEF TablesInv
<1>6. ASSUME NEW i \in Items, NEW u \in Staff, NEW x \in Assets,
             LinkAsset(i, u, x) \/ UnlinkAsset(i, u, x)
      PROVE  TablesInv'
  <2>1. PICK e \in AuditLog :
          /\ e.item = i /\ e.ref = x /\ audit' = Append(audit, e)
          /\ UNCHANGED <<status, messages>>
          /\ \/ e.action = "ASSET_LINKED" /\ links' = links \cup {<<i, x>>}
             \/ e.action = "ASSET_UNLINKED" /\ links' = links \ {<<i, x>>}
    BY <1>6, LinkRow
  <2>2. e.action \notin MessageActions
    BY <2>1 DEF MessageActions
  <2>3. \A j \in Items : Exists(j) => Exists(j)'
    BY <2>1 DEF Exists
  <2>4. LinksTold(Append(audit, e), links')
    BY <1>0, <2>1, LinkRowLinks
  <2> QED
    BY <1>0, <2>1, <2>2, <2>3, <2>4, RowKeepsThread DEF TablesInv
<1> QED
  BY <1>1, <1>2, <1>3, <1>4, <1>5, <1>6 DEF TicketNext, Operation

\* The trail alone rebuilds the thread and the asset links the tables hold: a
\* message row for every message but a ticket's first, in thread order, and a
\* link exactly where the last link row says so.
THEOREM TrailTellsTables == TicketSpec => []TrailMatchesTables
<1>1. TablesInv => TrailMatchesTables
  BY ThreadToldIs, LinksToldIs DEF TablesInv, ThreadInv, TrailMatchesTables
<1> QED
  BY <1>1, TablesInit, TablesStep, TypeCorrect, PTL DEF TicketSpec

-----------------------------------------------------------------------------
(* Closed tickets.                                                           *)

Reopened(j) == status[j] = "CLOSED" /\ status'[j] # "CLOSED"

OperatorReopened ==
  /\ Len(audit') = Len(audit) + 1
  /\ audit'[Len(audit')].action = "STATUS_CHANGED"
  /\ audit'[Len(audit')].actor \in Staff

LEMMA CreateReopensNone ==
  ASSUME TypeOK, NEW i \in Items, NEW c, NEW s, NEW p, NEW first,
         CreateItem(i, c, s, p, first), NEW j \in Items
  PROVE  ~Reopened(j)
BY DEF CreateItem, NewRow, Exists, TypeOK, Reopened, Absent

LEMMA MessageReopensNone ==
  ASSUME TypeOK, NEW i \in Items, NEW a, NEW internal, NEW x,
         AddThreadMessage(i, a, internal, x), NEW j \in Items
  PROVE  ~Reopened(j)
BY DEF AddThreadMessage, AfterMessage, TypeOK, Reopened

LEMMA TransitionIsTheOperators ==
  ASSUME TypeOK, NEW i \in Items, NEW u \in Staff, NEW s \in Status,
         TransitionStatus(i, u, s)
  PROVE  OperatorReopened
<1> DEFINE e == StatusEntry(i, "STATUS_CHANGED", u, status[i], s)
<1>1. status[i] \in Status
  BY DEF TransitionStatus, TypeOK, Exists
<1>2. e \in AuditLog
  BY <1>1, StatusEntryType DEF AuditAction
<1>3. e.action = "STATUS_CHANGED" /\ e.actor = u
  BY StatusEntryFields
<1>4. audit \in Seq(AuditLog) /\ audit' = Append(audit, e)
  BY DEF TypeOK, TransitionStatus
<1> HIDE DEF e
<1>5. Len(audit') = Len(audit) + 1 /\ audit'[Len(audit) + 1] = e
  BY <1>2, <1>4, AppendFacts
<1> QED
  BY <1>3, <1>5 DEF OperatorReopened

\* Only an operator's own status change takes a ticket out of CLOSED: no
\* message does, the requester's or another.
THEOREM ClosedStaysShut == TicketSpec => ClosedNeedsOperator
<1> DEFINE Shut == \A i \in Items : Reopened(i) => OperatorReopened
<1>1. TypeOK /\ [TicketNext]_ticketVars => [Shut]_status
  <2> SUFFICES ASSUME TypeOK, TicketNext, NEW j \in Items, Reopened(j)
               PROVE  OperatorReopened
    BY DEF ticketVars, rowVars
  <2>1. ASSUME NEW i \in Items, NEW u \in Staff, NEW x \in Assets,
               LinkAsset(i, u, x) \/ UnlinkAsset(i, u, x)
        PROVE  status' = status
    BY <2>1 DEF LinkAsset, UnlinkAsset, rowVars
  <2>2. ASSUME NEW i \in Items, NEW u \in Staff, NEW target \in Staff \cup {None},
               AssignItem(i, u, target)
        PROVE  status' = status
    BY <2>2 DEF AssignItem
  <2>3. status' # status
    BY DEF Reopened
  <2> QED
    BY <2>1, <2>2, <2>3, CreateReopensNone, MessageReopensNone, TransitionIsTheOperators
       DEF TicketNext, Operation
<1>2. [Shut]_status <=> [\A i \in Items : status[i] = "CLOSED" /\ status'[i] # "CLOSED" =>
                          /\ Len(audit') = Len(audit) + 1
                          /\ audit'[Len(audit')].action = "STATUS_CHANGED"
                          /\ audit'[Len(audit')].actor \in Staff]_status
  BY DEF Reopened, OperatorReopened
<1> QED
  BY <1>1, <1>2, TypeCorrect, PTL DEF TicketSpec, ClosedNeedsOperator
=============================================================================
