# Project Chassis: a TLA+ verification project

Chassis is a self-hosted ticket desk in one Go process: SQLite behind
`database/sql`, a mail worker that polls Microsoft Graph, a telephony webhook,
HTTP handlers behind session authentication, and one page of plain JavaScript
per ticket that is kept current by server-sent events. This directory holds TLA+
models of the parts of it that keep state, the TLC runs that check them on small
instances, and theorems about them that TLAPS has checked for every instance.

Every definition is translated from the code; `PROJECT.json` (`map`) names the
lines. Line numbers below refer to `src/`.

## How to run

    tlc -workers 2 -config MCWorkItems.cfg MCWorkItems.tla    # any cfg, with the module it starts with
    tlapm WorkItems_proofs.tla                                # any module named ..._proofs

`PROJECT.json` lists under `runs` which properties each configuration checks and
whether TLC is expected to find them true (`pass`) or to exhibit a step of the
code that contradicts a comment or a declaration of the repository (`violation`).

## Inventory

| Component (source) | State | Operations | Hard behaviour | What makes it correct |
|---|---|---|---|---|
| Ticket store (`internal/db/repository.go`, `internal/core`, `0001_initial_schema.sql`) | `work_items`, `thread_messages`, `work_item_assets`, `audit_logs` | CreateItem, TransitionStatus, AddThreadMessage, AssignItem, LinkAsset, UnlinkAsset | two places write the status (the operator's transition and the side effects of a message), the audit trail has to tell the same story as both, and some of its inserts may fail unnoticed | the trail explains the status; no illegal step; no reply stays unseen; only operators leave CLOSED; thread and links agree with the trail |
| Ingestion and threading (`internal/mailengine/worker.go`, `threader.go`) | local variables of `IngestInbound`; writes the ticket store | deduplicate, correlate, one transaction, notify | nothing is held between the four steps; the worker, several webhook requests and operators interleave; retries, crashes | one row per message; announced only after the commit; conversations stay in one ticket; no empty ticket; item codes that do not collide |
| Mail synchronisation (`worker.go`, `graph/graph.go`, `db/sync_state.go`) | `sync_checkpoints`; delta token and page of the cycle | `syncOnce`: checkpoint, fetch, ingest each, save | a page can fail half-way; the process can stop anywhere; pages of our own mail | the token passes only mail that is stored or that failed; everything is stored in the end, in order |
| Presence (`internal/presence`, `handlers/item.go`, `static/app.js`) | `Tracker.items`; the pages' timers and warnings | Heartbeat, Others, Release, Sweep | heartbeats in flight, lost or reordered, in-memory state lost on restart, three periods that must fit | who has the ticket open is listed; of two operators one is warned; stale entries go |
| Sessions (`db/auth_repository.go`, `web/middleware.go`, `handlers/auth.go`) | `users`, `sessions` | login, ValidateSession, revoke, prune | every operation is several statements without a transaction, and errors of some are ignored | absolute lifetime; ended means ended; what a request is told about its session is true |
| Live updates (`web/stream/hub.go`, `handlers/stream.go`, `app.js`) | a bounded channel per subscriber; events on the connection; loads in flight; what the page shows | publish, subscribe, send, receive, load, render | events are dropped when a channel is full or a connection breaks; loads overlap and fail | a page that is behind is going to catch up |
| Contacts (`db/contact_repository.go`, `0003_...sql`) | `contacts`, `organizations`, `affiliations`, `communication_channels`, links of `work_items` | create, update, delete, affiliations, channels, promotion, caller resolution | cascades; unique addresses; several statements per transaction, errors of some ignored | references resolve; one owner per address; linking by hand leaves one main affiliation; refused calls change nothing |
| Telephony webhook (`handlers/telephony.go`, operator channels of `hub.go`, the banner of `app.js`) | the operators' channels and banners | voicemail is ingested; a live call is looked up and broadcast | the lookup is several queries over a directory that changes; channels overflow, connections break, banners are dismissed | a screen-pop agrees with the directory as far as it says; every page ends up with the last call |
| Start-up (`db/sqlite.go`, `cmd/chassis/main.go`, migrations) | connection pool, `schema_migrations`, the first account | Open, Migrate, WithTx, bootstrapAdmin | a setting that belongs to one connection of the pool; processes of two builds starting at once, stopped anywhere | each migration once and in order; nobody serves without its tables; somebody can log in |
| Sending mail, token cache (`graph/graph.go`) | a token behind a mutex | SendMessage (no caller), getValidToken | - | - |
| Domain plug-ins (`internal/implement`) | a map filled at start-up | field validation | - | - |
| Router, queue, assets, settings, pages (`internal/web`) | none | read-only queries and templates | - | - |

Interactions. HTTP handlers call the store and then publish to the hub. The mail
worker and the webhook both call `IngestInbound`, which writes the store's tables
in a transaction of its own and then calls the notifier, which is the hub. The
worker's checkpoint and the messages it ingests are committed separately. Pages
call the handlers, receive the hub's events and load the ticket again. Everything
meets in SQLite: `_txlock=immediate` makes each transaction take the write lock
when it begins, so a transaction is one action of a model, and two statements
outside a transaction are two.

The hazards this leads to are listed in `PROJECT.json` (`hazards`), each at the
line where it bites and with the properties that would notice.

## Modules

| Module | Models | Composition |
|---|---|---|
| `WorkItems` | the ticket store | `WorkItems_proofs` extends it |
| `Ingest` | `IngestInbound`, `Correlate`, operators at work meanwhile | extends `WorkItems`; its `Next` runs the store's own actions next to the four steps of every call; `Ingest_proofs` extends it and `WorkItems_proofs` |
| `Mailbox` | the promise of mail synchronisation: a growing feed, mail stored in order, an acknowledged prefix that lacks only what failed | abstract specification |
| `MailSync` | `syncOnce` and the provider's paging | implements `Mailbox` (`ImplementsMailbox`); `MailSync_proofs` extends it |
| `Presence` | tracker, handler and page of one ticket | `Presence_proofs` extends it |
| `Sessions` | login, `ValidateSession`, revocation, sweep | `Sessions_proofs` extends it |
| `LiveView` | writers, hub, SSE handler and page of one ticket | `LiveView_proofs` extends it |
| `Contacts` | the directory and its links to tickets | abstract specification of `Calls` (`CallsKeepTheDirectory`) |
| `Calls` | the live-call webhook, `ResolveCaller`, the operator channels and the banner | extends `Contacts`; its `Next` lets every directory operation happen between two queries of a lookup; `Calls_proofs` extends it and proves about `Contacts` too |
| `StartUp` | `run()` up to serving: `Migrate` and `bootstrapAdmin`, several processes on one database | `StartUp_proofs` extends it |
| `MC...` | the instances the configurations check | extend the module they instantiate |

A name with a suffix next to a definition (`AfterMessage`,
`AfterMessageAnyReply`) is a deliberately wrong variant of it, which no
specification uses: put in its place, it makes a property fail. It documents what
the property guards against.

### `WorkItems`

Variables are the tables: `status`, `code`, `party`, `assignee` and `resolvedAt` by
ticket, `messages` and `audit` in id order, `links` as a set. Each operation of
`repository.go` is one IMMEDIATE transaction and one action, with its side
effects: `TransitionStatus` checks `CanTransition`, stamps `resolved_at`, writes
the audit row; `AddThreadMessage` inserts the message, lets `AfterMessage` decide
the status and writes one or two audit rows. Errors of its first insert into the
audit log are ignored (repository.go:518 and 526), so `LogMessage` may commit the change of
status without its STATUS_CHANGED row. Refused calls change nothing and are
no step. `TicketSpec` is the store on its own. `CreateItem`
has only tests for callers so far; none passes an assignee, and neither does the action. `CreateItem` inserts
whatever status its caller passes (`InitialStatuses`); the runs use the default NEW, the
proofs any. With `LooseForeignKeys`, `LinkAsset` may run on a pooled connection
without `foreign_keys` and link an asset to a ticket that does not exist.

`Replayed`, behind `AuditExplainsStatus`, replays a ticket's audit rows. An operator's transition
always has its `STATUS_CHANGED` row; a reply may have lost it, and a mail that reopens
a ticket never has one: the code writes only `MAIL_CORRELATED` (worker.go:290-302). So
replaying starts from the last row that names a status (`LastSetter`) and applies the rules of
`AfterMessage` to the rows about messages behind it: a parked ticket that heard of its requester
(`Heard`) is open again, an open one that was answered (`Answered`) waits for the requester. What
the trail does keep is that these rows suffice, whichever `STATUS_CHANGED` rows of replies are
missing. A trail that is read for `STATUS_CHANGED` alone does not explain the status.

### `Ingest`

`call[d]` holds the local variables of a call of the worker or of a webhook
request; its `pc` is where the call is: `Deliver` (deduplication query),
`Correlate` (stages 0 to 3 of the threader), `StoreNewItem` or `StoreReply` (the
transaction), `NotifyNewMessage`. `Fail` and `Crash` end calls between steps; the
message may be delivered again. The transaction reads the status again but not
the target. An insert that meets the unique index ends the transaction early and
commits what it has done (worker.go:259-268). A message's sender is a party or
none, for good; stage 0 may pick any active ticket of the party, because
`updated_at` has a resolution of a second. `Trimmed` is what `strings.Trim` does to a
Message-ID: the runs use bare ids, as the tests of the repository do, and
`ingest_brackets` ids in angle brackets, as Graph reports them. The lookup of the sender's
party ignores its errors (worker.go:224-227), so `StoreNewItem` may store a ticket without it.

Item codes are the number in the code, and `Codes`, those callers of `CreateItem` pass, may be
any: the repository's tests use HD-1001 (sqlite_test.go:46, mailengine_test.go:54) and HD-3001
(mailengine_test.go:230), which the counter of `generateItemCode` generates too. In the run a
caller uses the second code of the counter, before or after the counter gets there. When the counter meets such a code, `StoreNewItem` is disabled
and the call can only `Fail`, until another ticket is created. `GeneratedCodesDiffer` is what
the code does promise: the counter never meets a code it generated itself. A ticket of
`CreateItem` is known by its ITEM_CREATED row, not by its code.

`raced` is a history variable: a delivery of a message has started while another carried
the same, or went on with a message already stored because its deduplication query had failed. A ticket without
a message, and a trail that does not explain the status, are possible then
(`ingest_orphan` shows how), and `GapsNeedRace` says that nothing else leads there: no
crash, no retry after one, no operator's step in between, and no lost STATUS_CHANGED row.

### `MailSync` and `Mailbox`

The provider's feed is a sequence of message ids, in which an id may come again.
A delta token stands for a position. `GetCheckpoint`, `FetchNewMessages`,
`IngestMessage` (or `IngestFails`) once per message, `SaveCheckpoint`; `Abandon` is
whatever ends a cycle without a new token: an error, a stop, a page that came without a link
(worker.go:139). A page without foreign mail ends the cycle
(worker.go:121), which is what `mail_sync_wedged` is about. `IngestFails`
logs an error and goes on, as the loop does; `Mailbox` has a `Fail` step for it, and
`Excused(n)` says that up to entry n no more is missing than has failed. `Store` and
`Acknowledge` of `Mailbox` require it, which makes storing in order part of the promise. Here a message is ingested in one
step; its steps are in `Ingest`. `sync_checkpoints` has one row, for the one
provider and account `main` starts a worker for.

### `Presence`

`viewers` is the tracker's map of one ticket with the age of `LastSeen`; `page` is
what `app.js` keeps; `request` are POSTs in flight. The handler is two actions,
`Heartbeat` and `Others`, because each takes the mutex for itself (item.go:226-227).
An answer that was given before a restart and arrives after it is `late`: it
still changes the warning. `answered` says that a page shows an answer of the running
server. Lost requests and restarts share the bound `MaxFaults`.
Time passes by `Tick`, which waits for whatever is due. `Release` models the
DELETE handler, which no page calls; a client that calls it has no page of the
ticket open.

### `Sessions`

`request` holds the local variables of a request: `QuerySession` copies the row,
`Decide` looks at the clock, `Refuse` or `Renew` writes, and the handler (`Serve`,
`RevokeSession`, `RevokeOtherSessions`) runs afterwards. Errors of the writes of
`ValidateSession` and of logout are ignored: `Refuse` and `RevokeSession` may delete nothing, and
`Renew` may write nothing and let the request in (auth_repository.go:173). `told` is the expiry in
the session the request gets, which the code sets only if the write succeeded. `ToldIsUsable` says that
the row keeps it; that it slides forward on every use, as the comment says, is false where the
write fails. `Users` are accounts that
have a password; `Deactivate` is external, because nothing in the repository does it.

### `LiveView`

The thread is its length. `channel` is the subscriber's buffered channel and `wire` what
`serveSSE` has taken out of it (`Send`) and the page has not read yet (`Receive`): a connection that
breaks loses both. `loads` are the page's `load()` requests, answered or not. Loads of a page may
be answered and rendered in any order, as requests on different connections
may, and each may fail (`FailLoad`), before or after the server has answered; the catch of `load()`
shows an offline mark and nobody asks again. `missed` is a history variable: a message went by
while the page was not connected, or its channel was full of typing pings alone, or it was lost with
the connection, or the last load of the page failed, or a load was answered or rendered
after a later one; an answer that no later one has overtaken resets it. What the property does claim
is what remains: overlapping publications, events dropped behind a queued one, failed loads
that a later one follows, and pings between messages leave no page behind.

### `Contacts`

Rows of the directory, and of each ticket its contact and its organization. Names of people, labels,
roles and notes are left out, and so is the REQUESTER_PROMOTED row. `Canonical` is normalisation, by which
two spellings become one. An operation that fails is rolled back, so the action
does not take place; where the code ignores an error, the action goes on: `OpenTicket`
without the party whose lookup failed, `PromoteRequesterToContact` with the old main affiliation
in place (`LinkedUndemoted`, contact_repository.go:683). The same ignored error in `AddChannel`
and the ignored lookup in a promotion end at a unique index, which rolls everything back.
`LooseForeignKeys` lets each statement run on a connection with or without
`foreign_keys` (sqlite.go:56 sets it on one connection of the pool); `Cascade`
is what SQLite then does or does not do, and the history variable `loose` tells
whether a statement has run without the setting, because what a deletion leaves
behind is then no promise of the code any more.

### `Calls`

`call` holds the local variables of a webhook request: `QueryChannel`, `ReadParty` and
`ReadTickets` are the queries of `ResolveCaller`, each a step of its own, with the
actions of `Contacts` and the operators' status changes (`done`) in between. An error of the first
query answers 500 and nobody is told; errors of the later two are ignored
(contact_repository.go:531 and 552), and so is a row that has gone meanwhile.
`failed` remembers an ignored error. `ReadTickets` takes `Limit` tickets and then
drops those that are done, in that order, as the code does. `NotifyIncomingCall` offers the call to
every channel under the hub's mutex; a channel that is full, or a page that is not
connected, is passed by and remembered in `missed`. `SendEvent` takes an event out of the channel and
writes it to the connection (`wire`), where a break loses it like those in the channel. What the page makes of a
screen-pop is `RenderIncomingCall` (one banner, shown again if it was hidden) and `ViewLink` (where it
links to); `Dismiss` is the button that hides it. `LatestOnItsWay` compares the last call with the
last one in the channel, on the connection or in the banner, and a hidden banner with the call
its operator dismissed.

`LinkHasCaller` rests on the order of the queries and on the foreign keys together: who
is found by number and deleted before the second query takes the tickets' links
along, so the banner that says "Unknown caller" offers no ticket either. It excuses what
it cannot promise, a deletion on a connection without `foreign_keys` and an error that was ignored.

### `StartUp`

`pc[p]` is where a process is in `run()`; `next[p]` is the loop variable of `Migrate`.
`CreateTracker`, `CheckVersion` (the query outside any transaction) and
`ApplyMigration` (statements and version row, one transaction) are the steps of `Migrate`;
`CountUsers`, `InsertAdmin` and `SetPassword` the three statements of
`bootstrapAdmin`, each committed on its own. `schema` is the order in which
migrations were committed; `Needs` and `Repeatable` say which statements fail on which
schema, read off the three files: 0001 consists of IF NOT EXISTS statements, 0002 and 0003 alter
tables of 0001 and cannot run twice. A process that finds another has been faster rolls back
and exits. `Embedded` gives each process the migrations of its build, so an old and
a new build may start together. `Stop` is a crash, a shutdown, or a statement
that fails for another reason. The bootstrap credentials are assumed to be configured;
without them the code only warns.

`AdminCanLogIn` names its exception: a process stopped between the two writes leaves a
users table that is not empty and an account without a password, which no later start
repairs. `OneComesThrough` counts from the last stop: a process that started before
it may lose to the one that was stopped and exit, and nothing starts it again.

## What the runs check

Runs expected to pass:

| Run | Instance | What it shows |
|---|---|---|
| `work_items` | 2 tickets (symmetric), 1 operator, 1 asset, 3 messages, 6 audit rows | In every sequence of operations, with STATUS_CHANGED rows of replies stored or lost, the trail explains the status and forms a chain (`AuditExplainsStatus`, `AuditChain`), tells the same as the thread and the links (`TrailMatchesTables`), and every status step is one `CanTransition` allows (`LegalSteps`). |
| `ingest` | 2 tickets, a caller's code that the counter generates too, a mail, a reply whose subject names another ticket, a voicemail of the same party, the worker and 2 webhook requests (symmetric), a deduplication query that may fail, 5 audit rows | With mail and voicemail coming in step by step, overlapping, failing and crashing: each message is stored once, and announced at most once and after the commit (`AlertsFollowCommit`); a reply never rests in a ticket that waits for the requester or is resolved (`NoUnseenReply`); only an operator takes a ticket out of CLOSED (`ClosedNeedsOperator`); a conversation is not split (`ThreadNotSplit`); the counter behind generated codes meets none of its own (`GeneratedCodesDiffer`); tickets without a message and gaps in the trail need overlapping deliveries or a failed deduplication query (`GapsNeedRace`). |
| `mail_sync` | 2 foreign ids and 1 own, pages of 2, feed of 5, 2 faults, 2 failed ingestions | The delta token passes no more unstored mail than failed (`LossBounded`), the cycle implements `Mailbox`, and all mail is stored in the end unless an ingestion fails or some page is our own mail only (`DeliveredWithoutOwnPages`). |
| `presence` | 2 operators with a tab each, 2 requests in flight, 3 moves, 1 lost request or restart, delay of one interval | An open page stays listed (`StillListed`), of two operators one is warned (`OneIsWarned`); in the end both are warned (`BothAreWarned`), and an operator who keeps drafting is listed as drafting (`DraftsShow`). |
| `sessions` | 1 account, 2 devices, 2 concurrent requests, window 3, lifetime 5, clock to 6, 1 crash | `LifetimeBounded`, `EndedStaysEnded`; the expiry a request is told is one the row keeps, but for a request's duration, whether renewals are written, fail or overwrite each other (`ToldIsUsable`). |
| `live_view` | 1 page, channel of 2, 1 event on the connection, 3 messages, 3 typing pings, 1 broken connection, 1 failed load, 3 loads | A page that is behind is going to load (`UpdateOnItsWay`), and one that stops missing messages shows the whole thread in the end (`CatchesUp`). |
| `contacts` | 2 contacts and 2 organizations (symmetric), an address in two spellings and a phone number, 1 ticket, foreign keys enforced or not | References resolve (`ReferencesResolve`), two main affiliations come together by a promotion only (`SecondMainByPromotion`), refused calls lose no primary channel (`PrimaryNotLost`), and a promotion links the ticket to the owner of the address (`PromotedOwnsAddress`). |
| `calls` | 1 contact, 1 organization, 1 phone number, 1 ticket, 2 webhook requests and 2 pages (both symmetric), channel of 1, 1 event on the connection, 2 calls, 1 broken connection | A screen-pop that names nobody links no ticket, whatever the directory did between the queries (`LinkHasCaller`); a page the last call did not pass by shows it or is going to, and a banner is hidden only while it holds the call that was dismissed (`LatestOnItsWay`). The run also checks the types of `Contacts`. |
| `startup` | 2 processes of the current build, 1 that lacks migration 0003, 2 stops | Migrations are committed in order, each once, and recorded (`SchemaInOrder`); who serves has every table of its build (`ServesComplete`); some start comes through (`OneComesThrough`); the administrator can log in unless the bootstrap was cut in half (`AdminCanLogIn`). |

Runs expected to find a violation (details and quotes in `PROJECT.json`, `findings`):

| Run | What the counterexample shows |
|---|---|
| `ingest_orphan` | Overlapping deliveries of one message leave a ticket without messages. |
| `ingest_brackets` | With Message-IDs in angle brackets header matching never matches and the subject decides. |
| `mail_sync_wedged` | A full page of our own mail stops synchronisation for good. |

### Disagreements met while modelling, without a run

The models contain the behaviour; no property states the promise.

- `CanTransition` allows NEW to CLOSED, its comment does not list it (core/item.go:108-121).
- `foreign_keys` is set on one connection of the pool (sqlite.go:56), and the DSN (sqlite.go:70-83)
  does not set it for the others: there, links to tickets that do not exist are accepted, and a deleted
  contact leaves its channels and affiliations, where contact_repository.go:190 says that they cascade.
- A promotion whose demotion of the old main affiliation fails (contact_repository.go:683) leaves a
  contact with two, where line 682 says "Unset previous primary affiliations for this contact".
- A renewal whose UPDATE fails lets the request in and leaves the expiry where it was
  (auth_repository.go:173), though lines 121-122 say that it slides forward "on every use".
- The checkpoint passes a message whose ingestion failed (worker.go:128), though
  sync_state.go:37-38 calls the two atomic.
- After a crash between the two statements of `bootstrapAdmin` (main.go:165) nobody can log in,
  though 0002_auth.sql:4-5 names the bootstrap as the way out.
- Loads answered out of order show an older thread and status until the next load (app.js:317),
  which lines 314-316 mean to keep correct.
- Two voicemails of one caller that are correlated before either is stored open two tickets
  (threader.go:140).
- The STATUS_CHANGED row of a reply can be missing from the trail (repository.go:518 and 526), and mail
  that reopens a ticket writes none.
- A ticket created with a code ahead of the counter (as in mailengine_test.go:230) keeps mail from
  opening tickets once the counter reaches it: the insert fails on the unique code, for every new mail,
  until a ticket is created otherwise. The delta token passes that mail.
- A ticket closed between correlation and transaction takes the voicemail and stays
  closed; threader.go:42 speaks of the "active open ticket".
- A page that is left sends a heartbeat (app.js:343), not the DELETE that
  handlers/item.go:230 describes.
- Of two overlapping requests one deletes a session the other has just renewed: the expiry of
  a row read earlier is compared with the clock (auth_repository.go:160), where line 161 says
  "Expired or the account was deactivated".
- An older renewal overwrites a newer expiry (auth_repository.go:166), though
  lines 121-122 say it slides forward "on every use".
- Promotion of a voicemail's requester stores the phone number as an e-mail channel
  (contact_repository.go:643), under which the next call is not recognised.
- `ResolveCaller` takes five tickets and then leaves out the resolved ones
  (contact_repository.go:548).

### Bounds, and why they are enough

- *Tickets, parties, senders.* Two tickets show every confusion of one with
  another (the wrong thread, a code in use); the operations touch one ticket at a
  time. Two or three concurrent calls or requests show every race of the code, since each
  race is between one reader and one writer; the proofs remove the bound.
- *Messages and audit rows* (`MaxMessages`, `MaxAudit`). An operation adds at most one message
  and two rows; three messages and six rows allow a resolve, reopen, close
  and reopen on one ticket. The guard `Room` keeps room for what an operation adds.
- *Feed, pages, faults.* With five entries and pages of two there are a first, a
  middle and an incomplete page, a repeated id and a page of own mail.
- *Time.* The time to live is three heartbeat intervals, as in the code; the window
  and lifetime of a session are 3 and 5, so that a session is renewed before it
  reaches its ceiling and the ceiling cuts a renewal short; the clock runs past the ceiling.
- *Presence.* Three moves (`MaxMoves`: pages opened, left, focused) and one fault put both
  operators on the ticket and let one act again while the other is being answered.
- *Channels.* The code's capacity of 8 is 2 in the runs: a channel
  can be full of pings, of messages, and of one of each. One event at a time is on a connection (`Wire`):
  enough to be lost there while the channel is empty, or with others behind it. One load fails: as the last
  one, or with one behind it. In `calls` one place and two calls suffice:
  a screen-pop is in time, waits, replaces another, or finds the channel full.
- *Calls.* Two requests overlap at every query and announce in either order, and two pages can
  differ in what reaches them. With one ticket the banner links to it or to nothing, and
  the limit on tickets never bites; which of several tickets are linked is no part of a property.
- *Start-up.* Three processes of two builds: each can be faster than another before and after
  every check, and an old build is among the losers and the winners. Two stops allow a stop, a
  start, and another stop on what the first left.

Deadlock is checked where the system never stops by itself (`mail_sync`,
`mail_sync_wedged`, `presence`, `contacts`, `calls`). Elsewhere the cfg switches the check off: a run ends where its
bound on messages, rows, time or connections is used up, or, in `startup`, everybody serves.

### Fairness

- `MailSync`: the ticker of `SyncWorker.Start` calls `syncOnce` for ever and a
  cycle runs to its end unless something ends it (`Abandon`, finitely often in a run).
- `Presence`: page timers and the sweep fire, the clock advances, and requests are
  worked off and answered or lost. No fairness for anything operators do.
- `LiveView`: a writer that has committed goes on to publish, the SSE handler
  keeps writing, the EventSource reconnects by itself, loads are answered.
- `StartUp`: a process that has been started goes on until it serves, exits or is stopped. Nobody
  is assumed to start one again.
- `WorkItems`, `Ingest`, `Sessions`, `Contacts` and `Calls` state safety only and assume no fairness.

## What is proved

All for every value of the constants that satisfies the modules' named assumptions: any
number of tickets, users, pages, requests and processes, and any value of the bounds
that the runs set. Three theorems have a further hypothesis, named below (`ConversationsStayTogether`,
`ListedWhileOpen`, `AlwaysOneWarned`). Every safety and action property a run expects to hold has its theorem.

### The ticket store: `WorkItems_proofs`, specification `TicketSpec`

- `TypeCorrect`: the tables keep their types.
- `TrailIsChain` and `TrailExplainsStatus`: the audit trail forms a chain, and replaying
  it gives the status, whichever STATUS_CHANGED rows of replies were lost. Neither is
  inductive alone: a new STATUS_CHANGED row records as `from` the status the code reads,
  and this is the end of the chain only because the trail explains the status; so they are
  proved together (`TrailInv`) on top of the type invariant. The proofs use what appending a
  row does to `Replayed` (`SetterLeads`, `RowLeads`): a row that names a status starts afresh,
  and a row about a message does to what is replayed just what `AfterMessage` or `AfterMail`
  does to the status.
- `TrailTellsTables` (`TrailMatchesTables`). The inductive invariant `TablesInv` speaks
  about the tables as values, so that one lemma per insert serves the store and
  `Ingest`.
- `ParkedHeardNothing` (`NoUnseenReply`). `NothingSince` is preserved because a row of
  the requester either sets a status that is not parked or lands in a ticket that is
  not; which of the two `AfterMessage` does is a lemma.
- `StepsAreLegal` and `ClosedStaysShut` (`ClosedNeedsOperator`) are about steps. The
  work is in `AddThreadMessage`, which does not ask `CanTransition`.

### Ingestion: `Ingest_proofs`, specification `Spec`

- `IngestTypeCorrect`, `MailIsTold`, `MailIsSeen`, `MailLeavesClosed`: types, and the
  store's properties again with calls in flight. `BaseInv` adds to the types that a
  call's target exists and its message is one it was handed; a call's transaction is an
  insert of the store with a target chosen earlier, and the lemmas about inserts do not
  ask when it was chosen.
- `AlertedOnceStoredOnce` (`AlertsFollowCommit`). `AlertInv`: a message is stored once;
  what has been announced is stored; a call that is due to announce has stored its
  message, nobody has announced it, and no other call is due to. The last part is what
  keeps two deliveries of one message from both telling: the unique index lets only one
  of them insert.
- `CodesAreGeneratedOnce` (`GeneratedCodesDiffer`), for any codes of callers of `CreateItem`.
  `CodesInv` says that the code of every ticket opened for mail is below the counter, the first
  code plus the number of tickets, which only grows; a ticket a caller made stays known by its
  ITEM_CREATED row.
- `GapsComeFromRaces` (`GapsNeedRace`), without a hypothesis on codes or on the trail.
  `GapInv`: unless `raced`, there is no empty ticket, the trail explains the status, and
  `FlightInv`, which makes this inductive: of two calls under way each has another
  message, and what a call has found to be new is still new.
- `ConversationsStayTogether` (`ThreadNotSplit`), if `IdsApart`: Message-IDs are stored
  in the form in which they are looked up, and no mail refers to a voicemail
  (telephony.go:117 makes the ids of voicemails; no mail server does). `ThreadsInv` adds
  that the worker's mail, once correlated, is aimed at the ticket of its first stored
  reference, and stays so whatever is stored meanwhile. The hypothesis is a real one:
  `ingest_brackets` shows what happens to ids in angle brackets.

### Mail synchronisation: `MailSync_proofs`, specification `Spec`

- `TypeCorrect`, in which the page's end stays within the feed because the feed only
  grows.
- `LossIsBounded` (`LossBounded`) and `CycleKeepsPromise` (`ImplementsMailbox`). The
  inductive invariant `SyncInv` adds to the type invariant and `LossBounded` what the
  local variables of a cycle say (`CycleInv`): the token read is still the stored one,
  and in the middle of a page everything before the cursor is stored, our own or excused
  by a failure. It is needed because `SaveCheckpoint` looks at no message. The lemmas
  bound how `Missing(n)` changes: nothing is added to it when mail arrives or is stored
  (`StillExcused`, `IngestMessageExcused`), and a failure adds one message at most
  (`IngestFailsExcused`). For the refinement every step is shown to be a step of
  `Mailbox` or to leave its variables alone (`MailboxStep`).

### Presence: `Presence_proofs`, specification `Spec`

- `TypeCorrect`.
- `ListedWhileOpen` (`StillListed`), if `RoomForFaults`: the time to live covers one
  interval more than faults can happen, and the longest delay. The code's 30 seconds are
  three intervals, so this is one lost heartbeat and a delay of up to one interval, or
  two and no delay. `PresenceInv` is the argument behind it: the age of the entry of a
  page the running server has recorded (`Fresh`) is bounded by the time since the page's
  last heartbeat, one interval for each heartbeat that was lost, and one for each the
  server may still record. The hypothesis is needed: with more faults in a row the entry
  is swept while the page is open.
- `AlwaysOneWarned` (`OneIsWarned`), under the same hypothesis, since an entry that was
  swept warns nobody. `WarningInv` extends the property from what pages show to the
  answers under way: of two answers of the running server to two operators one names the
  other. It is preserved because the later of the two is computed when the other
  operator is already listed, and listed entries stay (`PresenceInv`).

### Sessions: `Sessions_proofs`, specification `Spec`

- `TypeCorrect`, `LifetimeIsBounded`, `ToldIsKept` (`ToldIsUsable`) and
  `EndedIsEnded` (`EndedStaysEnded`). Requests write what they computed from a copy of
  the row, or fail to, so `SessionInv` says of each how old its copy can be: the copy is of the
  row that is there, if any (`CopyInv`); the expiry to be written respects that row's
  ceiling (`WriteInv`); the clock the request read is at most its age ago (`ClockInv`);
  and the row has fallen behind the expiry the request knows, from its copy or from its own
  write, by one request's duration at most (`ToldInv`). The last part is preserved because
  nobody knows an expiry beyond the window from now on (`NotAhead`), and whoever overwrites the
  row read the clock at most one duration before. Tokens are not reused (`RowsIssued`), which is
  why a late renewal cannot hit another session.

### Live updates: `LiveView_proofs`, specification `Spec`

- `TypeCorrect` and `UpdateIsOnItsWay` (`UpdateOnItsWay`). `LiveInv` strengthens it to
  `OnItsWay`: also for a page that is up to date, either nothing is under way or
  something is that leaves it up to date; without this a current page could render an
  older load and be behind with nothing on its way. An event that leaves the channel for the
  connection is still `Queued` (`SendKeeps`), and a failed load leaves the page with the last load
  it had, unless it was the last (`FailKeeps`). The capacities of channel and connection and the
  numbers of pages, loads and failures are arbitrary.

### Directory and calls: `Calls_proofs`, specifications `Spec` of `Contacts` and `CallsSpec`

- `SecondMainsArePromoted` (`SecondMainByPromotion`), `ReferencesAreResolved` (`ReferencesResolve`),
  `PrimaryIsKept` (`PrimaryNotLost`) and `PromotedOwnsTheAddress`
  (`PromotedOwnsAddress`). `DirectoryInv` adds that the index on addresses holds
  (`WellIndexed`), which makes "the owner of the address" one party, and `OwnersKnown`:
  every channel belongs to a party that was inserted at some time, so a new party starts
  without channels that its first ones could compete with.
- `CallsKeepTheDirectory`: `CallsSpec => Spec`. `Calls` implements `Contacts`, step by
  step, so the four hold there too.
- `CallsTypeCorrect`, `LinksHaveCallers` (`LinkHasCaller`) and `LatestIsOnItsWay`
  (`LatestOnItsWay`). `CallsInv` adds what the local variables of each webhook request
  say (`CallInv`): between the queries, the party that was found by number is still
  there, or it has gone and so have the links to it, or a deletion ran without foreign
  keys. The lemmas on pages (`SendPages`, `RenderPages`, `DisconnectPages`) show that the newest
  call of a page stays the newest while it moves from channel to connection to banner.

### Start-up: `StartUp_proofs`, specification `Spec`

Any number of processes, builds of any length, migrations with any needs:

- `TypeCorrect`, `MigrationsInOrder` (`SchemaInOrder`) and `NobodyServesEarly`
  (`ServesComplete`). The inductive invariant `StartInv` adds `PassedInv`: the
  migrations a process has passed are applied, whoever applied them, and only the end of
  the loop leads out of `Migrate`. The two need each other: a migration is appended in
  its place because the process that appends it has passed all before it
  (`NextInOrder`), and what it has passed stays applied because no step takes a row back
  (`SchemaStep`).
- `LockedOutNeedsCrash`, the part of `AdminCanLogIn` that is safety: while a process
  serves, the first account exists, and it has no password only if one is about to be
  set or a process was stopped between the two writes of `bootstrapAdmin`.

### Only model-checked

Liveness and what rests on fairness, which is out of the prover's reach here:
`DeliveredWithoutOwnPages`, `BothAreWarned`, `DraftsShow`, `CatchesUp`,
`OneComesThrough` and `AdminCanLogIn` (of which `LockedOutNeedsCrash` proves that no
other way leads into the exception). The three runs that expect a violation are
counterexamples on their instances.

## Not modelled

- Sending mail (no caller), domain plug-ins,
  templates, routing, read-only queries: no state that more than one step changes.
- Wording and formats: audit details other than status changes, subjects, bodies,
  attachments, truncation, names.
- Cookies, password hashing, CSRF check; `SetPassword` other than in the bootstrap (no caller).
- `UpdateContact`: it writes names and notes, which no property is about.
- Filters, pages and counts of the queue: one query, no state. The queue page (app.js:43-137) loads
  every 15 seconds and shows whatever answer comes last.
- The token cache: only the worker asks for a token after `Initialize`; `SendMessage` and
  `HealthCheck`, which would compete for it, have no caller.
- Two tabs of one operator: the tracker keeps one entry per user, so tabs
  overwrite each other's mode.

## Plan

The order followed so far: the ticket store, because everything writes it;
ingestion on top of it; mail synchronisation with its abstract specification; then
presence, sessions, live updates and contacts, which share tables but no
protocol with the rest; then the proofs of the store and of synchronisation;
then start-up and live calls, which close the gaps the first round had left; then the
proofs of everything else.

To extend the model further: `Ingest` with a directory that changes, so that a promotion
or a deletion falls between correlation and the transaction (`Contacts` and `Calls`
show what a lookup can meet there; the tickets' parties are fixed in `Ingest`).

To prove more: the safety properties have their theorems. What the liveness runs rest on could be stated
as further invariants, as `LockedOutNeedsCrash` does for `AdminCanLogIn` and `UpdateOnItsWay` for
`CatchesUp`: that a cycle of `MailSync` in the middle of a page has a step to take, and that a process of
`StartUp` that exits has been overtaken by one that got further.
