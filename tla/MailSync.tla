------------------------------- MODULE MailSync -------------------------------
(***************************************************************************)
(* SyncWorker.syncOnce and the provider's FetchNewMessages: the sync       *)
(* worker's cycle from the stored delta token to the next one.  The cycle  *)
(* reads the checkpoint, fetches one page, ingests its messages one after  *)
(* the other (each in a transaction of its own, see Ingest) and saves the  *)
(* token of the next page.  w.mu makes cycles exclusive.  A delta token is *)
(* modelled by the position of the feed it stands for.                     *)
(***************************************************************************)
EXTENDS Naturals, Sequences, FiniteSets

CONSTANTS
  Exts,              \* external message ids
  Own,               \* mail sent from the mailbox itself, filtered out
  PageSize,          \* odata.maxpagesize
  MaxFeed,           \* bound: entries of the provider's feed
  MaxFaults,         \* bound: failed requests, failed saves and crashes
  MaxIngestFailures  \* bound: messages whose ingestion fails

ASSUME SyncConstantsOK ==
  /\ Own \subseteq Exts
  /\ PageSize \in Nat \ {0}
  /\ MaxFeed \in Nat /\ MaxFaults \in Nat /\ MaxIngestFailures \in Nat

VARIABLES
  feed,        \* what the provider reports, oldest first
  stored,      \* ids of the messages in thread_messages
  checkpoint,  \* sync_checkpoints.delta_token
  pc,          \* where syncOnce is
  token,       \* local deltaToken
  next,        \* local nextDeltaToken: the end of the fetched page
  cursor,      \* next position of the page to ingest
  faults, ingestFailures

local == <<pc, token, next, cursor>>
syncVars == <<feed, stored, checkpoint, local, faults, ingestFailures>>

TypeOK ==
  /\ feed \in Seq(Exts)
  /\ stored \subseteq Exts \ Own
  /\ checkpoint \in 0..Len(feed)
  /\ pc \in {"idle", "fetch", "ingest"}
  /\ token \in Nat /\ next \in 0..Len(feed) /\ cursor \in 1..(Len(feed) + 1)
  /\ faults \in Nat /\ ingestFailures \in Nat

Init ==
  /\ feed = <<>> /\ stored = {} /\ checkpoint = 0
  /\ pc = "idle" /\ token = 0 /\ next = 0 /\ cursor = 1
  /\ faults = 0 /\ ingestFailures = 0

-----------------------------------------------------------------------------
(* The mailbox.                                                            *)

\* New mail, or a change to mail reported before: the id may be a known one.
Arrive(e) ==
  /\ Len(feed) < MaxFeed
  /\ feed' = Append(feed, e)
  /\ UNCHANGED <<stored, checkpoint, local, faults, ingestFailures>>

-----------------------------------------------------------------------------
(* The cycle.  (A suffixed name is a deliberately wrong variant that the   *)
(* properties must tell from the real definition.)                         *)

GetCheckpoint ==
  /\ pc = "idle"
  /\ pc' = "fetch" /\ token' = checkpoint
  /\ UNCHANGED <<feed, stored, checkpoint, next, cursor, faults, ingestFailures>>

\* The link the page ends with: a nextLink in the middle of the feed, a
\* deltaLink at its end.
PageEnd(from) == IF from + PageSize <= Len(feed)
                 THEN from + PageSize ELSE Len(feed)

\* A page without a message of someone else ends the cycle, its link unsaved.
FetchNewMessages ==
  /\ pc = "fetch"
  /\ next' = PageEnd(token)
  /\ cursor' = token + 1
  /\ pc' = IF \E n \in (token+1)..PageEnd(token) : feed[n] \notin Own
           THEN "ingest" ELSE "idle"
  /\ UNCHANGED <<feed, stored, checkpoint, token, faults, ingestFailures>>

IngestMessageKeepsOwn ==
  /\ pc = "ingest" /\ cursor <= next
  /\ stored' = stored \cup {feed[cursor]}
  /\ cursor' = cursor + 1
  /\ UNCHANGED <<feed, checkpoint, pc, token, next, faults, ingestFailures>>

IngestMessageNewestFirst ==
  /\ pc = "ingest" /\ cursor <= next
  /\ stored' = stored \cup ({feed[token + next + 1 - cursor]} \ Own)
  /\ cursor' = cursor + 1
  /\ UNCHANGED <<feed, checkpoint, pc, token, next, faults, ingestFailures>>

\* IngestInbound drops a message that is already stored; the provider has
\* dropped our own.
IngestMessage ==
  /\ pc = "ingest" /\ cursor <= next
  /\ stored' = stored \cup ({feed[cursor]} \ Own)
  /\ cursor' = cursor + 1
  /\ UNCHANGED <<feed, checkpoint, pc, token, next, faults, ingestFailures>>

\* An error is logged and the loop goes on to the next message.
IngestFails ==
  /\ pc = "ingest" /\ cursor <= next
  /\ feed[cursor] \notin Own /\ ingestFailures < MaxIngestFailures
  /\ cursor' = cursor + 1
  /\ ingestFailures' = ingestFailures + 1
  /\ UNCHANGED <<feed, stored, checkpoint, pc, token, next, faults>>

SaveCheckpointEarly ==
  /\ pc = "ingest" /\ cursor <= next
  /\ checkpoint' = next /\ UNCHANGED pc
  /\ UNCHANGED <<feed, stored, token, next, cursor, faults, ingestFailures>>

SaveCheckpointStale ==
  /\ pc = "ingest" /\ cursor > next
  /\ checkpoint' = token /\ pc' = "idle"
  /\ UNCHANGED <<feed, stored, token, next, cursor, faults, ingestFailures>>

\* A link that is the stored one is not saved again, which changes nothing.
SaveCheckpoint ==
  /\ pc = "ingest" /\ cursor > next
  /\ checkpoint' = next /\ pc' = "idle"
  /\ UNCHANGED <<feed, stored, token, next, cursor, faults, ingestFailures>>

\* The request or the save fails, the page came without a link to save, or the
\* process stops in mid-cycle (killed, or its context cancelled, which fails the
\* save as well): what was ingested stays, the token does not move, and the next
\* cycle starts over.
Abandon ==
  /\ pc # "idle" /\ faults < MaxFaults
  /\ pc' = "idle" /\ faults' = faults + 1
  /\ UNCHANGED <<feed, stored, checkpoint, token, next, cursor, ingestFailures>>

Cycle == GetCheckpoint \/ FetchNewMessages \/ IngestMessage \/ SaveCheckpoint

Next == (\E e \in Exts : Arrive(e)) \/ Cycle \/ IngestFails \/ Abandon

\* The ticker of Start keeps calling syncOnce, and a cycle that is not
\* abandoned runs to its end.
Fairness == WF_syncVars(Cycle)

Spec == Init /\ [][Next]_syncVars /\ Fairness

-----------------------------------------------------------------------------
(* Properties.                                                             *)

Done(n) == feed[n] \in stored \cup Own
Missing(n) == {k \in 1..n : ~Done(k)}

\* The delta token passes a message that is not in the database only where
\* its ingestion has failed: nothing else that can go wrong loses mail, across
\* failed requests, failed saves and crashes at any point of the cycle.
LossBounded == Cardinality(Missing(checkpoint)) <= ingestFailures

\* The cycle implements the promise of Mailbox: mail is stored in the order it
\* arrived, so that a reply finds its parent, and acknowledged once it is.
Promise == INSTANCE Mailbox WITH failures <- ingestFailures
ImplementsMailbox == Promise!MailboxSpec

OwnPage ==
  \E k \in 0..Len(feed) : /\ k + PageSize <= Len(feed)
                          /\ \A n \in (k+1)..(k+PageSize) : feed[n] \in Own

Delivered ==
  \A e \in Exts \ Own :
    (\E n \in 1..Len(feed) : feed[n] = e) ~> e \in stored

\* Every mail the provider reports is stored in the end, as long as no page
\* consists of our own mail only and no ingestion fails.
DeliveredWithoutOwnPages ==
  []~OwnPage /\ [](ingestFailures = 0) => Delivered
=============================================================================
