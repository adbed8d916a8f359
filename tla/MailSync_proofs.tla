--------------------------- MODULE MailSync_proofs ---------------------------
(* Theorems about mail synchronisation, for mailboxes, pages and numbers of  *)
(* faults and failures of every size.                                        *)
EXTENDS MailSync, FiniteSetTheorems, TLAPS

Excused(n) == Cardinality(Missing(n)) <= ingestFailures

\* What the local variables of syncOnce say in the middle of a cycle: the
\* token read is still the stored one, and up to the cursor the page lacks
\* only what failed.  SaveCheckpoint, which looks at no message, rests on it.
CycleInv ==
  /\ pc \in {"fetch", "ingest"} => token = checkpoint
  /\ pc = "ingest" => /\ token <= next
                      /\ token < cursor /\ cursor <= next + 1
                      /\ Excused(cursor - 1)

SyncInv == TypeOK /\ LossBounded /\ CycleInv

-----------------------------------------------------------------------------
(* What is missing.                                                          *)

LEMMA MissingFinite ==
  ASSUME NEW n \in Nat
  PROVE  IsFiniteSet(Missing(n)) /\ Cardinality(Missing(n)) \in Nat
<1>1. IsFiniteSet(1..n) /\ Missing(n) \in SUBSET (1..n)
  BY FS_Interval DEF Missing
<1> QED
  BY <1>1, FS_Subset, FS_CardinalityType

\* Fewer messages are missing than the failures excuse if they are among
\* those that were missing before.
LEMMA FewerMissing ==
  ASSUME NEW n \in Nat, NEW S \in SUBSET Missing(n), NEW f \in Nat,
         Excused(n), ingestFailures \in Nat, ingestFailures <= f
  PROVE  Cardinality(S) <= f
<1>1. Cardinality(S) <= Cardinality(Missing(n)) /\ Cardinality(S) \in Nat
  BY MissingFinite, FS_Subset, FS_CardinalityType
<1> QED
  BY <1>1, MissingFinite DEF Excused

\* Appending to the feed leaves its entries alone.
LEMMA ArriveFacts ==
  ASSUME TypeOK, NEW e \in Exts, Arrive(e)
  PROVE  /\ feed' \in Seq(Exts) /\ Len(feed) \in Nat /\ Len(feed') = Len(feed) + 1
         /\ \A n \in 1..Len(feed) : feed'[n] = feed[n]
BY DEF TypeOK, Arrive

LEMMA PageEndFacts ==
  ASSUME TypeOK, NEW from \in 0..Len(feed)
  PROVE  /\ PageEnd(from) \in 0..Len(feed)
         /\ from <= PageEnd(from)
BY SyncConstantsOK DEF PageEnd, TypeOK

THEOREM TypeCorrect == Spec => []TypeOK
<1>1. Init => TypeOK
  BY DEF Init, TypeOK
<1>2. TypeOK /\ token <= Len(feed) /\ [Next]_syncVars
        => TypeOK' /\ (token <= Len(feed))'
  <2> SUFFICES ASSUME TypeOK, token <= Len(feed), [Next]_syncVars
               PROVE  TypeOK' /\ token' <= Len(feed')
    OBVIOUS
  <2>1. ASSUME NEW e \in Exts, Arrive(e)
        PROVE  TypeOK' /\ token' <= Len(feed')
    BY <2>1, ArriveFacts DEF Arrive, TypeOK, local
  <2>2. CASE GetCheckpoint
    BY <2>2 DEF GetCheckpoint, TypeOK
  <2>3. CASE FetchNewMessages
    <3>1. token \in 0..Len(feed)
      BY DEF TypeOK
    <3>2. token + 1 \in 1..(Len(feed) + 1) /\ PageEnd(token) \in 0..Len(feed)
      BY <3>1, PageEndFacts DEF TypeOK
    <3> QED
      BY <2>3, <3>2 DEF FetchNewMessages, TypeOK
  <2>4. CASE IngestMessage
    <3>1. cursor \in 1..Len(feed) /\ feed[cursor] \in Exts
      BY <2>4 DEF IngestMessage, TypeOK
    <3> QED
      BY <2>4, <3>1 DEF IngestMessage, TypeOK
  <2>5. CASE SaveCheckpoint
    BY <2>5 DEF SaveCheckpoint, TypeOK
  <2>6. CASE IngestFails
    BY <2>6 DEF IngestFails, TypeOK
  <2>7. CASE Abandon
    BY <2>7 DEF Abandon, TypeOK
  <2>8. CASE UNCHANGED syncVars
    BY <2>8 DEF syncVars, local, TypeOK
  <2> QED
    BY <2>1, <2>2, <2>3, <2>4, <2>5, <2>6, <2>7, <2>8 DEF Next, Cycle
<1>3. Init => token <= Len(feed)
  BY DEF Init
<1> QED
  BY <1>1, <1>2, <1>3, PTL DEF Spec

-----------------------------------------------------------------------------
(* The invariant.                                                            *)

LEMMA SyncInvInit == Init => SyncInv
<1> SUFFICES ASSUME Init PROVE SyncInv
  OBVIOUS
<1>1. Missing(0) = {}
  BY DEF Missing
<1>2. LossBounded
  BY <1>1, FS_EmptySet DEF Init, LossBounded
<1> QED
  BY <1>2 DEF Init, SyncInv, TypeOK, CycleInv

\* As long as stored mail stays stored and the feed only grows, nothing that
\* was there up to entry n goes missing.
LEMMA StillExcused ==
  ASSUME TypeOK, TypeOK', NEW n \in 0..Len(feed), Excused(n),
         \A k \in 1..Len(feed) : feed'[k] = feed[k],
         stored \subseteq stored', ingestFailures <= ingestFailures'
  PROVE  Cardinality(Missing(n)') <= ingestFailures'
<1>1. Missing(n)' \in SUBSET Missing(n)
  <2>1. \A k \in 1..n : k \in 1..Len(feed)
    BY DEF TypeOK
  <2>2. \A k \in 1..n : Done(k) => Done(k)'
    BY <2>1 DEF Done
  <2> QED
    BY <2>2 DEF Missing
<1>2. n \in Nat /\ ingestFailures \in Nat /\ ingestFailures' \in Nat
  BY DEF TypeOK
<1> QED
  BY <1>1, <1>2, FewerMissing

\* Ingesting the message at the cursor keeps the part before it excused.
LEMMA IngestMessageExcused ==
  ASSUME TypeOK, CycleInv, IngestMessage
  PROVE  Excused(cursor - 1)'
<1>1. cursor \in 1..Len(feed) /\ cursor' = cursor + 1 /\ feed' = feed
      /\ cursor - 1 \in Nat /\ ingestFailures' = ingestFailures
      /\ ingestFailures \in Nat
  BY DEF IngestMessage, TypeOK
<1>2. feed[cursor] \in stored' \cup Own /\ stored \subseteq stored'
  BY <1>1 DEF IngestMessage
<1>3. Missing(cursor - 1)' \in SUBSET Missing(cursor - 1)
  BY <1>1, <1>2 DEF Missing, Done
<1>4. Excused(cursor - 1)
  BY DEF CycleInv, IngestMessage
<1> QED
  BY <1>1, <1>3, <1>4, FewerMissing DEF Excused

\* A failure adds at most the message at the cursor, and excuses it.
LEMMA IngestFailsExcused ==
  ASSUME TypeOK, CycleInv, IngestFails
  PROVE  Excused(cursor - 1)'
<1>1. cursor \in 1..Len(feed) /\ cursor' = cursor + 1 /\ feed' = feed
      /\ cursor - 1 \in Nat /\ ingestFailures' = ingestFailures + 1
      /\ ingestFailures \in Nat /\ stored' = stored
  BY DEF IngestFails, TypeOK
<1> DEFINE before == Missing(cursor - 1)
<1>2. IsFiniteSet(before) /\ Cardinality(before) \in Nat
  BY <1>1, MissingFinite
<1>3. Cardinality(before) <= ingestFailures
  BY DEF CycleInv, IngestFails, Excused
<1>4. /\ IsFiniteSet(before \cup {cursor})
      /\ Cardinality(before \cup {cursor}) \in Nat
      /\ Cardinality(before \cup {cursor}) <= Cardinality(before) + 1
  <2> HIDE DEF before
  <2> QED
    BY <1>2, FS_AddElement, FS_CardinalityType
<1>5. Missing(cursor - 1)' \in SUBSET (before \cup {cursor})
  BY <1>1 DEF Missing, Done
<1>6. Cardinality(Missing(cursor - 1)') \in Nat
      /\ Cardinality(Missing(cursor - 1)') <= Cardinality(before \cup {cursor})
  <2> HIDE DEF before
  <2> QED
    BY <1>4, <1>5, FS_Subset, FS_CardinalityType
<1> QED
  BY <1>1, <1>2, <1>3, <1>4, <1>6 DEF Excused

LEMMA SyncInvStep ==
  ASSUME SyncInv, TypeOK', [Next]_syncVars
  PROVE  SyncInv'
<1> USE DEF SyncInv
<1>0. /\ checkpoint \in 0..Len(feed) /\ ingestFailures \in Nat
      /\ cursor - 1 \in 0..Len(feed) /\ cursor \in Nat /\ next \in 0..Len(feed)
      /\ Excused(checkpoint)
  BY DEF TypeOK, LossBounded, Excused
<1>1. ASSUME NEW e \in Exts, Arrive(e)
      PROVE  SyncInv'
  <2>1. /\ \A k \in 1..Len(feed) : feed'[k] = feed[k]
        /\ stored' = stored /\ ingestFailures' = ingestFailures
        /\ checkpoint' = checkpoint /\ cursor' = cursor
        /\ pc' = pc /\ token' = token /\ next' = next
    BY <1>1, ArriveFacts DEF Arrive, local
  <2>2. LossBounded'
    BY <1>0, <2>1, StillExcused DEF LossBounded
  <2>3. pc = "ingest" => Excused(cursor - 1)'
    BY <1>0, <2>1, StillExcused DEF CycleInv, Excused
  <2> QED
    BY <2>1, <2>2, <2>3 DEF CycleInv
<1>2. CASE GetCheckpoint
  BY <1>2 DEF GetCheckpoint, LossBounded, CycleInv, Missing, Done
<1>3. CASE FetchNewMessages
  <2>1. token = checkpoint /\ token \in 0..Len(feed)
    BY <1>0, <1>3 DEF FetchNewMessages, CycleInv
  <2>2. /\ token <= next' /\ cursor' = token + 1 /\ token < cursor'
        /\ cursor' <= next' + 1 /\ cursor' - 1 = checkpoint
    BY <1>3, <2>1, PageEndFacts DEF FetchNewMessages, TypeOK
  <2>3. LossBounded' /\ Cardinality(Missing(checkpoint)') <= ingestFailures'
    BY <1>3 DEF FetchNewMessages, LossBounded, Missing, Done
  <2>4. Excused(cursor - 1)'
    <3>1. Missing(cursor - 1)' = Missing(checkpoint)'
      <4>1. checkpoint' = checkpoint /\ (1..(cursor - 1))' = 1..checkpoint
        BY <1>3, <2>2 DEF FetchNewMessages
      <4> QED
        BY <4>1 DEF Missing, Done
    <3> QED
      BY <2>3, <3>1 DEF Excused
  <2>5. token' = checkpoint' /\ token' = token
    BY <1>3, <2>1 DEF FetchNewMessages
  <2> QED
    BY <2>2, <2>3, <2>4, <2>5 DEF CycleInv
<1>4. CASE IngestMessage
  <2>1. LossBounded'
    BY <1>0, <1>4, StillExcused DEF IngestMessage, LossBounded
  <2>2. Excused(cursor - 1)'
    BY <1>4, IngestMessageExcused
  <2> QED
    BY <1>0, <1>4, <2>1, <2>2 DEF IngestMessage, CycleInv, TypeOK
<1>5. CASE SaveCheckpoint
  <2>1. cursor - 1 = next
    BY <1>0, <1>5 DEF SaveCheckpoint, CycleInv
  <2>2. Excused(next)
    BY <1>5, <2>1 DEF SaveCheckpoint, CycleInv
  <2>3. LossBounded'
    BY <1>5, <2>2 DEF SaveCheckpoint, LossBounded, Excused, Missing, Done
  <2> QED
    BY <1>5, <2>3 DEF SaveCheckpoint, CycleInv
<1>6. CASE IngestFails
  <2>1. LossBounded'
    BY <1>0, <1>6, StillExcused DEF IngestFails, LossBounded
  <2>2. Excused(cursor - 1)'
    BY <1>6, IngestFailsExcused
  <2> QED
    BY <1>0, <1>6, <2>1, <2>2 DEF IngestFails, CycleInv, TypeOK
<1>7. CASE Abandon
  BY <1>7 DEF Abandon, LossBounded, CycleInv, Missing, Done
<1>8. CASE UNCHANGED syncVars
  BY <1>8 DEF syncVars, local, LossBounded, CycleInv, Excused, Missing, Done
<1> QED
  BY <1>1, <1>2, <1>3, <1>4, <1>5, <1>6, <1>7, <1>8 DEF Next, Cycle

LEMMA SyncInvariant == Spec => []SyncInv
<1>1. SyncInv /\ TypeOK' /\ [Next]_syncVars => SyncInv'
  BY SyncInvStep
<1> QED
  BY <1>1, SyncInvInit, TypeCorrect, PTL DEF Spec

\* Failed requests, failed saves and crashes lose no mail: the delta token
\* passes at most as many unstored messages as ingestions have failed.
THEOREM LossIsBounded == Spec => []LossBounded
<1>1. SyncInv => LossBounded
  BY DEF SyncInv
<1> QED
  BY <1>1, SyncInvariant, PTL

-----------------------------------------------------------------------------
(* The refinement.                                                           *)

LEMMA MailboxStep ==
  ASSUME SyncInv, [Next]_syncVars
  PROVE  [Promise!MailboxNext]_<<feed, stored, checkpoint, ingestFailures>>
<1> USE DEF Promise!MailboxNext, Promise!Arrive, Promise!Store, Promise!Fail,
            Promise!Acknowledge
<1>0. ASSUME NEW n \in Int
      PROVE  Promise!Excused(n) <=> Excused(n)
  <2>1. Promise!Missing(n) = Missing(n)
    BY DEF Promise!Missing, Missing, Done
  <2> QED
    BY <2>1 DEF Promise!Excused, Excused, Promise!Cardinality, Cardinality
<1>1. ASSUME NEW e \in Exts, Arrive(e)
      PROVE  Promise!Arrive(e)
  BY <1>1 DEF Arrive
<1>2. CASE IngestMessage
  <2>1. cursor \in 1..Len(feed) /\ cursor - 1 \in Int /\ Excused(cursor - 1)
    BY <1>2 DEF IngestMessage, SyncInv, CycleInv, TypeOK
  <2>2. Promise!Store(cursor)
    BY <1>0, <1>2, <2>1 DEF IngestMessage
  <2> QED
    BY <2>1, <2>2
<1>3. CASE SaveCheckpoint
  <2>1. checkpoint <= next /\ next \in 0..Len(feed) /\ checkpoint \in Nat
        /\ cursor - 1 = next
    BY <1>3 DEF SaveCheckpoint, SyncInv, CycleInv, TypeOK
  <2>2. Excused(next)
    BY <1>3, <2>1 DEF SaveCheckpoint, SyncInv, CycleInv
  <2>3. CASE next = checkpoint
    BY <1>3, <2>3 DEF SaveCheckpoint
  <2>4. CASE next # checkpoint
    <3>1. next > checkpoint /\ next \in 1..Len(feed)
      BY <2>1, <2>4 DEF SyncInv, TypeOK
    <3>2. Promise!Acknowledge(next)
      BY <1>0, <1>3, <2>2, <3>1 DEF SaveCheckpoint
    <3> QED
      BY <3>1, <3>2
  <2> QED
    BY <2>3, <2>4
<1>4. CASE IngestFails
  BY <1>4 DEF IngestFails
<1>5. CASE GetCheckpoint \/ FetchNewMessages \/ Abandon
  BY <1>5 DEF GetCheckpoint, FetchNewMessages, Abandon
<1>6. CASE UNCHANGED syncVars
  BY <1>6 DEF syncVars
<1> QED
  BY <1>1, <1>2, <1>3, <1>4, <1>5, <1>6 DEF Next, Cycle

\* The sync cycle implements the promise of Mailbox: in-order, at-least-once
\* storage, with a checkpoint that lacks only what could not be ingested.
THEOREM CycleKeepsPromise == Spec => ImplementsMailbox
<1>1. Init => Promise!MailboxInit
  BY DEF Init, Promise!MailboxInit
<1>2. SyncInv /\ [Next]_syncVars
        => [Promise!MailboxNext]_<<feed, stored, checkpoint, ingestFailures>>
  BY MailboxStep
<1> QED
  BY <1>1, <1>2, SyncInvariant, PTL
     DEF Spec, ImplementsMailbox, Promise!MailboxSpec, Promise!mailboxVars
=============================================================================
