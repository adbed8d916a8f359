------------------------------- MODULE Mailbox -------------------------------
(***************************************************************************)
(* What mail synchronisation promises, without saying how: the mailbox     *)
(* reports mail in a growing feed; every reported mail that is not our own *)
(* is stored, in the order of the feed, unless storing it fails; and the   *)
(* part of the feed that is given up for good (the checkpoint) lacks no    *)
(* more mail than there were failures.                                     *)
(***************************************************************************)
EXTENDS Naturals, Sequences, FiniteSets

CONSTANTS
  Exts,   \* external message ids
  Own     \* those of mail sent from the mailbox itself

VARIABLES
  feed,        \* message ids in the order the provider reports them
  stored,      \* ids of the messages in thread_messages
  checkpoint,  \* how much of the feed the stored delta token has passed
  failures     \* how often storing a message has failed

mailboxVars == <<feed, stored, checkpoint, failures>>

MailboxInit == feed = <<>> /\ stored = {} /\ checkpoint = 0 /\ failures = 0

\* A new message, or a change to one reported before.
Arrive(e) ==
  /\ feed' = Append(feed, e)
  /\ UNCHANGED <<stored, checkpoint, failures>>

Missing(n) == {k \in 1..n : feed[k] \notin stored \cup Own}
Excused(n) == Cardinality(Missing(n)) <= failures

Store(n) ==
  /\ Excused(n - 1)
  /\ stored' = stored \cup ({feed[n]} \ Own)
  /\ UNCHANGED <<feed, checkpoint, failures>>

Fail ==
  /\ failures' = failures + 1
  /\ UNCHANGED <<feed, stored, checkpoint>>

Acknowledge(n) ==
  /\ n > checkpoint /\ Excused(n)
  /\ checkpoint' = n
  /\ UNCHANGED <<feed, stored, failures>>

MailboxNext ==
  \/ \E e \in Exts : Arrive(e)
  \/ \E n \in 1..Len(feed) : Store(n) \/ Acknowledge(n)
  \/ Fail

MailboxSpec == MailboxInit /\ [][MailboxNext]_mailboxVars
=============================================================================
