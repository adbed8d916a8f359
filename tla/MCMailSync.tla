----------------------------- MODULE MCMailSync -----------------------------
(* MailSync on two foreign mails and one of our own, two mails to a page. *)
EXTENDS MailSync

CONSTANTS a, b, o

MCExts == {a, b, o}
MCOwn == {o}
=============================================================================
