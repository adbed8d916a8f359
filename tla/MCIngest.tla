------------------------------ MODULE MCIngest ------------------------------
(* Ingest with a mail, a reply to it whose subject names another ticket,    *)
(* and a voicemail of the same caller.  Message-IDs are bare, as in the     *)
(* tests, or in angle brackets: then n1 is the trimmed form of e1.          *)
EXTENDS Ingest, TLC

CONSTANTS i1, i2, u1, p1, e1, e2, e3, n1, w, h1, h2

MCItems == {i1, i2}
MCExts == {e1, e2, e3}
MCBare == [e \in MCExts |-> e]
MCExtsBracketed == {e1, e2, e3, n1}
MCBracketed == [e \in MCExtsBracketed |-> IF e = e1 THEN n1 ELSE e]

Mail(e, refs, c) == [ext |-> e, byPhone |-> FALSE, party |-> p1,
                     refs |-> refs, subjectCode |-> c]

MCMails == {Mail(e1, <<>>, None), Mail(e2, <<e1>>, 1002)}
MCVoicemails == {[ext |-> e3, byPhone |-> TRUE, party |-> p1,
                  refs |-> <<>>, subjectCode |-> None]}

MCStaff == {u1}
MCParties == {p1}
MCOneHook == {h1}
MCTwoHooks == {h1, h2}
MCSymmetry == Permutations(MCItems) \cup Permutations(MCTwoHooks)
=============================================================================
