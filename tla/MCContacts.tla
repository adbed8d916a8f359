------------------------------ MODULE MCContacts ------------------------------
(* Contacts on an address spelled in two ways and a phone number, a ticket    *)
(* somebody wrote in the second spelling, two people and two organizations    *)
(* that may have the same name.                                               *)
EXTENDS Contacts, TLC

CONSTANTS c1, c2, o1, o2, n1, m, mm, ph, t1

MCContacts == {c1, c2}
MCOrgs == {o1, o2}
MCAddresses == {m, mm, ph}
MCCanonical == [a \in MCAddresses |-> IF a = mm THEN m ELSE a]
MCKind == [a \in MCAddresses |-> IF a = ph THEN "PHONE" ELSE "EMAIL"]
MCItems == {t1}
MCRequester == [i \in MCItems |-> mm]
MCSymmetry == Permutations(MCContacts) \cup Permutations(MCOrgs)
=============================================================================
