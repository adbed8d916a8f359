------------------------------- MODULE MCCalls -------------------------------
(* Calls with two webhook requests and two pages; a contact and an            *)
(* organization that may own the number, and a ticket.                        *)
EXTENDS Calls, TLC

CONSTANTS c1, o1, n1, ph, t1, h1, h2, v1, v2

MCContacts == {c1}
MCOrgs == {o1}
MCAddresses == {ph}
MCCanonical == [a \in MCAddresses |-> a]
MCKind == [a \in MCAddresses |-> "PHONE"]
MCItems == {t1}
MCRequester == [i \in MCItems |-> ph]
MCHooks == {h1, h2}
MCOperators == {v1, v2}
MCSymmetry == Permutations(MCHooks) \cup Permutations(MCOperators)
=============================================================================
