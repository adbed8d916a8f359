------------------------------ MODULE MCLiveView ------------------------------
(* LiveView with one page on a channel of two events.  Pages share nothing    *)
(* but the writers, so one shows all that can happen to a page.               *)
EXTENDS LiveView

CONSTANT v1

MCViewers == {v1}
=============================================================================
