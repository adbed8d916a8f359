------------------------------- MODULE Sessions -------------------------------
(***************************************************************************)
(* Logins: the sessions table, the Auth middleware with ValidateSession,   *)
(* Login, Logout, LogoutOthers and the hourly sweep.  None of these        *)
(* operations is a transaction: a request queries a row, looks at the      *)
(* clock and writes, and other requests run in between.  Time is counted   *)
(* in ticks; tokens are random, so a token is issued once.  The users are  *)
(* accounts with a password (StartUp is about the first of them).          *)
(***************************************************************************)
EXTENDS Naturals

CONSTANTS
  Users,       \* user ids
  Tokens,      \* bearer tokens (and the rows of sessions they hash to)
  Requests,    \* concurrent HTTP requests
  None,
  Window,      \* 12 h: sessionIdleTTL and the sliding window
  Lifetime,    \* 30 days: maxSessionLifetime
  Delay,       \* the longest a request takes from its first query to its answer
  MaxTime,     \* bound: the clock
  MaxCrashes   \* bound: crashes of the process

ASSUME SessionsConstantsOK ==
  /\ None \notin Users \cup Tokens \cup Nat
  /\ Window \in Nat \ {0} /\ Lifetime \in Nat /\ Window <= Lifetime
  /\ Delay \in Nat
  /\ MaxTime \in Nat /\ MaxCrashes \in Nat

VARIABLES
  now,
  active,    \* users.is_active
  sessions,  \* token -> row of sessions
  issued,    \* tokens that have been handed out
  request,   \* local variables of the requests
  crashes

sessionVars == <<now, active, sessions, issued, request, crashes>>

Session == [user : Users, created : Nat, expires : Nat]

Idle == [pc |-> "idle", token |-> None, user |-> None, row |-> None,
         valid |-> FALSE, expires |-> None, told |-> None, at |-> 0, age |-> 0]

\* row: the copy of the queried session; valid: users.is_active as queried;
\* expires: the expiry to write, if any; told: the expiry of the session that
\* ValidateSession returns; at: time.Now() of the request.
Request == [pc : {"idle", "authenticated", "queried", "refuse", "renew", "allowed"},
            token : Tokens \cup {None}, user : Users \cup {None},
            row : Session \cup {None}, valid : BOOLEAN,
            expires : Nat \cup {None}, told : Nat \cup {None}, at : Nat, age : 0..Delay]

TypeOK ==
  /\ now \in 0..MaxTime
  /\ active \in [Users -> BOOLEAN]
  /\ sessions \in [Tokens -> Session \cup {None}]
  /\ issued \subseteq Tokens
  /\ request \in [Requests -> Request]
  /\ crashes \in 0..MaxCrashes

Init ==
  /\ now = 0
  /\ active = [u \in Users |-> TRUE]
  /\ sessions = [k \in Tokens |-> None]
  /\ issued = {}
  /\ request = [r \in Requests |-> Idle]
  /\ crashes = 0

tables == <<active, sessions, issued>>

-----------------------------------------------------------------------------
(* Login.                                                                  *)

Authenticate(r, u) ==
  /\ request[r] = Idle
  /\ active[u]
  /\ request' = [request EXCEPT ![r] =
       [Idle EXCEPT !.pc = "authenticated", !.user = u]]
  /\ UNCHANGED <<now, tables, crashes>>

CreateSession(r, k) ==
  /\ request[r].pc = "authenticated" /\ k \notin issued
  /\ sessions' = [sessions EXCEPT ![k] =
       [user |-> request[r].user, created |-> now, expires |-> now + Window]]
  /\ issued' = issued \cup {k}
  /\ request' = [request EXCEPT ![r] = Idle]
  /\ UNCHANGED <<now, active, crashes>>

-----------------------------------------------------------------------------
(* ValidateSession, which the Auth middleware runs before every handler.   *)
(* (A suffixed name is a deliberately wrong variant that the properties    *)
(* must tell from the real definition.)                                    *)

QuerySession(r, k) ==
  /\ request[r] = Idle
  /\ sessions[k] # None
  /\ request' = [request EXCEPT ![r] =
       [Idle EXCEPT !.pc = "queried", !.token = k, !.user = sessions[k].user,
                    !.row = sessions[k], !.valid = active[sessions[k].user]]]
  /\ UNCHANGED <<now, tables, crashes>>

RenewedUncapped(row) == now + Window
Renewed(row) == IF now + Window > row.created + Lifetime
                THEN row.created + Lifetime ELSE now + Window

\* Every decision is taken on the copy; an expiry is written only when it is
\* later than that of the copy.
Decide(r) ==
  LET row == request[r].row IN
  /\ request[r].pc = "queried"
  /\ request' = [request EXCEPT
       ![r].pc = IF now > row.expires \/ ~request[r].valid THEN "refuse" ELSE "renew",
       ![r].row = None, ![r].told = row.expires, ![r].at = now,
       ![r].expires = IF Renewed(row) > row.expires THEN Renewed(row) ELSE None]
  /\ UNCHANGED <<now, tables, crashes>>

\* An error of the DELETE is ignored.
Refuse(r) ==
  /\ request[r].pc = "refuse"
  /\ sessions' \in {sessions, [sessions EXCEPT ![request[r].token] = None]}
  /\ request' = [request EXCEPT ![r] = Idle]
  /\ UNCHANGED <<now, active, issued, crashes>>

Told(r) == IF request[r].expires = None THEN request[r].told ELSE request[r].expires

RenewReinserts(r) ==
  /\ request[r].pc = "renew"
  /\ sessions' = IF request[r].expires = None THEN sessions
                 ELSE [sessions EXCEPT ![request[r].token] =
                         [user |-> request[r].user, created |-> request[r].at,
                          expires |-> request[r].expires]]
  /\ request' = [request EXCEPT ![r].pc = "allowed", ![r].told = Told(r), ![r].expires = None]
  /\ UNCHANGED <<now, active, issued, crashes>>

RenewNull(r) ==
  LET k == request[r].token IN
  /\ request[r].pc = "renew"
  /\ sessions' = IF sessions[k] = None THEN sessions
                 ELSE [sessions EXCEPT ![k].expires = request[r].expires]
  /\ request' = [request EXCEPT ![r].pc = "allowed", ![r].told = Told(r), ![r].expires = None]
  /\ UNCHANGED <<now, active, issued, crashes>>

RenewTellsAnyway(r) ==
  LET k == request[r].token IN
  /\ request[r].pc = "renew"
  /\ \/ UNCHANGED sessions
     \/ /\ sessions[k] # None /\ request[r].expires # None
        /\ sessions' = [sessions EXCEPT ![k].expires = request[r].expires]
  /\ request' = [request EXCEPT ![r].pc = "allowed", ![r].told = Told(r), ![r].expires = None]
  /\ UNCHANGED <<now, active, issued, crashes>>

\* UPDATE ... WHERE id = ?: a row deleted meanwhile is not brought back.  An
\* UPDATE that fails leaves the row and the returned session as they are, and
\* the request goes on either way.
Renew(r) ==
  LET k == request[r].token IN
  /\ request[r].pc = "renew"
  /\ \/ /\ sessions' = IF sessions[k] = None \/ request[r].expires = None THEN sessions
                        ELSE [sessions EXCEPT ![k].expires = request[r].expires]
        /\ request' = [request EXCEPT
             ![r].pc = "allowed", ![r].told = Told(r), ![r].expires = None]
     \/ /\ UNCHANGED sessions
        /\ request' = [request EXCEPT ![r].pc = "allowed", ![r].expires = None]
  /\ UNCHANGED <<now, active, issued, crashes>>

-----------------------------------------------------------------------------
(* The handlers behind the middleware.                                     *)

Serve(r) ==
  /\ request[r].pc = "allowed"
  /\ request' = [request EXCEPT ![r] = Idle]
  /\ UNCHANGED <<now, tables, crashes>>

\* Logout, which ignores an error of the DELETE.
RevokeSession(r) ==
  /\ request[r].pc = "allowed"
  /\ sessions' \in {sessions, [sessions EXCEPT ![request[r].token] = None]}
  /\ request' = [request EXCEPT ![r] = Idle]
  /\ UNCHANGED <<now, active, issued, crashes>>

\* LogoutOthers.
RevokeOtherSessions(r) ==
  LET Revoked(k) == /\ k # request[r].token /\ sessions[k] # None
                    /\ sessions[k].user = request[r].user
  IN  /\ request[r].pc = "allowed"
      /\ sessions' = [k \in Tokens |-> IF Revoked(k) THEN None ELSE sessions[k]]
      /\ request' = [request EXCEPT ![r] = Idle]
      /\ UNCHANGED <<now, active, issued, crashes>>

PruneExpiredSessions ==
  LET Dead(k) == sessions[k] # None /\ sessions[k].expires < now IN
  /\ \E k \in Tokens : Dead(k)
  /\ sessions' = [k \in Tokens |-> IF Dead(k) THEN None ELSE sessions[k]]
  /\ UNCHANGED <<now, active, issued, request, crashes>>

\* No code here deactivates an account; an administrator's tool does.
Deactivate(u) ==
  /\ active[u]
  /\ active' = [active EXCEPT ![u] = FALSE]
  /\ UNCHANGED <<now, sessions, issued, request, crashes>>

Crash ==
  /\ crashes < MaxCrashes
  /\ request' = [r \in Requests |-> Idle]
  /\ crashes' = crashes + 1
  /\ UNCHANGED <<now, tables>>

Tick ==
  /\ now < MaxTime
  /\ \A r \in Requests : request[r] # Idle => request[r].age < Delay
  /\ now' = now + 1
  /\ request' = [r \in Requests |-> IF request[r] = Idle THEN Idle
                                    ELSE [request[r] EXCEPT !.age = @ + 1]]
  /\ UNCHANGED <<tables, crashes>>

Next ==
  \/ \E r \in Requests :
       \/ \E u \in Users : Authenticate(r, u)
       \/ \E k \in Tokens : CreateSession(r, k) \/ QuerySession(r, k)
       \/ Decide(r) \/ Refuse(r) \/ Renew(r)
       \/ Serve(r) \/ RevokeSession(r) \/ RevokeOtherSessions(r)
  \/ PruneExpiredSessions
  \/ \E u \in Users : Deactivate(u)
  \/ Crash \/ Tick

Spec == Init /\ [][Next]_sessionVars

-----------------------------------------------------------------------------
(* Properties.                                                             *)

Ceiling(s) == s.created + Lifetime

\* Renewal, from whatever stale copy it starts, never extends a session past
\* its absolute lifetime.
LifetimeBounded ==
  \A k \in Tokens : sessions[k] # None => sessions[k].expires <= Ceiling(sessions[k])

\* The expiry in the session that ValidateSession returns is one the row keeps:
\* whether the renewal was written, failed, or is overwritten by requests that
\* read the clock before, the row expires at most one request's duration before
\* it, unless the session is ended on purpose.
ToldIsUsable ==
  \A r \in Requests : request[r].pc = "allowed" =>
    LET s == sessions[request[r].token]
    IN  s # None => s.expires + Delay >= request[r].told \/ s.expires = Ceiling(s)

\* A session that has been ended never comes back: a renewal decided before
\* the logout and written after it finds no row.
EndedStaysEnded ==
  [][\A k \in issued : sessions[k] = None => sessions'[k] = None]_sessions
=============================================================================
