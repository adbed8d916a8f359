---------------------------- MODULE Sessions_proofs ----------------------------
(* Theorems about logins, for every number of accounts, tokens and requests, *)
(* every window and lifetime, and every duration of a request.               *)
EXTENDS Sessions, TLAPS

SessionOf(r) == sessions[request[r].token]

\* A request that knows a token knows one that was handed out, so that no new
\* row can appear under it; the copy it queried has the creation time of the
\* row, and an expiry it has still to write respects the lifetime of the row.
KnowsToken(r) ==
  request[r].pc \in {"queried", "refuse", "renew", "allowed"} => request[r].token \in issued

LoginInv(r) == request[r].pc = "authenticated" => request[r].user \in Users

CopyInv(r) ==
  request[r].pc = "queried" =>
    /\ request[r].row \in Session
    /\ SessionOf(r) # None => request[r].row.created = SessionOf(r).created

WriteInv(r) ==
  request[r].pc = "renew" /\ request[r].expires # None /\ SessionOf(r) # None =>
    /\ request[r].expires <= Ceiling(SessionOf(r))
    /\ \/ request[r].expires = request[r].at + Window
       \/ request[r].expires = Ceiling(SessionOf(r))

\* The clock a request has read is at most as old as the request itself.
ClockInv(r) == request[r].pc = "renew" => now <= request[r].at + request[r].age

\* The expiry a request knows, which it returns unless it writes another.
Known(r) == IF request[r].pc = "queried" THEN request[r].row.expires ELSE request[r].told

\* Nobody knows an expiry beyond the window from now on, and the row has at most
\* fallen one duration behind the expiry a request knows: it was overwritten
\* since by requests that had read the clock at most one duration before.
ToldInv(r) ==
  /\ request[r].pc = "renew" /\ request[r].expires # None =>
       request[r].expires <= now + Window
  /\ request[r].pc \in {"queried", "renew", "allowed"} =>
       /\ Known(r) \in Nat /\ Known(r) <= now + Window
       /\ SessionOf(r) # None => \/ SessionOf(r).expires = Ceiling(SessionOf(r))
                                \/ SessionOf(r).expires + Delay >= Known(r)

RequestInv(r) ==
  KnowsToken(r) /\ LoginInv(r) /\ CopyInv(r) /\ WriteInv(r) /\ ClockInv(r) /\ ToldInv(r)

RowsIssued == \A k \in Tokens : sessions[k] # None => k \in issued

NotAhead == \A k \in Tokens : sessions[k] # None => sessions[k].expires <= now + Window

SessionInv ==
  TypeOK /\ RowsIssued /\ LifetimeBounded /\ NotAhead /\ \A r \in Requests : RequestInv(r)

-----------------------------------------------------------------------------
(* Types.                                                                   *)

LEMMA RequestType ==
  ASSUME TypeOK, NEW r \in Requests
  PROVE  /\ request[r] \in Request
         /\ request[r].at \in Nat /\ request[r].age \in Nat /\ request[r].age <= Delay
         /\ request[r].expires \in Nat \cup {None} /\ request[r].valid \in BOOLEAN
         /\ request[r].told \in Nat \cup {None}
         /\ request[r].row \in Session \cup {None}
         /\ request[r].token \in Tokens \cup {None}
BY SessionsConstantsOK DEF TypeOK, Request

LEMMA RowType ==
  ASSUME TypeOK, NEW k \in Tokens, sessions[k] # None
  PROVE  /\ sessions[k] \in Session
         /\ sessions[k].user \in Users
         /\ sessions[k].created \in Nat /\ sessions[k].expires \in Nat
BY DEF TypeOK, Session

LEMMA ConstantTypes ==
  Window \in Nat /\ Lifetime \in Nat /\ Delay \in Nat /\ MaxTime \in Nat /\ MaxCrashes \in Nat
BY SessionsConstantsOK

LEMMA IdleType == Idle \in Request
BY ConstantTypes DEF Idle, Request

LEMMA QueryingType ==
  ASSUME NEW k \in Tokens, NEW u \in Users, NEW w \in Session, NEW v \in BOOLEAN
  PROVE  [Idle EXCEPT !.pc = "queried", !.token = k, !.user = u, !.row = w, !.valid = v]
           \in Request
BY IdleType DEF Request

\* What Renewed computes: the sliding expiry or the end of the lifetime.
LEMMA RenewedCapped ==
  ASSUME now \in Nat, NEW row \in Session
  PROVE  /\ Renewed(row) \in Nat
         /\ Renewed(row) <= Ceiling(row)
         /\ Renewed(row) = now + Window \/ Renewed(row) = Ceiling(row)
         /\ Renewed(row) <= now + Window
<1>1. row.created \in Nat
  BY DEF Session
<1> QED
  BY <1>1, ConstantTypes DEF Renewed, Ceiling

\* The types of the requests and of the rows, action by action.
LEMMA TypeStep ==
  ASSUME SessionInv, [Next]_sessionVars
  PROVE  TypeOK'
<1> USE DEF SessionInv
<1>1. ASSUME NEW r \in Requests, NEW u \in Users, Authenticate(r, u)
      PROVE  TypeOK'
  <2>1. [Idle EXCEPT !.pc = "authenticated", !.user = u] \in Request
    BY IdleType DEF Request
  <2> QED
    BY <1>1, <2>1 DEF Authenticate, TypeOK, tables
<1>2. ASSUME NEW r \in Requests, NEW k \in Tokens, CreateSession(r, k)
      PROVE  TypeOK'
  <2>1. request[r].user \in Users
    BY <1>2 DEF RequestInv, LoginInv, CreateSession
  <2>2. [user |-> request[r].user, created |-> now, expires |-> now + Window] \in Session
    BY <2>1, ConstantTypes DEF TypeOK, Session
  <2> QED
    BY <1>2, <2>2, IdleType DEF CreateSession, TypeOK
<1>3. ASSUME NEW r \in Requests, NEW k \in Tokens, QuerySession(r, k)
      PROVE  TypeOK'
  <2>1. sessions[k] \in Session /\ sessions[k].user \in Users
    BY <1>3, RowType DEF QuerySession
  <2>2. active[sessions[k].user] \in BOOLEAN
    BY <2>1 DEF TypeOK
  <2>3. [Idle EXCEPT !.pc = "queried", !.token = k, !.user = sessions[k].user,
                     !.row = sessions[k], !.valid = active[sessions[k].user]] \in Request
    BY <2>1, <2>2, QueryingType
  <2> QED
    BY <1>3, <2>3 DEF QuerySession, TypeOK, tables
<1>4. ASSUME NEW r \in Requests, Decide(r)
      PROVE  TypeOK'
  <2>1. /\ request[r].row \in Session /\ now \in Nat
        /\ request[r].row.expires \in Nat
    BY <1>4, ConstantTypes DEF RequestInv, CopyInv, Decide, TypeOK, Session
  <2>2. Renewed(request[r].row) \in Nat
    BY <2>1, RenewedCapped
  <2>3. request'[r] \in Request
    <3> DEFINE verdict == IF now > request[r].row.expires \/ ~request[r].valid
                          THEN "refuse" ELSE "renew"
               expiry == IF Renewed(request[r].row) > request[r].row.expires
                         THEN Renewed(request[r].row) ELSE None
    <3>1. request'[r] = [request[r] EXCEPT !.pc = verdict, !.row = None,
                           !.told = request[r].row.expires, !.at = now, !.expires = expiry]
      BY <1>4 DEF Decide, TypeOK
    <3>2. /\ verdict \in {"refuse", "renew"} /\ expiry \in Nat \cup {None} /\ now \in Nat
          /\ request[r].row.expires \in Nat
      BY <2>1, <2>2
    <3> HIDE DEF verdict, expiry
    <3> QED
      BY <3>1, <3>2, RequestType DEF Request
  <2>4. \A q \in Requests : q # r => request'[q] = request[q]
    BY <1>4 DEF Decide, TypeOK
  <2>5. request' \in [Requests -> Request]
    BY <1>4, <2>3, <2>4, RequestType DEF Decide, TypeOK
  <2> QED
    BY <1>4, <2>5 DEF Decide, TypeOK, tables
<1>5. ASSUME NEW r \in Requests, Refuse(r) \/ RevokeSession(r) \/ Serve(r)
      PROVE  TypeOK'
  BY <1>5, IdleType DEF Refuse, RevokeSession, Serve, TypeOK, tables
<1>6. ASSUME NEW r \in Requests, Renew(r)
      PROVE  TypeOK'
  <2>1. request' \in [Requests -> Request]
    <3>1. /\ [request[r] EXCEPT !.pc = "allowed", !.expires = None] \in Request
          /\ [request[r] EXCEPT !.pc = "allowed", !.told = Told(r), !.expires = None] \in Request
      BY RequestType DEF Request, Told
    <3>2. \/ request' = [request EXCEPT ![r] =
                           [request[r] EXCEPT !.pc = "allowed", !.expires = None]]
          \/ request' = [request EXCEPT ![r] =
                           [request[r] EXCEPT !.pc = "allowed", !.told = Told(r),
                                              !.expires = None]]
      BY <1>6 DEF Renew, TypeOK
    <3> QED
      BY <3>1, <3>2 DEF TypeOK
  <2>2. sessions' \in [Tokens -> Session \cup {None}]
    <3>1. CASE sessions' = sessions
      BY <3>1 DEF TypeOK
    <3>2. CASE /\ sessions[request[r].token] # None /\ request[r].expires # None
               /\ sessions' = [sessions EXCEPT ![request[r].token].expires = request[r].expires]
      <4>1. request[r].token \in Tokens
        BY <1>6 DEF RequestInv, KnowsToken, Renew, TypeOK
      <4>2. sessions[request[r].token] \in Session /\ request[r].expires \in Nat
        BY <3>2, <4>1, RowType, RequestType
      <4> QED
        BY <3>2, <4>1, <4>2 DEF TypeOK, Session
    <3> QED
      BY <1>6, <3>1, <3>2 DEF Renew
  <2> QED
    BY <1>6, <2>1, <2>2 DEF Renew, TypeOK
<1>7. ASSUME NEW r \in Requests, RevokeOtherSessions(r)
      PROVE  TypeOK'
  BY <1>7, IdleType DEF RevokeOtherSessions, TypeOK
<1>8. ASSUME PruneExpiredSessions
      PROVE  TypeOK'
  BY <1>8 DEF PruneExpiredSessions, TypeOK
<1>9. ASSUME NEW u \in Users, Deactivate(u)
      PROVE  TypeOK'
  BY <1>9 DEF Deactivate, TypeOK
<1>10. ASSUME Crash
       PROVE  TypeOK'
  BY <1>10, IdleType, ConstantTypes DEF Crash, TypeOK, tables
<1>11. ASSUME Tick
       PROVE  TypeOK'
  <2>1. ASSUME NEW r \in Requests, request[r] # Idle
        PROVE  [request[r] EXCEPT !.age = @ + 1] \in Request
    <3>1. request[r].age \in Nat /\ request[r].age < Delay /\ request[r] \in Request
      BY <1>11, <2>1, RequestType DEF Tick
    <3> QED
      BY <3>1, ConstantTypes DEF Request
  <2> QED
    BY <1>11, <2>1, IdleType, ConstantTypes DEF Tick, TypeOK, tables
<1>12. CASE UNCHANGED sessionVars
  BY <1>12 DEF sessionVars, TypeOK
<1> QED
  BY <1>1, <1>2, <1>3, <1>4, <1>5, <1>6, <1>7, <1>8, <1>9, <1>10, <1>11, <1>12 DEF Next

-----------------------------------------------------------------------------
(* What a step can do to a row that was handed out.                          *)

Rewritten(k) ==
  \/ sessions'[k] = sessions[k]
  \/ sessions'[k] = None
  \/ /\ sessions[k] # None
     /\ sessions'[k].created = sessions[k].created
     /\ sessions'[k].expires <= Ceiling(sessions'[k])
     /\ sessions'[k].expires <= now + Window
     /\ \/ sessions'[k].expires = Ceiling(sessions'[k])
        \/ sessions'[k].expires + Delay >= now + Window

LEMMA RenewRewrites ==
  ASSUME SessionInv, NEW r \in Requests, Renew(r), NEW k \in Tokens
  PROVE  Rewritten(k)
<1> USE DEF SessionInv
<1>1. CASE sessions' = sessions
  BY <1>1 DEF Rewritten
<1>2. CASE /\ SessionOf(r) # None /\ request[r].expires # None
           /\ sessions' = [sessions EXCEPT ![request[r].token].expires = request[r].expires]
  <2>1. /\ request[r].pc = "renew"
        /\ request[r].token \in Tokens
    BY DEF RequestInv, KnowsToken, Renew, TypeOK
  <2>2. CASE k # request[r].token
    BY <1>2, <2>1, <2>2 DEF TypeOK, Rewritten
  <2>3. CASE k = request[r].token
    <3>1. /\ sessions[k] # None /\ sessions[k] \in Session
          /\ sessions[k].created \in Nat
      BY <1>2, <2>1, <2>3, RowType DEF SessionOf
    <3>2. sessions'[k] = [sessions[k] EXCEPT !.expires = request[r].expires]
      BY <1>2, <2>1, <2>3 DEF TypeOK
    <3>3. /\ sessions'[k].expires = request[r].expires
          /\ sessions'[k].created = sessions[k].created
      BY <3>1, <3>2 DEF Session
    <3>4. /\ request[r].expires <= Ceiling(sessions[k])
          /\ \/ request[r].expires = request[r].at + Window
             \/ request[r].expires = Ceiling(sessions[k])
          /\ now <= request[r].at + request[r].age
          /\ request[r].expires <= now + Window
      BY <1>2, <2>1, <2>3, <3>1 DEF RequestInv, WriteInv, ClockInv, ToldInv, SessionOf
    <3>5. now \in Nat /\ request[r].at \in Nat /\ request[r].age \in Nat /\ request[r].age <= Delay
      BY RequestType, ConstantTypes DEF TypeOK
    <3>6. Ceiling(sessions'[k]) = Ceiling(sessions[k])
      BY <3>3 DEF Ceiling
    <3>7. request[r].expires = request[r].at + Window => request[r].expires + Delay >= now + Window
      BY <3>4, <3>5, ConstantTypes
    <3> QED
      BY <3>1, <3>3, <3>4, <3>6, <3>7 DEF Rewritten
  <2> QED
    BY <2>2, <2>3
<1> QED
  BY <1>1, <1>2 DEF Renew, SessionOf

LEMMA IssuedRewritten ==
  ASSUME SessionInv, [Next]_sessionVars
  PROVE  issued \subseteq issued' /\ \A k \in issued : Rewritten(k)
<1> USE DEF SessionInv
<1>0. issued \subseteq Tokens
  BY DEF TypeOK
<1>1. ASSUME NEW r \in Requests, NEW k \in Tokens, CreateSession(r, k)
      PROVE  issued \subseteq issued' /\ \A j \in issued : Rewritten(j)
  BY <1>0, <1>1 DEF CreateSession, TypeOK, Rewritten
<1>2. ASSUME NEW r \in Requests, Renew(r)
      PROVE  issued \subseteq issued' /\ \A j \in issued : Rewritten(j)
  BY <1>0, <1>2, RenewRewrites DEF Renew
<1>3. ASSUME NEW r \in Requests,
             Refuse(r) \/ RevokeSession(r) \/ RevokeOtherSessions(r) \/ PruneExpiredSessions
      PROVE  issued \subseteq issued' /\ \A j \in issued : Rewritten(j)
  BY <1>0, <1>3
  DEF Refuse, RevokeSession, RevokeOtherSessions, PruneExpiredSessions, TypeOK, Rewritten
<1>4. CASE PruneExpiredSessions
  BY <1>0, <1>4 DEF PruneExpiredSessions, TypeOK, Rewritten
<1>5. CASE UNCHANGED <<sessions, issued>>
  BY <1>5 DEF Rewritten
<1>6. ASSUME NEW r \in Requests,
             \/ \E u \in Users : Authenticate(r, u)
             \/ \E k \in Tokens : QuerySession(r, k)
             \/ Decide(r) \/ Serve(r)
      PROVE  UNCHANGED <<sessions, issued>>
  BY <1>6 DEF Authenticate, QuerySession, Decide, Serve, tables
<1>7. ASSUME (\E u \in Users : Deactivate(u)) \/ Crash \/ Tick \/ UNCHANGED sessionVars
      PROVE  UNCHANGED <<sessions, issued>>
  BY <1>7 DEF Deactivate, Crash, Tick, tables, sessionVars
<1> QED
  BY <1>1, <1>2, <1>3, <1>4, <1>5, <1>6, <1>7 DEF Next

\* Only a login inserts a row, and under a token nobody has seen.
LEMMA NewRow ==
  ASSUME SessionInv, [Next]_sessionVars, NEW k \in Tokens, k \notin issued
  PROVE  \/ sessions'[k] = None
         \/ /\ k \in issued' /\ now \in Nat
            /\ sessions'[k].created = now /\ sessions'[k].expires = now + Window
<1> USE DEF SessionInv
<1>1. sessions[k] = None /\ now \in Nat
  BY ConstantTypes DEF RowsIssued, TypeOK
<1>2. ASSUME NEW r \in Requests, NEW j \in Tokens, CreateSession(r, j)
      PROVE  \/ sessions'[k] = None
             \/ /\ k \in issued'
                /\ sessions'[k].created = now /\ sessions'[k].expires = now + Window
  BY <1>1, <1>2 DEF CreateSession, TypeOK
<1>3. ASSUME NEW r \in Requests, Renew(r)
      PROVE  sessions'[k] = None
  <2>1. request[r].token \in issued
    BY <1>3 DEF RequestInv, KnowsToken, Renew
  <2> QED
    BY <1>1, <1>3, <2>1 DEF Renew, TypeOK
<1>4. ASSUME NEW r \in Requests, Refuse(r) \/ RevokeSession(r) \/ RevokeOtherSessions(r)
      PROVE  sessions'[k] = None
  BY <1>1, <1>4 DEF Refuse, RevokeSession, RevokeOtherSessions, TypeOK
<1>5. CASE PruneExpiredSessions
  BY <1>1, <1>5 DEF PruneExpiredSessions
<1>6. CASE UNCHANGED sessions
  BY <1>1, <1>6
<1>7. ASSUME NEW r \in Requests,
             \/ \E u \in Users : Authenticate(r, u)
             \/ \E j \in Tokens : QuerySession(r, j)
             \/ Decide(r) \/ Serve(r)
      PROVE  UNCHANGED sessions
  BY <1>7 DEF Authenticate, QuerySession, Decide, Serve, tables
<1>8. ASSUME (\E u \in Users : Deactivate(u)) \/ Crash \/ Tick \/ UNCHANGED sessionVars
      PROVE  UNCHANGED sessions
  BY <1>8 DEF Deactivate, Crash, Tick, tables, sessionVars
<1> QED
  BY <1>1, <1>2, <1>3, <1>4, <1>5, <1>6, <1>7, <1>8 DEF Next

LEMMA RowsStep ==
  ASSUME SessionInv, [Next]_sessionVars
  PROVE  RowsIssued' /\ LifetimeBounded' /\ NotAhead'
<1> SUFFICES ASSUME NEW k \in Tokens, sessions'[k] # None
             PROVE  /\ k \in issued' /\ sessions'[k].expires <= Ceiling(sessions'[k])
                    /\ sessions'[k].expires <= now' + Window
  BY DEF RowsIssued, LifetimeBounded, NotAhead, Ceiling
<1>0. now \in Nat /\ now' \in {now, now + 1}
  <2>1. now \in Nat
    BY ConstantTypes DEF SessionInv, TypeOK
  <2> QED
    BY <2>1 DEF Next, sessionVars, tables, Authenticate, CreateSession, QuerySession, Decide,
                Refuse, Renew, Serve, RevokeSession, RevokeOtherSessions,
                PruneExpiredSessions, Deactivate, Crash, Tick
<1>1. CASE k \in issued
  <2>1. k \in issued' /\ Rewritten(k)
    BY <1>1, IssuedRewritten
  <2>2. /\ sessions'[k].expires <= Ceiling(sessions'[k])
        /\ sessions'[k].expires <= now + Window
    BY <2>1 DEF Rewritten, SessionInv, LifetimeBounded, NotAhead
  <2>3. TypeOK'
    BY TypeStep
  <2>4. sessions'[k].expires \in Nat
    BY <2>3 DEF TypeOK, Session
  <2> QED
    BY <1>0, <2>1, <2>2, <2>4, ConstantTypes
<1>2. CASE k \notin issued
  <2>1. /\ k \in issued' /\ now \in Nat
        /\ sessions'[k].created = now /\ sessions'[k].expires = now + Window
    BY <1>2, NewRow
  <2> QED
    BY <1>0, <2>1, SessionsConstantsOK DEF Ceiling
<1> QED
  BY <1>1, <1>2

-----------------------------------------------------------------------------
(* What the other requests' steps and the clock do to a request.             *)

LEMMA OthersKeepRequest ==
  ASSUME SessionInv, [Next]_sessionVars, NEW q \in Requests,
         request'[q] = request[q], now' = now
  PROVE  RequestInv(q)'
<1> USE DEF SessionInv
<1> DEFINE k == request[q].token
<1>1. issued \subseteq issued' /\ \A j \in issued : Rewritten(j)
  BY IssuedRewritten
<1>2. KnowsToken(q)' /\ LoginInv(q)' /\ ClockInv(q)'
  BY <1>1 DEF RequestInv, KnowsToken, LoginInv, ClockInv
<1>3. CASE request[q].pc \notin {"queried", "renew", "allowed"}
  BY <1>2, <1>3 DEF RequestInv, CopyInv, WriteInv, ToldInv
<1>4. CASE request[q].pc \in {"queried", "renew", "allowed"} /\ SessionOf(q)' = None
  BY <1>2, <1>4 DEF RequestInv, CopyInv, WriteInv, ToldInv, SessionOf, Known
<1>5. CASE request[q].pc \in {"queried", "renew", "allowed"} /\ SessionOf(q)' # None
  <2>1. k \in issued /\ k \in Tokens /\ Rewritten(k) /\ SessionOf(q)' = sessions'[k]
    BY <1>1, <1>5 DEF RequestInv, KnowsToken, TypeOK, SessionOf
  <2>2. CASE sessions'[k] = sessions[k]
    BY <1>2, <1>5, <2>1, <2>2
    DEF RequestInv, CopyInv, WriteInv, ToldInv, SessionOf, Ceiling, Known
  <2>3. CASE /\ sessions[k] # None
             /\ sessions'[k].created = sessions[k].created
             /\ sessions'[k].expires <= Ceiling(sessions'[k])
             /\ \/ sessions'[k].expires = Ceiling(sessions'[k])
                \/ sessions'[k].expires + Delay >= now + Window
    <3>1. SessionOf(q) = sessions[k] /\ Ceiling(SessionOf(q)') = Ceiling(SessionOf(q))
      BY <2>1, <2>3 DEF SessionOf, Ceiling
    <3>2. CopyInv(q)' /\ WriteInv(q)'
      BY <1>5, <2>1, <2>3, <3>1 DEF RequestInv, CopyInv, WriteInv, SessionOf, Ceiling
    <3>3. sessions'[k] \in Session /\ sessions'[k].expires \in Nat
      <4>1. TypeOK'
        BY TypeStep
      <4> QED
        BY <1>5, <2>1, <4>1 DEF TypeOK, Session
    <3>4. now \in Nat /\ Known(q) \in Nat /\ Known(q) <= now + Window /\ Known(q)' = Known(q)
      BY <1>5, ConstantTypes DEF TypeOK, RequestInv, ToldInv, Known
    <3>5. \/ sessions'[k].expires = Ceiling(sessions'[k])
          \/ sessions'[k].expires + Delay >= Known(q)
      BY <2>3, <3>3, <3>4, ConstantTypes
    <3>6. Ceiling(SessionOf(q))' = Ceiling(sessions'[k])
      BY <2>1 DEF Ceiling
    <3>7. ToldInv(q)'
      BY <1>5, <2>1, <3>4, <3>5, <3>6 DEF RequestInv, ToldInv
    <3> QED
      BY <1>2, <3>2, <3>7 DEF RequestInv
  <2> QED
    BY <1>5, <2>1, <2>2, <2>3 DEF Rewritten
<1> QED
  BY <1>3, <1>4, <1>5

LEMMA IdleKeepsInv ==
  ASSUME NEW q, request'[q] = Idle
  PROVE  RequestInv(q)'
BY DEF Idle, RequestInv, KnowsToken, LoginInv, CopyInv, WriteInv, ClockInv, ToldInv

LEMMA TickKeepsRequest ==
  ASSUME SessionInv, Tick, NEW q \in Requests
  PROVE  RequestInv(q)'
<1> USE DEF SessionInv
<1>1. CASE request[q] = Idle
  BY <1>1, IdleKeepsInv DEF Tick
<1>2. CASE request[q] # Idle
  <2>1. request'[q] = [request[q] EXCEPT !.age = @ + 1] /\ now' = now + 1
        /\ sessions' = sessions /\ issued' = issued
    BY <1>2 DEF Tick, tables
  <2>2. /\ request[q] \in Request
        /\ now \in Nat /\ request[q].at \in Nat /\ request[q].age \in Nat
    BY RequestType, ConstantTypes DEF TypeOK
  <2>3. /\ request'[q].pc = request[q].pc /\ request'[q].token = request[q].token
        /\ request'[q].user = request[q].user /\ request'[q].row = request[q].row
        /\ request'[q].expires = request[q].expires /\ request'[q].at = request[q].at
        /\ request'[q].age = request[q].age + 1 /\ request'[q].told = request[q].told
    BY <2>1, <2>2 DEF Request
  <2>4. SessionOf(q)' = SessionOf(q)
    BY <2>1, <2>3 DEF SessionOf
  <2>5. KnowsToken(q)' /\ LoginInv(q)' /\ CopyInv(q)' /\ WriteInv(q)'
    BY <2>1, <2>3, <2>4
    DEF RequestInv, KnowsToken, LoginInv, CopyInv, WriteInv, Ceiling
  <2>6. ClockInv(q)'
    BY <2>1, <2>2, <2>3 DEF RequestInv, ClockInv
  <2>7. ToldInv(q)'
    <3>1. Known(q)' = Known(q) /\ Ceiling(SessionOf(q))' = Ceiling(SessionOf(q))
      BY <2>3, <2>4 DEF Known, Ceiling
    <3>2. request[q].pc = "renew" /\ request[q].expires # None =>
            request[q].expires <= now' + Window
      BY <2>1, <2>2, RequestType, ConstantTypes DEF RequestInv, ToldInv
    <3>3. CASE request[q].pc \in {"queried", "renew", "allowed"}
      <4>1. Known(q) \in Nat /\ Known(q) <= now' + Window
        BY <2>1, <2>2, <3>3, ConstantTypes DEF RequestInv, ToldInv
      <4> QED
        BY <2>3, <2>4, <3>1, <3>2, <3>3, <4>1 DEF RequestInv, ToldInv
    <3>4. CASE request[q].pc \notin {"queried", "renew", "allowed"}
      BY <2>3, <3>4 DEF ToldInv
    <3> QED
      BY <3>3, <3>4
  <2> QED
    BY <2>5, <2>6, <2>7 DEF RequestInv
<1> QED
  BY <1>1, <1>2

-----------------------------------------------------------------------------
(* What its own steps do to a request.                                       *)

LEMMA AuthenticateKeepsInv ==
  ASSUME SessionInv, NEW r \in Requests, NEW u \in Users, Authenticate(r, u)
  PROVE  RequestInv(r)'
<1>1. request'[r].pc = "authenticated" /\ request'[r].user = u
  BY DEF Authenticate, SessionInv, TypeOK, Idle
<1> QED
  BY <1>1 DEF RequestInv, KnowsToken, LoginInv, CopyInv, WriteInv, ClockInv, ToldInv

LEMMA QueryKeepsInv ==
  ASSUME SessionInv, NEW r \in Requests, NEW k \in Tokens, QuerySession(r, k)
  PROVE  RequestInv(r)'
<1>1. /\ request'[r].pc = "queried" /\ request'[r].token = k
      /\ request'[r].row = sessions[k]
      /\ sessions' = sessions /\ issued' = issued
  BY DEF QuerySession, SessionInv, TypeOK, Idle, tables
<1>2. /\ sessions[k] \in Session /\ sessions[k].expires \in Nat /\ k \in issued
      /\ sessions[k].expires <= now + Window /\ now' = now
  BY RowType DEF QuerySession, SessionInv, RowsIssued, NotAhead
<1>3. KnowsToken(r)' /\ LoginInv(r)' /\ CopyInv(r)' /\ WriteInv(r)' /\ ClockInv(r)'
  BY <1>1, <1>2 DEF KnowsToken, LoginInv, CopyInv, WriteInv, ClockInv, SessionOf
<1>4. Known(r)' = sessions[k].expires /\ SessionOf(r)' = sessions[k]
  BY <1>1 DEF Known, SessionOf
<1>5. sessions[k].expires + Delay >= sessions[k].expires
  BY <1>2, ConstantTypes
<1>6. ToldInv(r)'
  BY <1>1, <1>2, <1>4, <1>5 DEF ToldInv
<1> QED
  BY <1>3, <1>6 DEF RequestInv

\* The decision: an expiry worth writing is the capped one, and the expiry of
\* the copy is the one to return until it is written.
LEMMA DecideKeepsInv ==
  ASSUME SessionInv, NEW r \in Requests, Decide(r)
  PROVE  RequestInv(r)'
<1> USE DEF SessionInv
<1> DEFINE row == request[r].row
           expiry == IF Renewed(row) > row.expires THEN Renewed(row) ELSE None
<1>1. /\ request[r] \in Request /\ request[r].pc = "queried"
      /\ row \in Session /\ row.expires \in Nat
      /\ now \in Nat /\ request[r].age \in Nat /\ request[r].age <= Delay
      /\ request[r].token \in issued /\ request[r].token \in Tokens
  BY RequestType DEF Decide, RequestInv, CopyInv, KnowsToken, TypeOK, Session
<1>2. /\ request'[r].pc \in {"refuse", "renew"}
      /\ request'[r].token = request[r].token
      /\ request'[r].at = now
      /\ request'[r].told = row.expires
      /\ request'[r].expires = expiry
      /\ request'[r].age = request[r].age
      /\ now' = now /\ sessions' = sessions /\ issued' = issued
  BY <1>1 DEF Decide, Request, TypeOK, tables
<1>3. /\ Renewed(row) \in Nat /\ Renewed(row) <= Ceiling(row)
      /\ Renewed(row) = now + Window \/ Renewed(row) = Ceiling(row)
      /\ Renewed(row) <= now + Window
  BY <1>1, RenewedCapped
<1>4. SessionOf(r)' = SessionOf(r)
  BY <1>2 DEF SessionOf
<1>5. KnowsToken(r)' /\ LoginInv(r)' /\ CopyInv(r)' /\ ClockInv(r)'
  BY <1>1, <1>2 DEF KnowsToken, LoginInv, CopyInv, ClockInv
<1>6. WriteInv(r)'
  <2> SUFFICES ASSUME expiry # None, SessionOf(r) # None
               PROVE  /\ expiry <= Ceiling(SessionOf(r))
                      /\ expiry = now + Window \/ expiry = Ceiling(SessionOf(r))
    BY <1>2, <1>4 DEF WriteInv, Ceiling
  <2>1. Ceiling(row) = Ceiling(SessionOf(r))
    BY <1>1 DEF RequestInv, CopyInv, Ceiling
  <2> QED
    BY <1>3, <2>1
<1>7. ToldInv(r)'
  <2>1. Known(r) = row.expires /\ Known(r)' = row.expires
    BY <1>1, <1>2 DEF Known
  <2>2. expiry # None => expiry <= now + Window
    BY <1>3
  <2>3. /\ Known(r) \in Nat /\ Known(r) <= now + Window
        /\ SessionOf(r) # None => \/ SessionOf(r).expires = Ceiling(SessionOf(r))
                                 \/ SessionOf(r).expires + Delay >= Known(r)
    BY <1>1 DEF RequestInv, ToldInv
  <2>4. Ceiling(SessionOf(r))' = Ceiling(SessionOf(r))
    BY <1>4 DEF Ceiling
  <2> QED
    BY <1>2, <1>4, <2>1, <2>2, <2>3, <2>4 DEF ToldInv
<1> QED
  BY <1>5, <1>6, <1>7 DEF RequestInv

\* Either the expiry is written and returned, or neither.
LEMMA RenewKeepsInv ==
  ASSUME SessionInv, NEW r \in Requests, Renew(r)
  PROVE  RequestInv(r)'
<1> USE DEF SessionInv
<1> DEFINE k == request[r].token
<1>1. /\ request[r] \in Request /\ request[r].pc = "renew"
      /\ k \in issued /\ k \in Tokens
      /\ now \in Nat /\ request[r].expires \in Nat \cup {None}
  BY RequestType, ConstantTypes DEF Renew, RequestInv, KnowsToken, TypeOK
<1>2. /\ request'[r].pc = "allowed" /\ request'[r].token = k
      /\ now' = now /\ issued' = issued
  BY <1>1 DEF Renew, Request, TypeOK
<1>3. KnowsToken(r)' /\ LoginInv(r)' /\ CopyInv(r)' /\ ClockInv(r)' /\ WriteInv(r)'
  BY <1>1, <1>2 DEF RequestInv, KnowsToken, LoginInv, CopyInv, ClockInv, WriteInv
<1>4. /\ SessionOf(r)' = sessions'[k] /\ SessionOf(r) = sessions[k]
      /\ Known(r) = request[r].told /\ Known(r)' = request'[r].told
  BY <1>1, <1>2 DEF SessionOf, Known
<1>5. /\ Known(r) \in Nat /\ Known(r) <= now + Window
      /\ SessionOf(r) # None => \/ SessionOf(r).expires = Ceiling(SessionOf(r))
                               \/ SessionOf(r).expires + Delay >= Known(r)
      /\ request[r].expires # None => request[r].expires <= now + Window
  BY <1>1 DEF RequestInv, ToldInv
<1>6. CASE sessions' = sessions /\ request'[r].told = request[r].told
  <2>1. Ceiling(SessionOf(r))' = Ceiling(SessionOf(r))
    BY <1>4, <1>6 DEF Ceiling
  <2>2. ToldInv(r)'
    BY <1>2, <1>4, <1>5, <1>6, <2>1 DEF ToldInv
  <2> QED
    BY <1>3, <2>2 DEF RequestInv
<1>7. CASE /\ request[r].expires # None /\ request'[r].told = request[r].expires
           /\ sessions[k] = None /\ sessions' = sessions
  <2>1. ToldInv(r)'
    BY <1>1, <1>2, <1>4, <1>5, <1>7 DEF ToldInv
  <2> QED
    BY <1>3, <2>1 DEF RequestInv
<1>8. CASE /\ request[r].expires # None /\ request'[r].told = request[r].expires
           /\ sessions[k] # None
           /\ sessions' = [sessions EXCEPT ![k].expires = request[r].expires]
  <2>1. sessions[k] \in Session
    BY <1>1, <1>8, RowType
  <2>2. sessions'[k] = [sessions[k] EXCEPT !.expires = request[r].expires]
    BY <1>1, <1>8 DEF TypeOK
  <2>3. sessions'[k].expires = request[r].expires
    BY <2>1, <2>2 DEF Session
  <2>4. request[r].expires \in Nat /\ request[r].expires + Delay >= request[r].expires
    BY <1>1, <1>8, ConstantTypes
  <2>5. ToldInv(r)'
    BY <1>2, <1>4, <1>5, <1>8, <2>3, <2>4 DEF ToldInv
  <2> QED
    BY <1>3, <2>5 DEF RequestInv
<1>9. \/ sessions' = sessions /\ request'[r].told = request[r].told
      \/ /\ request[r].expires # None /\ request'[r].told = request[r].expires
         /\ \/ sessions[k] = None /\ sessions' = sessions
            \/ /\ sessions[k] # None
               /\ sessions' = [sessions EXCEPT ![k].expires = request[r].expires]
  <2>1. CASE /\ sessions' = sessions
             /\ request' = [request EXCEPT ![r].pc = "allowed", ![r].expires = None]
    BY <1>1, <2>1 DEF Request, TypeOK
  <2>2. CASE /\ sessions' = IF sessions[k] = None \/ request[r].expires = None THEN sessions
                            ELSE [sessions EXCEPT ![k].expires = request[r].expires]
             /\ request' = [request EXCEPT
                  ![r].pc = "allowed", ![r].told = Told(r), ![r].expires = None]
    <3>1. request'[r].told = Told(r)
      BY <1>1, <2>2 DEF Request, TypeOK
    <3> QED
      BY <2>2, <3>1 DEF Told
  <2> QED
    BY <2>1, <2>2 DEF Renew
<1> QED
  BY <1>6, <1>7, <1>8, <1>9

-----------------------------------------------------------------------------
(* The inductive invariant and what follows from it.                         *)

LEMMA SessionInvInit == Init => SessionInv
<1> SUFFICES ASSUME Init PROVE SessionInv
  OBVIOUS
<1>1. TypeOK
  BY IdleType, ConstantTypes DEF Init, TypeOK
<1>2. \A r \in Requests : RequestInv(r)
  BY DEF Init, Idle, RequestInv, KnowsToken, LoginInv, CopyInv, WriteInv, ClockInv, ToldInv
<1> QED
  BY <1>1, <1>2 DEF Init, SessionInv, RowsIssued, LifetimeBounded, NotAhead

\* A step of one request leaves the others to themselves.
LEMMA RequestsStep ==
  ASSUME SessionInv, [Next]_sessionVars, NEW q \in Requests
  PROVE  RequestInv(q)'
<1>0. request \in [Requests -> Request]
  BY DEF SessionInv, TypeOK
<1>1. CASE request'[q] = request[q] /\ now' = now
  BY <1>1, OthersKeepRequest
<1>2. CASE request'[q] = Idle
  BY <1>2, IdleKeepsInv
<1>3. ASSUME NEW u \in Users, Authenticate(q, u) PROVE RequestInv(q)'
  BY <1>3, AuthenticateKeepsInv
<1>4. ASSUME NEW k \in Tokens, QuerySession(q, k) PROVE RequestInv(q)'
  BY <1>4, QueryKeepsInv
<1>5. CASE Decide(q)
  BY <1>5, DecideKeepsInv
<1>6. CASE Renew(q)
  BY <1>6, RenewKeepsInv
<1>7. CASE Tick
  BY <1>7, TickKeepsRequest
<1>8. ASSUME \/ \E k \in Tokens : CreateSession(q, k)
             \/ Refuse(q) \/ Serve(q) \/ RevokeSession(q) \/ RevokeOtherSessions(q)
             \/ Crash
      PROVE  request'[q] = Idle
  BY <1>0, <1>8
  DEF CreateSession, Refuse, Serve, RevokeSession, RevokeOtherSessions, Crash
<1>9. ASSUME NEW r \in Requests, r # q,
             \/ \E u \in Users : Authenticate(r, u)
             \/ \E k \in Tokens : CreateSession(r, k) \/ QuerySession(r, k)
             \/ Decide(r) \/ Refuse(r) \/ Renew(r)
             \/ Serve(r) \/ RevokeSession(r) \/ RevokeOtherSessions(r)
      PROVE  request'[q] = request[q] /\ now' = now
  BY <1>0, <1>9
  DEF Authenticate, CreateSession, QuerySession, Decide, Refuse, Renew,
      Serve, RevokeSession, RevokeOtherSessions
<1>10. ASSUME PruneExpiredSessions \/ (\E u \in Users : Deactivate(u)) \/ UNCHANGED sessionVars
       PROVE  request'[q] = request[q] /\ now' = now
  BY <1>10 DEF PruneExpiredSessions, Deactivate, sessionVars
<1> QED
  BY <1>1, <1>2, <1>3, <1>4, <1>5, <1>6, <1>7, <1>8, <1>9, <1>10 DEF Next

LEMMA SessionInvStep == SessionInv /\ [Next]_sessionVars => SessionInv'
BY TypeStep, RowsStep, RequestsStep DEF SessionInv

THEOREM SessionInvariant == Spec => []SessionInv
BY SessionInvInit, SessionInvStep, PTL DEF Spec

\* Every field of the requests and of the rows of sessions has its type.
THEOREM TypeCorrect == Spec => []TypeOK
<1>1. SessionInv => TypeOK
  BY DEF SessionInv
<1> QED
  BY <1>1, SessionInvariant, PTL

\* No interleaving of renewals, from copies however stale, extends a session
\* past the end of its absolute lifetime.
THEOREM LifetimeIsBounded == Spec => []LifetimeBounded
<1>1. SessionInv => LifetimeBounded
  BY DEF SessionInv
<1> QED
  BY <1>1, SessionInvariant, PTL

\* Whether its renewal is written, fails or is overwritten, the expiry that
\* ValidateSession returns is at most one request's duration later than the one
\* the row keeps while the request is served.
THEOREM ToldIsKept == Spec => []ToldIsUsable
<1>1. SessionInv => ToldIsUsable
  BY DEF SessionInv, RequestInv, ToldInv, Known, SessionOf, ToldIsUsable
<1> QED
  BY <1>1, SessionInvariant, PTL

\* No step brings an ended session back: neither a renewal that was decided
\* before the logout nor another login.
THEOREM EndedIsEnded == Spec => EndedStaysEnded
<1>1. ASSUME SessionInv, [Next]_sessionVars
      PROVE  [\A k \in issued : sessions[k] = None => sessions'[k] = None]_sessions
  BY <1>1, IssuedRewritten DEF Rewritten
<1> QED
  BY <1>1, SessionInvariant, PTL DEF Spec, EndedStaysEnded
=============================================================================
