------------------------- MODULE AuthSessionsProofs -------------------------
(***************************************************************************)
(* Proofs, for every set of users, sessions and handlers and every         *)
(* lifetime that satisfies the assumptions, of the safety properties that  *)
(* TLC checks on small instances of AuthSessions.                          *)
(***************************************************************************)
EXTENDS AuthSessions, TLAPS

-----------------------------------------------------------------------------
(* Every value keeps its type: no action of a handler, of the job or of an *)
(* administrator writes a row outside its columns.                         *)
LEMMA RowMoves ==
    ASSUME NEW row \in SessionRow, row.st # "unused",
           NEW st \in {"live", "revoked", "purged"}
    PROVE  [row EXCEPT !.st = st] \in SessionRow
BY DEF SessionRow, UnusedSession

(* A request that goes a step on keeps the type of its locals.             *)
LEMMA RequestMoves ==
    ASSUME NEW q \in Request, q.pc # "idle", NEW pc \in {"user", "session", "granted"}
    PROVE  [q EXCEPT !.pc = pc] \in Request
BY DEF Request, IdleRequest

(* Closing the sessions of a set of users keeps the type of the table.     *)
LEMMA RevokeAllTypes ==
    ASSUME TypeOK, NEW U, revokeAll(U)
    PROVE  sessions' \in [Sids -> SessionRow]
<1>1. ASSUME NEW s \in Sids PROVE sessions'[s] \in SessionRow
  <2>1. sessions[s] \in SessionRow
    BY DEF TypeOK
  <2>2. CASE sessions[s].st = "live" /\ sessions[s].user \in U
    BY <2>1, <2>2, RowMoves DEF revokeAll
  <2>3. CASE ~(sessions[s].st = "live" /\ sessions[s].user \in U)
    BY <2>1, <2>3 DEF revokeAll
  <2> QED  BY <2>2, <2>3
<1> QED  BY <1>1 DEF revokeAll

(* A step of a login keeps the types.                                      *)
LEMMA LoginTypes ==
    ASSUME TypeOK, NEW l \in Logins, LoginStep(l)
    PROVE  TypeOK'
<1> USE ConstantsAssumption
        DEF TypeOK, UserRow, TenantRow, SessionRow, AccessToken, RefreshToken,
            Login, Request, IdleLogin, IdleRequest, UnusedSession, tokenVars
<1>1. ASSUME NEW u \in Users, ComparePassword(l, u) PROVE TypeOK'
  BY <1>1 DEF ComparePassword, IdleLogin
<1>2. CASE RereadUser(l)
  <2> DEFINE u == logins[l].user
  <2>1. u \in Users /\ logins[l].proved \in Nat
    BY <1>2 DEF RereadUser
  <2>2. users[u].av \in Nat /\ users[u].pwd \in Nat
    BY <2>1
  <2> QED  BY <1>2, <2>1, <2>2 DEF RereadUser
<1>3. ASSUME NEW sid \in Sids, IssueSession(l, sid) PROVE TypeOK'
  BY <1>3 DEF IssueSession, IdleLogin, signTokens, lesser
<1>4. CASE LoginFails(l)
  BY <1>4 DEF LoginFails, IdleLogin
<1> QED  BY <1>1, <1>2, <1>3, <1>4 DEF LoginStep

(* So does an exchange, a replay or a logout.                              *)
LEMMA TokenTypes ==
    ASSUME TypeOK
    PROVE  /\ \A t \in refreshTokens : Refresh(t) \/ RefreshReuse(t) => TypeOK'
           /\ \A t \in accessTokens \cup refreshTokens : Logout(t) => TypeOK'
<1> USE ConstantsAssumption
        DEF TypeOK, UserRow, TenantRow, SessionRow, AccessToken, RefreshToken,
            Login, Request, IdleLogin, IdleRequest, UnusedSession, tokenVars
<1>1. ASSUME NEW t \in refreshTokens, Refresh(t) PROVE TypeOK'
  <2>1. sessions[t.sid].st = "live"
    BY <1>1 DEF Refresh, refreshAccepted, refreshChecks
  <2>2. t.sid \in Sids /\ t.user \in Users /\ t.av \in Nat
    OBVIOUS
  <2> QED  BY <1>1, <2>1, <2>2 DEF Refresh, signTokens, lesser
<1>2. ASSUME NEW t \in refreshTokens, RefreshReuse(t) PROVE TypeOK'
  <2>1. t.sid \in Sids /\ sessions[t.sid].st # "unused"
    BY <1>2 DEF RefreshReuse, refreshChecks
  <2>2. [sessions[t.sid] EXCEPT !.st = "revoked"] \in SessionRow
    BY <2>1, RowMoves
  <2> QED  BY <1>2, <2>1, <2>2, SMTT(20) DEF RefreshReuse
<1>3. ASSUME NEW t \in accessTokens \cup refreshTokens, Logout(t) PROVE TypeOK'
  BY <1>3 DEF Logout, revokeOne
<1> QED  BY <1>1, <1>2, <1>3

(* So does a step of a request.                                            *)
LEMMA RequestTypes ==
    ASSUME TypeOK, NEW r \in Requests, RequestStep(r)
    PROVE  TypeOK'
<1>1. ASSUME NEW t \in accessTokens, ReadUser(r, t) PROVE TypeOK'
  BY <1>1 DEF ReadUser, sessionOpen, TypeOK, AccessToken, Request, tokenVars
<1>2. CASE ReadSession(r)
  <2>1. [requests[r] EXCEPT !.pc = "session"] \in Request
    BY <1>2, RequestMoves DEF ReadSession, TypeOK
  <2> QED  BY <1>2, <2>1 DEF ReadSession, TypeOK, tokenVars
<1>3. CASE ReadTenant(r)
  <2>1. [requests[r] EXCEPT !.pc = "granted"] \in Request
    BY <1>3, RequestMoves DEF ReadTenant, TypeOK
  <2> QED  BY <1>3, <2>1 DEF ReadTenant, TypeOK, tokenVars
<1>4. CASE RequestEnds(r)
  BY <1>4 DEF RequestEnds, TypeOK, Request, tokenVars
<1> QED  BY <1>1, <1>2, <1>3, <1>4 DEF RequestStep

(* So do the changes of a user.                                            *)
LEMMA StaffTypes ==
    ASSUME TypeOK, NEW u \in Users, StaffStep(u)
    PROVE  TypeOK'
<1> USE ConstantsAssumption DEF TypeOK, UserRow, TenantRow, tokenVars
<1>1. CASE ChangePassword(u)
  <2>1. sessions' \in [Sids -> SessionRow]
    BY <1>1, RevokeAllTypes DEF ChangePassword
  <2> QED  BY <1>1, <2>1 DEF ChangePassword
<1>2. CASE UpdateEmployee(u)
  BY <1>2 DEF UpdateEmployee
<1>3. CASE RevokeAllForUser(u)
  <2>1. sessions' \in [Sids -> SessionRow]
    BY <1>3, RevokeAllTypes DEF RevokeAllForUser
  <2> QED  BY <1>3, <2>1 DEF RevokeAllForUser
<1>4. CASE LoseRevoke(u)
  BY <1>4 DEF LoseRevoke
<1>5. CASE DeleteEmployee(u)
  BY <1>5, ZenonT(40) DEF DeleteEmployee
<1>6. ASSUME NEW status \in Statuses, SetUserStatus(u, status) PROVE TypeOK'
  BY <1>6 DEF SetUserStatus
<1> QED  BY <1>1, <1>2, <1>3, <1>4, <1>5, <1>6 DEF StaffStep

(* So do the changes of a network.                                         *)
LEMMA TenantTypes ==
    ASSUME TypeOK, NEW t \in Tenants, TenantStep(t)
    PROVE  TypeOK'
<1> USE ConstantsAssumption DEF TypeOK, UserRow, TenantRow, tokenVars
<1>1. CASE BlockTenant(t)
  <2>1. sessions' \in [Sids -> SessionRow]
    BY <1>1, RevokeAllTypes DEF BlockTenant
  <2> QED  BY <1>1, <2>1, SMTT(20) DEF BlockTenant
<1>2. CASE UnblockTenant(t)
  BY <1>2 DEF UnblockTenant
<1>3. CASE SubscriptionLapses(t)
  BY <1>3 DEF SubscriptionLapses
<1>4. CASE UpdateTenant(t)
  BY <1>4 DEF UpdateTenant
<1> QED  BY <1>1, <1>2, <1>3, <1>4 DEF TenantStep

(* So does the hourly cleanup.                                             *)
LEMMA CleanupTypes ==
    ASSUME TypeOK, NEW locked \in SUBSET Sids, Cleanup(locked)
    PROVE  TypeOK'
<1> USE ConstantsAssumption
        DEF TypeOK, UserRow, TenantRow, SessionRow, AccessToken, RefreshToken,
            Login, Request, IdleLogin, IdleRequest, UnusedSession, tokenVars
<1>1. PICK D \in SUBSET {s \in Sids \ locked : dead(s)} :
        /\ sessions' = [s \in Sids |->
               IF s \in D THEN [sessions[s] EXCEPT !.st = "purged"] ELSE sessions[s]]
        /\ UNCHANGED <<now, users, tenants, tokenVars, logins, requests, revokesDue>>
  BY DEF Cleanup
<1>2. \A s \in D : sessions[s].st # "unused"
  BY <1>1 DEF dead
<1> QED  BY <1>1, <1>2, SMTT(20)

(* Every step keeps the types.                                             *)
LEMMA StepTypes == TypeOK /\ [Next]_vars => TypeOK'
<1> SUFFICES ASSUME TypeOK, [Next]_vars PROVE TypeOK'
  OBVIOUS
<1>1. CASE UNCHANGED vars
  BY <1>1 DEF vars, tokenVars, TypeOK
<1>2. CASE Tick
  BY <1>2 DEF Tick, tokenVars, TypeOK
<1> QED
  BY <1>1, <1>2, LoginTypes, TokenTypes, RequestTypes, StaffTypes, TenantTypes,
     CleanupTypes DEF Next

(* Type correctness, for every instance. *)
THEOREM TypeCorrect == Spec => []TypeOK
<1>1. Init => TypeOK
  BY ConstantsAssumption
     DEF Init, TypeOK, UserRow, TenantRow, SessionRow, Login, Request
<1> QED  BY <1>1, StepTypes, PTL DEF Spec

-----------------------------------------------------------------------------
(* What one step does to a user row, to a session row and to the tokens.   *)
userMoves(u) ==
    /\ users[u].av <= users'[u].av
    /\ users'[u].av = users[u].av => users'[u].pwd = users[u].pwd
    /\ users[u].deleted => users'[u].deleted

rowEnds(s) ==
    /\ sessions[s].st \in {"live", "revoked"}
    /\ \E st \in {"revoked", "purged"} :
           /\ sessions'[s] = [sessions[s] EXCEPT !.st = st]
           /\ st = "purged" => dead(s)

rowMoves(s) ==
    \/ sessions'[s] = sessions[s]
    \/ rowEnds(s)
    \/ \E l \in Logins : IssueSession(l, s)
    \/ \E t \in refreshTokens : t.sid = s /\ Refresh(t)

(* Every step moves the row of every user as userMoves says.               *)
LEMMA UsersMove ==
    ASSUME TypeOK, [Next]_vars, NEW u \in Users
    PROVE  userMoves(u)
<1> USE DEF TypeOK, UserRow, userMoves
<1>1. ASSUME UNCHANGED users PROVE userMoves(u)
  BY <1>1
<1>2. ASSUME NEW v \in Users, ChangePassword(v) PROVE userMoves(u)
  BY <1>2 DEF ChangePassword
<1>3. ASSUME NEW v \in Users, UpdateEmployee(v) PROVE userMoves(u)
  BY <1>3 DEF UpdateEmployee
<1>4. ASSUME NEW v \in Users, DeleteEmployee(v) PROVE userMoves(u)
  BY <1>4 DEF DeleteEmployee
<1>5. ASSUME NEW v \in Users, NEW status \in Statuses, SetUserStatus(v, status)
      PROVE  userMoves(u)
  BY <1>5 DEF SetUserStatus
<1>6. ASSUME NEW t \in Tenants, BlockTenant(t) PROVE userMoves(u)
  BY <1>6 DEF BlockTenant
<1>7. ASSUME NEW l \in Logins, LoginStep(l) PROVE UNCHANGED users
  BY <1>7 DEF LoginStep, ComparePassword, RereadUser, IssueSession, LoginFails
<1>8. ASSUME NEW r \in Requests, RequestStep(r) PROVE UNCHANGED users
  BY <1>8 DEF RequestStep, ReadUser, ReadSession, ReadTenant, RequestEnds
<1>9. ASSUME NEW v \in Users, RevokeAllForUser(v) \/ LoseRevoke(v)
      PROVE  UNCHANGED users
  BY <1>9 DEF RevokeAllForUser, LoseRevoke
<1>10. ASSUME NEW t \in Tenants,
              UnblockTenant(t) \/ SubscriptionLapses(t) \/ UpdateTenant(t)
       PROVE  UNCHANGED users
  BY <1>10 DEF UnblockTenant, SubscriptionLapses, UpdateTenant
<1>11. ASSUME NEW t \in accessTokens \cup refreshTokens,
              Refresh(t) \/ RefreshReuse(t) \/ Logout(t)
       PROVE  UNCHANGED users
  BY <1>11 DEF Refresh, RefreshReuse, Logout
<1>12. ASSUME NEW locked \in SUBSET Sids, Cleanup(locked) PROVE UNCHANGED users
  BY <1>12 DEF Cleanup
<1>13. ASSUME Tick \/ UNCHANGED vars PROVE UNCHANGED users
  BY <1>13 DEF Tick, vars
<1> QED
  BY <1>1, <1>2, <1>3, <1>4, <1>5, <1>6, <1>7, <1>8, <1>9, <1>10, <1>11, <1>12, <1>13
     DEF Next, StaffStep, TenantStep

(* Closing sessions moves rows as rowMoves says.                           *)
LEMMA RevokeAllMoves ==
    ASSUME TypeOK, NEW s \in Sids, NEW U, revokeAll(U)
    PROVE  rowMoves(s)
BY DEF revokeAll, rowMoves, rowEnds

(* Every step moves every session row as rowMoves says.                    *)
LEMMA RowsMove ==
    ASSUME TypeOK, [Next]_vars, NEW s \in Sids
    PROVE  rowMoves(s)
<1>1. ASSUME UNCHANGED sessions PROVE rowMoves(s)
  BY <1>1 DEF rowMoves
<1>2. ASSUME NEW l \in Logins, LoginStep(l) PROVE rowMoves(s)
  <2>1. ASSUME NEW sid \in Sids, IssueSession(l, sid) PROVE rowMoves(s)
    <3>1. CASE sid = s
      BY <2>1, <3>1 DEF rowMoves
    <3>2. CASE sid # s
      BY <2>1, <3>2 DEF rowMoves, IssueSession, TypeOK
    <3> QED  BY <3>1, <3>2
  <2> QED
    BY <1>1, <1>2, <2>1 DEF LoginStep, ComparePassword, RereadUser, LoginFails
<1>3. ASSUME NEW t \in refreshTokens, Refresh(t) PROVE rowMoves(s)
  <2>1. CASE t.sid = s
    BY <1>3, <2>1 DEF rowMoves
  <2>2. CASE t.sid # s
    BY <1>3, <2>2 DEF rowMoves, Refresh, TypeOK
  <2> QED  BY <2>1, <2>2
<1>4. ASSUME NEW t \in refreshTokens, RefreshReuse(t) PROVE rowMoves(s)
  BY <1>4 DEF RefreshReuse, refreshChecks, rowMoves, rowEnds, TypeOK
<1>5. ASSUME NEW t \in accessTokens \cup refreshTokens, Logout(t) PROVE rowMoves(s)
  <2>1. CASE s = t.sid /\ sessions[s].st = "live" /\ sessions[s].user = t.user
    BY <1>5, <2>1 DEF Logout, revokeOne, rowMoves, rowEnds, TypeOK
  <2>2. CASE s # t.sid
    BY <1>5, <2>2 DEF Logout, revokeOne, rowMoves, TypeOK
  <2>3. CASE s = t.sid /\ ~(sessions[s].st = "live" /\ sessions[s].user = t.user)
    <3>1. sessions' = [sessions EXCEPT ![s].st = sessions[s].st]
      BY <1>5, <2>3 DEF Logout, revokeOne
    <3>2. [sessions[s] EXCEPT !.st = sessions[s].st] = sessions[s]
      BY DEF TypeOK, SessionRow, UnusedSession
    <3> QED  BY <3>1, <3>2 DEF rowMoves, TypeOK
  <2> QED  BY <2>1, <2>2, <2>3
<1>6. ASSUME NEW u \in Users, StaffStep(u) PROVE rowMoves(s)
  BY <1>1, <1>6, RevokeAllMoves
     DEF StaffStep, ChangePassword, UpdateEmployee, RevokeAllForUser, LoseRevoke,
         DeleteEmployee, SetUserStatus
<1>7. ASSUME NEW t \in Tenants, TenantStep(t) PROVE rowMoves(s)
  BY <1>1, <1>7, RevokeAllMoves
     DEF TenantStep, BlockTenant, UnblockTenant, SubscriptionLapses, UpdateTenant
<1>8. ASSUME NEW locked \in SUBSET Sids, Cleanup(locked) PROVE rowMoves(s)
  <2>1. PICK D \in SUBSET {x \in Sids \ locked : dead(x)} :
          sessions' = [x \in Sids |->
             IF x \in D THEN [sessions[x] EXCEPT !.st = "purged"] ELSE sessions[x]]
      BY <1>8 DEF Cleanup
  <2> QED  BY <2>1 DEF dead, rowMoves, rowEnds
<1>9. ASSUME NEW r \in Requests, RequestStep(r) PROVE rowMoves(s)
  BY <1>1, <1>9 DEF RequestStep, ReadUser, ReadSession, ReadTenant, RequestEnds
<1>10. ASSUME Tick \/ UNCHANGED vars PROVE rowMoves(s)
  BY <1>1, <1>10 DEF Tick, vars
<1> QED
  BY <1>2, <1>3, <1>4, <1>5, <1>6, <1>7, <1>8, <1>9, <1>10 DEF Next

(* Tokens are signed by IssueSession and Refresh only.                     *)
LEMMA TokensMove ==
    ASSUME [Next]_vars
    PROVE  \/ UNCHANGED tokenVars
           \/ \E l \in Logins, s \in Sids : IssueSession(l, s)
           \/ \E t \in refreshTokens : Refresh(t)
BY DEF Next, LoginStep, RequestStep, StaffStep, TenantStep, ComparePassword, RereadUser,
       LoginFails, RefreshReuse, Logout, ReadUser, ReadSession, ReadTenant, RequestEnds,
       ChangePassword, UpdateEmployee, RevokeAllForUser, LoseRevoke, DeleteEmployee,
       SetUserStatus, BlockTenant, UnblockTenant, SubscriptionLapses, UpdateTenant,
       Cleanup, Tick, vars, tokenVars

-----------------------------------------------------------------------------
(* What one step does to the clock, the handlers' variables and a network. *)
LEMMA TimeMoves == TypeOK /\ [Next]_vars => now <= now'
<1>1. TypeOK /\ Tick => now <= now'
  BY DEF TypeOK, Tick
<1>2. [Next]_vars => Tick \/ now' = now
  BY DEF Next, LoginStep, RequestStep, StaffStep, TenantStep, ComparePassword,
         RereadUser, IssueSession, LoginFails, Refresh, RefreshReuse, Logout, ReadUser,
         ReadSession, ReadTenant, RequestEnds, ChangePassword, UpdateEmployee,
         RevokeAllForUser, LoseRevoke, DeleteEmployee, SetUserStatus, BlockTenant,
         UnblockTenant, SubscriptionLapses, UpdateTenant, Cleanup, vars
<1>3. TypeOK /\ now' = now => now <= now'
  BY DEF TypeOK
<1> QED  BY <1>1, <1>2, <1>3

(* What a step may do to the locals of a login.                            *)
LEMMA LoginsMove ==
    ASSUME TypeOK, [Next]_vars, NEW l \in Logins
    PROVE  \/ logins'[l] = logins[l]
           \/ logins'[l].pc # "authenticated"
           \/ RereadUser(l)
<1>1. ASSUME NEW k \in Logins, LoginStep(k), ~RereadUser(l)
      PROVE  logins'[l] = logins[l] \/ logins'[l].pc # "authenticated"
  <2>1. CASE k # l
    BY <1>1, <2>1 DEF LoginStep, ComparePassword, RereadUser, IssueSession, LoginFails,
                      TypeOK
  <2>2. CASE k = l
    <3>1. ASSUME NEW u \in Users, ComparePassword(l, u)
          PROVE  logins'[l].pc = "compared"
      BY <3>1 DEF ComparePassword, TypeOK
    <3>2. ASSUME NEW s \in Sids, IssueSession(l, s) PROVE logins'[l].pc = "idle"
      BY <3>2 DEF IssueSession, IdleLogin, TypeOK
    <3>3. ASSUME LoginFails(l) PROVE logins'[l].pc = "idle"
      BY <3>3 DEF LoginFails, IdleLogin, TypeOK
    <3> QED  BY <1>1, <2>2, <3>1, <3>2, <3>3 DEF LoginStep
  <2> QED  BY <2>1, <2>2
<1>2. ASSUME [Next]_vars, ~\E k \in Logins : LoginStep(k) PROVE UNCHANGED logins
  BY <1>2
     DEF Next, RequestStep, StaffStep, TenantStep, Refresh, RefreshReuse, Logout,
         ReadUser, ReadSession, ReadTenant, RequestEnds, ChangePassword,
         UpdateEmployee, RevokeAllForUser, LoseRevoke, DeleteEmployee, SetUserStatus,
         BlockTenant, UnblockTenant, SubscriptionLapses, UpdateTenant, Cleanup, Tick,
         vars
<1> QED  BY <1>1, <1>2

(* What a step may do to the locals of a request.                          *)
LEMMA RequestsMove ==
    ASSUME TypeOK, [Next]_vars, NEW r \in Requests
    PROVE  \/ requests'[r] = requests[r]
           \/ requests'[r].pc = "idle"
           \/ \E t \in accessTokens : ReadUser(r, t)
           \/ ReadSession(r)
           \/ ReadTenant(r)
<1>1. ASSUME NEW q \in Requests, RequestStep(q), q # r PROVE requests'[r] = requests[r]
  BY <1>1 DEF RequestStep, ReadUser, ReadSession, ReadTenant, RequestEnds, TypeOK
<1>2. ASSUME RequestEnds(r) PROVE requests'[r].pc = "idle"
  BY <1>2 DEF RequestEnds, IdleRequest, TypeOK
<1>3. ASSUME [Next]_vars, ~\E q \in Requests : RequestStep(q) PROVE UNCHANGED requests
  BY <1>3
     DEF Next, LoginStep, StaffStep, TenantStep, ComparePassword, RereadUser,
         IssueSession, LoginFails, Refresh, RefreshReuse, Logout, ChangePassword,
         UpdateEmployee, RevokeAllForUser, LoseRevoke, DeleteEmployee, SetUserStatus,
         BlockTenant, UnblockTenant, SubscriptionLapses, UpdateTenant, Cleanup, Tick,
         vars
<1> QED  BY <1>1, <1>2, <1>3 DEF RequestStep

(* A network becomes blocked by BlockTenant only.                          *)
LEMMA TenantsMove ==
    ASSUME TypeOK, [Next]_vars, NEW t \in Tenants
    PROVE  \/ BlockTenant(t)
           \/ tenants'[t].status = "blocked" => tenants[t].status = "blocked"
<1>1. ASSUME NEW x \in Tenants, TenantStep(x), ~BlockTenant(t)
      PROVE  tenants'[t].status = "blocked" => tenants[t].status = "blocked"
  <2>1. CASE BlockTenant(x)
    BY <1>1, <2>1 DEF BlockTenant, TypeOK
  <2>2. CASE ~BlockTenant(x)
    BY <1>1, <2>2 DEF TenantStep, UnblockTenant, SubscriptionLapses,
                      UpdateTenant, TypeOK, TenantRow
  <2> QED  BY <2>1, <2>2
<1>2. ASSUME [Next]_vars, ~\E x \in Tenants : TenantStep(x) PROVE UNCHANGED tenants
  BY <1>2
     DEF Next, LoginStep, RequestStep, StaffStep, ComparePassword, RereadUser,
         IssueSession, LoginFails, Refresh, RefreshReuse, Logout, ReadUser,
         ReadSession, ReadTenant, RequestEnds, ChangePassword, UpdateEmployee,
         RevokeAllForUser, LoseRevoke, DeleteEmployee, SetUserStatus, Cleanup, Tick,
         vars
<1> QED  BY <1>1, <1>2

-----------------------------------------------------------------------------
(* A rotation keeps the identity of the row.                               *)
LEMMA RefreshRow ==
    ASSUME TypeOK, NEW t \in refreshTokens, Refresh(t)
    PROVE  LET row == sessions[t.sid] IN
           /\ row.st = "live" /\ row.user = t.user /\ row.av = t.av
           /\ sessions'[t.sid] =
                  [row EXCEPT !.jti = @ + 1,
                              !.refreshExp = lesser(now + RefreshLife, row.chainExp)]
<1>1. t.sid \in Sids
  BY DEF TypeOK, RefreshToken
<1> QED  BY <1>1 DEF Refresh, refreshAccepted, refreshChecks, TypeOK

(* What the four kinds of change leave alone in a row that is in use.      *)
LEMMA RowKept ==
    ASSUME TypeOK, [Next]_vars, NEW s \in Sids, sessions[s].st # "unused"
    PROVE  /\ sessions'[s].user = sessions[s].user
           /\ sessions'[s].av = sessions[s].av
           /\ sessions'[s].seen = sessions[s].seen
           /\ sessions'[s].chainStart = sessions[s].chainStart
           /\ sessions'[s].chainExp = sessions[s].chainExp
           /\ sessions[s].jti <= sessions'[s].jti
           /\ sessions'[s].st # "unused"
           /\ sessions'[s].st = "live" => sessions[s].st = "live"
<1> DEFINE row == sessions[s]
<1> DEFINE kept ==
        /\ sessions'[s].user = row.user /\ sessions'[s].av = row.av
        /\ sessions'[s].seen = row.seen /\ sessions'[s].chainStart = row.chainStart
        /\ sessions'[s].chainExp = row.chainExp /\ row.jti <= sessions'[s].jti
        /\ sessions'[s].st # "unused" /\ (sessions'[s].st = "live" => row.st = "live")
<1>0. row \in SessionRow /\ row.jti \in Nat
  BY DEF TypeOK, SessionRow, UnusedSession
<1>1. ASSUME sessions'[s] = row PROVE kept
  BY <1>0, <1>1
<1>2. ASSUME rowEnds(s) PROVE kept
  <2>1. PICK st \in {"revoked", "purged"} : sessions'[s] = [row EXCEPT !.st = st]
    BY <1>2 DEF rowEnds
  <2> QED  BY <1>0, <2>1 DEF SessionRow, UnusedSession
<1>3. ASSUME NEW l \in Logins, IssueSession(l, s) PROVE kept
  BY <1>3 DEF IssueSession
<1>4. ASSUME NEW t \in refreshTokens, t.sid = s, Refresh(t) PROVE kept
  <2> DEFINE exp == lesser(now + RefreshLife, row.chainExp)
  <2>1. /\ sessions'[s] = [row EXCEPT !.jti = @ + 1, !.refreshExp = exp]
        /\ row.st = "live"
    BY <1>4, RefreshRow
  <2> HIDE DEF exp
  <2> QED  BY <1>0, <2>1 DEF SessionRow, UnusedSession
<1> QED  BY <1>0, <1>1, <1>2, <1>3, <1>4, RowsMove
            DEF rowMoves
-----------------------------------------------------------------------------
(* The inductive invariant.  A session and a login in flight are never     *)
(* ahead of the version of their user, and at the same version they have   *)
(* seen the same password; a chain has a fixed length.                     *)
VersionsBehind ==
    /\ \A s \in Sids : sessions[s].st # "unused" =>
           /\ sessions[s].av <= users[sessions[s].user].av
           /\ sessions[s].av = users[sessions[s].user].av =>
                  sessions[s].seen = users[sessions[s].user].pwd
           /\ sessions[s].chainExp = sessions[s].chainStart + ChainLife
    /\ \A l \in Logins : logins[l].pc = "authenticated" =>
           /\ logins[l].av <= users[logins[l].user].av
           /\ logins[l].av = users[logins[l].user].av =>
                  logins[l].seen = users[logins[l].user].pwd

(* A token was signed for the row it names, after the chain began, and the *)
(* row lasts longer than the access token unless the chain is at its end.  *)
ownsAccess(t, row) ==
    /\ row.st # "unused" /\ row.user = t.user /\ row.av = t.av
    /\ row.chainStart <= t.iat /\ t.iat <= now
    /\ t.iat + AccessLife <= row.refreshExp \/ row.refreshExp = row.chainExp

ownsRefresh(t, row) ==
    row.st # "unused" /\ t.jti <= row.jti /\ row.chainStart <= now

TokensOwned ==
    /\ \A t \in accessTokens : ownsAccess(t, sessions[t.sid])
    /\ \A t \in refreshTokens : ownsRefresh(t, sessions[t.sid])
    /\ \A t1, t2 \in refreshTokens : t1.sid = t2.sid /\ t1.jti = t2.jti => t1 = t2

(* A request past its first read has an issued session; if that was closed *)
(* when the request arrived it is not live now, and the second read fails. *)
RequestsFenced ==
    \A r \in Requests :
        /\ requests[r].pc = "user" /\ ~requests[r].wasOpen =>
               sessions[requests[r].sid].st \in {"revoked", "purged"}
        /\ requests[r].pc \in {"session", "granted"} => requests[r].wasOpen

IInv == TypeOK /\ VersionsBehind /\ BlockedTenantHasNoOpenSession
               /\ TokensOwned /\ RequestsFenced

(* The empty database satisfies the invariant.                             *)
LEMMA InitInvariant == Init => IInv
<1>1. Init => TypeOK
  BY ConstantsAssumption
     DEF Init, TypeOK, UserRow, TenantRow, SessionRow, Login, Request
<1>2. Init => VersionsBehind /\ BlockedTenantHasNoOpenSession
  BY DEF Init, VersionsBehind, BlockedTenantHasNoOpenSession, sessionOpen,
         UnusedSession, IdleLogin
<1>3. Init => TokensOwned /\ RequestsFenced
  BY DEF Init, TokensOwned, RequestsFenced, IdleRequest
<1> QED  BY <1>1, <1>2, <1>3 DEF IInv

(* A new session carries the version and the password its user has now,    *)
(* because IssueSession compares the version under the lock.               *)
LEMMA IssuedRow ==
    ASSUME IInv, NEW l \in Logins, NEW s \in Sids, IssueSession(l, s)
    PROVE  LET u == logins[l].user IN
           /\ u \in Users
           /\ sessions[s].st = "unused"
           /\ sessions'[s].st = "live"
           /\ sessions'[s].user = u
           /\ sessions'[s].av = users[u].av
           /\ sessions'[s].jti = 0
           /\ sessions'[s].seen = users[u].pwd
           /\ sessions'[s].chainStart = now
           /\ sessions'[s].chainExp = now + ChainLife
           /\ sessions'[s].refreshExp = lesser(now + RefreshLife, now + ChainLife)
           /\ ~users[u].deleted
           /\ tenantAdmits(u)
           /\ users' = users /\ tenants' = tenants /\ now' = now
<1>1. logins[l].pc = "authenticated" /\ logins[l].user \in Users
  BY DEF IssueSession, IInv, TypeOK, Login, IdleLogin
<1>2. logins[l].seen = users[logins[l].user].pwd
  BY <1>1 DEF IssueSession, mayUse, IInv, VersionsBehind
<1> QED  BY <1>1, <1>2 DEF IssueSession, mayUse, IInv, TypeOK

(* A row that was ever inserted names a user and a version.                *)
LEMMA SessionUser ==
    ASSUME TypeOK, NEW s \in Sids, sessions[s].st # "unused"
    PROVE  sessions[s].user \in Users /\ sessions[s].av \in Nat
BY DEF TypeOK, SessionRow, UnusedSession

(* No step puts a version ahead of the one of its user.                    *)
LEMMA VersionsStep ==
    ASSUME IInv, [Next]_vars
    PROVE  VersionsBehind'
<1> USE DEF IInv
<1>1. ASSUME NEW s \in Sids, sessions'[s].st # "unused"
      PROVE  /\ sessions'[s].av <= users'[sessions'[s].user].av
             /\ sessions'[s].av = users'[sessions'[s].user].av =>
                    sessions'[s].seen = users'[sessions'[s].user].pwd
             /\ sessions'[s].chainExp = sessions'[s].chainStart + ChainLife
  <2>1. CASE sessions[s].st # "unused"
    <3> DEFINE u == sessions[s].user
    <3>1. /\ u \in Users /\ sessions[s].av \in Nat
          /\ users[u].av \in Nat /\ users'[u].av \in Nat
      BY <2>1, SessionUser, StepTypes DEF TypeOK, UserRow
    <3>2. userMoves(u)
      BY <3>1, UsersMove
    <3>3. /\ sessions'[s].user = u /\ sessions'[s].av = sessions[s].av
          /\ sessions'[s].seen = sessions[s].seen
          /\ sessions'[s].chainStart = sessions[s].chainStart
          /\ sessions'[s].chainExp = sessions[s].chainExp
      BY <2>1, RowKept
    <3>4. /\ sessions[s].av <= users[u].av
          /\ sessions[s].av = users[u].av => sessions[s].seen = users[u].pwd
          /\ sessions[s].chainExp = sessions[s].chainStart + ChainLife
      BY <2>1 DEF VersionsBehind
    <3> QED  BY <3>1, <3>2, <3>3, <3>4 DEF userMoves
  <2>2. CASE sessions[s].st = "unused"
    <3>1. PICK l \in Logins : IssueSession(l, s)
      BY <1>1, <2>2, RowsMove, RefreshRow DEF rowMoves, rowEnds
    <3> QED  BY <3>1, IssuedRow DEF TypeOK, UserRow
  <2> QED  BY <2>1, <2>2
<1>2. ASSUME NEW l \in Logins, logins'[l].pc = "authenticated"
      PROVE  /\ logins'[l].av <= users'[logins'[l].user].av
             /\ logins'[l].av = users'[logins'[l].user].av =>
                    logins'[l].seen = users'[logins'[l].user].pwd
  <2>1. CASE logins'[l] = logins[l]
    <3> DEFINE u == logins[l].user
    <3>1. /\ u \in Users /\ logins[l].av \in Nat
          /\ users[u].av \in Nat /\ users'[u].av \in Nat
      BY <1>2, <2>1, StepTypes DEF TypeOK, UserRow, Login, IdleLogin
    <3>2. userMoves(u)
      BY <3>1, UsersMove
    <3>3. /\ logins[l].av <= users[u].av
          /\ logins[l].av = users[u].av => logins[l].seen = users[u].pwd
      BY <1>2, <2>1 DEF VersionsBehind
    <3> QED  BY <2>1, <3>1, <3>2, <3>3 DEF userMoves
  <2>2. CASE RereadUser(l)
    <3>1. logins[l].user \in Users
      BY <2>2 DEF RereadUser, TypeOK, Login, IdleLogin
    <3> QED  BY <2>2, <3>1 DEF RereadUser, TypeOK, UserRow
  <2> QED  BY <1>2, <2>1, <2>2, LoginsMove
<1> QED  BY <1>1, <1>2 DEF VersionsBehind

(* Once closed a session stays closed: a step opens one only by issuing it. *)
LEMMA NeverReopened ==
    ASSUME IInv, [Next]_vars, NEW s \in Sids, sessionOpen(s)'
    PROVE  \/ /\ sessionOpen(s)
              /\ sessions'[s].user = sessions[s].user
              /\ users'[sessions[s].user].av = users[sessions[s].user].av
           \/ \E l \in Logins : IssueSession(l, s)
<1> USE DEF IInv
<1>1. CASE sessions[s].st # "unused"
  <2> DEFINE u == sessions[s].user
  <2>1. /\ u \in Users /\ sessions[s].av \in Nat
        /\ users[u].av \in Nat /\ users'[u].av \in Nat
    BY <1>1, SessionUser, StepTypes DEF TypeOK, UserRow
  <2>2. userMoves(u)
    BY <2>1, UsersMove
  <2>3. /\ sessions'[s].user = u /\ sessions'[s].av = sessions[s].av
        /\ sessions'[s].st = "live" => sessions[s].st = "live"
    BY <1>1, RowKept
  <2>4. sessions[s].av <= users[u].av
    BY <1>1 DEF VersionsBehind
  <2> QED  BY <2>1, <2>2, <2>3, <2>4 DEF userMoves, sessionOpen
<1>2. CASE sessions[s].st = "unused"
  BY <1>2, RowsMove, RefreshRow DEF rowMoves, rowEnds, sessionOpen
<1> QED  BY <1>1, <1>2

(* No step opens a session of a user of a blocked network.                 *)
LEMMA BlockedStep ==
    ASSUME IInv, [Next]_vars
    PROVE  BlockedTenantHasNoOpenSession'
<1> USE DEF IInv
<1> SUFFICES ASSUME NEW s \in Sids, sessionOpen(s)',
                    TenantOf[sessions'[s].user] # None,
                    tenants'[TenantOf[sessions'[s].user]].status = "blocked"
             PROVE  FALSE
  BY DEF BlockedTenantHasNoOpenSession
<1>1. ASSUME NEW l \in Logins, IssueSession(l, s) PROVE FALSE
  BY <1>1, IssuedRow DEF tenantAdmits
<1>2. /\ sessionOpen(s)
      /\ sessions'[s].user = sessions[s].user
      /\ users'[sessions[s].user].av = users[sessions[s].user].av
  BY <1>1, NeverReopened
<1> DEFINE u == sessions[s].user
           t == TenantOf[u]
<1>3. u \in Users /\ t \in Tenants
  BY <1>2, SessionUser, ConstantsAssumption DEF sessionOpen
<1>4. ~BlockTenant(t)
  <2> SUFFICES ASSUME BlockTenant(t) PROVE FALSE
    OBVIOUS
  <2>1. u \in staff(t)
    BY <1>2, <1>3 DEF staff, sessionOpen
  <2>2. users'[u].av = users[u].av + 1
    BY <1>3, <2>1 DEF BlockTenant, TypeOK, UserRow
  <2>3. users[u].av \in Nat
    BY <1>3 DEF TypeOK, UserRow
  <2> QED  BY <1>2, <2>2, <2>3
<1>5. tenants[t].status = "blocked"
  BY <1>2, <1>3, <1>4, TenantsMove
<1> QED  BY <1>2, <1>5 DEF BlockedTenantHasNoOpenSession

(* Tokens stay with their row: rotation hands the highest number to the    *)
(* token it signs, and renews the row for longer than any token lasts.     *)
LEMMA TokenKept ==
    ASSUME IInv, [Next]_vars
    PROVE  /\ \A t \in accessTokens : ownsAccess(t, sessions[t.sid])'
           /\ \A t \in refreshTokens : ownsRefresh(t, sessions[t.sid])'
<1> USE DEF IInv
<1>1. ASSUME NEW t \in accessTokens PROVE ownsAccess(t, sessions[t.sid])'
  <2> DEFINE s == t.sid
  <2>1. /\ s \in Sids /\ t.iat \in Nat /\ now \in Nat /\ now' \in Nat /\ now <= now'
        /\ sessions[s].st # "unused"
        /\ ownsAccess(t, sessions[s])
    BY TimeMoves, StepTypes DEF TypeOK, AccessToken, TokensOwned, ownsAccess
  <2>2. /\ sessions'[s].user = sessions[s].user
        /\ sessions'[s].av = sessions[s].av
        /\ sessions'[s].chainStart = sessions[s].chainStart
        /\ sessions'[s].chainExp = sessions[s].chainExp
        /\ sessions'[s].st # "unused"
    BY <2>1, RowKept
  <2>3. \/ sessions'[s].refreshExp = sessions[s].refreshExp
        \/ sessions'[s].refreshExp = lesser(now + RefreshLife, sessions[s].chainExp)
    <3>1. sessions[s] \in SessionRow
      BY <2>1 DEF TypeOK
    <3>2. CASE rowEnds(s)
      <4>1. PICK st \in {"revoked", "purged"} : sessions'[s] = [sessions[s] EXCEPT !.st = st]
        BY <3>2 DEF rowEnds
      <4> QED  BY <3>1, <4>1 DEF SessionRow, UnusedSession
    <3>3. ASSUME NEW l \in Logins, IssueSession(l, s) PROVE FALSE
      BY <2>1, <3>3 DEF IssueSession
    <3>4. ASSUME NEW x \in refreshTokens, x.sid = s, Refresh(x)
          PROVE  sessions'[s].refreshExp = lesser(now + RefreshLife, sessions[s].chainExp)
      <4> DEFINE exp == lesser(now + RefreshLife, sessions[s].chainExp)
      <4>1. sessions'[s] = [sessions[s] EXCEPT !.jti = @ + 1, !.refreshExp = exp]
        BY <3>4, RefreshRow
      <4> HIDE DEF exp
      <4>2. sessions'[s].refreshExp = exp
        BY <3>1, <4>1 DEF SessionRow, UnusedSession
      <4> QED  BY <4>2 DEF exp
    <3> QED  BY <2>1, <3>2, <3>3, <3>4, RowsMove DEF rowMoves
  <2>4. sessions[s].chainExp \in Nat /\ sessions[s].refreshExp \in Nat
    BY <2>1 DEF TypeOK, SessionRow, UnusedSession
  <2>5. t.iat + AccessLife <= now + RefreshLife
    BY <2>1, ConstantsAssumption, LifetimesAssumption DEF ownsAccess
  <2> QED
    BY <2>1, <2>2, <2>3, <2>4, <2>5, ConstantsAssumption DEF ownsAccess, lesser
<1>2. ASSUME NEW t \in refreshTokens PROVE ownsRefresh(t, sessions[t.sid])'
  <2>1. /\ t.sid \in Sids /\ t.jti \in Nat
        /\ sessions[t.sid].st # "unused" /\ t.jti <= sessions[t.sid].jti
        /\ sessions[t.sid].chainStart <= now /\ now <= now'
        /\ now \in Nat /\ now' \in Nat
    BY TimeMoves, StepTypes DEF TypeOK, RefreshToken, TokensOwned, ownsRefresh
  <2>2. /\ sessions[t.sid].jti <= sessions'[t.sid].jti
        /\ sessions'[t.sid].st # "unused"
        /\ sessions'[t.sid].chainStart = sessions[t.sid].chainStart
        /\ sessions[t.sid].jti \in Nat /\ sessions'[t.sid].jti \in Nat
        /\ sessions[t.sid].chainStart \in Nat
    BY <2>1, RowKept, StepTypes DEF TypeOK, SessionRow, UnusedSession
  <2> QED  BY <2>1, <2>2 DEF ownsRefresh
<1> QED  BY <1>1, <1>2

(* No step leaves a token with a session of another user or chain.         *)
LEMMA TokensStep ==
    ASSUME IInv, [Next]_vars
    PROVE  TokensOwned'
<1> USE DEF IInv
<1>1. ASSUME UNCHANGED tokenVars PROVE TokensOwned'
  BY <1>1, TokenKept DEF TokensOwned, tokenVars
<1>2. ASSUME NEW l \in Logins, NEW s \in Sids, IssueSession(l, s) PROVE TokensOwned'
  <2> DEFINE u == logins[l].user
             a == [sid |-> s, user |-> u, av |-> users[u].av, iat |-> now]
             b == [sid |-> s, user |-> u, av |-> users[u].av, jti |-> 0,
                   chainIat |-> now, iat |-> now]
  <2>1. accessTokens' = accessTokens \cup {a} /\ refreshTokens' = refreshTokens \cup {b}
    BY <1>2 DEF IssueSession, signTokens
  <2>2. /\ sessions'[s].st = "live" /\ sessions'[s].user = u
        /\ sessions'[s].av = users[u].av /\ sessions'[s].jti = 0
        /\ sessions'[s].chainStart = now /\ sessions'[s].chainExp = now + ChainLife
        /\ sessions'[s].refreshExp = lesser(now + RefreshLife, now + ChainLife)
        /\ sessions[s].st = "unused" /\ now' = now /\ now \in Nat
    BY <1>2, IssuedRow DEF TypeOK
  <2> HIDE DEF u
  <2>3. \A t \in refreshTokens : t.sid # s
    BY <2>2 DEF TokensOwned, ownsRefresh
  <2>4. \A t1, t2 \in refreshTokens' : t1.sid = t2.sid /\ t1.jti = t2.jti => t1 = t2
    BY <2>1, <2>3 DEF TokensOwned
  <2>5. ASSUME NEW t \in accessTokens' PROVE ownsAccess(t, sessions[t.sid])'
    <3>1. CASE t \in accessTokens
      BY <3>1, TokenKept
    <3>2. CASE t = a
      <4>1. t.sid = s /\ t.user = u /\ t.av = users[u].av /\ t.iat = now
        BY <3>2
      <4> QED  BY <2>2, <4>1, ConstantsAssumption, LifetimesAssumption
               DEF ownsAccess, lesser
    <3> QED  BY <2>1, <3>1, <3>2
  <2>6. ASSUME NEW t \in refreshTokens' PROVE ownsRefresh(t, sessions[t.sid])'
    <3>1. CASE t \in refreshTokens
      BY <3>1, TokenKept
    <3>2. CASE t = b
      <4>1. t.sid = s /\ t.jti = 0
        BY <3>2
      <4> QED  BY <2>2, <4>1 DEF ownsRefresh
    <3> QED  BY <2>1, <3>1, <3>2
  <2> QED  BY <2>4, <2>5, <2>6 DEF TokensOwned
<1>3. ASSUME NEW x \in refreshTokens, Refresh(x) PROVE TokensOwned'
  <2> DEFINE row == sessions[x.sid]
             a == [sid |-> x.sid, user |-> x.user, av |-> x.av, iat |-> now]
             b == [sid |-> x.sid, user |-> x.user, av |-> x.av, jti |-> row.jti + 1,
                   chainIat |-> row.chainStart, iat |-> now]
             exp == lesser(now + RefreshLife, row.chainExp)
  <2>1. accessTokens' = accessTokens \cup {a} /\ refreshTokens' = refreshTokens \cup {b}
    BY <1>3 DEF Refresh, signTokens
  <2>2. /\ row.st = "live" /\ row.user = x.user /\ row.av = x.av
        /\ sessions'[x.sid] = [row EXCEPT !.jti = @ + 1, !.refreshExp = exp]
    BY <1>3, RefreshRow
  <2>3. /\ x.sid \in Sids /\ row \in SessionRow /\ now' = now /\ now \in Nat
        /\ row.jti \in Nat /\ row.chainStart \in Nat /\ row.chainExp \in Nat
    BY <1>3 DEF TypeOK, RefreshToken, Refresh, SessionRow, UnusedSession
  <2>4. row.chainStart <= now
    BY DEF TokensOwned, ownsRefresh
  <2> HIDE DEF exp
  <2>5. /\ sessions'[x.sid].st = "live" /\ sessions'[x.sid].user = x.user
        /\ sessions'[x.sid].av = x.av /\ sessions'[x.sid].jti = row.jti + 1
        /\ sessions'[x.sid].chainStart = row.chainStart
        /\ sessions'[x.sid].chainExp = row.chainExp
        /\ sessions'[x.sid].refreshExp = exp
    BY <2>2, <2>3 DEF SessionRow, UnusedSession
  <2>6. exp = row.chainExp \/ now + AccessLife <= exp
    BY <2>3, ConstantsAssumption, LifetimesAssumption DEF exp, lesser
  <2>7. \A t \in refreshTokens : t.sid = x.sid => t.jti # row.jti + 1
    <3> SUFFICES ASSUME NEW t \in refreshTokens, t.sid = x.sid
                 PROVE  t.jti # row.jti + 1
      OBVIOUS
    <3>1. t.jti <= row.jti /\ t.jti \in Nat
      BY DEF TokensOwned, ownsRefresh, TypeOK, RefreshToken
    <3> QED  BY <2>3, <3>1
  <2>8. \A t1, t2 \in refreshTokens' : t1.sid = t2.sid /\ t1.jti = t2.jti => t1 = t2
    BY <2>1, <2>7 DEF TokensOwned
  <2>9. ASSUME NEW t \in accessTokens' PROVE ownsAccess(t, sessions[t.sid])'
    <3>1. CASE t \in accessTokens
      BY <3>1, TokenKept
    <3>2. CASE t = a
      BY <2>3, <2>4, <2>5, <2>6, <3>2 DEF ownsAccess
    <3> QED  BY <2>1, <3>1, <3>2
  <2>10. ASSUME NEW t \in refreshTokens' PROVE ownsRefresh(t, sessions[t.sid])'
    <3>1. CASE t \in refreshTokens
      BY <3>1, TokenKept
    <3>2. CASE t = b
      BY <2>3, <2>4, <2>5, <3>2 DEF ownsRefresh
    <3> QED  BY <2>1, <3>1, <3>2
  <2> QED  BY <2>8, <2>9, <2>10 DEF TokensOwned
<1> QED  BY <1>1, <1>2, <1>3, TokensMove

(* No step lets a request get past the fence it has been put behind.       *)
LEMMA RequestsStep ==
    ASSUME IInv, [Next]_vars
    PROVE  RequestsFenced'
<1> USE DEF IInv
<1> SUFFICES ASSUME NEW r \in Requests
             PROVE  /\ requests'[r].pc = "user" /\ ~requests'[r].wasOpen =>
                           sessions'[requests'[r].sid].st \in {"revoked", "purged"}
                    /\ requests'[r].pc \in {"session", "granted"} => requests'[r].wasOpen
  BY DEF RequestsFenced
<1>1. ASSUME requests'[r] = requests[r], requests[r].pc = "user", ~requests[r].wasOpen
      PROVE  sessions'[requests[r].sid].st \in {"revoked", "purged"}
  <2> DEFINE s == requests[r].sid
  <2>1. s \in Sids /\ sessions[s].st \in {"revoked", "purged"}
    BY <1>1 DEF RequestsFenced, TypeOK, Request, IdleRequest
  <2>2. sessions'[s].st # "unused" /\ sessions'[s].st # "live"
    BY <2>1, RowKept
  <2>3. sessions'[s] \in SessionRow
    BY <2>1, StepTypes DEF TypeOK
  <2> QED  BY <2>2, <2>3 DEF SessionRow, UnusedSession
<1>2. ASSUME requests'[r] = requests[r], requests[r].pc \in {"session", "granted"}
      PROVE  requests[r].wasOpen
  BY <1>2 DEF RequestsFenced
<1>3. ASSUME NEW t \in accessTokens, ReadUser(r, t)
      PROVE  /\ requests'[r].pc = "user"
             /\ ~requests'[r].wasOpen =>
                    sessions'[requests'[r].sid].st \in {"revoked", "purged"}
  <2>1. /\ requests'[r].pc = "user" /\ requests'[r].sid = t.sid
        /\ requests'[r].wasOpen = sessionOpen(t.sid)
        /\ sessions' = sessions /\ mayUse(t.user, t.av)
    BY <1>3 DEF ReadUser, TypeOK
  <2>2. /\ t.sid \in Sids /\ sessions[t.sid] \in SessionRow
        /\ sessions[t.sid].user = t.user /\ sessions[t.sid].av = t.av
        /\ sessions[t.sid].st # "unused"
    BY DEF TypeOK, AccessToken, TokensOwned, ownsAccess
  <2>3. ~sessionOpen(t.sid) => sessions[t.sid].st # "live"
    BY <2>1, <2>2 DEF sessionOpen, mayUse
  <2>4. sessions[t.sid].st \in {"live", "revoked", "purged"}
    BY <2>2 DEF SessionRow, UnusedSession
  <2> QED  BY <2>1, <2>3, <2>4
<1>4. ASSUME ReadSession(r)
      PROVE  requests'[r].pc = "session" /\ requests'[r].wasOpen
  <2>1. requests'[r] = [requests[r] EXCEPT !.pc = "session"]
    BY <1>4 DEF ReadSession, TypeOK
  <2>2. requests[r].wasOpen /\ requests[r].pc = "user" /\ requests[r] \in Request
    <3>1. requests[r] \in Request /\ requests[r].pc = "user"
      BY <1>4 DEF ReadSession, TypeOK
    <3>2. sessions[requests[r].sid].st = "live"
      BY <1>4 DEF ReadSession
    <3> QED  BY <3>1, <3>2 DEF RequestsFenced
  <2> QED  BY <2>1, <2>2 DEF Request, IdleRequest
<1>5. ASSUME ReadTenant(r)
      PROVE  requests'[r].pc = "granted" /\ requests'[r].wasOpen
  <2>1. requests'[r] = [requests[r] EXCEPT !.pc = "granted"]
    BY <1>5 DEF ReadTenant, TypeOK
  <2>2. requests[r].wasOpen /\ requests[r].pc = "session" /\ requests[r] \in Request
    BY <1>5 DEF ReadTenant, TypeOK, RequestsFenced
  <2> QED  BY <2>1, <2>2 DEF Request, IdleRequest
<1> QED  BY <1>1, <1>2, <1>3, <1>4, <1>5, RequestsMove

(* Every step keeps the invariant.                                         *)
LEMMA InvariantStep == IInv /\ [Next]_vars => IInv'
BY StepTypes, VersionsStep, BlockedStep, TokensStep, RequestsStep DEF IInv

(* The invariant holds in every reachable state.                           *)
LEMMA Invariant == Spec => []IInv
BY InitInvariant, InvariantStep, PTL DEF Spec

-----------------------------------------------------------------------------
(* While a network is blocked none of its users has an open session: the   *)
(* version that BlockTenant moves under the locks fences every login that  *)
(* read an older one.                                                      *)
THEOREM BlockedTenants == Spec => []BlockedTenantHasNoOpenSession
BY Invariant, PTL DEF IInv

(* An open session was issued to a login that read the row with the        *)
(* password the user has now.                                              *)
THEOREM ReadCurrentPassword == Spec => []OpenSessionReadCurrentPassword
<1>1. IInv => OpenSessionReadCurrentPassword
  BY DEF IInv, VersionsBehind, OpenSessionReadCurrentPassword, sessionOpen
<1> QED  BY <1>1, Invariant, PTL

(* A granted request found its session open when it arrived.               *)
THEOREM GrantsOnlyOpen == Spec => []NoGrantAfterClose
<1>1. IInv => NoGrantAfterClose
  BY DEF IInv, RequestsFenced, NoGrantAfterClose
<1> QED  BY <1>1, Invariant, PTL

(* Two refresh tokens of a session are never both good.                    *)
THEOREM OneWinner == Spec => []OneRefreshTokenPerSession
<1>1. IInv => OneRefreshTokenPerSession
  BY DEF IInv, TokensOwned, OneRefreshTokenPerSession, refreshAccepted
<1> QED  BY <1>1, Invariant, PTL

(* No token of a session is accepted once ChainLife has passed since the   *)
(* first one was signed.                                                   *)
THEOREM BoundedChain == Spec => []ChainIsBounded
<1>1. IInv => ChainIsBounded
  <2> SUFFICES ASSUME IInv, NEW first \in accessTokens, NEW t \in accessTokens,
                      first.sid = t.sid, accessAccepted(t)
               PROVE  now < first.iat + ChainLife
    BY DEF ChainIsBounded
  <2> DEFINE row == sessions[t.sid]
  <2>1. /\ t.sid \in Sids /\ row.st # "unused" /\ row \in SessionRow
        /\ first.iat \in Nat /\ now \in Nat /\ row.chainStart <= first.iat
    BY DEF IInv, TypeOK, AccessToken, TokensOwned, ownsAccess
  <2>2. row.chainExp = row.chainStart + ChainLife /\ row.chainStart \in Nat
    BY <2>1 DEF IInv, VersionsBehind, SessionRow, UnusedSession
  <2>3. now < row.chainExp
    BY DEF accessAccepted
  <2> QED  BY <2>1, <2>2, <2>3, ConstantsAssumption
<1> QED  BY <1>1, Invariant, PTL

(* The row that Cleanup deletes is one no token can be used with.          *)
THEOREM CleanupIsInvisible == Spec => CleanupDeletesOnlyDeadSessions
<1> DEFINE deletesDead ==
        \A sid \in Sids :
           sessions[sid].st # "purged" /\ sessions'[sid].st = "purged" =>
               /\ \A t \in accessTokens : t.sid = sid => ~accessAccepted(t)
               /\ \A t \in refreshTokens : t.sid = sid => ~refreshAccepted(t)
<1>1. ASSUME IInv, [Next]_vars PROVE deletesDead
  <2> SUFFICES ASSUME NEW s \in Sids,
                      sessions[s].st # "purged", sessions'[s].st = "purged"
               PROVE  /\ \A t \in accessTokens : t.sid = s => ~accessAccepted(t)
                      /\ \A t \in refreshTokens : t.sid = s => ~refreshAccepted(t)
    OBVIOUS
  <2> USE <1>1 DEF IInv
  <2>1. dead(s)
    <3>1. sessions[s] \in SessionRow
      BY DEF TypeOK
    <3>2. ASSUME NEW l \in Logins, IssueSession(l, s) PROVE FALSE
      BY <3>2, IssuedRow
    <3>3. ASSUME NEW x \in refreshTokens, x.sid = s, Refresh(x) PROVE FALSE
      <4> DEFINE exp == lesser(now + RefreshLife, sessions[s].chainExp)
      <4>1. /\ sessions'[s] = [sessions[s] EXCEPT !.jti = @ + 1, !.refreshExp = exp]
            /\ sessions[s].st = "live"
        BY <3>3, RefreshRow
      <4> HIDE DEF exp
      <4> QED  BY <3>1, <4>1 DEF SessionRow, UnusedSession
    <3>4. ASSUME rowEnds(s) PROVE dead(s)
      <4>1. PICK st \in {"revoked", "purged"} :
              /\ sessions'[s] = [sessions[s] EXCEPT !.st = st]
              /\ st = "purged" => dead(s)
        BY <3>4 DEF rowEnds
      <4>2. st = "purged"
        BY <3>1, <4>1 DEF SessionRow, UnusedSession
      <4> QED  BY <4>1, <4>2
    <3> QED  BY <3>2, <3>3, <3>4, RowsMove DEF rowMoves
  <2>2. ASSUME NEW t \in refreshTokens, t.sid = s PROVE ~refreshAccepted(t)
    BY <2>1, <2>2 DEF dead, refreshAccepted, refreshChecks, TypeOK, SessionRow,
                      UnusedSession
  <2>3. ASSUME NEW t \in accessTokens, t.sid = s PROVE ~accessAccepted(t)
    <3>1. /\ sessions[s] \in SessionRow /\ now \in Nat /\ t.iat \in Nat
          /\ t.iat + AccessLife <= sessions[s].refreshExp
             \/ sessions[s].refreshExp = sessions[s].chainExp
      BY <2>3 DEF TypeOK, AccessToken, TokensOwned, ownsAccess
    <3>2. sessions[s].refreshExp \in Nat /\ sessions[s].chainExp \in Nat
      BY <3>1 DEF SessionRow, UnusedSession
    <3> QED
      BY <2>1, <2>3, <3>1, <3>2, ConstantsAssumption DEF dead, accessAccepted
  <2> QED  BY <2>2, <2>3
<1>2. IInv /\ [Next]_vars => [deletesDead]_vars
  BY <1>1
<1> QED  BY <1>2, Invariant, PTL DEF Spec, CleanupDeletesOnlyDeadSessions

-----------------------------------------------------------------------------
(* Refinement: what each step does to the phases of SessionAuthority.      *)
LEMMA PhasesMove ==
    ASSUME IInv, [Next]_vars, NEW s \in Sids, ~\E l \in Logins : IssueSession(l, s)
    PROVE  /\ holder'[s] = holder[s]
           /\ \/ phase'[s] = phase[s]
              \/ phase[s] = "open" /\ phase'[s] = "closed"
<1> USE DEF IInv
<1>1. CASE sessions[s].st = "unused"
  <2>1. sessions'[s] = sessions[s]
    BY <1>1, RowsMove, RefreshRow DEF rowMoves, rowEnds
  <2> QED  BY <1>1, <2>1 DEF phase, holder
<1>2. CASE sessions[s].st # "unused"
  <2>1. sessions'[s].st # "unused" /\ sessions'[s].user = sessions[s].user
    BY <1>2, RowKept
  <2>2. sessionOpen(s)' => sessionOpen(s)
    BY NeverReopened
  <2> QED  BY <1>2, <2>1, <2>2 DEF phase, holder
<1> QED  BY <1>1, <1>2

(* The same in one formula: some sessions close, none opens. *)
LEMMA OnlyClosing ==
    ASSUME IInv, [Next]_vars, ~\E l \in Logins, s \in Sids : IssueSession(l, s),
           NEW S, \A s \in S : s \in Sids /\ phase[s] = "open" => phase'[s] = "closed",
           \A s \in Sids \ S : phase'[s] = phase[s]
    PROVE  Authority!Closing(S) /\ UNCHANGED holder
<1>1. \A s \in Sids : /\ holder'[s] = holder[s]
                      /\ \/ phase'[s] = phase[s]
                         \/ phase[s] = "open" /\ phase'[s] = "closed"
  BY PhasesMove
<1>2. UNCHANGED holder
  BY <1>1 DEF holder
<1>3. \A s \in Sids :
          phase'[s] = IF s \in S /\ phase[s] = "open" THEN "closed" ELSE phase[s]
  BY <1>1
<1>4. phase' = [s \in Sids |-> phase'[s]]
  BY DEF phase
<1> QED  BY <1>2, <1>3, <1>4 DEF Authority!Closing

(* IssueSession opens one session of the abstract specification.           *)
LEMMA OpenRefines ==
    ASSUME IInv, [Next]_vars, NEW l \in Logins, NEW s \in Sids, IssueSession(l, s)
    PROVE  Authority!Open(s, logins[l].user) /\ logins[l].user \in Users
<1> DEFINE u == logins[l].user
<1>1. /\ u \in Users /\ sessions[s].st = "unused" /\ sessions'[s].st = "live"
      /\ sessions'[s].user = u /\ sessions'[s].av = users[u].av
      /\ ~users[u].deleted /\ tenantAdmits(u)
      /\ users' = users /\ tenants' = tenants
  BY IssuedRow
<1>2. \A x \in Sids \ {s} : sessions'[x] = sessions[x]
  BY DEF IssueSession
<1>3. TenantOf[u] \notin blocked
  BY <1>1, ConstantsAssumption DEF tenantAdmits, blocked
<1>4. phase[s] = "none" /\ phase'[s] = "open" /\ holder'[s] = u
  BY <1>1 DEF phase, holder, sessionOpen
<1>5. \A x \in Sids \ {s} : phase'[x] = phase[x] /\ holder'[x] = holder[x]
  BY <1>1, <1>2 DEF phase, holder, sessionOpen
<1>6. phase' = [phase EXCEPT ![s] = "open"] /\ holder' = [holder EXCEPT ![s] = u]
  BY <1>4, <1>5 DEF phase, holder
<1>7. UNCHANGED <<secret, rank, blocked>>
  BY <1>1 DEF secret, rank, blocked
<1> QED  BY <1>1, <1>3, <1>4, <1>6, <1>7 DEF Authority!Open

(* ChangePassword is a change of the secret.                               *)
LEMMA PasswordRefines ==
    ASSUME IInv, [Next]_vars, NEW u \in Users, ChangePassword(u)
    PROVE  Authority!ChangeSecret(u)
<1>1. ~\E l \in Logins, s \in Sids : IssueSession(l, s)
  BY DEF ChangePassword, IssueSession, IInv, TypeOK, UserRow
<1>2. ASSUME NEW s \in Authority!HeldBy(u), phase[s] = "open"
      PROVE  phase'[s] = "closed"
  BY <1>2 DEF Authority!HeldBy, ChangePassword, revokeAll, phase, holder, sessionOpen
<1>3. ASSUME NEW s \in Sids \ Authority!HeldBy(u) PROVE phase'[s] = phase[s]
  <2>1. sessions[s].user # u
    BY <1>3 DEF Authority!HeldBy, holder
  <2>2. sessions'[s] = sessions[s]
    BY <2>1 DEF ChangePassword, revokeAll
  <2>3. CASE sessions[s].st = "unused"
    BY <2>2, <2>3 DEF phase
  <2>4. CASE sessions[s].st # "unused"
    <3>1. users'[sessions[s].user] = users[sessions[s].user]
      BY <2>1, <2>4, SessionUser DEF ChangePassword, IInv, TypeOK
    <3> QED  BY <2>2, <3>1 DEF phase, sessionOpen
  <2> QED  BY <2>3, <2>4
<1>4. Authority!Closing(Authority!HeldBy(u)) /\ UNCHANGED holder
  BY <1>1, <1>2, <1>3, OnlyClosing DEF Authority!HeldBy
<1>5. secret' = [secret EXCEPT ![u] = @ + 1] /\ UNCHANGED <<rank, blocked>>
  BY DEF ChangePassword, secret, rank, blocked, IInv, TypeOK, UserRow
<1> QED  BY <1>4, <1>5 DEF Authority!ChangeSecret

(* UpdateEmployee with a new role or status is a change of rank.           *)
LEMMA EmployeeRefines ==
    ASSUME IInv, [Next]_vars, NEW u \in Users, UpdateEmployee(u)
    PROVE  Authority!ChangeRank(u)
<1>1. users'[u].av = users[u].av + 1 /\ users[u].av \in Nat
  BY DEF UpdateEmployee, IInv, TypeOK, UserRow
<1>2. ~\E l \in Logins, s \in Sids : IssueSession(l, s)
  BY <1>1 DEF IssueSession
<1>3. ASSUME NEW s \in Authority!HeldBy(u), phase[s] = "open"
      PROVE  phase'[s] = "closed"
  <2>1. s \in Sids /\ sessions[s].user = u /\ sessions[s].st = "live"
        /\ users[u].av = sessions[s].av
    BY <1>3 DEF Authority!HeldBy, phase, holder, sessionOpen
  <2>2. sessions'[s] = sessions[s]
    BY DEF UpdateEmployee
  <2> QED  BY <1>1, <2>1, <2>2 DEF phase, sessionOpen
<1>4. ASSUME NEW s \in Sids \ Authority!HeldBy(u) PROVE phase'[s] = phase[s]
  <2>1. sessions[s].user # u
    BY <1>4 DEF Authority!HeldBy, holder
  <2>2. sessions'[s] = sessions[s]
    BY DEF UpdateEmployee
  <2>3. CASE sessions[s].st = "unused"
    BY <2>2, <2>3 DEF phase
  <2>4. CASE sessions[s].st # "unused"
    <3>1. users'[sessions[s].user] = users[sessions[s].user]
      BY <2>1, <2>4, SessionUser DEF UpdateEmployee, IInv, TypeOK
    <3> QED  BY <2>2, <3>1 DEF phase, sessionOpen
  <2> QED  BY <2>3, <2>4
<1>5. Authority!Closing(Authority!HeldBy(u)) /\ UNCHANGED holder
  BY <1>2, <1>3, <1>4, OnlyClosing DEF Authority!HeldBy
<1>6. rank' = [rank EXCEPT ![u] = @ + 1] /\ UNCHANGED <<secret, blocked>>
  BY DEF UpdateEmployee, secret, rank, blocked, IInv, TypeOK, UserRow
<1> QED  BY <1>5, <1>6 DEF Authority!ChangeRank

(* BlockTenant blocks the abstract network and closes its sessions.        *)
LEMMA BlockRefines ==
    ASSUME IInv, [Next]_vars, NEW t \in Tenants, BlockTenant(t)
    PROVE  Authority!Block(t)
<1> DEFINE S == UNION {Authority!HeldBy(u) : u \in {v \in Users : TenantOf[v] = t}}
<1>1. ~\E l \in Logins, s \in Sids : IssueSession(l, s)
  <2>1. ASSUME NEW l \in Logins, NEW s \in Sids, IssueSession(l, s) PROVE FALSE
    <3>1. sessions[s].st = "unused" /\ sessions'[s].st = "live"
      BY <2>1, IssuedRow
    <3> QED  BY <3>1 DEF BlockTenant, revokeAll
  <2> QED  BY <2>1
<1>2. S = {s \in Sids : holder[s] \in Users /\ TenantOf[holder[s]] = t}
  BY DEF Authority!HeldBy
<1> HIDE DEF S
<1>3. ASSUME NEW s \in S, phase[s] = "open" PROVE phase'[s] = "closed"
  <2>1. /\ s \in Sids /\ sessions[s].st = "live"
        /\ sessions[s].user \in staff(t)
    BY <1>2, <1>3 DEF holder, phase, sessionOpen, staff
  <2>2. sessions'[s].st = "revoked"
    BY <2>1 DEF BlockTenant, revokeAll, IInv, TypeOK, SessionRow, UnusedSession
  <2> QED  BY <2>1, <2>2 DEF phase, sessionOpen
<1>4. ASSUME NEW s \in Sids \ S PROVE phase'[s] = phase[s]
  <2>1. sessions[s].user \notin staff(t)
    BY <1>2, <1>4 DEF holder, staff
  <2>2. sessions'[s] = sessions[s]
    BY <2>1 DEF BlockTenant, revokeAll
  <2>3. CASE sessions[s].st = "unused"
    BY <2>2, <2>3 DEF phase
  <2>4. CASE sessions[s].st # "unused"
    <3>1. sessions[s].user \in Users
      BY <2>4, SessionUser DEF IInv
    <3>2. users'[sessions[s].user] = users[sessions[s].user]
      BY <2>1, <3>1 DEF BlockTenant
    <3> QED  BY <2>2, <3>2 DEF phase, sessionOpen
  <2> QED  BY <2>3, <2>4
<1>5. Authority!Closing(S) /\ UNCHANGED holder
  BY <1>1, <1>2, <1>3, <1>4, OnlyClosing
<1>6. blocked' = blocked \cup {t}
  BY DEF BlockTenant, blocked, IInv, TypeOK, TenantRow
<1>7. ASSUME NEW u \in Users
      PROVE  users'[u].pwd = users[u].pwd /\ users'[u].role = users[u].role
  BY DEF BlockTenant, IInv, TypeOK, UserRow
<1>8. UNCHANGED <<secret, rank>>
  BY <1>7 DEF secret, rank
<1> QED  BY <1>5, <1>6, <1>8 DEF Authority!Block, S

(* UnblockTenant unblocks the abstract network.                            *)
LEMMA UnblockRefines ==
    ASSUME IInv, NEW t \in Tenants, UnblockTenant(t)
    PROVE  Authority!Unblock(t)
<1>1. blocked' = blocked \ {t}
  BY DEF UnblockTenant, blocked, IInv, TypeOK, TenantRow
<1>2. UNCHANGED <<phase, holder, secret, rank>>
  BY DEF UnblockTenant, phase, holder, secret, rank, sessionOpen
<1> QED  BY <1>1, <1>2 DEF Authority!Unblock

(* Every other step leaves credentials and blocks alone and at most closes *)
(* sessions: logout, reuse, cleanup, removal of the account.               *)
LEMMA OtherStepsKeep ==
    ASSUME TypeOK, [Next]_vars,
           ~\E u \in Users : ChangePassword(u) \/ UpdateEmployee(u),
           ~\E t \in Tenants : BlockTenant(t) \/ UnblockTenant(t)
    PROVE  UNCHANGED <<secret, rank, blocked>>
<1> USE DEF TypeOK, UserRow, TenantRow, secret, rank, blocked
<1>1. ASSUME UNCHANGED <<users, tenants>> PROVE UNCHANGED <<secret, rank, blocked>>
  BY <1>1
<1>2. ASSUME NEW u \in Users, StaffStep(u) PROVE UNCHANGED <<secret, rank, blocked>>
  <2>1. ASSUME DeleteEmployee(u) PROVE UNCHANGED <<secret, rank, blocked>>
    BY <2>1 DEF DeleteEmployee
  <2>2. ASSUME NEW status \in Statuses, SetUserStatus(u, status)
        PROVE  UNCHANGED <<secret, rank, blocked>>
    BY <2>2 DEF SetUserStatus
  <2>3. ASSUME RevokeAllForUser(u) \/ LoseRevoke(u) PROVE UNCHANGED <<users, tenants>>
    BY <2>3 DEF RevokeAllForUser, LoseRevoke
  <2> QED  BY <1>1, <1>2, <2>1, <2>2, <2>3 DEF StaffStep
<1>3. ASSUME NEW t \in Tenants, TenantStep(t) PROVE UNCHANGED <<secret, rank, blocked>>
  BY <1>3 DEF TenantStep, SubscriptionLapses, UpdateTenant
<1>4. ASSUME ~\E u \in Users : StaffStep(u), ~\E t \in Tenants : TenantStep(t)
      PROVE  UNCHANGED <<users, tenants>>
  BY <1>4
     DEF Next, LoginStep, RequestStep, ComparePassword, RereadUser, IssueSession,
         LoginFails, Refresh, RefreshReuse, Logout, ReadUser, ReadSession, ReadTenant,
         RequestEnds, Cleanup, Tick, vars
<1> QED  BY <1>1, <1>2, <1>3, <1>4

(* Every step is one of the abstract specification or a stutter.           *)
LEMMA StepRefines ==
    ASSUME IInv, [Next]_vars
    PROVE  [Authority!ANext]_Authority!avars
<1>1. ASSUME NEW l \in Logins, NEW s \in Sids, IssueSession(l, s)
      PROVE  Authority!ANext
  BY <1>1, OpenRefines DEF Authority!ANext
<1>2. ASSUME NEW u \in Users, ChangePassword(u) \/ UpdateEmployee(u)
      PROVE  Authority!ANext
  BY <1>2, PasswordRefines, EmployeeRefines DEF Authority!ANext
<1>3. ASSUME NEW t \in Tenants, BlockTenant(t) \/ UnblockTenant(t)
      PROVE  Authority!ANext
  BY <1>3, BlockRefines, UnblockRefines DEF Authority!ANext
<1>4. ASSUME ~\E l \in Logins, s \in Sids : IssueSession(l, s),
             ~\E u \in Users : ChangePassword(u) \/ UpdateEmployee(u),
             ~\E t \in Tenants : BlockTenant(t) \/ UnblockTenant(t)
      PROVE  Authority!ANext
  <2> DEFINE S == {s \in Sids : phase'[s] # phase[s]}
  <2>1. UNCHANGED <<secret, rank, blocked>>
    BY <1>4, OtherStepsKeep DEF IInv
  <2>2. ASSUME NEW s \in S, phase[s] = "open" PROVE s \in Sids /\ phase'[s] = "closed"
    BY <1>4, <2>2, PhasesMove
  <2>3. Authority!Closing(S) /\ UNCHANGED holder
    BY <1>4, <2>2, OnlyClosing
  <2>4. Authority!Close(S)
    BY <2>1, <2>3 DEF Authority!Close
  <2> QED  BY <2>4 DEF Authority!ANext
<1> QED  BY <1>1, <1>2, <1>3, <1>4

(* The tables, versions and tokens implement the abstract promise about    *)
(* sessions, for every number of users, networks, sessions and handlers.   *)
THEOREM Implementation == Spec => ImplementsAuthority
<1>1. Init => Authority!AInit
  BY DEF Init, Authority!AInit, phase, holder, secret, rank, blocked, UnusedSession
<1> QED
  BY <1>1, Invariant, StepRefines, PTL
     DEF Spec, ImplementsAuthority, Authority!ASpec
=============================================================================
