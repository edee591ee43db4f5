---------------------------- MODULE AuthSessions ----------------------------
(***************************************************************************)
(* Durable login sessions of the backend: the users, tenants and           *)
(* auth_sessions tables, the signed tokens the clients hold, and the       *)
(* handlers that use them.                                                 *)
(*                                                                         *)
(* One action is one database transaction or one autocommitted statement.  *)
(* IssueSession, Refresh, ChangePassword and BlockTenant are transactions  *)
(* that lock the user row (BlockTenant: the tenant row, then the user rows *)
(* it updates) before they read what they decide on, so each is one        *)
(* action.  Authenticate, ResolveAccessIdentity and UpdateEmployee run     *)
(* several statements outside any transaction, so each is several actions, *)
(* and everything else may happen between two of them.                     *)
(***************************************************************************)
EXTENDS Naturals, FiniteSets

CONSTANTS
    Users, Tenants,
    TenantOf,       \* the tenant of each user; None for a super_admin
    Statuses,       \* values of users.status that occur
    Sids,           \* session ids uuid.New() may return
    Logins,         \* login handlers that may be in flight together
    Requests,       \* authenticated requests that may be in flight together
    None,
    AccessLife,     \* jwtExpires, at most 24h
    RefreshLife,    \* refreshLifetime, 7 days
    ChainLife,      \* maxRefreshChainLifetime, 30 days
    CleanupLimit,   \* rows one cleanup deletes, 1000
    MaxTime,        \* bound of the model on the clock
    MaxVersion,     \* bound of the model on users.auth_version
    MaxRotations    \* bound of the model on the refreshes of one session

ASSUME ConstantsAssumption ==
    /\ None \notin Users \cup Tenants \cup Sids
    /\ TenantOf \in [Users -> Tenants \cup {None}]
    /\ "active" \in Statuses
    /\ AccessLife \in Nat \ {0}
    /\ RefreshLife \in Nat \ {0}
    /\ ChainLife \in Nat \ {0}
    /\ CleanupLimit \in Nat \ {0}
    /\ MaxTime \in Nat /\ MaxVersion \in Nat \ {0} /\ MaxRotations \in Nat

(* An access token expires before the refresh window of the row it was     *)
(* issued with: 24h against 7 days.                                        *)
ASSUME LifetimesAssumption == AccessLife <= RefreshLife

VARIABLES
    now,            \* the database clock
    users,          \* users[u]: the row of u
    tenants,        \* tenants[t]: the row of t
    sessions,       \* sessions[s]: the auth_sessions row with id s
    accessTokens,   \* every access token ever signed
    refreshTokens,  \* every refresh token ever signed
    logins,         \* logins[l]: local variables of one Login handler
    requests,       \* requests[r]: local variables of one AuthMiddleware call
    revokesDue      \* revokesDue[u]: UpdateEmployee calls that have committed the
                    \* row of u and not yet run RevokeAllForUser

vars == <<now, users, tenants, sessions, accessTokens, refreshTokens,
          logins, requests, revokesDue>>
tokenVars == <<accessTokens, refreshTokens>>

-----------------------------------------------------------------------------
(* Rows, tokens and local variables.  pwd counts the passwords the user    *)
(* has had and role the changes of role or manager.  In a session, proved  *)
(* and seen are history: the password the login was compared with, and     *)
(* the password in the row the login went on with.  A purged row keeps its *)
(* fields for the properties to speak of; no action reads them.            *)
UserRow == [av : Nat, pwd : Nat, role : Nat, status : Statuses, deleted : BOOLEAN]
TenantRow == [status : {"active", "blocked"}, lapsed : BOOLEAN]
UnusedSession == [st |-> "unused", user |-> None, av |-> 0, jti |-> 0,
                  chainStart |-> 0, chainExp |-> 0, refreshExp |-> 0,
                  proved |-> 0, seen |-> 0]
IdleLogin == [pc |-> "idle", user |-> None, proved |-> 0, seen |-> 0, av |-> 0]
IdleRequest == [pc |-> "idle", sid |-> None, user |-> None, av |-> 0,
                wasOpen |-> FALSE]

SessionRow == {UnusedSession} \cup
              [st : {"live", "revoked", "purged"}, user : Users, av : Nat,
               jti : Nat, chainStart : Nat, chainExp : Nat, refreshExp : Nat,
               proved : Nat, seen : Nat]
AccessToken == [sid : Sids, user : Users, av : Nat, iat : Nat]
RefreshToken == [sid : Sids, user : Users, av : Nat, jti : Nat,
                 chainIat : Nat, iat : Nat]
Login == {IdleLogin} \cup
         [pc : {"compared", "authenticated"}, user : Users,
          proved : Nat, seen : Nat, av : Nat]
Request == {IdleRequest} \cup
           [pc : {"user", "session", "granted"}, sid : Sids, user : Users,
            av : Nat, wasOpen : BOOLEAN]

TypeOK ==
    /\ now \in Nat
    /\ users \in [Users -> UserRow]
    /\ tenants \in [Tenants -> TenantRow]
    /\ sessions \in [Sids -> SessionRow]
    /\ accessTokens \subseteq AccessToken
    /\ refreshTokens \subseteq RefreshToken
    /\ logins \in [Logins -> Login]
    /\ requests \in [Requests -> Request]
    /\ revokesDue \in [Users -> Nat]

Init ==
    /\ now = 0
    /\ users = [u \in Users |-> [av |-> 1, pwd |-> 0, role |-> 0,
                                 status |-> "active", deleted |-> FALSE]]
    /\ tenants = [t \in Tenants |-> [status |-> "active", lapsed |-> FALSE]]
    /\ sessions = [s \in Sids |-> UnusedSession]
    /\ accessTokens = {}
    /\ refreshTokens = {}
    /\ logins = [l \in Logins |-> IdleLogin]
    /\ requests = [r \in Requests |-> IdleRequest]
    /\ revokesDue = [u \in Users |-> 0]

-----------------------------------------------------------------------------
(* The statuses that close the door: Authenticate knows three of them,     *)
(* IssueSession, Refresh and ResolveAccessIdentity five.                   *)
loginDenied(status) == status \in {"blocked", "suspended", "banned"}
userAccessDenied(status) ==
    loginDenied(status) \/ status \in {"disabled", "inactive"}

(* checkTenantAccess: a super_admin has no tenant to check.                *)
tenantAdmits(u) ==
    TenantOf[u] # None =>
        /\ tenants[TenantOf[u]].status # "blocked"
        /\ ~tenants[TenantOf[u]].lapsed

mayUse(u, av) ==
    /\ ~users[u].deleted
    /\ users[u].av = av
    /\ ~userAccessDenied(users[u].status)

lesser(a, b) == IF a <= b THEN a ELSE b

(* The UPDATE of every session of the users of U that is not revoked yet.  *)
revokeAll(U) ==
    sessions' = [s \in Sids |->
        IF sessions[s].st = "live" /\ sessions[s].user \in U
        THEN [sessions[s] EXCEPT !.st = "revoked"] ELSE sessions[s]]

revokeOne(sid, u) ==
    sessions' = [sessions EXCEPT ![sid].st =
        IF @ = "live" /\ sessions[sid].user = u THEN "revoked" ELSE @]

signTokens(sid, u, av, jti, chainStart) ==
    /\ accessTokens' = accessTokens \cup
           {[sid |-> sid, user |-> u, av |-> av, iat |-> now]}
    /\ refreshTokens' = refreshTokens \cup
           {[sid |-> sid, user |-> u, av |-> av, jti |-> jti,
             chainIat |-> chainStart, iat |-> now]}

-----------------------------------------------------------------------------
(* Login: Authenticate compares the password with the row found by email,  *)
(* reads the row again by id, and the handler passes it to IssueSession.   *)
ComparePassword(l, u) ==
    /\ logins[l].pc = "idle"
    /\ ~users[u].deleted
    /\ logins' = [logins EXCEPT ![l] =
           [pc |-> "compared", user |-> u, proved |-> users[u].pwd, seen |-> 0, av |-> 0]]
    /\ UNCHANGED <<now, users, tenants, sessions, tokenVars, requests, revokesDue>>

RereadUser(l) ==
    LET u == logins[l].user IN
    /\ logins[l].pc = "compared"
    /\ ~users[u].deleted
    /\ ~loginDenied(users[u].status)
    /\ tenantAdmits(u)
    /\ logins' = [logins EXCEPT ![l] =
           [pc |-> "authenticated", user |-> u, proved |-> @.proved,
            seen |-> users[u].pwd, av |-> users[u].av]]
    /\ UNCHANGED <<now, users, tenants, sessions, tokenVars, requests, revokesDue>>

(* Mutant: the version of the row that was read is not compared. *)
IssueUnfenced(l, sid) ==
    LET u == logins[l].user IN
    /\ logins[l].pc = "authenticated"
    /\ sessions[sid].st = "unused"
    /\ mayUse(u, users[u].av)
    /\ tenantAdmits(u)
    /\ sessions' = [sessions EXCEPT ![sid] =
           [st |-> "live", user |-> u, av |-> users[u].av, jti |-> 0,
            chainStart |-> now, chainExp |-> now + ChainLife,
            refreshExp |-> lesser(now + RefreshLife, now + ChainLife),
            proved |-> logins[l].proved, seen |-> logins[l].seen]]
    /\ signTokens(sid, u, users[u].av, 0, now)
    /\ logins' = [logins EXCEPT ![l] = IdleLogin]
    /\ UNCHANGED <<now, users, tenants, requests, revokesDue>>

IssueSession(l, sid) ==
    LET u == logins[l].user IN
    /\ logins[l].pc = "authenticated"
    /\ sessions[sid].st = "unused"
    /\ mayUse(u, logins[l].av)
    /\ tenantAdmits(u)
    /\ sessions' = [sessions EXCEPT ![sid] =
           [st |-> "live", user |-> u, av |-> users[u].av, jti |-> 0,
            chainStart |-> now, chainExp |-> now + ChainLife,
            refreshExp |-> lesser(now + RefreshLife, now + ChainLife),
            proved |-> logins[l].proved, seen |-> logins[l].seen]]
    /\ signTokens(sid, u, users[u].av, 0, now)
    /\ logins' = [logins EXCEPT ![l] = IdleLogin]
    /\ UNCHANGED <<now, users, tenants, requests, revokesDue>>

(* A check fails, under the lock or before it, or the client goes away.    *)
LoginFails(l) ==
    /\ logins[l].pc # "idle"
    /\ logins' = [logins EXCEPT ![l] = IdleLogin]
    /\ UNCHANGED <<now, users, tenants, sessions, tokenVars, requests, revokesDue>>

-----------------------------------------------------------------------------
(* Refresh: everything refreshTokensDurable checks before it looks at the  *)
(* token identifier.                                                       *)
refreshChecks(t) ==
    /\ now < t.iat + RefreshLife
    /\ mayUse(t.user, t.av)
    /\ sessions[t.sid].st = "live"
    /\ sessions[t.sid].user = t.user
    /\ sessions[t.sid].av = t.av
    /\ now < sessions[t.sid].chainExp
    /\ sessions[t.sid].chainStart = t.chainIat
    /\ now < sessions[t.sid].refreshExp
    /\ tenantAdmits(t.user)

refreshAccepted(t) == refreshChecks(t) /\ sessions[t.sid].jti = t.jti

(* Mutant: the new token is signed with the identifier of the old one. *)
RefreshKeepsIdentifier(t) ==
    LET s == sessions[t.sid] IN
    /\ refreshAccepted(t)
    /\ sessions' = [sessions EXCEPT
           ![t.sid].refreshExp = lesser(now + RefreshLife, s.chainExp)]
    /\ signTokens(t.sid, t.user, t.av, s.jti, s.chainStart)
    /\ UNCHANGED <<now, users, tenants, logins, requests, revokesDue>>

(* Mutant: every refresh starts the 30 days again. *)
RefreshExtendsChain(t) ==
    LET s == sessions[t.sid] IN
    /\ refreshAccepted(t)
    /\ s.jti < MaxRotations
    /\ sessions' = [sessions EXCEPT
           ![t.sid].jti = @ + 1,
           ![t.sid].chainExp = now + ChainLife,
           ![t.sid].refreshExp = now + RefreshLife]
    /\ signTokens(t.sid, t.user, t.av, s.jti + 1, s.chainStart)
    /\ UNCHANGED <<now, users, tenants, logins, requests, revokesDue>>

(* Mutant: the row keeps the refresh window it was created with. *)
RefreshKeepsWindow(t) ==
    LET s == sessions[t.sid] IN
    /\ refreshAccepted(t)
    /\ s.jti < MaxRotations
    /\ sessions' = [sessions EXCEPT ![t.sid].jti = @ + 1]
    /\ signTokens(t.sid, t.user, t.av, s.jti + 1, s.chainStart)
    /\ UNCHANGED <<now, users, tenants, logins, requests, revokesDue>>

Refresh(t) ==
    LET s == sessions[t.sid] IN
    /\ refreshAccepted(t)
    /\ s.jti < MaxRotations
    /\ sessions' = [sessions EXCEPT
           ![t.sid].jti = @ + 1,
           ![t.sid].refreshExp = lesser(now + RefreshLife, s.chainExp)]
    /\ signTokens(t.sid, t.user, t.av, s.jti + 1, s.chainStart)
    /\ UNCHANGED <<now, users, tenants, logins, requests, revokesDue>>

(* A token that was already exchanged is presented again.                  *)
RefreshReuse(t) ==
    /\ refreshChecks(t)
    /\ sessions[t.sid].jti # t.jti
    /\ sessions' = [sessions EXCEPT ![t.sid].st = "revoked"]
    /\ UNCHANGED <<now, users, tenants, tokenVars, logins, requests, revokesDue>>

(* LogoutToken takes any signed token, an expired one too.                 *)
Logout(t) ==
    /\ revokeOne(t.sid, t.user)
    /\ UNCHANGED <<now, users, tenants, tokenVars, logins, requests, revokesDue>>

-----------------------------------------------------------------------------
(* AuthMiddleware: the token is parsed and ResolveAccessIdentity reads the *)
(* user, then the session, then the tenant, in three separate statements.  *)
(* A session is open while the row is neither revoked nor deleted and the  *)
(* user still has the version it was issued with.                          *)
sessionOpen(sid) ==
    /\ sessions[sid].st = "live"
    /\ ~users[sessions[sid].user].deleted
    /\ users[sessions[sid].user].av = sessions[sid].av

ReadUser(r, t) ==
    /\ requests[r].pc = "idle"
    /\ now < t.iat + AccessLife
    /\ mayUse(t.user, t.av)
    /\ requests' = [requests EXCEPT ![r] =
           [pc |-> "user", sid |-> t.sid, user |-> t.user, av |-> t.av,
            wasOpen |-> sessionOpen(t.sid)]]
    /\ UNCHANGED <<now, users, tenants, sessions, tokenVars, logins, revokesDue>>

(* Mutant: revoked_at of the row is not looked at. *)
ReadSessionRevokedToo(r) ==
    LET q == requests[r] IN
    /\ q.pc = "user"
    /\ sessions[q.sid].st \in {"live", "revoked"}
    /\ sessions[q.sid].user = q.user
    /\ sessions[q.sid].av = q.av
    /\ now < sessions[q.sid].chainExp
    /\ requests' = [requests EXCEPT ![r].pc = "session"]
    /\ UNCHANGED <<now, users, tenants, sessions, tokenVars, logins, revokesDue>>

ReadSession(r) ==
    LET q == requests[r] IN
    /\ q.pc = "user"
    /\ sessions[q.sid].st = "live"
    /\ sessions[q.sid].user = q.user
    /\ sessions[q.sid].av = q.av
    /\ now < sessions[q.sid].chainExp
    /\ requests' = [requests EXCEPT ![r].pc = "session"]
    /\ UNCHANGED <<now, users, tenants, sessions, tokenVars, logins, revokesDue>>

ReadTenant(r) ==
    /\ requests[r].pc = "session"
    /\ tenantAdmits(requests[r].user)
    /\ requests' = [requests EXCEPT ![r].pc = "granted"]
    /\ UNCHANGED <<now, users, tenants, sessions, tokenVars, logins, revokesDue>>

(* The handler is done, a read denied the request, or the client went away. *)
RequestEnds(r) ==
    /\ requests[r].pc # "idle"
    /\ requests' = [requests EXCEPT ![r] = IdleRequest]
    /\ UNCHANGED <<now, users, tenants, sessions, tokenVars, logins, revokesDue>>

-----------------------------------------------------------------------------
(* ChangePassword: one transaction on the locked user row.                 *)
ChangePassword(u) ==
    /\ ~users[u].deleted
    /\ users[u].av < MaxVersion
    /\ users' = [users EXCEPT ![u].pwd = @ + 1, ![u].av = @ + 1]
    /\ revokeAll({u})
    /\ UNCHANGED <<now, tenants, tokenVars, logins, requests, revokesDue>>

(* Mutant: the version of the user does not move with the role. *)
UpdateEmployeeKeepsVersion(u) ==
    /\ ~users[u].deleted
    /\ users[u].role < MaxVersion
    /\ users' = [users EXCEPT ![u].role = @ + 1]
    /\ revokesDue' = [revokesDue EXCEPT ![u] = @ + 1]
    /\ UNCHANGED <<now, tenants, sessions, tokenVars, logins, requests>>

(* UpdateEmployee with a new role or manager: the row with its version is  *)
(* committed first, the sessions are revoked by a statement of its own.    *)
UpdateEmployee(u) ==
    /\ ~users[u].deleted
    /\ users[u].av < MaxVersion
    /\ users' = [users EXCEPT ![u].role = @ + 1, ![u].av = @ + 1]
    /\ revokesDue' = [revokesDue EXCEPT ![u] = @ + 1]
    /\ UNCHANGED <<now, tenants, sessions, tokenVars, logins, requests>>

(* Mutant: a revocation runs that no update has asked for. *)
RevokeUnasked(u) ==
    /\ revokesDue' = [revokesDue EXCEPT ![u] = @ - 1]
    /\ revokeAll({u})
    /\ UNCHANGED <<now, users, tenants, tokenVars, logins, requests>>

RevokeAllForUser(u) ==
    /\ revokesDue[u] > 0
    /\ revokesDue' = [revokesDue EXCEPT ![u] = @ - 1]
    /\ revokeAll({u})
    /\ UNCHANGED <<now, users, tenants, tokenVars, logins, requests>>

(* The process dies, or the statement fails, between the two.              *)
LoseRevoke(u) ==
    /\ revokesDue[u] > 0
    /\ revokesDue' = [revokesDue EXCEPT ![u] = @ - 1]
    /\ UNCHANGED <<now, users, tenants, sessions, tokenVars, logins, requests>>

(* DeleteEmployee is a soft delete; no version moves and no row is revoked. *)
DeleteEmployee(u) ==
    /\ ~users[u].deleted
    /\ users' = [users EXCEPT ![u].deleted = TRUE]
    /\ UNCHANGED <<now, tenants, sessions, tokenVars, logins, requests, revokesDue>>

(* An operator edits users.status in the database: no handler writes it.   *)
SetUserStatus(u, status) ==
    /\ users' = [users EXCEPT ![u].status = status]
    /\ UNCHANGED <<now, tenants, sessions, tokenVars, logins, requests, revokesDue>>

staff(t) == {u \in Users : TenantOf[u] = t /\ ~users[u].deleted}

(* Mutant: only the status of the network is written. *)
BlockWritesStatusOnly(t) ==
    /\ tenants' = [tenants EXCEPT ![t].status = "blocked"]
    /\ UNCHANGED <<now, users, sessions, tokenVars, logins, requests, revokesDue>>

BlockTenant(t) ==
    /\ \A u \in staff(t) : users[u].av < MaxVersion
    /\ tenants' = [tenants EXCEPT ![t].status = "blocked"]
    /\ users' = [u \in Users |->
           IF u \in staff(t) THEN [users[u] EXCEPT !.av = @ + 1] ELSE users[u]]
    /\ revokeAll(staff(t))
    /\ UNCHANGED <<now, tokenVars, logins, requests, revokesDue>>

UnblockTenant(t) ==
    /\ tenants' = [tenants EXCEPT ![t].status = "active"]
    /\ UNCHANGED <<now, users, sessions, tokenVars, logins, requests, revokesDue>>

(* paid_until plus the grace period passes, and UpdateTenant moves it on.  *)
SubscriptionLapses(t) ==
    /\ ~tenants[t].lapsed
    /\ tenants' = [tenants EXCEPT ![t].lapsed = TRUE]
    /\ UNCHANGED <<now, users, sessions, tokenVars, logins, requests, revokesDue>>

UpdateTenant(t) ==
    /\ tenants[t].lapsed
    /\ tenants' = [tenants EXCEPT ![t].lapsed = FALSE]
    /\ UNCHANGED <<now, users, sessions, tokenVars, logins, requests, revokesDue>>

-----------------------------------------------------------------------------
(* The hourly job deletes the oldest dead rows, CleanupLimit at a time,    *)
(* and passes over those another transaction has locked.                   *)
(* Mutant: rows that were revoked are forgotten. *)
deadExpiredOnly(s) ==
    sessions[s].st = "live" /\ sessions[s].refreshExp <= now

dead(s) ==
    \/ sessions[s].st = "revoked"
    \/ sessions[s].st = "live" /\ sessions[s].refreshExp <= now

Cleanup(locked) ==
    \E D \in SUBSET {s \in Sids : dead(s) /\ s \notin locked} :
        /\ D # {}
        /\ \/ Cardinality(D) = CleanupLimit
           \/ Cardinality(D) < CleanupLimit /\ D = {s \in Sids : dead(s) /\ s \notin locked}
        /\ \A d \in D, e \in {s \in Sids : dead(s) /\ s \notin locked} \ D :
               sessions[d].refreshExp <= sessions[e].refreshExp
        /\ sessions' = [s \in Sids |->
               IF s \in D THEN [sessions[s] EXCEPT !.st = "purged"] ELSE sessions[s]]
        /\ UNCHANGED <<now, users, tenants, tokenVars, logins, requests, revokesDue>>

Tick ==
    /\ now < MaxTime
    /\ now' = now + 1
    /\ UNCHANGED <<users, tenants, sessions, tokenVars, logins, requests, revokesDue>>

LoginStep(l) ==
    \/ \E u \in Users : ComparePassword(l, u)
    \/ RereadUser(l)
    \/ \E sid \in Sids : IssueSession(l, sid)
    \/ LoginFails(l)

RequestStep(r) ==
    \/ \E t \in accessTokens : ReadUser(r, t)
    \/ ReadSession(r)
    \/ ReadTenant(r)
    \/ RequestEnds(r)

StaffStep(u) ==
    \/ ChangePassword(u)
    \/ UpdateEmployee(u)
    \/ RevokeAllForUser(u)
    \/ LoseRevoke(u)
    \/ DeleteEmployee(u)
    \/ \E status \in Statuses : SetUserStatus(u, status)

TenantStep(t) ==
    \/ BlockTenant(t)
    \/ UnblockTenant(t)
    \/ SubscriptionLapses(t)
    \/ UpdateTenant(t)

Next ==
    \/ \E l \in Logins : LoginStep(l)
    \/ \E t \in refreshTokens : Refresh(t) \/ RefreshReuse(t)
    \/ \E t \in accessTokens \cup refreshTokens : Logout(t)
    \/ \E r \in Requests : RequestStep(r)
    \/ \E u \in Users : StaffStep(u)
    \/ \E t \in Tenants : TenantStep(t)
    \/ \E locked \in SUBSET Sids : Cleanup(locked)
    \/ Tick

Spec == Init /\ [][Next]_vars

(* The cron entry runs for ever, and row locks are short.                  *)
FairSpec == Spec /\ WF_vars(Cleanup({}))

-----------------------------------------------------------------------------
(* What AuthMiddleware would answer if it ran in one instant.              *)
accessAccepted(t) ==
    /\ now < t.iat + AccessLife
    /\ mayUse(t.user, t.av)
    /\ sessions[t.sid].st = "live"
    /\ sessions[t.sid].user = t.user
    /\ sessions[t.sid].av = t.av
    /\ now < sessions[t.sid].chainExp
    /\ tenantAdmits(t.user)

(* Of all the refresh tokens ever signed for a session, whoever holds      *)
(* them, at most one can be exchanged: rotation leaves no second winner.   *)
OneRefreshTokenPerSession ==
    \A t1, t2 \in refreshTokens :
        t1.sid = t2.sid /\ refreshAccepted(t1) /\ refreshAccepted(t2) => t1 = t2

(* A login gives access for ChainLife and no longer, however often it is   *)
(* refreshed: counted from the first token of the session, not the last.   *)
ChainIsBounded ==
    \A first, t \in accessTokens :
        first.sid = t.sid /\ accessAccepted(t) => now < first.iat + ChainLife

(* BlockTenant leaves no open session behind and no login in flight slips  *)
(* past it: while a network is blocked none of its users has one.          *)
BlockedTenantHasNoOpenSession ==
    \A sid \in Sids :
        sessionOpen(sid) /\ TenantOf[sessions[sid].user] # None =>
            tenants[TenantOf[sessions[sid].user]].status # "blocked"

(* The version fence of IssueSession: a login that read the user row       *)
(* before a change of password opens no session that outlives the change.  *)
OpenSessionReadCurrentPassword ==
    \A sid \in Sids :
        sessionOpen(sid) => sessions[sid].seen = users[sessions[sid].user].pwd

(* After a change of password only logins that gave the new password have  *)
(* an open session.                                                        *)
OpenSessionProvedCurrentPassword ==
    \A sid \in Sids :
        sessionOpen(sid) => sessions[sid].proved = users[sessions[sid].user].pwd

(* The three reads of ResolveAccessIdentity are not one transaction, but a *)
(* request is granted only if its session was still open when it arrived:  *)
(* one that arrives after a logout, a block or a security change is not.   *)
NoGrantAfterClose ==
    \A r \in Requests : requests[r].pc = "granted" => requests[r].wasOpen

(* Cleanup is invisible: the row it deletes is never one that some token   *)
(* could still be used with.                                               *)
CleanupDeletesOnlyDeadSessions ==
    [][\A sid \in Sids :
           sessions[sid].st # "purged" /\ sessions'[sid].st = "purged" =>
               /\ \A t \in accessTokens : t.sid = sid => ~accessAccepted(t)
               /\ \A t \in refreshTokens : t.sid = sid => ~refreshAccepted(t)]_vars

(* The state of SessionAuthority: a session is open as sessionOpen says.   *)
phase == [s \in Sids |-> IF sessions[s].st = "unused" THEN "none"
                         ELSE IF sessionOpen(s) THEN "open" ELSE "closed"]
holder == [s \in Sids |-> sessions[s].user]
secret == [u \in Users |-> users[u].pwd]
rank == [u \in Users |-> users[u].role]
blocked == {t \in Tenants : tenants[t].status = "blocked"}

Authority == INSTANCE SessionAuthority
    WITH phase <- phase, holder <- holder, secret <- secret, rank <- rank,
         blocked <- blocked

(* Every step closes sessions, opens one, or is a change of credentials or *)
(* a block that closes, in the same instant, all the sessions it concerns; *)
(* none is ever opened again.                                              *)
ImplementsAuthority == Authority!ASpec

(* No row lives for ever: one that was revoked or whose chain is over is   *)
(* deleted in the end, so refreshing cannot keep a row in the table.       *)
DeadSessionsArePurged ==
    \A sid \in Sids :
        (\/ sessions[sid].st = "revoked"
         \/ sessions[sid].st = "live" /\ now >= sessions[sid].chainStart + ChainLife)
            ~> sessions[sid].st = "purged"
=============================================================================
