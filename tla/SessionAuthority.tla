-------------------------- MODULE SessionAuthority --------------------------
(***************************************************************************)
(* What the platform promises about login sessions, with no tables,        *)
(* versions, clocks or tokens: a session is opened once for one user,      *)
(* never while the network of that user is blocked, and once closed it     *)
(* stays closed.  A change of the password, of the role or of the manager  *)
(* of a user, and the blocking of a network, close every open session      *)
(* they concern in the same instant.  AuthSessions implements it.          *)
(***************************************************************************)

EXTENDS Naturals

CONSTANTS Users, Tenants, TenantOf, Sids, None

VARIABLES
    phase,    \* phase[s]: "none" before the login, then "open", then "closed"
    holder,   \* holder[s]: the user the session was opened for
    secret,   \* secret[u]: the generation of the password of u
    rank,     \* rank[u]: the generation of the role and manager of u
    blocked   \* the networks an administrator has blocked

avars == <<phase, holder, secret, rank, blocked>>

AInit ==
    /\ phase = [s \in Sids |-> "none"]
    /\ holder = [s \in Sids |-> None]
    /\ secret = [u \in Users |-> 0]
    /\ rank = [u \in Users |-> 0]
    /\ blocked = {}

(* The sessions of S that are open are closed; no other session moves.     *)
Closing(S) ==
    phase' = [s \in Sids |->
                 IF s \in S /\ phase[s] = "open" THEN "closed" ELSE phase[s]]

HeldBy(u) == {s \in Sids : holder[s] = u}

(* A login opens a session that was never used.                            *)
Open(s, u) ==
    /\ phase[s] = "none"
    /\ TenantOf[u] \notin blocked
    /\ phase' = [phase EXCEPT ![s] = "open"]
    /\ holder' = [holder EXCEPT ![s] = u]
    /\ UNCHANGED <<secret, rank, blocked>>

(* Sessions end one by one or together: logout, reuse of a refresh token,  *)
(* expiry, removal of the account.                                         *)
Close(S) ==
    /\ Closing(S)
    /\ UNCHANGED <<holder, secret, rank, blocked>>

ChangeSecret(u) ==
    /\ secret' = [secret EXCEPT ![u] = @ + 1]
    /\ Closing(HeldBy(u))
    /\ UNCHANGED <<holder, rank, blocked>>

ChangeRank(u) ==
    /\ rank' = [rank EXCEPT ![u] = @ + 1]
    /\ Closing(HeldBy(u))
    /\ UNCHANGED <<holder, secret, blocked>>

Block(t) ==
    /\ blocked' = blocked \cup {t}
    /\ Closing(UNION {HeldBy(u) : u \in {v \in Users : TenantOf[v] = t}})
    /\ UNCHANGED <<holder, secret, rank>>

Unblock(t) ==
    /\ blocked' = blocked \ {t}
    /\ UNCHANGED <<phase, holder, secret, rank>>

ANext ==
    \/ \E s \in Sids, u \in Users : Open(s, u)
    \/ \E S \in SUBSET Sids : Close(S)
    \/ \E u \in Users : ChangeSecret(u) \/ ChangeRank(u)
    \/ \E t \in Tenants : Block(t) \/ Unblock(t)

ASpec == AInit /\ [][ANext]_avars
=============================================================================
