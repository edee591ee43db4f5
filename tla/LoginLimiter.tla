---------------------------- MODULE LoginLimiter ----------------------------
(***************************************************************************)
(* The counter of failed logins from one address to one e-mail, and the    *)
(* attempts that read it before the password is compared and add to it     *)
(* after. It is kept in Redis; a replica without Redis, or whose call to   *)
(* Redis fails, reads and adds to a counter in its own memory.             *)
(***************************************************************************)
EXTENDS Naturals, FiniteSets

CONSTANTS
  Attempts,          \* handlers of login requests, each serving one after another
  Replicas,          \* instances of the backend
  redis,             \* the shared counter
  maxLoginAttempts,  \* failures that lock the pair
  captchaThreshold,  \* failures from which a CAPTCHA is asked for
  Window,            \* ticks for which failures are remembered, loginLockWindow
  MaxFaults          \* bound: calls to Redis that fail

Stores == Replicas \cup {redis}

ASSUME LimitsAssumption ==
  /\ maxLoginAttempts \in Nat \ {0} /\ captchaThreshold \in 1..maxLoginAttempts
  /\ Window \in Nat \ {0} /\ MaxFaults \in Nat
ASSUME AttemptsAssumption == IsFiniteSet(Attempts)
ASSUME StoresAssumption == redis \notin Replicas

VARIABLES
  client,    \* whether the backend was configured with Redis
  pc,        \* what each attempt does next
  servedBy,  \* the replica that serves it
  count,     \* failures each store counts; zero when it has no entry
  left,      \* ticks until the entry of a store expires; zero when it has no end
  faults     \* calls to Redis that failed

limiterVars == <<client, pc, servedBy, count, left, faults>>

LimiterTypeOK ==
  /\ client \in BOOLEAN
  /\ pc \in [Attempts -> {"idle", "captcha", "lockout", "compare"}]
  /\ servedBy \in [Attempts -> Replicas]
  /\ count \in [Stores -> Nat]
  /\ left \in [Stores -> 0..Window]
  /\ faults \in 0..MaxFaults

LimiterInit ==
  /\ client \in BOOLEAN
  /\ pc = [a \in Attempts |-> "idle"]
  /\ servedBy \in [Attempts -> Replicas]
  /\ count = [s \in Stores |-> 0] /\ left = [s \in Stores |-> 0]
  /\ faults = 0

(* ------------------------------ the counters ----------------------------- *)

\* Whether a call to Redis is answered; one that is not is a fault.
RedisCall(ok) ==
  /\ ~ok => client /\ faults < MaxFaults
  /\ faults' = IF ok THEN faults ELSE faults + 1

\* Redis that has no entry gives an error too, so the replica's own is read.
PeekLimit(r, ok) == IF client /\ ok /\ count[redis] > 0 THEN count[redis] ELSE count[r]

\* A failure more in each store of S, and an end to the entries of those in E:
\* Redis prolongs its entry at every failure, a replica's own keeps its end.
AddTo(S, E) ==
  /\ count' = [s \in Stores |-> IF s \in S THEN count[s] + 1 ELSE count[s]]
  /\ left' = [s \in Stores |-> IF s \in E /\ (s = redis \/ count[s] = 0)
                               THEN Window ELSE left[s]]

\* A call that fails may have been carried out before its answer was lost, both
\* its commands or the first of them only: an entry may be without an end.
IncrLimit(r) ==
  \/ client /\ RedisCall(TRUE) /\ AddTo({redis}, {redis})
  \/ /\ client /\ RedisCall(FALSE)
     /\ \E done \in SUBSET {redis} : \E timed \in SUBSET done :
          AddTo(done \cup {r}, timed \cup {r})
  \/ ~client /\ AddTo({r}, {r}) /\ UNCHANGED faults

\* A deletion that Redis does not answer is not tried again.
ResetLimit(r) ==
  \E ok \in BOOLEAN :
    /\ RedisCall(ok)
    /\ LET cleared == IF client /\ ok THEN {redis, r} ELSE {r} IN
       /\ count' = [s \in Stores |-> IF s \in cleared THEN 0 ELSE count[s]]
       /\ left' = [s \in Stores |-> IF s \in cleared THEN 0 ELSE left[s]]

(* ------------------------------ an attempt ------------------------------- *)

Begin(a, r) ==
  /\ pc[a] = "idle"
  /\ pc' = [pc EXCEPT ![a] = "captcha"] /\ servedBy' = [servedBy EXCEPT ![a] = r]
  /\ UNCHANGED <<client, count, left, faults>>

End(a) == pc' = [pc EXCEPT ![a] = "idle"]

\* From the threshold on the provider may refuse; below it nobody is asked.
CheckCaptcha(a) ==
  /\ pc[a] = "captcha"
  /\ \E ok \in BOOLEAN :
       /\ RedisCall(ok)
       /\ \/ pc' = [pc EXCEPT ![a] = "lockout"]
          \/ PeekLimit(servedBy[a], ok) >= captchaThreshold /\ End(a)
  /\ UNCHANGED <<client, servedBy, count, left>>

\* The mutated form: the lock is asked for one failure too late.
LockoutLate(a) ==
  /\ pc[a] = "lockout"
  /\ \E ok \in BOOLEAN :
       /\ RedisCall(ok)
       /\ IF PeekLimit(servedBy[a], ok) > maxLoginAttempts
          THEN End(a)
          ELSE pc' = [pc EXCEPT ![a] = "compare"]
  /\ UNCHANGED <<client, servedBy, count, left>>

\* The mutated form: an attempt that is refused prolongs the lock.
LockoutProlonged(a) ==
  /\ pc[a] = "lockout"
  /\ \E ok \in BOOLEAN :
       /\ RedisCall(ok)
       /\ IF PeekLimit(servedBy[a], ok) >= maxLoginAttempts
          THEN /\ End(a)
               /\ left' = [s \in Stores |-> IF count[s] > 0 THEN Window ELSE 0]
          ELSE pc' = [pc EXCEPT ![a] = "compare"] /\ UNCHANGED left
  /\ UNCHANGED <<client, servedBy, count>>

\* The counter is read a second time; a locked attempt is refused uncounted.
CheckLockout(a) ==
  /\ pc[a] = "lockout"
  /\ \E ok \in BOOLEAN :
       /\ RedisCall(ok)
       /\ IF PeekLimit(servedBy[a], ok) >= maxLoginAttempts
          THEN End(a)
          ELSE pc' = [pc EXCEPT ![a] = "compare"]
  /\ UNCHANGED <<client, servedBy, count, left>>

\* An unknown e-mail or a wrong password.
WrongCredentials(a) ==
  /\ pc[a] = "compare" /\ End(a)
  /\ IncrLimit(servedBy[a])
  /\ UNCHANGED <<client, servedBy>>

\* The right password of a user who is blocked, or whose network is.
RefusedLater(a) ==
  /\ pc[a] = "compare" /\ End(a)
  /\ UNCHANGED <<client, servedBy, count, left, faults>>

Authenticated(a) ==
  /\ pc[a] = "compare" /\ End(a)
  /\ ResetLimit(servedBy[a])
  /\ UNCHANGED <<client, servedBy>>

(* ---------------------------- time and restarts -------------------------- *)

Tick ==
  /\ \E s \in Stores : left[s] > 0
  /\ left' = [s \in Stores |-> IF left[s] > 0 THEN left[s] - 1 ELSE 0]
  /\ count' = [s \in Stores |-> IF left[s] = 1 THEN 0 ELSE count[s]]
  /\ UNCHANGED <<client, pc, servedBy, faults>>

\* The memory of a replica and the requests it serves are lost with it.
Restart(r) ==
  /\ count[r] > 0
  /\ pc' = [a \in Attempts |-> IF servedBy[a] = r THEN "idle" ELSE pc[a]]
  /\ count' = [count EXCEPT ![r] = 0] /\ left' = [left EXCEPT ![r] = 0]
  /\ UNCHANGED <<client, servedBy, faults>>

LimiterNext ==
  \/ \E a \in Attempts :
       \/ \E r \in Replicas : Begin(a, r)
       \/ CheckCaptcha(a) \/ CheckLockout(a)
       \/ WrongCredentials(a) \/ RefusedLater(a) \/ Authenticated(a)
  \/ Tick
  \/ \E r \in Replicas : Restart(r)

LimiterSafety == LimiterInit /\ [][LimiterNext]_limiterVars

TimePasses == WF_limiterVars(Tick)

LimiterSpec == LimiterSafety /\ TimePasses

(* ------------------------------ properties ------------------------------- *)

\* Attempts that have passed the lock and may still fail into store s.
Comparing(s) == {a \in Attempts : pc[a] = "compare" /\ s \in {redis, servedBy[a]}}

\* The counter is read before the comparison and added to after it, so the
\* attempts under way at once may all pass the lock on one count. They exceed
\* the limit by less than their number, and by one more for every call to
\* Redis that failed: what is counted and what is being compared together.
OvershootBounded ==
  \A s \in Stores :
    count[s] + Cardinality(Comparing(s))
      < maxLoginAttempts + Cardinality(Attempts) + faults

\* Redis prolongs a lock at every failure it counts, attempts keep coming, and a
\* failing call may leave an entry without an end. A lock ends all the same:
\* what it refuses is not counted, and one call of those that make a lock was
\* carried out in full.
LockEnds == \A s \in Stores : []<>(count[s] < maxLoginAttempts)
=============================================================================
