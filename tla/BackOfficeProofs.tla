-------------------------- MODULE BackOfficeProofs --------------------------
(***************************************************************************)
(* Protocols of the back office, which share nothing: the counter of failed*)
(* logins, the funnel of leads, the goals and checklists of a network, and *)
(* the reminders to pay. Theorems for any number of requests, replicas,    *)
(* records and networks; and a behaviour of all the protocols is one of    *)
(* each, the changes of the hierarchy of a network included.               *)
(***************************************************************************)
EXTENDS MCBackOffice, ManagerTreeProofs, FiniteSetTheorems, TLAPS

(* -------------------------- the login limiter ---------------------------- *)

\* Where the backend has no Redis nothing is counted there; where it has, a
\* replica counts what Redis failed to.
OwnCountsFail ==
  /\ ~client => count[redis] = 0
  /\ client => \A r \in Replicas : count[r] <= faults

LimiterInv == LimiterTypeOK /\ OwnCountsFail /\ OvershootBounded

\* The attempts that may fail into a store are finitely many, at most all.
LEMMA ComparingCounted ==
  \A s \in Stores : /\ Cardinality(Comparing(s)) \in Nat
                    /\ Cardinality(Comparing(s)) <= Cardinality(Attempts)
                    /\ IsFiniteSet(Comparing(s))
<1> TAKE s \in Stores
<1>1. Comparing(s) \subseteq Attempts
  BY DEF Comparing
<1>2. IsFiniteSet(Comparing(s)) /\ Cardinality(Comparing(s)) <= Cardinality(Attempts)
  BY <1>1, AttemptsAssumption, FS_Subset
<1> QED  BY <1>2, FS_CardinalityType

\* The attempts to log in can be counted.
LEMMA AttemptsCounted == Cardinality(Attempts) \in Nat
BY AttemptsAssumption, FS_CardinalityType

\* A step by which nothing more is counted, nor compared, keeps the bound.
LEMMA FewerCompared ==
  ASSUME LimiterInv, faults' \in 0..MaxFaults, faults <= faults',
         \A s \in Stores : count'[s] \in Nat /\ count'[s] <= count[s],
         \A s \in Stores : Comparing(s)' \subseteq Comparing(s)
  PROVE  OvershootBounded'
<1> SUFFICES ASSUME NEW s \in Stores
             PROVE  count'[s] + Cardinality(Comparing(s)')
                      < maxLoginAttempts + Cardinality(Attempts) + faults'
  BY DEF OvershootBounded
<1>1. IsFiniteSet(Comparing(s)) /\ Cardinality(Comparing(s)) \in Nat
  BY ComparingCounted
<1>2. Cardinality(Comparing(s)') <= Cardinality(Comparing(s))
  BY <1>1, FS_Subset
<1>3. Cardinality(Comparing(s)') \in Nat
  BY <1>1, FS_Subset, FS_CardinalityType
<1>4. count[s] + Cardinality(Comparing(s)) < maxLoginAttempts + Cardinality(Attempts) + faults
  BY DEF LimiterInv, OvershootBounded
<1>5. count[s] \in Nat /\ faults \in Nat /\ MaxFaults \in Nat /\ maxLoginAttempts \in Nat
  BY LimitsAssumption DEF LimiterInv, LimiterTypeOK
<1> QED  BY <1>1, <1>2, <1>3, <1>4, <1>5, AttemptsCounted

\* An attempt that passes the lock was told of fewer failures than lock, by the
\* store it may fail into; or that store holds but what Redis failed to count;
\* or the call has failed.
LEMMA LockPassed ==
  ASSUME LimiterInv, NEW a \in Attempts, CheckLockout(a)
  PROVE  OvershootBounded'
<1> USE LimitsAssumption, StoresAssumption, AttemptsCounted
<1> SUFFICES ASSUME NEW s \in Stores
             PROVE  count'[s] + Cardinality(Comparing(s)')
                      < maxLoginAttempts + Cardinality(Attempts) + faults'
  BY DEF OvershootBounded
<1>1. count[s] \in Nat /\ faults \in Nat /\ servedBy[a] \in Replicas /\ maxLoginAttempts \in Nat
  BY DEF LimiterInv, LimiterTypeOK
<1>2. PICK ok \in BOOLEAN :
        /\ RedisCall(ok)
        /\ IF PeekLimit(servedBy[a], ok) >= maxLoginAttempts
           THEN End(a)
           ELSE pc' = [pc EXCEPT ![a] = "compare"]
  BY DEF CheckLockout
<1>3. count' = count /\ servedBy' = servedBy /\ faults' \in Nat /\ faults <= faults'
  BY <1>1, <1>2 DEF CheckLockout, RedisCall
<1>4. Comparing(s)' \subseteq Comparing(s) \cup {a}
  BY <1>2, <1>3 DEF Comparing, End, LimiterInv, LimiterTypeOK
<1>5. IsFiniteSet(Comparing(s)) /\ Cardinality(Comparing(s)) \in Nat
  BY ComparingCounted
<1>6. /\ Comparing(s)' \subseteq Attempts
      /\ Cardinality(Comparing(s)') \in Nat
      /\ Cardinality(Comparing(s)') <= Cardinality(Attempts)
  <2>1. Comparing(s)' \subseteq Attempts
    BY DEF Comparing
  <2>2. IsFiniteSet(Comparing(s)') /\ Cardinality(Comparing(s)') <= Cardinality(Attempts)
    BY <2>1, AttemptsAssumption, FS_Subset
  <2> QED  BY <2>1, <2>2, FS_CardinalityType
<1>7. count[s] + Cardinality(Comparing(s)) < maxLoginAttempts + Cardinality(Attempts) + faults
  BY DEF LimiterInv, OvershootBounded
<1>8. CASE ~ok
  <2>1. faults' = faults + 1
    BY <1>2, <1>8 DEF RedisCall
  <2>2. /\ IsFiniteSet(Comparing(s) \cup {a})
        /\ Cardinality(Comparing(s) \cup {a}) <= Cardinality(Comparing(s)) + 1
        /\ Cardinality(Comparing(s) \cup {a}) \in Nat
    <3>1. IsFiniteSet(Comparing(s) \cup {a})
      BY <1>5, FS_AddElement
    <3>2. \/ Cardinality(Comparing(s) \cup {a}) = Cardinality(Comparing(s))
          \/ Cardinality(Comparing(s) \cup {a}) = Cardinality(Comparing(s)) + 1
      BY <1>5, FS_AddElement
    <3> QED  BY <1>5, <3>1, <3>2
  <2>3. Cardinality(Comparing(s)') <= Cardinality(Comparing(s) \cup {a})
    BY <1>4, <2>2, FS_Subset
  <2> QED  BY <1>1, <1>3, <1>5, <1>6, <1>7, <2>1, <2>2, <2>3
<1>9. CASE ok /\ count[s] < maxLoginAttempts + faults
  BY <1>1, <1>3, <1>6, <1>9
<1>10. CASE ok /\ Comparing(s)' \subseteq Comparing(s)
  <2>1. Cardinality(Comparing(s)') <= Cardinality(Comparing(s))
    BY <1>5, <1>10, FS_Subset
  <2> QED  BY <1>1, <1>3, <1>5, <1>6, <1>7, <2>1
<1>11. ok => count[s] < maxLoginAttempts + faults \/ Comparing(s)' \subseteq Comparing(s)
  <2> SUFFICES ASSUME ok, ~(Comparing(s)' \subseteq Comparing(s))
               PROVE  count[s] < maxLoginAttempts + faults
    OBVIOUS
  <2>1. a \in Comparing(s)'
    BY <1>4
  <2>2. s \in {redis, servedBy[a]} /\ pc'[a] = "compare"
    BY <1>3, <2>1 DEF Comparing
  <2>3. pc \in [Attempts -> {"idle", "captcha", "lockout", "compare"}]
    BY DEF LimiterInv, LimiterTypeOK
  <2>4. ~(PeekLimit(servedBy[a], ok) >= maxLoginAttempts)
    BY <1>2, <2>2, <2>3 DEF End
  <2>5. /\ count[redis] \in Nat /\ count[servedBy[a]] \in Nat
        /\ ~client => count[redis] = 0
        /\ client => count[servedBy[a]] <= faults
    BY <1>1 DEF LimiterInv, LimiterTypeOK, OwnCountsFail, Stores
  <2> QED  BY <1>1, <2>2, <2>4, <2>5 DEF PeekLimit
<1> QED  BY <1>8, <1>9, <1>10, <1>11

\* What a call to the counters leaves of them.
LEMMA CountersTyped ==
  ASSUME LimiterTypeOK, NEW S \in SUBSET Stores, NEW E \in SUBSET Stores, AddTo(S, E)
  PROVE  count' \in [Stores -> Nat] /\ left' \in [Stores -> 0..Window]
<1>1. \A s \in Stores : count[s] \in Nat /\ left[s] \in 0..Window /\ Window \in 0..Window
  BY LimitsAssumption DEF LimiterTypeOK
<1> QED  BY <1>1 DEF AddTo

\* A failure is counted where the attempt that made it is no longer comparing.
LEMMA FailureCounted ==
  ASSUME LimiterInv, NEW a \in Attempts, WrongCredentials(a)
  PROVE  LimiterInv'
<1> USE LimitsAssumption, StoresAssumption, AttemptsCounted
<1>1. /\ pc \in [Attempts -> {"idle", "captcha", "lockout", "compare"}]
      /\ servedBy \in [Attempts -> Replicas] /\ servedBy[a] \in Replicas
      /\ count \in [Stores -> Nat] /\ faults \in 0..MaxFaults
      /\ servedBy[a] \in Stores /\ redis \in Stores
  BY DEF LimiterInv, LimiterTypeOK, Stores
<1>2. servedBy' = servedBy /\ client' = client /\ pc' = [pc EXCEPT ![a] = "idle"] /\ pc[a] = "compare"
  BY DEF WrongCredentials, End
<1>3. PICK S \in SUBSET {redis, servedBy[a]}, E \in SUBSET {redis, servedBy[a]} :
        /\ AddTo(S, E)
        /\ faults' \in {faults, faults + 1} /\ faults' \in 0..MaxFaults
        /\ redis \in S => client
        /\ servedBy[a] \in S /\ client => faults' = faults + 1
  <2>1. CASE client /\ RedisCall(TRUE) /\ AddTo({redis}, {redis})
    <3>1. faults' = faults
      BY <2>1 DEF RedisCall
    <3>2. servedBy[a] \notin {redis}
      BY <1>1
    <3> QED  BY <1>1, <2>1, <3>1, <3>2
  <2>2. CASE /\ client /\ RedisCall(FALSE)
             /\ \E done \in SUBSET {redis} : \E timed \in SUBSET done :
                  AddTo(done \cup {servedBy[a]}, timed \cup {servedBy[a]})
    <3>1. faults' = faults + 1 /\ faults' \in 0..MaxFaults
      BY <1>1, <2>2 DEF RedisCall
    <3>2. PICK done \in SUBSET {redis}, timed \in SUBSET {redis} :
            AddTo(done \cup {servedBy[a]}, timed \cup {servedBy[a]})
      BY <2>2
    <3> QED  BY <1>1, <2>2, <3>1, <3>2
  <2>3. CASE ~client /\ AddTo({servedBy[a]}, {servedBy[a]}) /\ UNCHANGED faults
    <3>1. redis \notin {servedBy[a]}
      BY <1>1
    <3> QED  BY <1>1, <2>3, <3>1
  <2> QED  BY <2>1, <2>2, <2>3 DEF WrongCredentials, IncrLimit
<1>4. S \subseteq Stores /\ E \subseteq Stores
  BY <1>1
<1>5. LimiterTypeOK'
  <2>1. count' \in [Stores -> Nat] /\ left' \in [Stores -> 0..Window]
    BY <1>3, <1>4, CountersTyped DEF LimiterInv
  <2>2. pc' \in [Attempts -> {"idle", "captcha", "lockout", "compare"}]
    BY <1>1, <1>2
  <2> QED  BY <1>2, <1>3, <2>1, <2>2 DEF LimiterInv, LimiterTypeOK
<1>6. \A s \in Stores : count'[s] = IF s \in S THEN count[s] + 1 ELSE count[s]
  BY <1>3 DEF AddTo
<1>7. OwnCountsFail'
  <2>1. ~client => count'[redis] = 0
    BY <1>1, <1>3, <1>6 DEF LimiterInv, OwnCountsFail
  <2>2. ASSUME client, NEW r \in Replicas PROVE count'[r] <= faults'
    <3>1. r \in Stores /\ count[r] \in Nat /\ count[r] <= faults /\ r # redis
      BY <1>1, <2>2 DEF LimiterInv, OwnCountsFail, Stores
    <3>2. r \in S => r = servedBy[a]
      BY <1>3, <3>1
    <3> QED  BY <1>1, <1>3, <1>6, <2>2, <3>1, <3>2
  <2> QED  BY <1>2, <2>1, <2>2 DEF OwnCountsFail
<1>8. OvershootBounded'
  <2> SUFFICES ASSUME NEW s \in Stores
               PROVE  count'[s] + Cardinality(Comparing(s)')
                        < maxLoginAttempts + Cardinality(Attempts) + faults'
    BY DEF OvershootBounded
  <2>1. count[s] + Cardinality(Comparing(s)) < maxLoginAttempts + Cardinality(Attempts) + faults
    BY DEF LimiterInv, OvershootBounded
  <2>2. IsFiniteSet(Comparing(s)) /\ Cardinality(Comparing(s)) \in Nat
    BY ComparingCounted
  <2>3. Comparing(s)' = Comparing(s) \ {a}
    BY <1>1, <1>2 DEF Comparing
  <2>4. CASE s \in S
    <3>1. a \in Comparing(s)
      BY <1>2, <1>3, <2>4 DEF Comparing
    <3>2. Cardinality(Comparing(s)') = Cardinality(Comparing(s)) - 1
      BY <2>2, <2>3, <3>1, FS_RemoveElement, ZenonT(40)
    <3> QED  BY <1>1, <1>3, <1>6, <2>1, <2>2, <2>4, <3>2
  <2>5. CASE s \notin S
    <3>1. /\ Cardinality(Comparing(s)') <= Cardinality(Comparing(s))
          /\ IsFiniteSet(Comparing(s)')
      BY <2>2, <2>3, FS_Subset
    <3>2. Cardinality(Comparing(s)') \in Nat
      BY <3>1, FS_CardinalityType
    <3> QED  BY <1>1, <1>3, <1>6, <2>1, <2>2, <2>5, <3>1, <3>2
  <2> QED  BY <2>4, <2>5
<1> QED  BY <1>5, <1>7, <1>8 DEF LimiterInv

\* By no step but a failure does a store count more.
LEMMA NothingMoreCounted ==
  ASSUME LimiterInv, client' = client, faults' \in 0..MaxFaults, faults <= faults',
         \A s \in Stores : count'[s] \in Nat /\ count'[s] <= count[s]
  PROVE  OwnCountsFail'
<1> USE LimitsAssumption DEF LimiterInv, LimiterTypeOK, OwnCountsFail, Stores
<1>1. ~client => count'[redis] = 0
  <2>1. count'[redis] \in Nat /\ count'[redis] <= count[redis]
    OBVIOUS
  <2> QED  BY <2>1
<1>2. ASSUME client, NEW r \in Replicas PROVE count'[r] <= faults'
  <2>1. count'[r] \in Nat /\ count'[r] <= count[r] /\ count[r] \in Nat /\ count[r] <= faults
    BY <1>2
  <2>2. faults \in Nat /\ faults' \in Nat
    OBVIOUS
  <2> QED  BY <2>1, <2>2
<1> QED  BY <1>1, <1>2

\* Every step keeps the invariant; the two that compare or count more are above.
LEMMA LimiterPreserved == LimiterInv /\ [LimiterNext]_limiterVars => LimiterInv'
<1> SUFFICES ASSUME LimiterInv, [LimiterNext]_limiterVars PROVE LimiterInv'
  OBVIOUS
<1> USE LimitsAssumption, StoresAssumption
<1>1. /\ pc \in [Attempts -> {"idle", "captcha", "lockout", "compare"}]
      /\ servedBy \in [Attempts -> Replicas]
      /\ count \in [Stores -> Nat] /\ left \in [Stores -> 0..Window]
      /\ faults \in 0..MaxFaults /\ client \in BOOLEAN
      /\ \A s \in Stores : count[s] \in Nat /\ left[s] \in 0..Window
  BY DEF LimiterInv, LimiterTypeOK
<1>2. ASSUME LimiterTypeOK', client' = client, faults <= faults',
             \A s \in Stores : count'[s] <= count[s],
             \A s \in Stores : Comparing(s)' \subseteq Comparing(s)
      PROVE  LimiterInv'
  <2>1. faults' \in 0..MaxFaults /\ \A s \in Stores : count'[s] \in Nat
    BY <1>2 DEF LimiterTypeOK
  <2>2. OwnCountsFail'
    BY <1>2, <2>1, NothingMoreCounted
  <2>3. OvershootBounded'
    BY <1>2, <2>1, FewerCompared
  <2> QED  BY <1>2, <2>2, <2>3 DEF LimiterInv
<1>3. ASSUME NEW a \in Attempts, NEW r \in Replicas, Begin(a, r) PROVE LimiterInv'
  <2>1. LimiterTypeOK'
    BY <1>1, <1>3 DEF Begin, LimiterTypeOK
  <2>2. \A s \in Stores : Comparing(s)' \subseteq Comparing(s)
    BY <1>1, <1>3 DEF Begin, Comparing
  <2> QED  BY <1>1, <1>2, <1>3, <2>1, <2>2 DEF Begin
<1>4. ASSUME NEW a \in Attempts, CheckCaptcha(a) PROVE LimiterInv'
  <2>1. faults' \in 0..MaxFaults /\ faults <= faults'
    BY <1>1, <1>4 DEF CheckCaptcha, RedisCall
  <2>2. pc' \in {[pc EXCEPT ![a] = "lockout"], [pc EXCEPT ![a] = "idle"]}
    BY <1>4 DEF CheckCaptcha, End
  <2>3. LimiterTypeOK'
    BY <1>1, <1>4, <2>1, <2>2 DEF CheckCaptcha, LimiterTypeOK
  <2>4. \A s \in Stores : Comparing(s)' \subseteq Comparing(s)
    BY <1>1, <1>4, <2>2 DEF CheckCaptcha, Comparing
  <2> QED  BY <1>1, <1>2, <1>4, <2>1, <2>3, <2>4 DEF CheckCaptcha
<1>5. ASSUME NEW a \in Attempts, CheckLockout(a) PROVE LimiterInv'
  <2>1. faults' \in 0..MaxFaults /\ faults <= faults'
    BY <1>1, <1>5 DEF CheckLockout, RedisCall
  <2>2. pc' \in {[pc EXCEPT ![a] = "compare"], [pc EXCEPT ![a] = "idle"]}
    BY <1>5 DEF CheckLockout, End
  <2>3. LimiterTypeOK'
    BY <1>1, <1>5, <2>1, <2>2 DEF CheckLockout, LimiterTypeOK
  <2>4. OwnCountsFail'
    BY <1>1, <1>5, <2>1, NothingMoreCounted DEF CheckLockout
  <2> QED  BY <1>5, <2>3, <2>4, LockPassed DEF LimiterInv
<1>6. ASSUME NEW a \in Attempts, WrongCredentials(a) PROVE LimiterInv'
  BY <1>6, FailureCounted
<1>7. ASSUME NEW a \in Attempts, RefusedLater(a) PROVE LimiterInv'
  <2>1. LimiterTypeOK'
    BY <1>1, <1>7 DEF RefusedLater, End, LimiterTypeOK
  <2>2. \A s \in Stores : Comparing(s)' \subseteq Comparing(s)
    BY <1>1, <1>7 DEF RefusedLater, End, Comparing
  <2> QED  BY <1>1, <1>2, <1>7, <2>1, <2>2 DEF RefusedLater
<1>8. ASSUME NEW a \in Attempts, Authenticated(a) PROVE LimiterInv'
  <2>1. /\ faults' \in 0..MaxFaults /\ faults <= faults'
        /\ count' \in [Stores -> Nat] /\ left' \in [Stores -> 0..Window]
        /\ \A s \in Stores : count'[s] <= count[s]
    <3> DEFINE emptied(ok) == IF client /\ ok THEN {redis, servedBy[a]} ELSE {servedBy[a]}
    <3>1. PICK ok \in BOOLEAN :
            /\ RedisCall(ok)
            /\ count' = [s \in Stores |-> IF s \in emptied(ok) THEN 0 ELSE count[s]]
            /\ left' = [s \in Stores |-> IF s \in emptied(ok) THEN 0 ELSE left[s]]
      BY <1>8 DEF Authenticated, ResetLimit
    <3>2. faults' \in 0..MaxFaults /\ faults <= faults'
      BY <1>1, <3>1 DEF RedisCall
    <3> HIDE DEF emptied
    <3>3. /\ \A s \in Stores : count'[s] \in Nat /\ count'[s] <= count[s]
          /\ \A s \in Stores : left'[s] \in 0..Window
      BY <1>1, <3>1
    <3> QED  BY <3>1, <3>2, <3>3
  <2>2. LimiterTypeOK'
    BY <1>1, <1>8, <2>1 DEF Authenticated, End, LimiterTypeOK
  <2>3. \A s \in Stores : Comparing(s)' \subseteq Comparing(s)
    BY <1>1, <1>8 DEF Authenticated, End, Comparing
  <2> QED  BY <1>2, <1>8, <2>1, <2>2, <2>3 DEF Authenticated
<1>9. ASSUME Tick PROVE LimiterInv'
  <2>1. LimiterTypeOK' /\ \A s \in Stores : count'[s] <= count[s]
    BY <1>1, <1>9 DEF Tick, LimiterTypeOK
  <2>2. \A s \in Stores : Comparing(s)' \subseteq Comparing(s)
    BY <1>9 DEF Tick, Comparing
  <2> QED  BY <1>1, <1>2, <1>9, <2>1, <2>2 DEF Tick
<1>10. ASSUME NEW r \in Replicas, Restart(r) PROVE LimiterInv'
  <2>1. LimiterTypeOK' /\ \A s \in Stores : count'[s] <= count[s]
    <3>1. /\ count' = [count EXCEPT ![r] = 0] /\ left' = [left EXCEPT ![r] = 0]
          /\ client' = client /\ servedBy' = servedBy /\ faults' = faults
          /\ pc' = [a \in Attempts |-> IF servedBy[a] = r THEN "idle" ELSE pc[a]]
          /\ 0 \in 0..Window
      BY <1>10 DEF Restart
    <3>2. /\ count' \in [Stores -> Nat] /\ left' \in [Stores -> 0..Window]
          /\ \A s \in Stores : count'[s] <= count[s]
      <4>1. count' \in [Stores -> Nat]
        BY <1>1, <3>1
      <4>2. left' \in [Stores -> 0..Window]
        BY <1>1, <3>1
      <4>3. ASSUME NEW s \in Stores PROVE count'[s] <= count[s]
        <5>1. count[s] \in Nat /\ count'[s] = IF s = r THEN 0 ELSE count[s]
          BY <1>1, <3>1
        <5> QED  BY <5>1
      <4> QED  BY <4>1, <4>2, <4>3
    <3>3. pc' \in [Attempts -> {"idle", "captcha", "lockout", "compare"}]
      BY <1>1, <3>1
    <3> QED  BY <1>1, <3>1, <3>2, <3>3 DEF LimiterTypeOK
  <2>2. \A s \in Stores : Comparing(s)' \subseteq Comparing(s)
    BY <1>1, <1>10 DEF Restart, Comparing
  <2> QED  BY <1>1, <1>2, <1>10, <2>1, <2>2 DEF Restart
<1>11. CASE UNCHANGED limiterVars
  <2>1. LimiterTypeOK'
    BY <1>1, <1>11 DEF limiterVars, LimiterTypeOK
  <2>2. \A s \in Stores : Comparing(s)' \subseteq Comparing(s)
    BY <1>11 DEF limiterVars, Comparing
  <2> QED  BY <1>1, <1>2, <1>11, <2>1, <2>2 DEF limiterVars
<1> QED  BY <1>3, <1>4, <1>5, <1>6, <1>7, <1>8, <1>9, <1>10, <1>11 DEF LimiterNext

\* Before any attempt nothing is counted and nobody is being compared.
LEMMA LimiterInitially == LimiterInit => LimiterInv
<1> SUFFICES ASSUME LimiterInit PROVE LimiterInv
  OBVIOUS
<1>1. LimiterTypeOK /\ OwnCountsFail
  BY LimitsAssumption DEF LimiterInit, LimiterTypeOK, OwnCountsFail, Stores
<1>2. ASSUME NEW s \in Stores
      PROVE  count[s] + Cardinality(Comparing(s))
               < maxLoginAttempts + Cardinality(Attempts) + faults
  <2>1. Cardinality(Comparing(s)) \in Nat /\ Cardinality(Comparing(s)) <= Cardinality(Attempts)
    BY ComparingCounted
  <2>2. count[s] = 0 /\ faults = 0 /\ maxLoginAttempts \in Nat \ {0}
    BY LimitsAssumption DEF LimiterInit
  <2> QED  BY <2>1, <2>2, AttemptsCounted
<1> QED  BY <1>1, <1>2 DEF LimiterInv, OvershootBounded

\* The variables keep their types: no count falls below zero, no end lies
\* beyond the window.
THEOREM LimiterTypeCorrect == LimiterSafety => []LimiterTypeOK
<1>1. LimiterInv => LimiterTypeOK
  BY DEF LimiterInv
<1> QED  BY <1>1, LimiterInitially, LimiterPreserved, PTL DEF LimiterSafety

\* However many attempts are compared at once, on however many replicas, and
\* whichever calls to Redis fail: the failures counted exceed the limit by less
\* than the attempts and the failed calls together.
THEOREM GuessesBounded == LimiterSafety => []OvershootBounded
<1>1. LimiterInv => OvershootBounded
  BY DEF LimiterInv
<1> QED  BY <1>1, LimiterInitially, LimiterPreserved, PTL DEF LimiterSafety

(* ------------------------------- the funnel ------------------------------ *)

AfterSale == {"sale", "paid", "contract"}

\* A request that is about to write has checked its change against a status the
\* lead once had.
ChangesChecked ==
  \A c \in Updates :
    call[c] # NoLead =>
      /\ call[c] \in Change
      /\ MayFollow(call[c].read, call[c].asked)
      /\ call[c].read \in AfterSale => call[c].lead \in sold

FunnelInv ==
  /\ FunnelTypeOK
  /\ \A l \in Leads : leadStatus[l] \in AfterSale => l \in sold
  /\ ChangesChecked

\* Only a sale, a contract or a payment is followed by one of the latter two.
LEMMA PaymentFollowsSale ==
  ASSUME NEW read \in validLeadStatuses, NEW asked \in AfterSale, MayFollow(read, asked)
  PROVE  asked = "sale" \/ read \in AfterSale
<1>1. asked \notin leadStatusTransitions[read] => read = asked
  BY DEF MayFollow
<1>2. ASSUME asked \in leadStatusTransitions[read], asked # "sale" PROVE read \in AfterSale
  BY <1>2 DEF leadStatusTransitions, validLeadStatuses, AfterSale
<1> QED  BY <1>1, <1>2

\* No step of a change of a lead breaks the invariant.
LEMMA FunnelPreserved == FunnelInv /\ [FunnelNext]_funnelVars => FunnelInv'
<1> SUFFICES ASSUME FunnelInv, [FunnelNext]_funnelVars PROVE FunnelInv'
  OBVIOUS
<1>1. /\ leadStatus \in [Leads -> validLeadStatuses \cup {NoLead}]
      /\ call \in [Updates -> Change \cup {NoLead}]
      /\ sold \subseteq Leads
      /\ "new" \in validLeadStatuses /\ "new" \notin AfterSale
  BY DEF FunnelInv, FunnelTypeOK, validLeadStatuses, AfterSale
<1>2. ASSUME NEW l \in Leads, CreateLead(l) PROVE FunnelInv'
  <2>1. FunnelTypeOK'
    BY <1>1, <1>2 DEF CreateLead, FunnelInv, FunnelTypeOK
  <2>2. \A m \in Leads : leadStatus'[m] \in AfterSale => m \in sold'
    BY <1>1, <1>2 DEF CreateLead, FunnelInv
  <2>3. ChangesChecked'
    BY <1>2 DEF CreateLead, FunnelInv, ChangesChecked
  <2> QED  BY <2>1, <2>2, <2>3 DEF FunnelInv
<1>3. ASSUME NEW c \in Updates, NEW l \in Leads, NEW s \in validLeadStatuses,
             UpdateStatus(c, l, s)
      PROVE  FunnelInv'
  <2> DEFINE x == [lead |-> l, read |-> leadStatus[l], asked |-> s]
  <2>1. x \in Change /\ call' = [call EXCEPT ![c] = x] /\ UNCHANGED <<leadStatus, sold>>
    BY <1>1, <1>3 DEF UpdateStatus, Change
  <2>2. FunnelTypeOK'
    BY <1>1, <2>1 DEF FunnelInv, FunnelTypeOK
  <2>3. MayFollow(x.read, x.asked) /\ (x.read \in AfterSale => x.lead \in sold)
    BY <1>3 DEF UpdateStatus, FunnelInv
  <2> HIDE DEF x
  <2>4. ChangesChecked'
    BY <1>1, <2>1, <2>3 DEF FunnelInv, ChangesChecked, MayFollow
  <2> QED  BY <2>1, <2>2, <2>4 DEF FunnelInv
<1>4. ASSUME NEW c \in Updates, UpdateLeadStatus(c) PROVE FunnelInv'
  <2> DEFINE l == call[c].lead
             s == call[c].asked
  <2>1. /\ call[c] \in Change /\ l \in Leads /\ s \in validLeadStatuses
        /\ MayFollow(call[c].read, s) /\ (call[c].read \in AfterSale => l \in sold)
        /\ call[c].read \in validLeadStatuses
    BY <1>4 DEF UpdateLeadStatus, FunnelInv, ChangesChecked, Change
  <2>2. /\ leadStatus' = [leadStatus EXCEPT ![l] = s]
        /\ sold' = IF s = "sale" THEN sold \cup {l} ELSE sold
        /\ call' = [call EXCEPT ![c] = NoLead]
    BY <1>4 DEF UpdateLeadStatus
  <2>3. s \in AfterSale => s = "sale" \/ l \in sold
    BY <2>1, PaymentFollowsSale
  <2> HIDE DEF l, s
  <2>4. FunnelTypeOK'
    BY <1>1, <2>1, <2>2 DEF FunnelInv, FunnelTypeOK
  <2>5. \A m \in Leads : leadStatus'[m] \in AfterSale => m \in sold'
    BY <1>1, <2>1, <2>2, <2>3 DEF FunnelInv
  <2>6. ChangesChecked'
    BY <1>1, <2>2 DEF FunnelInv, ChangesChecked, MayFollow
  <2> QED  BY <2>4, <2>5, <2>6 DEF FunnelInv
<1>5. ASSUME NEW c \in Updates, UpdateFails(c) PROVE FunnelInv'
  <2>1. FunnelTypeOK'
    BY <1>1, <1>5 DEF UpdateFails, FunnelInv, FunnelTypeOK
  <2>2. ChangesChecked'
    BY <1>1, <1>5 DEF UpdateFails, FunnelInv, ChangesChecked, MayFollow
  <2> QED  BY <1>5, <2>1, <2>2 DEF UpdateFails, FunnelInv
<1>6. CASE UNCHANGED funnelVars
  BY <1>6 DEF funnelVars, FunnelInv, FunnelTypeOK, ChangesChecked, MayFollow
<1> QED  BY <1>2, <1>3, <1>4, <1>5, <1>6 DEF FunnelNext

\* There are no leads at first, and no change has been asked for.
LEMMA FunnelInitially == FunnelInit => FunnelInv
<1> SUFFICES ASSUME FunnelInit PROVE FunnelInv
  OBVIOUS
<1>1. FunnelTypeOK
  BY DEF FunnelInit, FunnelTypeOK
<1>2. NoLead \notin AfterSale
  BY NoneAssumption DEF AfterSale, validLeadStatuses
<1> QED  BY <1>1, <1>2 DEF FunnelInit, FunnelInv, ChangesChecked

\* Statuses stay in their domain, whatever is written over what.
THEOREM FunnelTypeCorrect == FunnelSpec => []FunnelTypeOK
<1>1. FunnelInv => FunnelTypeOK
  BY DEF FunnelInv
<1> QED  BY <1>1, FunnelInitially, FunnelPreserved, PTL DEF FunnelSpec

\* No order of overtaking writes makes a lead paid or contracted, and so revenue,
\* that was never a sale.
THEOREM RevenueWasSold == FunnelSpec => []NoPaymentWithoutSale
<1>1. FunnelInv => NoPaymentWithoutSale
  BY DEF FunnelInv, NoPaymentWithoutSale, AfterSale
<1> QED  BY <1>1, FunnelInitially, FunnelPreserved, PTL DEF FunnelSpec

(* -------------------------- goals and checklists ------------------------- *)

\* A row is of the network of whoever made it, and given to a colleague of his.
RowSound(r) ==
  /\ r \in RecordRow
  /\ r.network = NetworkOf[r.owner]
  /\ r.network # Nobody => ValidateAssignee(r.assignee, r.network)

\* Every row is sound, and every copy that is about to be saved over one.
RecordsInv ==
  /\ RecordsTypeOK
  /\ \A id \in RecordIds : records[id] # Nobody => RowSound(records[id])
  /\ \A c \in Calls : request[c] # Nobody /\ request[c].op = "save" => RowSound(request[c].row)

\* A request that holds something of its type, and no unsound copy.
LEMMA HeldSoundly ==
  ASSUME RecordsInv, NEW c \in Calls, NEW doing \in Doing \cup {Nobody}, Holds(c, doing),
         doing # Nobody /\ doing.op = "save" => RowSound(doing.row)
  PROVE  RecordsInv'
<1>1. request \in [Calls -> Doing \cup {Nobody}] /\ request' = [request EXCEPT ![c] = doing]
      /\ records' = records /\ gone' = gone
  BY DEF RecordsInv, RecordsTypeOK, Holds
<1>2. RecordsTypeOK'
  BY <1>1 DEF RecordsInv, RecordsTypeOK
<1>3. \A d \in Calls : request'[d] # Nobody /\ request'[d].op = "save" => RowSound(request'[d].row)
  BY <1>1 DEF RecordsInv
<1> QED  BY <1>1, <1>2, <1>3 DEF RecordsInv, RowSound, ValidateAssignee

\* A copy that is sound may be held for the save.
LEMMA CopyHeld ==
  ASSUME RecordsInv, NEW c \in Calls, NEW id \in RecordIds, NEW row, RowSound(row),
         Saves(c, id, row)
  PROVE  RecordsInv'
<1> DEFINE doing == [op |-> "save", id |-> id, row |-> row]
<1>1. doing \in Doing /\ doing.row = row /\ Holds(c, doing)
  BY DEF Doing, RowSound, Saves
<1> HIDE DEF doing
<1> QED  BY <1>1, HeldSoundly

\* Whoever may change a checklist is of its network, or of none.
LEMMA ChangedFromWithin ==
  ASSUME NEW r, RowSound(r), NEW u \in Callers, NEW a \in Callers \cup {Nobody},
         checklistOwnedByCaller(u, r), ValidateAssignee(a, NetworkOf[u]),
         r.network # Nobody
  PROVE  ValidateAssignee(a, r.network)
BY RecordUsersAssumption
   DEF RowSound, checklistOwnedByCaller, ValidateAssignee, IsSuper

\* A role that may be assigned to is a role.
LEMMA RolesAssigned ==
  \A u, role : canAssign(u, role) => role \in {AssignOrder[i] : i \in DOMAIN AssignOrder}
BY DEF canAssign

\* A row that is sound may be written, whatever was there.
LEMMA RecordMade ==
  ASSUME RecordsInv, NEW id \in RecordIds, NEW r, RowSound(r),
         records' = [records EXCEPT ![id] = r], UNCHANGED request, gone' \subseteq RecordIds
  PROVE  RecordsInv'
<1>1. records \in [RecordIds -> RecordRow \cup {Nobody}] /\ r \in RecordRow
  BY DEF RecordsInv, RecordsTypeOK, RowSound
<1>2. RecordsTypeOK'
  BY <1>1 DEF RecordsInv, RecordsTypeOK
<1>3. \A i \in RecordIds : records'[i] # Nobody => RowSound(records'[i])
  BY <1>1 DEF RecordsInv
<1> QED  BY <1>2, <1>3 DEF RecordsInv, RowSound, ValidateAssignee

\* No step of a request breaks the invariant.
LEMMA RecordsPreserved == RecordsInv /\ [RecordsNext]_recordVars => RecordsInv'
<1> SUFFICES ASSUME RecordsInv, [RecordsNext]_recordVars PROVE RecordsInv'
  OBVIOUS
<1>1. /\ records \in [RecordIds -> RecordRow \cup {Nobody}]
      /\ request \in [Calls -> Doing \cup {Nobody}] /\ gone \subseteq RecordIds
      /\ \A id \in RecordIds : records[id] # Nobody => RowSound(records[id])
      /\ \A id \in RecordIds : records[id] # Nobody => records[id] \in RecordRow
  BY DEF RecordsInv, RecordsTypeOK
<1>2. ASSUME NEW u \in Callers, NEW id \in RecordIds, NEW a \in Callers \cup {Nobody},
             NEW t \in Texts, NEW s \in Statuses, CreateChecklist(u, id, a, t, s)
      PROVE  RecordsInv'
  <2> DEFINE r == [kind |-> "checklist", owner |-> u, network |-> NetworkOf[u], assignee |-> a,
                   role |-> Nobody, text |-> t, status |-> s]
  <2>1. RowSound(r)
    BY <1>2 DEF CreateChecklist, RowSound, RecordRow
  <2>2. records' = [records EXCEPT ![id] = r] /\ UNCHANGED <<gone, request>>
    BY <1>2 DEF CreateChecklist
  <2> HIDE DEF r
  <2> QED  BY <1>1, <2>1, <2>2, RecordMade
<1>3. ASSUME NEW u \in Callers, NEW id \in RecordIds, NEW a \in Callers, NEW role \in GoalRoles,
             NEW t \in Texts, NEW s \in Statuses, CreateGoal(u, id, a, role, t, s)
      PROVE  RecordsInv'
  <2> DEFINE r == [kind |-> "goal", owner |-> u, network |-> NetworkOf[u], assignee |-> a,
                   role |-> role, text |-> t, status |-> s]
  <2>1. r \in RecordRow
    BY <1>3, RolesAssigned DEF CreateGoal, RecordRow
  <2>2. r.network # Nobody => ValidateAssignee(a, NetworkOf[u])
    BY <1>3, RecordUsersAssumption DEF CreateGoal, ValidateAssignee, IsSuper
  <2>3. RowSound(r)
    BY <2>1, <2>2 DEF RowSound
  <2>4. records' = [records EXCEPT ![id] = r] /\ UNCHANGED <<gone, request>>
    BY <1>3 DEF CreateGoal
  <2> HIDE DEF r
  <2> QED  BY <1>1, <2>3, <2>4, RecordMade
<1>4. ASSUME NEW c \in Calls, NEW u \in Callers, NEW id \in RecordIds, NEW a \in Callers \cup {Nobody},
             NEW t \in Texts, NEW s \in Statuses, UpdateChecklist(c, u, id, a, t, s)
      PROVE  RecordsInv'
  <2> DEFINE r == [records[id] EXCEPT !.assignee = a, !.text = t, !.status = s]
  <2>1. RowSound(records[id]) /\ records[id] \in RecordRow
    BY <1>1, <1>4 DEF UpdateChecklist, Reads
  <2>2. /\ r \in RecordRow /\ r.network = records[id].network
        /\ r.owner = records[id].owner /\ r.assignee = a
    BY <2>1 DEF RecordRow
  <2>3. records[id].network # Nobody => ValidateAssignee(a, records[id].network)
    BY <1>4, <2>1, ChangedFromWithin DEF UpdateChecklist
  <2>4. RowSound(r)
    BY <2>1, <2>2, <2>3 DEF RowSound
  <2>5. Saves(c, id, r)
    BY <1>4 DEF UpdateChecklist
  <2> HIDE DEF r
  <2> QED  BY <2>4, <2>5, CopyHeld
<1>5. ASSUME NEW c \in Calls, NEW u \in Callers, NEW id \in RecordIds, NEW s \in Statuses,
             UpdateChecklistStatus(c, u, id, s)
      PROVE  RecordsInv'
  <2>1. records[id] # Nobody /\ Saves(c, id, [records[id] EXCEPT !.status = s])
    BY <1>5 DEF UpdateChecklistStatus, Reads
  <2>2. RowSound([records[id] EXCEPT !.status = s])
    <3>1. RowSound(records[id]) /\ records[id] \in RecordRow
      BY <1>1, <2>1
    <3> QED  BY <3>1 DEF RowSound, RecordRow
  <2> QED  BY <2>1, <2>2, CopyHeld
<1>6. ASSUME NEW c \in Calls, NEW u \in Callers, NEW id \in RecordIds,
             NEW given \in SUBSET {"text", "status"}, NEW t \in Texts, NEW s \in Statuses,
             UpdateGoal(c, u, id, given, t, s)
      PROVE  RecordsInv'
  <2> DEFINE r == [records[id] EXCEPT !.text = IF "text" \in given THEN t ELSE @,
                                    !.status = IF "status" \in given THEN s ELSE @]
  <2>1. RowSound(records[id]) /\ records[id] \in RecordRow
    BY <1>1, <1>6 DEF UpdateGoal, Reads
  <2>2. RowSound(r)
    BY <2>1 DEF RowSound, RecordRow
  <2>3. Saves(c, id, r)
    BY <1>6 DEF UpdateGoal
  <2> HIDE DEF r
  <2> QED  BY <2>2, <2>3, CopyHeld
<1>7. ASSUME NEW c \in Calls, NEW u \in Callers, NEW id \in RecordIds,
             CompleteChecklist(c, u, id) \/ Delete(c, u, id)
      PROVE  RecordsInv'
  <2>1. PICK op \in {"complete", "delete"} : Holds(c, [op |-> op, id |-> id])
    BY <1>7 DEF CompleteChecklist, Delete
  <2>2. [op |-> op, id |-> id] \in Doing /\ op # "save"
    BY DEF Doing
  <2> QED  BY <2>1, <2>2, HeldSoundly
<1>8. ASSUME NEW c \in Calls, CompleteReads(c) PROVE RecordsInv'
  <2>1. request[c] # Nobody /\ request[c] \in Doing /\ request[c].id \in RecordIds
    BY <1>1, <1>8 DEF CompleteReads, Doing
  <2>2. CASE Holds(c, Nobody)
    BY <2>2, HeldSoundly
  <2>3. CASE /\ records[request[c].id] # Nobody
             /\ Saves(c, request[c].id,
                      [records[request[c].id] EXCEPT !.status = completed])
    <3> DEFINE id == request[c].id
    <3>1. RowSound(records[id]) /\ completed \in Statuses /\ id \in RecordIds
      BY <1>1, <2>1, <2>3, RecordValuesAssumption
    <3>2. Saves(c, id, [records[id] EXCEPT !.status = completed])
      BY <2>3
    <3> HIDE DEF id
    <3>3. RowSound([records[id] EXCEPT !.status = completed])
      BY <3>1 DEF RowSound, RecordRow
    <3> QED  BY <3>1, <3>2, <3>3, CopyHeld
  <2> QED  BY <1>8, <2>2, <2>3 DEF CompleteReads
<1>9. ASSUME NEW c \in Calls, Save(c) PROVE RecordsInv'
  <2>1. /\ request[c] \in Doing /\ request[c].id \in RecordIds
        /\ RowSound(request[c].row)
    BY <1>1, <1>9 DEF Save, Doing, RecordsInv
  <2> DEFINE id == request[c].id
             r == request[c].row
  <2>2. /\ records' = [records EXCEPT ![id] = r] /\ gone' = gone
        /\ request' = [request EXCEPT ![c] = Nobody]
    BY <1>9 DEF Save
  <2>3. id \in RecordIds /\ RowSound(r) /\ r \in RecordRow
    BY <2>1 DEF RowSound
  <2> HIDE DEF id, r
  <2>4. RecordsTypeOK'
    BY <1>1, <2>2, <2>3 DEF RecordsTypeOK
  <2>5. \A i \in RecordIds : records'[i] # Nobody => RowSound(records'[i])
    BY <1>1, <2>2, <2>3
  <2>6. \A d \in Calls : request'[d] # Nobody /\ request'[d].op = "save"
                            => RowSound(request'[d].row)
    BY <1>1, <2>2 DEF RecordsInv
  <2> QED  BY <2>4, <2>5, <2>6 DEF RecordsInv, RowSound, ValidateAssignee
<1>10. ASSUME NEW c \in Calls, DeleteRow(c) PROVE RecordsInv'
  <2>1. request[c] \in Doing /\ request[c].id \in RecordIds
    BY <1>1, <1>10 DEF DeleteRow, Doing
  <2> DEFINE id == request[c].id
  <2>2. /\ records' = [records EXCEPT ![id] = Nobody] /\ gone' = gone \cup {id}
        /\ request' = [request EXCEPT ![c] = Nobody] /\ id \in RecordIds
    BY <1>10, <2>1 DEF DeleteRow
  <2> HIDE DEF id
  <2>3. RecordsTypeOK'
    BY <1>1, <2>2 DEF RecordsTypeOK
  <2>4. \A i \in RecordIds : records'[i] # Nobody => RowSound(records'[i])
    BY <1>1, <2>2
  <2>5. \A d \in Calls : request'[d] # Nobody /\ request'[d].op = "save"
                            => RowSound(request'[d].row)
    BY <1>1, <2>2 DEF RecordsInv
  <2> QED  BY <2>3, <2>4, <2>5 DEF RecordsInv, RowSound, ValidateAssignee
<1>11. ASSUME NEW c \in Calls, WriteFails(c) PROVE RecordsInv'
  BY <1>11, HeldSoundly DEF WriteFails
<1>12. CASE UNCHANGED recordVars
  BY <1>12 DEF recordVars, RecordsInv, RecordsTypeOK, RowSound, ValidateAssignee
<1>13. ASSUME NEW u \in Callers, NEW id \in RecordIds, NEW t \in Texts, NEW s \in Statuses,
              \/ \E a \in Callers \cup {Nobody} : CreateChecklist(u, id, a, t, s)
              \/ \E a \in Callers, role \in GoalRoles : CreateGoal(u, id, a, role, t, s)
              \/ \E c \in Calls, a \in Callers \cup {Nobody} : UpdateChecklist(c, u, id, a, t, s)
              \/ \E c \in Calls, given \in SUBSET {"text", "status"} :
                   UpdateGoal(c, u, id, given, t, s)
              \/ \E c \in Calls : UpdateChecklistStatus(c, u, id, s)
       PROVE  RecordsInv'
  BY <1>2, <1>3, <1>4, <1>5, <1>6, <1>13
<1>14. ASSUME NEW c \in Calls,
              CompleteReads(c) \/ Save(c) \/ DeleteRow(c) \/ WriteFails(c)
       PROVE  RecordsInv'
  BY <1>8, <1>9, <1>10, <1>11, <1>14
<1> QED  BY <1>7, <1>12, <1>13, <1>14 DEF RecordsNext

\* There are no rows at first, and no requests.
LEMMA RecordsInitially == RecordsInit => RecordsInv
BY DEF RecordsInit, RecordsInv, RecordsTypeOK

\* Rows and requests keep their types.
THEOREM RecordsTypeCorrect == RecordsSpec => []RecordsTypeOK
<1>1. RecordsInv => RecordsTypeOK
  BY DEF RecordsInv
<1> QED  BY <1>1, RecordsInitially, RecordsPreserved, PTL DEF RecordsSpec

\* For any users, networks and requests, and however old the copy that is saved:
\* no record of a network is given to somebody of another.
THEOREM RecordsStayInNetwork == RecordsSpec => []AssigneeInNetwork
<1>1. RecordsInv => AssigneeInNetwork
  BY DEF RecordsInv, RowSound, AssigneeInNetwork
<1> QED  BY <1>1, RecordsInitially, RecordsPreserved, PTL DEF RecordsSpec

(* ------------------------- the payment reminders ------------------------- *)

\* Mornings up to an hour.
Mornings(hour) == (hour + 15) \div 24

\* The morning it is has still to reach the network.
Awaits(t) == Morning /\ (~ran \/ \E row \in job : row.tenant = t)

\* The last hour all of whose mornings have reached the network or are missed.
Reached(t) == IF Awaits(t) THEN clock - 1 ELSE clock

Earlier(a, b) == IF a <= b THEN a ELSE b

PaymentTyped ==
  /\ PaymentTypeOK
  /\ clock % Step = 0
  /\ \A t \in Payers : setAt[t] <= clock

\* A job runs in the hour of its morning, and a row of it that no longer holds
\* was set in that hour.
JobOfThisMorning ==
  /\ job # {} => Morning /\ ran
  /\ \A row \in job : paidUntil[row.tenant] = row.paid \/ setAt[row.tenant] = clock

\* Every morning of the last four days that has not told of the end was missed.
EndingMissed(t) ==
  SetBefore(t, 96) /\ ~Told(t, "ending")
    => missed[t] >= Mornings(Earlier(Reached(t), paidUntil[t])) - Mornings(paidUntil[t] - 96)

\* Every morning from a day after the end that has not told of it was missed.
OverdueMissed(t) ==
  SetBefore(t, 0) /\ ~Told(t, "overdue")
    => missed[t] >= Mornings(Reached(t)) - Mornings(paidUntil[t] + 23)

MorningsCount == \A t \in Payers : paidUntil[t] # NotPaid => EndingMissed(t) /\ OverdueMissed(t)

PaymentInv == PaymentTyped /\ JobOfThisMorning /\ MorningsCount

\* The clock advances by one hour or by three.
LEMMA StepDividesTheMorning == Step \in {1, 3}
<1>1. Step \in Nat \ {0} /\ 24 % Step = 0 /\ 9 % Step = 0
  BY HoursAssumption DEF JobHour
<1>2. Step <= 9
  <2>1. CASE Step > 9
    <3>1. 9 % Step = 9
      BY <1>1, <2>1
    <3> QED  BY <1>1, <3>1
  <2> QED  BY <1>1, <2>1
<1>3. Step \in {1, 2, 3, 4, 5, 6, 7, 8, 9}
  BY <1>1, <1>2
<1>4. Step # 2 /\ Step # 4 /\ Step # 5 /\ Step # 6 /\ Step # 7 /\ Step # 8
  BY <1>1
<1>5. Step # 9
  BY <1>1
<1> QED  BY <1>3, <1>4, <1>5

\* Mornings do not run backwards, and no hour has two of them.
LEMMA MorningsGrow ==
  ASSUME NEW a \in Int, NEW b \in Int, a <= b
  PROVE  /\ Mornings(a) \in Int /\ Mornings(b) \in Int /\ Mornings(a) <= Mornings(b)
         /\ b = a + 1 => Mornings(b) <= Mornings(a) + 1
         /\ b >= a + 25 => Mornings(b) >= Mornings(a) + 1
         /\ b = a + 96 => Mornings(b) = Mornings(a) + 4
         /\ Mornings(Earlier(a, b)) = Mornings(a) /\ Earlier(b, a) = a
BY DEF Mornings, Earlier

\* Between two hours the clock stands at there is no morning.
LEMMA NoMorningBetween ==
  ASSUME NEW c \in Nat, c % Step = 0
  PROVE  /\ (c + Step) % Step = 0
         /\ (c + Step) % 24 = JobHour => Mornings(c + Step - 1) = Mornings(c)
         /\ (c + Step) % 24 # JobHour => Mornings(c + Step) = Mornings(c)
<1>1. CASE Step = 1
  BY <1>1 DEF Mornings, JobHour
<1>2. CASE Step = 3
  BY <1>2 DEF Mornings, JobHour
<1> QED  BY <1>1, <1>2, StepDividesTheMorning

\* No action leads out of the types, and the clock stands where a step takes it.
LEMMA PaymentTypePreserved == PaymentTyped /\ [PaymentNext]_paymentVars => PaymentTyped'
<1> SUFFICES ASSUME PaymentTyped, [PaymentNext]_paymentVars PROVE PaymentTyped'
  OBVIOUS
<1>0. /\ clock \in 0..MaxHours /\ MaxHours \in Nat /\ clock % Step = 0
      /\ paidUntil \in [Payers -> PaidDates \cup {NotPaid}]
      /\ setAt \in [Payers -> 0..MaxHours]
      /\ missed \in [Payers -> Nat]
      /\ job \subseteq PaidRow /\ ran \in BOOLEAN /\ sent \subseteq Notice
      /\ \A t \in Payers : setAt[t] <= clock
  BY HoursAssumption DEF PaymentTyped, PaymentTypeOK
<1> USE DEF PaymentTyped, PaymentTypeOK
<1>1. ASSUME NEW t \in Payers, NEW p \in PaidDates, SetPaidUntil(t, p) PROVE PaymentTyped'
  <2>1. paidUntil' \in [Payers -> PaidDates \cup {NotPaid}]
    BY <1>0, <1>1 DEF SetPaidUntil
  <2>2. setAt' \in [Payers -> 0..MaxHours] /\ \A u \in Payers : setAt'[u] <= clock
    BY <1>0, <1>1 DEF SetPaidUntil
  <2>3. missed' \in [Payers -> Nat]
    BY <1>0, <1>1 DEF SetPaidUntil
  <2> QED  BY <1>0, <1>1, <2>1, <2>2, <2>3 DEF SetPaidUntil
<1>2. CASE Run
  <2>1. job' \subseteq PaidRow
    BY <1>0, <1>2 DEF Run, PaidRow
  <2> QED  BY <1>0, <1>2, <2>1 DEF Run
<1>3. CASE RunMissed
  <2>1. missed' \in [Payers -> Nat]
    BY <1>0, <1>3 DEF RunMissed
  <2> QED  BY <1>0, <1>3, <2>1 DEF RunMissed
<1>4. CASE RunCut
  <2>1. missed' \in [Payers -> Nat]
    BY <1>0, <1>4 DEF RunCut
  <2> QED  BY <1>0, <1>4, <2>1 DEF RunCut
<1>5. CASE HoursPass
  <2>1. clock' \in 0..MaxHours /\ clock' >= clock
    BY <1>0, <1>5, HoursAssumption DEF HoursPass
  <2>2. clock' % Step = 0
    BY <1>0, <1>5, NoMorningBetween DEF HoursPass
  <2>3. \A t \in Payers : setAt'[t] <= clock'
    BY <1>0, <1>5, <2>1 DEF HoursPass
  <2> QED  BY <1>0, <1>5, <2>1, <2>2, <2>3 DEF HoursPass
<1>6. ASSUME NEW row \in PaidRow, CreateNotification(row) PROVE PaymentTyped'
  <2>1. sent' \subseteq Notice
    <3>1. row.tenant \in Payers /\ row.paid \in PaidDates
      BY DEF PaidRow
    <3>2. NoticeKinds(row.paid) \subseteq {"ending", "overdue"}
      BY DEF NoticeKinds
    <3> QED  BY <1>0, <1>6, <3>1, <3>2 DEF CreateNotification, Notice
  <2> QED  BY <1>0, <1>6, <2>1 DEF CreateNotification
<1>7. ASSUME NEW row \in PaidRow, CreateFails(row) PROVE PaymentTyped'
  <2>1. missed' \in [Payers -> Nat]
    BY <1>0, <1>7 DEF CreateFails, PaidRow
  <2> QED  BY <1>0, <1>7, <2>1 DEF CreateFails
<1>8. CASE UNCHANGED paymentVars
  BY <1>8 DEF paymentVars
<1> QED  BY <1>1, <1>2, <1>3, <1>4, <1>5, <1>6, <1>7, <1>8 DEF PaymentNext

\* What the job has read is what is set, unless it was set since.
LEMMA JobPreserved ==
  PaymentTyped /\ JobOfThisMorning /\ [PaymentNext]_paymentVars => JobOfThisMorning'
<1> SUFFICES ASSUME PaymentTyped, JobOfThisMorning, [PaymentNext]_paymentVars
             PROVE  JobOfThisMorning'
  OBVIOUS
<1>0. /\ paidUntil \in [Payers -> PaidDates \cup {NotPaid}] /\ setAt \in [Payers -> 0..MaxHours]
      /\ \A row \in job : row.tenant \in Payers
  BY DEF PaymentTyped, PaymentTypeOK, PaidRow
<1> USE DEF JobOfThisMorning, Morning
<1>1. ASSUME NEW t \in Payers, NEW p \in PaidDates, SetPaidUntil(t, p) PROVE JobOfThisMorning'
  BY <1>0, <1>1 DEF SetPaidUntil
<1>2. CASE Run
  BY <1>0, <1>2 DEF Run
<1>3. CASE RunMissed
  BY <1>3 DEF RunMissed
<1>4. CASE RunCut
  BY <1>4 DEF RunCut
<1>5. CASE HoursPass
  BY <1>5 DEF HoursPass
<1>6. ASSUME NEW row \in PaidRow, CreateNotification(row) \/ CreateFails(row)
      PROVE  JobOfThisMorning'
  BY <1>6 DEF CreateNotification, CreateFails
<1>7. CASE UNCHANGED paymentVars
  BY <1>7 DEF paymentVars
<1> QED  BY <1>1, <1>2, <1>3, <1>4, <1>5, <1>6, <1>7 DEF PaymentNext

\* The numbers of a network that has paid.
LEMMA PayerTypes ==
  ASSUME PaymentTyped, NEW t \in Payers, paidUntil[t] # NotPaid
  PROVE  /\ paidUntil[t] \in Nat /\ paidUntil[t] \in PaidDates
         /\ setAt[t] \in Nat /\ missed[t] \in Nat /\ clock \in Nat
<1>1. clock \in 0..MaxHours /\ setAt[t] \in 0..MaxHours /\ missed[t] \in Nat
  BY DEF PaymentTyped, PaymentTypeOK
<1>2. paidUntil[t] \in PaidDates
  BY DEF PaymentTyped, PaymentTypeOK
<1>3. paidUntil[t] \in Nat
  BY <1>2, HoursAssumption
<1>4. \A n \in 0..MaxHours : n \in Nat
  BY HoursAssumption
<1> QED  BY <1>1, <1>2, <1>3, <1>4

\* A network keeps its counts where its date stays, its notices are kept, and
\* as many mornings are missed as have come.
LEMMA CountsKept ==
  ASSUME NEW t \in Payers, PaymentTyped, PaymentTyped', sent \subseteq sent',
         paidUntil'[t] = paidUntil[t], setAt'[t] = setAt[t], paidUntil[t] # NotPaid,
         Mornings(Reached(t)) <= Mornings(Reached(t)'),
         missed'[t] - missed[t] >= Mornings(Reached(t)') - Mornings(Reached(t)),
         EndingMissed(t), OverdueMissed(t)
  PROVE  EndingMissed(t)' /\ OverdueMissed(t)'
<1> DEFINE P == paidUntil[t]
           r == Reached(t)
           q == Reached(t)'
<1>1. P \in Nat /\ setAt[t] \in Nat /\ missed[t] \in Nat /\ missed'[t] \in Nat
  <2>1. P \in Nat /\ setAt[t] \in Nat /\ missed[t] \in Nat
    BY PayerTypes
  <2>2. missed'[t] \in Nat
    BY DEF PaymentTyped, PaymentTypeOK
  <2> QED  BY <2>1, <2>2
<1>2. r \in Int /\ q \in Int
  BY DEF PaymentTyped, PaymentTypeOK, Reached
<1> HIDE DEF r, q, P
<1>3. /\ Mornings(r) \in Int /\ Mornings(q) \in Int /\ Mornings(P) \in Int
      /\ Mornings(P - 96) \in Int /\ Mornings(P + 23) \in Int
  BY <1>1, <1>2 DEF Mornings
<1>4. /\ Mornings(Earlier(r, P)) = Earlier(Mornings(r), Mornings(P))
      /\ Mornings(Earlier(q, P)) = Earlier(Mornings(q), Mornings(P))
  BY <1>1, <1>2 DEF Mornings, Earlier
<1>5. /\ Told(t, "ending") => Told(t, "ending")'
      /\ Told(t, "overdue") => Told(t, "overdue")'
  BY DEF Told
<1>6. /\ SetBefore(t, 96)' => SetBefore(t, 96)
      /\ SetBefore(t, 0)' => SetBefore(t, 0)
  BY DEF SetBefore
<1>7. missed'[t] - missed[t] >= Mornings(q) - Mornings(r) /\ Mornings(r) <= Mornings(q)
  BY DEF q, r
<1>8. EndingMissed(t)'
  <2> SUFFICES ASSUME SetBefore(t, 96)', ~Told(t, "ending")'
               PROVE  missed'[t] >= Mornings(Earlier(q, P)) - Mornings(P - 96)
    BY DEF EndingMissed, q, P
  <2>1. missed[t] >= Mornings(Earlier(r, P)) - Mornings(P - 96)
    BY <1>5, <1>6 DEF EndingMissed, r, P
  <2> QED  BY <1>1, <1>3, <1>4, <1>7, <2>1 DEF Earlier
<1>9. OverdueMissed(t)'
  <2> SUFFICES ASSUME SetBefore(t, 0)', ~Told(t, "overdue")'
               PROVE  missed'[t] >= Mornings(q) - Mornings(P + 23)
    BY DEF OverdueMissed, q, P
  <2>1. missed[t] >= Mornings(r) - Mornings(P + 23)
    BY <1>5, <1>6 DEF OverdueMissed, r, P
  <2> QED  BY <1>1, <1>3, <1>7, <2>1
<1> QED  BY <1>8, <1>9

\* No morning counts for a network whose date was set this hour.
LEMMA NothingCountsYet ==
  ASSUME NEW t \in Payers, PaymentTyped, paidUntil[t] # NotPaid, setAt[t] = clock
  PROVE  EndingMissed(t) /\ OverdueMissed(t)
<1> DEFINE P == paidUntil[t]
           r == Reached(t)
<1>1. P \in Nat /\ clock \in Nat /\ missed[t] \in Nat
  BY PayerTypes
<1>2. r \in Int /\ r <= clock
  BY <1>1 DEF Reached
<1> HIDE DEF r
<1>3. EndingMissed(t)
  <2> SUFFICES ASSUME clock + 96 <= P PROVE missed[t] >= Mornings(Earlier(r, P)) - Mornings(P - 96)
    BY DEF EndingMissed, SetBefore, r
  <2> QED  BY <1>1, <1>2 DEF Mornings, Earlier
<1>4. OverdueMissed(t)
  <2> SUFFICES ASSUME clock <= P PROVE missed[t] >= Mornings(r) - Mornings(P + 23)
    BY <1>1 DEF OverdueMissed, SetBefore, r
  <2> QED  BY <1>1, <1>2 DEF Mornings
<1> QED  BY <1>3, <1>4

\* The same of the state a step leads to.
LEMMA NothingCountsNext ==
  (\A t \in Payers : PaymentTyped /\ paidUntil[t] # NotPaid /\ setAt[t] = clock
     => EndingMissed(t) /\ OverdueMissed(t))'
<1>1. \A t \in Payers : PaymentTyped /\ paidUntil[t] # NotPaid /\ setAt[t] = clock
        => EndingMissed(t) /\ OverdueMissed(t)
  BY NothingCountsYet
<1> QED  BY <1>1, PTL

\* Where a notice is due that morning, the network is told; where it is not, the
\* morning does not count.
LEMMA NoticeIsDue ==
  ASSUME NEW t \in Payers, NEW row \in job, PaymentTyped, CreateNotification(row),
         row.tenant = t, paidUntil[t] # NotPaid, row.paid = paidUntil[t],
         EndingMissed(t), OverdueMissed(t)
  PROVE  EndingMissed(t)' /\ OverdueMissed(t)'
<1> DEFINE P == paidUntil[t]
           r == Reached(t)
           q == Reached(t)'
<1>1. P \in Nat /\ clock \in Nat /\ missed[t] \in Nat
  BY PayerTypes
<1>2. UNCHANGED <<clock, paidUntil, setAt, missed, ran>>
  BY DEF CreateNotification
<1>3. r \in Int /\ q \in Int /\ q <= clock /\ r >= clock - 1 /\ r <= q
  <2>1. r \in {clock, clock - 1} /\ q \in {clock, clock - 1}
    BY <1>2 DEF Reached
  <2>2. Awaits(t)' => Awaits(t)
    BY <1>2 DEF Awaits, Morning, CreateNotification
  <2>3. r <= q
    BY <1>1, <1>2, <2>2 DEF Reached
  <2> QED  BY <1>1, <2>1, <2>3
<1>4. \A k \in NoticeKinds(P) : Told(t, k)'
  BY <1>2 DEF CreateNotification, Told
<1>5. /\ Told(t, "ending") => Told(t, "ending")'
      /\ Told(t, "overdue") => Told(t, "overdue")'
  BY <1>2 DEF CreateNotification, Told
<1>6. EndingMissed(t)'
  <2> SUFFICES ASSUME SetBefore(t, 96), ~Told(t, "ending")'
               PROVE  missed[t] >= Mornings(Earlier(q, P)) - Mornings(P - 96)
    BY <1>2 DEF EndingMissed, SetBefore
  <2>1. missed[t] >= Mornings(Earlier(r, P)) - Mornings(P - 96)
    BY <1>5 DEF EndingMissed
  <2>2. P >= clock + 96 \/ clock >= P + 24
    <3>1. DaysLeft(P) \notin 0..3
      BY <1>4 DEF NoticeKinds, DaysAhead
    <3> QED  BY <1>1, <3>1 DEF DaysLeft
  <2> HIDE DEF q, r, P
  <2>3. CASE P >= clock + 96
    BY <1>1, <1>3, <2>3 DEF Mornings, Earlier
  <2>4. CASE clock >= P + 24
    <3>1. Earlier(q, P) = P /\ Earlier(r, P) = P
      BY <1>1, <1>3, <2>4 DEF Earlier
    <3> QED  BY <2>1, <3>1
  <2> QED  BY <2>2, <2>3, <2>4
<1>7. OverdueMissed(t)'
  <2> SUFFICES ASSUME SetBefore(t, 0), ~Told(t, "overdue")'
               PROVE  missed[t] >= Mornings(q) - Mornings(P + 23)
    BY <1>2 DEF OverdueMissed, SetBefore
  <2>1. clock < P + 24
    <3>1. ~(DaysLeft(P) < 0)
      BY <1>4 DEF NoticeKinds
    <3> QED  BY <1>1, <3>1 DEF DaysLeft
  <2> HIDE DEF q, P
  <2> QED  BY <1>1, <1>3, <2>1 DEF Mornings
<1> QED  BY <1>6, <1>7

\* Every morning that has come is told of or counted as missed.
LEMMA MorningsPreserved == PaymentInv /\ [PaymentNext]_paymentVars => MorningsCount'
<1> SUFFICES ASSUME PaymentInv, [PaymentNext]_paymentVars,
                    NEW t \in Payers, paidUntil'[t] # NotPaid
             PROVE  EndingMissed(t)' /\ OverdueMissed(t)'
  BY DEF MorningsCount
<1>0. /\ clock \in Nat /\ clock % Step = 0 /\ missed[t] \in Nat /\ Step \in Nat
      /\ paidUntil \in [Payers -> PaidDates \cup {NotPaid}] /\ setAt \in [Payers -> 0..MaxHours]
      /\ missed \in [Payers -> Nat]
      /\ job \subseteq PaidRow /\ ran \in BOOLEAN
  BY HoursAssumption DEF PaymentInv, PaymentTyped, PaymentTypeOK
<1>1. PaymentTyped /\ PaymentTyped' /\ JobOfThisMorning /\ JobOfThisMorning'
  BY PaymentTypePreserved, JobPreserved DEF PaymentInv
<1>2. paidUntil[t] # NotPaid => EndingMissed(t) /\ OverdueMissed(t)
  BY DEF PaymentInv, MorningsCount
<1>3. Mornings(clock - 1) <= Mornings(clock) /\ Mornings(clock) <= Mornings(clock - 1) + 1
      /\ Mornings(clock) \in Int /\ Mornings(clock - 1) \in Int
  BY <1>0 DEF Mornings
<1>4. ASSUME sent \subseteq sent', paidUntil'[t] = paidUntil[t], setAt'[t] = setAt[t],
             clock' = clock, missed'[t] \in {missed[t], missed[t] + 1},
             Awaits(t)' => Awaits(t), Awaits(t) /\ ~Awaits(t)' => missed'[t] = missed[t] + 1
      PROVE  EndingMissed(t)' /\ OverdueMissed(t)'
  <2>1. /\ Mornings(Reached(t)) <= Mornings(Reached(t)')
        /\ missed'[t] - missed[t] >= Mornings(Reached(t)') - Mornings(Reached(t))
    <3>1. CASE Awaits(t) /\ ~Awaits(t)'
      BY <1>0, <1>3, <1>4, <3>1 DEF Reached
    <3>2. CASE Awaits(t)' \/ ~Awaits(t)
      <4>1. Reached(t)' = Reached(t) /\ Mornings(Reached(t)) \in Int
        BY <1>3, <1>4, <3>2 DEF Reached
      <4> QED  BY <1>0, <1>4, <4>1
    <3> QED  BY <3>1, <3>2
  <2> QED  BY <1>1, <1>2, <1>4, <2>1, CountsKept
<1>5. ASSUME NEW u \in Payers, NEW p \in PaidDates, SetPaidUntil(u, p)
      PROVE  EndingMissed(t)' /\ OverdueMissed(t)'
  <2>1. CASE u = t
    <3>1. setAt'[t] = clock' /\ clock' = clock
      BY <1>0, <1>5, <2>1 DEF SetPaidUntil
    <3> QED  BY <1>1, <3>1, NothingCountsNext
  <2>2. CASE u # t
    <3>1. /\ paidUntil'[t] = paidUntil[t] /\ setAt'[t] = setAt[t] /\ missed'[t] = missed[t]
          /\ UNCHANGED <<clock, job, ran, sent>>
      BY <1>0, <1>5, <2>2 DEF SetPaidUntil
    <3> QED  BY <1>4, <3>1 DEF Awaits, Morning
  <2> QED  BY <2>1, <2>2
<1>6. CASE Run
  <2>1. Awaits(t)
    BY <1>6 DEF Run, Awaits
  <2>2. Awaits(t)'
    <3>1. [tenant |-> t, paid |-> paidUntil[t]] \in job' /\ clock' = clock
      BY <1>6 DEF Run
    <3>2. \E row \in job' : row.tenant = t
      BY <3>1
    <3> QED  BY <1>6, <3>1, <3>2 DEF Run, Awaits, Morning
  <2> QED  BY <1>4, <1>6, <2>1, <2>2 DEF Run
<1>7. CASE RunMissed
  <2>1. missed'[t] = missed[t] + 1 /\ Awaits(t)
    BY <1>0, <1>7 DEF RunMissed, Awaits
  <2> QED  BY <1>4, <1>7, <2>1 DEF RunMissed
<1>8. CASE RunCut
  <2>1. missed'[t] = IF \E row \in job : row.tenant = t THEN missed[t] + 1 ELSE missed[t]
    BY <1>0, <1>8 DEF RunCut
  <2>2. /\ UNCHANGED <<clock, paidUntil, setAt, ran, sent>> /\ job # {} /\ job' = {}
    BY <1>8 DEF RunCut
  <2>3. Morning /\ ran
    BY <1>1, <2>2 DEF JobOfThisMorning
  <2> QED  BY <1>0, <1>4, <2>1, <2>2, <2>3 DEF Awaits, Morning
<1>9. CASE HoursPass
  <2>1. /\ clock' = clock + Step /\ ran' = FALSE /\ job = {} /\ (Morning => ran)
        /\ UNCHANGED <<paidUntil, setAt, missed, job, sent>>
    BY <1>9 DEF HoursPass
  <2>2. Reached(t) = clock
    BY <2>1 DEF Reached, Awaits
  <2>3. Mornings(Reached(t)') = Mornings(clock)
    <3>1. CASE Morning'
      <4>1. Awaits(t)' /\ (clock + Step) % 24 = JobHour
        BY <2>1, <3>1 DEF Awaits, Morning
      <4>2. Reached(t)' = clock + Step - 1
        BY <1>0, <2>1, <4>1 DEF Reached
      <4> QED  BY <1>0, <4>1, <4>2, NoMorningBetween
    <3>2. CASE ~Morning'
      <4>1. Reached(t)' = clock + Step /\ (clock + Step) % 24 # JobHour
        BY <2>1, <3>2 DEF Reached, Awaits, Morning
      <4> QED  BY <1>0, <4>1, NoMorningBetween
    <3> QED  BY <3>1, <3>2
  <2>4. /\ Mornings(Reached(t)) <= Mornings(Reached(t)')
        /\ missed'[t] - missed[t] >= Mornings(Reached(t)') - Mornings(Reached(t))
    BY <1>0, <1>3, <2>1, <2>2, <2>3
  <2> QED  BY <1>1, <1>2, <2>1, <2>4, CountsKept
<1>10. ASSUME NEW row \in PaidRow, CreateNotification(row)
       PROVE  EndingMissed(t)' /\ OverdueMissed(t)'
  <2>1. /\ row \in job /\ job' = job \ {row} /\ sent \subseteq sent'
        /\ UNCHANGED <<clock, paidUntil, setAt, missed, ran>>
    BY <1>10 DEF CreateNotification
  <2>2. CASE row.tenant # t
    <3>1. Awaits(t)' <=> Awaits(t)
      BY <2>1, <2>2 DEF Awaits, Morning
    <3> QED  BY <1>4, <2>1, <3>1
  <2>3. CASE row.tenant = t /\ row.paid = paidUntil[t]
    BY <1>1, <1>2, <1>10, <2>1, <2>3, NoticeIsDue
  <2>4. CASE row.tenant = t /\ row.paid # paidUntil[t]
    <3>1. setAt'[t] = clock'
      BY <1>1, <2>1, <2>4 DEF JobOfThisMorning
    <3> QED  BY <1>1, <3>1, NothingCountsNext
  <2> QED  BY <2>2, <2>3, <2>4
<1>11. ASSUME NEW row \in PaidRow, CreateFails(row)
       PROVE  EndingMissed(t)' /\ OverdueMissed(t)'
  <2>1. /\ row \in job /\ job' = job \ {row} /\ row.tenant \in Payers
        /\ UNCHANGED <<clock, paidUntil, setAt, sent, ran>>
    BY <1>11 DEF CreateFails, PaidRow
  <2>2. missed'[t] = IF row.tenant = t THEN missed[t] + 1 ELSE missed[t]
    BY <1>0, <1>11, <2>1 DEF CreateFails
  <2>3. Awaits(t)' => Awaits(t)
    BY <2>1 DEF Awaits, Morning
  <2>4. Awaits(t) /\ ~Awaits(t)' => row.tenant = t
    BY <2>1 DEF Awaits, Morning
  <2> QED  BY <1>0, <1>4, <2>1, <2>2, <2>3, <2>4
<1>12. CASE UNCHANGED paymentVars
  <2>1. UNCHANGED <<clock, paidUntil, setAt, missed, job, ran, sent>>
    BY <1>12 DEF paymentVars
  <2> QED  BY <1>4, <2>1 DEF Awaits, Morning
<1> QED  BY <1>5, <1>6, <1>7, <1>8, <1>9, <1>10, <1>11, <1>12 DEF PaymentNext

\* No date is set, and no morning has come.
LEMMA PaymentInitially == PaymentInit => PaymentInv
<1> SUFFICES ASSUME PaymentInit PROVE PaymentInv
  OBVIOUS
<1>1. PaymentTyped
  <2>1. 0 % Step = 0 /\ 0 \in 0..MaxHours
    BY HoursAssumption
  <2>2. paidUntil \in [Payers -> PaidDates \cup {NotPaid}] /\ missed \in [Payers -> Nat]
    BY DEF PaymentInit
  <2>3. setAt \in [Payers -> 0..MaxHours] /\ \A t \in Payers : setAt[t] <= clock
    BY <2>1 DEF PaymentInit
  <2>4. clock \in 0..MaxHours /\ clock % Step = 0
    BY <2>1 DEF PaymentInit
  <2>5. job \subseteq PaidRow /\ ran \in BOOLEAN /\ sent \subseteq Notice
    BY DEF PaymentInit
  <2> QED  BY <2>2, <2>3, <2>4, <2>5 DEF PaymentTyped, PaymentTypeOK
<1>2. JobOfThisMorning
  BY DEF PaymentInit, JobOfThisMorning
<1>3. MorningsCount
  BY DEF PaymentInit, MorningsCount
<1> QED  BY <1>1, <1>2, <1>3 DEF PaymentInv

\* The invariant of the reminders.
LEMMA PaymentPreserved == PaymentInv /\ [PaymentNext]_paymentVars => PaymentInv'
<1>1. PaymentInv /\ [PaymentNext]_paymentVars => PaymentTyped' /\ JobOfThisMorning'
  BY PaymentTypePreserved, JobPreserved DEF PaymentInv
<1> QED  BY <1>1, MorningsPreserved DEF PaymentInv

\* Dates, mornings, jobs and notices keep their types.
THEOREM PaymentTypeCorrect == PaymentSpec => []PaymentTypeOK
<1>1. PaymentInv => PaymentTypeOK
  BY DEF PaymentInv, PaymentTyped
<1> QED  BY <1>1, PaymentInitially, PaymentPreserved, PTL DEF PaymentSpec

\* The counts say what was promised.
LEMMA CountsTell == PaymentInv => ToldInTime
<1> SUFFICES ASSUME PaymentInv, NEW t \in Payers, paidUntil[t] # NotPaid
             PROVE  /\ clock > paidUntil[t] /\ SetBefore(t, 96) /\ missed[t] <= 3
                         => Told(t, "ending")
                    /\ clock > paidUntil[t] + 48 /\ SetBefore(t, 0) /\ missed[t] = 0
                         => Told(t, "overdue")
  BY DEF ToldInTime, WarnedBeforeEnd, OverdueIsTold
<1> DEFINE P == paidUntil[t]
           r == Reached(t)
<1>1. P \in Nat /\ clock \in Nat /\ missed[t] \in Nat
  BY PayerTypes DEF PaymentInv
<1>2. r \in Int /\ r >= clock - 1
  BY <1>1 DEF Reached
<1>3. EndingMissed(t) /\ OverdueMissed(t)
  BY DEF PaymentInv, MorningsCount
<1> HIDE DEF r, P
<1>4. ASSUME clock > P, SetBefore(t, 96), missed[t] <= 3 PROVE Told(t, "ending")
  <2>1. Earlier(r, P) = P
    BY <1>1, <1>2, <1>4 DEF Earlier
  <2>2. Mornings(P) - Mornings(P - 96) = 4
    BY <1>1 DEF Mornings
  <2>3. ~Told(t, "ending") => missed[t] >= Mornings(Earlier(r, P)) - Mornings(P - 96)
    BY <1>3, <1>4 DEF EndingMissed, r, P
  <2> QED  BY <1>1, <1>4, <2>1, <2>2, <2>3
<1>5. ASSUME clock > P + 48, SetBefore(t, 0), missed[t] = 0 PROVE Told(t, "overdue")
  <2>1. Mornings(r) - Mornings(P + 23) >= 1
    BY <1>1, <1>2, <1>5 DEF Mornings
  <2>2. ~Told(t, "overdue") => missed[t] >= Mornings(r) - Mornings(P + 23)
    BY <1>3, <1>5 DEF OverdueMissed, r, P
  <2>3. Mornings(r) \in Int /\ Mornings(P + 23) \in Int
    BY <1>1, <1>2 DEF Mornings
  <2> QED  BY <1>5, <2>1, <2>2, <2>3
<1> QED  BY <1>4, <1>5 DEF P

\* Every network is told in time that its paid time ends and that it has ended,
\* for any dates and any mornings missed but those the statement allows.
THEOREM PayersToldInTime == PaymentSpec => []ToldInTime
BY CountsTell, PaymentInitially, PaymentPreserved, PTL DEF PaymentSpec

(* -------------------------- the protocols together ------------------------ *)

\* Every protocol starts as it does alone.
LEMMA ProtocolsStart ==
  OfficeInit => Init /\ LimiterInit /\ FunnelInit /\ PaymentInit /\ RecordsInit
BY DEF OfficeInit

\* A step of the back office is a step of one of its protocols, and a stutter
\* of the others; where a bound ends a behaviour it is a stutter of all.
LEMMA ProtocolsStep ==
  [OfficeNext]_officeVars =>
    /\ [Next]_vars /\ [LimiterNext]_limiterVars /\ [FunnelNext]_funnelVars
    /\ [PaymentNext]_paymentVars /\ [RecordsNext]_recordVars
<1> SUFFICES ASSUME [OfficeNext]_officeVars
             PROVE  /\ [Next]_vars /\ [LimiterNext]_limiterVars /\ [FunnelNext]_funnelVars
                    /\ [PaymentNext]_paymentVars /\ [RecordsNext]_recordVars
  OBVIOUS
<1>1. CASE UNCHANGED officeVars
  BY <1>1 DEF officeVars
<1>2. CASE OfficeNext
  BY <1>1, <1>2 DEF OfficeNext, Bounded
<1> QED  BY <1>1, <1>2

\* What happens in the back office is, of each protocol, what its own
\* specification allows: their rows, counters and calls are their own.
THEOREM EachProtocolAlone ==
  OfficeSpec => Spec /\ LimiterSafety /\ FunnelSpec /\ PaymentSpec /\ RecordsSpec
BY ProtocolsStart, ProtocolsStep, PTL
   DEF OfficeSpec, Spec, LimiterSafety, FunnelSpec, PaymentSpec, RecordsSpec

\* Whatever the protocols do, every row, counter and call keeps its type.
THEOREM OfficeTypeCorrect == OfficeSpec => []OfficeTypeOK
<1>1. TypeOK /\ LimiterTypeOK /\ FunnelTypeOK /\ PaymentTypeOK /\ RecordsTypeOK => OfficeTypeOK
  BY DEF OfficeTypeOK
<1> QED
  BY <1>1, EachProtocolAlone, TypeCorrect, LimiterTypeCorrect, FunnelTypeCorrect,
     PaymentTypeCorrect, RecordsTypeCorrect, PTL
=============================================================================
