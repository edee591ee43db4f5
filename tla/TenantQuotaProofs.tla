-------------------------- MODULE TenantQuotaProofs --------------------------
(***************************************************************************)
(* For every instance of TenantQuota: its types, that the quota a          *)
(* transaction has checked still holds when it inserts, and that no        *)
(* transactions wait for each other in a circle but with the deletion of a *)
(* plan among them.                                                        *)
(***************************************************************************)
EXTENDS TenantQuota, FiniteSetTheorems, WellFoundedInduction, TLAPS

-----------------------------------------------------------------------------
(* Who may have the row of a network, and what a call of each kind does:   *)
(* begin, go on, or be aborted by PostgreSQL.                              *)
Owners == Creations \cup Edits \cup Moves \cup Removals \cup {None}

creationCall(c) ==
    \/ CreationStep(c)
    \/ \E kind \in {"user", "salon"}, t \in Tenants : BeginCreation(c, kind, t)
editCall(e) ==
    \/ EditStep(e)
    \/ \E p \in Plans : BeginEdit(e, p)
    \/ UNCHANGED plans /\ endEdit(e)
moveCall(m) ==
    \/ MoveStep(m)
    \/ \E t \in Tenants, p \in Offered : UpdateTenant(m, t, p)
    \/ UNCHANGED tenants /\ endMove(m)
removalCall(r) ==
    \/ RemovalStep(r)
    \/ \E t \in Tenants : FindTenant(r, t)
    \/ UNCHANGED tenants /\ endRemoval(r)
deletionCall(d) ==
    \/ DeletionProgress(d) \/ CancelDeletion(d)
    \/ \E p \in Plans : BeginDeletion(d, p)
    \/ UNCHANGED plans /\ endDeletion(d)

(* A step is one of a call, or of a handler without a transaction.         *)
LEMMA StepKinds ==
    ASSUME [Next]_vars
    PROVE  \/ UNCHANGED vars
           \/ \E c \in Creations : creationCall(c)
           \/ \E e \in Edits : editCall(e)
           \/ \E m \in Moves : moveCall(m)
           \/ \E r \in Removals : removalCall(r)
           \/ \E d \in Deletions : deletionCall(d)
           \/ \E t \in Tenants : TenantStep(t)
           \/ \E p \in Plans : PlanStep(p)
           \/ \E d \in SalonEdits : SalonEditStep(d)
           \/ \E s \in Salons : DeleteSalon(s)
<1> USE DEF creationCall, editCall, moveCall, removalCall, deletionCall
<1>1. ASSUME BreakCircle
      PROVE  \/ \E e \in Edits : editCall(e)
             \/ \E m \in Moves : moveCall(m)
             \/ \E r \in Removals : removalCall(r)
             \/ \E d \in Deletions : deletionCall(d)
  <2>1. PICK x : Abort(x)
    BY <1>1 DEF BreakCircle
  <2> QED  BY <2>1 DEF Abort
<1> QED  BY <1>1 DEF Next

(* The tables, each by itself.                                             *)
LEMMA Tables ==
    TypeOK => /\ staff \in [Tenants -> Nat]
              /\ plans \in [Plans -> PlanRow]
              /\ edits \in [Edits -> Edit]
BY DEF TypeOK

(* The local record of a creation stays one when it goes a step on.        *)
LEMMA CreationMoves ==
    ASSUME TypeOK, NEW c \in Creations, creations[c].pc # "idle",
           NEW q \in {"locked", "limited", "checked"}, NEW n \in Nat
    PROVE  /\ [creations[c] EXCEPT !.pc = q] \in Creation
           /\ [creations[c] EXCEPT !.pc = q, !.limit = n] \in Creation
           /\ creations[c].tenant \in Tenants
<1>1. creations[c] \in [pc : {"waiting", "locked", "limited", "checked"},
                        kind : {"user", "salon"}, tenant : Tenants, limit : Nat]
  BY DEF TypeOK, Creation, IdleCreation
<1> QED  BY <1>1 DEF Creation

(* An edit that has read a plan keeps the type of its locals.              *)
LEMMA EditMoves ==
    ASSUME TypeOK, NEW e \in Edits, edits[e].pc # "idle", NEW row \in PlanRow
    PROVE  /\ [edits[e] EXCEPT !.pc = "read", !.row = row] \in Edit
           /\ edits[e].plan \in Plans /\ edits[e].row \in PlanRow
<1>1. edits[e] \in [pc : {"locking", "read"}, plan : Plans,
                    todo : SUBSET Tenants, row : PlanRow]
  BY DEF TypeOK, Edit, IdleEdit
<1> QED  BY <1>1 DEF Edit

(* What a creation writes keeps its type.                                  *)
LEMMA CreationTypes ==
    ASSUME TypeOK, NEW c \in Creations, creationCall(c)
    PROVE  TypeOK'
<1> USE ConstantsAssumption DEF TypeOK, Creation, IdleCreation, Owners, tables, rest
<1>1. ASSUME NEW kind \in {"user", "salon"}, NEW t \in Tenants, BeginCreation(c, kind, t)
      PROVE  TypeOK'
  BY <1>1 DEF BeginCreation
<1>2. CASE LockTenant(c)
  <2>1. creations[c] \in Creation /\ creations[c].tenant \in Tenants
    BY <1>2 DEF LockTenant
  <2>2. lock' \in [Tenants -> Owners]
    BY <1>2, <2>1 DEF LockTenant
  <2>3. creations' \in [Creations -> Creation]
    BY <1>2, <2>1 DEF LockTenant
  <2> QED  BY <1>2, <2>2, <2>3 DEF LockTenant
<1>3. CASE ReadLimit(c)
  <2>1. creations[c].tenant \in Tenants
    BY <1>3 DEF ReadLimit
  <2>2. limitOf(creations[c].kind, creations[c].tenant) \in Nat
    <3>1. OwnLimit[creations[c].tenant] \in Nat
      BY <2>1
    <3>2. ASSUME tenants[creations[c].tenant].plan # None
          PROVE  plans[tenants[creations[c].tenant].plan] \in PlanRow
      BY <2>1, <3>2 DEF TenantRow
    <3>3. userLimit(creations[c].tenant) \in Nat
      BY <3>1, <3>2 DEF userLimit, PlanRow
    <3>4. salonLimit(creations[c].tenant) \in Nat
      BY <3>2 DEF salonLimit, PlanRow
    <3> QED  BY <3>3, <3>4 DEF limitOf
  <2> DEFINE next == [creations[c] EXCEPT !.pc = "limited",
                          !.limit = limitOf(creations[c].kind, creations[c].tenant)]
  <2>3. next \in Creation
    BY <1>3, <2>2, CreationMoves DEF ReadLimit
  <2>4. creations' = [creations EXCEPT ![c] = next]
    BY <1>3 DEF ReadLimit
  <2> QED  BY <1>3, <2>3, <2>4 DEF ReadLimit
<1>4. CASE CheckQuota(c)
  BY <1>4 DEF CheckQuota
<1>5. CASE InsertUser(c)
  <2>1. creations[c].tenant \in Tenants
    BY <1>5 DEF InsertUser
  <2>2. staff' = [staff EXCEPT ![creations[c].tenant] = @ + 1]
    BY <1>5 DEF InsertUser
  <2>3. staff' \in [Tenants -> Nat]
    <3> HIDE ConstantsAssumption DEF TypeOK, Creation, IdleCreation
    <3>1. staff \in [Tenants -> Nat]
      BY Tables
    <3> QED  BY <2>1, <2>2, <3>1
  <2> QED  BY <1>5, <2>3 DEF InsertUser, release
<1>6. ASSUME NEW s \in Salons, InsertSalon(c, s)
      PROVE  TypeOK'
  <2>1. creations[c].tenant \in Tenants
    BY <1>6 DEF InsertSalon
  <2>2. salons' \in [Salons -> SalonRow]
    BY <1>6, <2>1 DEF InsertSalon, SalonRow
  <2> QED  BY <1>6, <2>2 DEF InsertSalon, release
<1>7. CASE RollBack(c)
  BY <1>7 DEF RollBack, release
<1> QED  BY <1>1, <1>2, <1>3, <1>4, <1>5, <1>6, <1>7
          DEF CreationStep, creationCall

(* What an edit of a plan writes keeps its type.                           *)
LEMMA EditTypes ==
    ASSUME TypeOK, NEW e \in Edits, editCall(e)
    PROVE  TypeOK'
<1> USE ConstantsAssumption DEF TypeOK, Edit, IdleEdit, PlanRow, NoPlan, Owners, tables, rest
<1>1. ASSUME NEW p \in Plans, BeginEdit(e, p)
      PROVE  TypeOK'
  BY <1>1 DEF BeginEdit, usersOf
<1>2. CASE LockNext(e)
  <2>0. edits[e].todo \subseteq Tenants
    BY DEF Edit
  <2>1. PICK t \in Tenants : lockRow(e, t)
    BY <1>2, <2>0 DEF LockNext, nextRow
  <2>2. lock' \in [Tenants -> Owners]
    BY <2>1 DEF lockRow
  <2>3. edits' \in [Edits -> Edit]
    BY <2>1 DEF lockRow
  <2> QED  BY <2>1, <2>2, <2>3 DEF lockRow
<1>3. CASE ReadPlan(e)
  <2>1. edits[e].plan \in Plans
    BY <1>3 DEF ReadPlan
  <2> DEFINE next == [edits[e] EXCEPT !.pc = "read", !.row = plans[edits[e].plan]]
  <2>2. next \in Edit
    BY <1>3, <2>1, EditMoves DEF ReadPlan
  <2>3. edits' = [edits EXCEPT ![e] = next]
    BY <1>3 DEF ReadPlan
  <2>4. edits' \in [Edits -> Edit]
    <3> HIDE DEF TypeOK, Edit, IdleEdit, PlanRow, next
    <3> QED  BY <2>2, <2>3, Tables
  <2> QED  BY <1>3, <2>4 DEF ReadPlan
<1>4. ASSUME NEW n \in Limits, SavePlan(e, n)
      PROVE  TypeOK'
  BY <1>4 DEF SavePlan, endEdit, release
<1>5. ASSUME NEW m \in Limits, NEW n \in Limits, PatchPlan(e, m, n)
      PROVE  TypeOK'
  <2>1. edits[e].plan \in Plans /\ m \in Nat /\ n \in Nat
    BY <1>5 DEF PatchPlan
  <2>2. plans' = [plans EXCEPT ![edits[e].plan] =
           IF @.st = "live"
           THEN [@ EXCEPT !.maxUsers = m, !.maxSalons = n] ELSE @]
    BY <1>5 DEF PatchPlan
  <2>3. plans' \in [Plans -> PlanRow]
    <3> HIDE DEF TypeOK, Edit, IdleEdit
    <3> QED  BY <2>1, <2>2, Tables, ZenonT(40)
  <2> QED  BY <1>5, <2>3 DEF PatchPlan, endEdit, release
<1>6. ASSUME UNCHANGED plans, endEdit(e)
      PROVE  TypeOK'
  BY <1>6 DEF endEdit, release
<1>7. EditFails(e) \/ CancelEdit(e) => UNCHANGED plans /\ endEdit(e)
  BY DEF EditFails, CancelEdit
<1> QED  BY <1>1, <1>2, <1>3, <1>4, <1>5, <1>6, <1>7 DEF EditStep, EditProgress, editCall

(* So do the writers of networks and plans.                                *)
LEMMA TenantTypes ==
    ASSUME TypeOK, NEW t \in Tenants, TenantStep(t)
    PROVE  TypeOK'
<1> USE ConstantsAssumption DEF TypeOK, TenantRow, calls, requests, tables
<1>1. ASSUME NEW p \in Plans \cup {None}, NEW contact \in BOOLEAN, CreateTenant(t, p, contact)
      PROVE  TypeOK'
  BY <1>1 DEF CreateTenant
<1>2. CASE AddContact(t)
  BY <1>2 DEF AddContact
<1>3. CASE ContactFails(t)
  BY <1>3 DEF ContactFails
<1>4. CASE CreateUserWithTenant(t)
  BY <1>4 DEF CreateUserWithTenant
<1>5. CASE DeleteEmployee(t)
  BY <1>5 DEF DeleteEmployee
<1> QED  BY <1>1, <1>2, <1>3, <1>4, <1>5 DEF TenantStep

(* So does the creation of a plan.                                         *)
LEMMA PlanTypes ==
    ASSUME TypeOK, NEW p \in Plans, PlanStep(p)
    PROVE  TypeOK'
<1> USE ConstantsAssumption DEF TypeOK, PlanRow, calls, requests
<1>1. ASSUME NEW m \in Limits, NEW n \in Limits, CreatePlan(p, m, n)
      PROVE  TypeOK'
  BY <1>1 DEF CreatePlan
<1> QED  BY <1>1 DEF PlanStep

(* So do moves of networks to a plan.                                      *)
LEMMA MoveTypes ==
    ASSUME TypeOK, NEW m \in Moves, moveCall(m)
    PROVE  TypeOK'
<1> USE ConstantsAssumption DEF TypeOK, Move, IdleMove, TenantRow, Owners, quotaCalls, tables
<1>1. ASSUME NEW t \in Tenants, NEW p \in Offered, UpdateTenant(m, t, p)
      PROVE  TypeOK'
  BY <1>1 DEF UpdateTenant
<1>2. ASSUME tenants' \in [Tenants -> TenantRow], endMove(m)
      PROVE  TypeOK'
  BY <1>2 DEF endMove, release
<1>3. CASE JoinPlan(m)
  <2>1. tenants' \in [Tenants -> TenantRow]
    BY <1>3 DEF JoinPlan
  <2> QED  BY <1>2, <1>3, <2>1 DEF JoinPlan
<1>4. CASE MoveFails(m)
  BY <1>2, <1>4 DEF MoveFails
<1>5. CASE UNCHANGED tenants /\ endMove(m)
  BY <1>2, <1>5
<1> QED  BY <1>1, <1>3, <1>4, <1>5 DEF moveCall, MoveStep

(* So do removals of networks.                                             *)
LEMMA RemovalTypes ==
    ASSUME TypeOK, NEW r \in Removals, removalCall(r)
    PROVE  TypeOK'
<1> USE DEF TypeOK, Removal, IdleRemoval, TenantRow, NoTenant, Owners, quotaCalls, tables
<1>1. ASSUME NEW t \in Tenants, FindTenant(r, t)
      PROVE  TypeOK'
  BY <1>1 DEF FindTenant
<1>2. CASE CountUsers(r)
  BY <1>2, SMTT(20) DEF CountUsers
<1>3. CASE BeginSave(r)
  BY <1>3, SMTT(20) DEF BeginSave
<1>4. ASSUME tenants' \in [Tenants -> TenantRow], endRemoval(r)
      PROVE  TypeOK'
  BY <1>4 DEF endRemoval, release
<1>5. CASE SaveChurned(r)
  <2>1. tenants' \in [Tenants -> TenantRow]
    BY <1>5 DEF SaveChurned
  <2> QED  BY <1>4, <1>5, <2>1 DEF SaveChurned
<1>6. CASE RemovalFails(r)
  BY <1>4, <1>6 DEF RemovalFails
<1>7. CASE UNCHANGED tenants /\ endRemoval(r)
  BY <1>4, <1>7
<1> QED  BY <1>1, <1>2, <1>3, <1>5, <1>6, <1>7 DEF removalCall, RemovalStep, RemovalProgress

(* So do deletions of plans.                                               *)
LEMMA DeletionTypes ==
    ASSUME TypeOK, NEW d \in Deletions, deletionCall(d)
    PROVE  TypeOK'
<1> USE DEF TypeOK, Deletion, IdleDeletion, PlanRow, quotaCalls, tables
<1>1. ASSUME NEW p \in Plans, BeginDeletion(d, p)
      PROVE  TypeOK'
  BY <1>1 DEF BeginDeletion, usersOf
<1>2. CASE MeetTenant(d)
  BY <1>2 DEF MeetTenant
<1>3. CASE PassTenant(d)
  <2>1. deletions[d].at \in Tenants
    BY <1>3 DEF PassTenant
  <2> DEFINE next == [deletions[d] EXCEPT !.at = None, !.passed = @ \cup {deletions[d].at}]
  <2>2. next \in Deletion
    BY <2>1
  <2>3. deletions' = [deletions EXCEPT ![d] = next]
    BY <1>3 DEF PassTenant
  <2>4. deletions \in [Deletions -> Deletion]
    OBVIOUS
  <2>5. deletions' \in [Deletions -> Deletion]
    <3> HIDE DEF next, TypeOK, Deletion
    <3> QED  BY <2>2, <2>3, <2>4
  <2> HIDE DEF next, Deletion
  <2> QED  BY <1>3, <2>5 DEF PassTenant
<1>4. ASSUME plans' \in [Plans -> PlanRow], endDeletion(d)
      PROVE  TypeOK'
  BY <1>4 DEF endDeletion
<1>5. CASE DeletePlan(d)
  <2>1. plans' \in [Plans -> PlanRow]
    BY <1>5 DEF DeletePlan
  <2> QED  BY <1>4, <1>5, <2>1 DEF DeletePlan
<1>6. CASE RefuseDeletion(d)
  BY <1>4, <1>6 DEF RefuseDeletion
<1>7. CASE CancelDeletion(d)
  BY <1>4, <1>7 DEF CancelDeletion
<1>8. CASE UNCHANGED plans /\ endDeletion(d)
  BY <1>4, <1>8
<1> QED  BY <1>1, <1>2, <1>3, <1>5, <1>6, <1>7, <1>8 DEF deletionCall, DeletionProgress

(* So do updates and removals of salons.                                   *)
LEMMA SalonTypes ==
    ASSUME TypeOK,
           \/ \E d \in SalonEdits : SalonEditStep(d)
           \/ \E s \in Salons : DeleteSalon(s)
    PROVE  TypeOK'
<1> USE DEF TypeOK, SalonRow, calls, requests, tables
<1>1. ASSUME NEW d \in SalonEdits, NEW s \in Salons, GetSalon(d, s)
      PROVE  TypeOK'
  BY <1>1 DEF GetSalon
<1>2. ASSUME NEW d \in SalonEdits, SaveSalon(d)
      PROVE  TypeOK'
  BY <1>2 DEF SaveSalon
<1>3. ASSUME NEW d \in SalonEdits, SalonEditFails(d)
      PROVE  TypeOK'
  BY <1>3 DEF SalonEditFails
<1>4. ASSUME NEW s \in Salons, DeleteSalon(s)
      PROVE  TypeOK'
  BY <1>4 DEF DeleteSalon
<1> QED  BY <1>1, <1>2, <1>3, <1>4 DEF SalonEditStep

(* Every step keeps the types.                                             *)
LEMMA StepTypes == TypeOK /\ [Next]_vars => TypeOK'
<1> SUFFICES ASSUME TypeOK, [Next]_vars PROVE TypeOK'
  OBVIOUS
<1>1. CASE UNCHANGED vars
  BY <1>1 DEF vars, TypeOK
<1>2. CASE Next
  BY <1>2, StepKinds, <1>1, CreationTypes, EditTypes, MoveTypes, RemovalTypes,
     DeletionTypes, TenantTypes, PlanTypes, SalonTypes
<1> QED  BY <1>1, <1>2

(* The empty database is well typed.                                       *)
LEMMA InitTypes == Init => TypeOK
BY ConstantsAssumption
   DEF Init, TypeOK, TenantRow, PlanRow, SalonRow, NoTenant, NoPlan, NoSalon,
       Creation, Edit, Removal, Move, Deletion, IdleDeletion, Transactions

(* Type correctness, for every instance.                                   *)
THEOREM TypeCorrect == Spec => []TypeOK
<1>1. Init => TypeOK
  BY InitTypes
<1> QED  BY <1>1, StepTypes, PTL DEF Spec

-----------------------------------------------------------------------------
(* A creation past its first statement owns the row of its network, an     *)
(* edit owns rows whose ids are less than those it has yet to lock, and    *)
(* nobody else owns a row.                                                 *)
inside == {"locked", "limited", "checked"}

LocksHeld ==
    /\ \A c \in Creations : creations[c].pc \in inside => lock[creations[c].tenant] = c
    /\ \A t \in Tenants, c \in Creations : lock[t] = c => creations[c].pc \in inside
    /\ \A t \in Tenants, e \in Edits : lock[t] = e =>
           edits[e].pc # "idle" /\ \A other \in edits[e].todo : t < other

(* A network somebody creates in has been created itself.                  *)
TenantsExist ==
    \A c \in Creations : creations[c].pc # "idle" => exists(creations[c].tenant)

(* The invariant: the quota checked still holds because the row is owned.  *)
IInv == TypeOK /\ LocksHeld /\ TenantsExist /\ CheckedQuotaStillHolds

(* The empty database satisfies the invariant.                             *)
LEMMA InitInvariant == Init => IInv
<1> SUFFICES ASSUME Init PROVE IInv
  OBVIOUS
<1>1. TypeOK
  BY InitTypes
<1>2. \A t \in Tenants, x \in Creations \cup Edits : lock[t] # x
  BY ConstantsAssumption DEF Init, Transactions
<1>3. LocksHeld /\ TenantsExist /\ CheckedQuotaStillHolds
  BY <1>2 DEF Init, LocksHeld, TenantsExist, CheckedQuotaStillHolds, inside, IdleCreation
<1> QED  BY <1>1, <1>3 DEF IInv

(* Nobody else takes a row from a creation or an edit, or gives them one.  *)
LEMMA OthersKeepLocks ==
    ASSUME TypeOK,
           \/ \E m \in Moves : moveCall(m)
           \/ \E r \in Removals : removalCall(r)
           \/ \E d \in Deletions : deletionCall(d)
           \/ \E t \in Tenants : TenantStep(t)
           \/ \E p \in Plans : PlanStep(p)
           \/ \E d \in SalonEdits : SalonEditStep(d)
           \/ \E s \in Salons : DeleteSalon(s)
    PROVE  /\ UNCHANGED <<creations, edits>>
           /\ \A t \in Tenants, x \in Creations \cup Edits : lock'[t] = x <=> lock[t] = x
<1> USE ConstantsAssumption DEF calls, requests, quotaCalls, tables, Transactions
<1>0. lock \in [Tenants -> Owners]
  BY DEF TypeOK, Owners
<1>00. ASSUME NEW y \in Moves \cup Removals,
              release(y) \/ \E u \in Tenants : lock[u] = None /\ lock' = [lock EXCEPT ![u] = y]
       PROVE  \A t \in Tenants, x \in Creations \cup Edits : lock'[t] = x <=> lock[t] = x
  <2>1. y \notin Creations \cup Edits /\ None \notin Creations \cup Edits
    OBVIOUS
  <2> QED  BY <1>0, <1>00, <2>1 DEF release
<1>1. ASSUME NEW m \in Moves, moveCall(m)
      PROVE  /\ UNCHANGED <<creations, edits>>
             /\ \A t \in Tenants, x \in Creations \cup Edits : lock'[t] = x <=> lock[t] = x
  <2>1. UNCHANGED <<creations, edits>>
    BY <1>1 DEF moveCall, MoveStep, UpdateTenant, JoinPlan, MoveFails, endMove
  <2>2. release(m) \/ \E u \in Tenants : lock[u] = None /\ lock' = [lock EXCEPT ![u] = m]
    BY <1>1 DEF moveCall, MoveStep, UpdateTenant, JoinPlan, MoveFails, endMove, writable
  <2> QED  BY <1>00, <2>1, <2>2
<1>2. ASSUME NEW r \in Removals, removalCall(r)
      PROVE  /\ UNCHANGED <<creations, edits>>
             /\ \A t \in Tenants, x \in Creations \cup Edits : lock'[t] = x <=> lock[t] = x
  <2>1. UNCHANGED <<creations, edits>>
    BY <1>2 DEF removalCall, RemovalStep, RemovalProgress, FindTenant, CountUsers,
                BeginSave, SaveChurned, RemovalFails, endRemoval
  <2>2. CASE BeginSave(r)
    <3>1. removals[r].tenant \in Tenants
      BY <2>2 DEF BeginSave, TypeOK, Removal, IdleRemoval
    <3> QED  BY <1>00, <2>1, <2>2, <3>1 DEF BeginSave, writable
  <2>3. ~BeginSave(r) => release(r) \/ UNCHANGED lock
    BY <1>2 DEF removalCall, RemovalStep, RemovalProgress, FindTenant, CountUsers,
                SaveChurned, RemovalFails, endRemoval
  <2> QED  BY <1>00, <2>1, <2>2, <2>3
<1>3. ASSUME NEW d \in Deletions, deletionCall(d)
      PROVE  UNCHANGED <<lock, creations, edits>>
  BY <1>3 DEF deletionCall, DeletionProgress, BeginDeletion, MeetTenant, PassTenant,
              DeletePlan, RefuseDeletion, CancelDeletion, endDeletion
<1>4. ASSUME NEW t \in Tenants, TenantStep(t)
      PROVE  UNCHANGED <<lock, creations, edits>>
  BY <1>4 DEF TenantStep, CreateTenant, AddContact, ContactFails, CreateUserWithTenant,
              DeleteEmployee
<1>5. ASSUME NEW p \in Plans, PlanStep(p)
      PROVE  UNCHANGED <<lock, creations, edits>>
  BY <1>5 DEF PlanStep, CreatePlan
<1>6. ASSUME NEW d \in SalonEdits, SalonEditStep(d)
      PROVE  UNCHANGED <<lock, creations, edits>>
  BY <1>6 DEF SalonEditStep, GetSalon, SaveSalon, SalonEditFails
<1>7. ASSUME NEW s \in Salons, DeleteSalon(s)
      PROVE  UNCHANGED <<lock, creations, edits>>
  BY <1>7 DEF DeleteSalon
<1> QED  BY <1>1, <1>2, <1>3, <1>4, <1>5, <1>6, <1>7

(* The transaction of a creation takes one row and gives it back.          *)
LEMMA CreationLocks ==
    ASSUME IInv, NEW c \in Creations, creationCall(c)
    PROVE  LocksHeld'
<1> USE ConstantsAssumption DEF IInv, LocksHeld, inside, Transactions
<1>0. /\ lock \in [Tenants -> Owners]
      /\ creations \in [Creations -> Creation]
      /\ \A d \in Creations : creations[d].pc # "idle" => creations[d].tenant \in Tenants
  BY DEF TypeOK, Creation, IdleCreation, Owners
<1>1. ASSUME NEW kind \in {"user", "salon"}, NEW t \in Tenants, BeginCreation(c, kind, t)
      PROVE  LocksHeld'
  BY <1>1, <1>0 DEF BeginCreation
<1>2. CASE LockTenant(c)
  BY <1>2, <1>0 DEF LockTenant, free
<1>3. CASE ReadLimit(c)
  BY <1>3, <1>0 DEF ReadLimit
<1>4. CASE CheckQuota(c)
  BY <1>4, <1>0 DEF CheckQuota
<1>5. ASSUME release(c), creations[c].pc # "idle", UNCHANGED edits,
             creations' = [creations EXCEPT ![c] = IdleCreation]
      PROVE  LocksHeld'
  BY <1>5, <1>0 DEF release, IdleCreation
<1>6. CASE InsertUser(c)
  BY <1>5, <1>6 DEF InsertUser
<1>7. ASSUME NEW s \in Salons, InsertSalon(c, s)
      PROVE  LocksHeld'
  BY <1>5, <1>7 DEF InsertSalon
<1>8. CASE RollBack(c)
  BY <1>5, <1>8 DEF RollBack
<1> QED  BY <1>1, <1>2, <1>3, <1>4, <1>6, <1>7, <1>8 DEF CreationStep, creationCall

(* The transaction of an edit takes rows in the order of their ids.        *)
LEMMA EditLocks ==
    ASSUME IInv, NEW e \in Edits, editCall(e)
    PROVE  LocksHeld'
<1> USE ConstantsAssumption DEF IInv, LocksHeld, inside, Transactions
<1>0. /\ lock \in [Tenants -> Owners]
      /\ edits \in [Edits -> Edit]
      /\ \A f \in Edits : edits[f].todo \subseteq Tenants
      /\ \A d \in Creations : creations[d].pc # "idle" => creations[d].tenant \in Tenants
  BY DEF TypeOK, Edit, IdleEdit, Creation, IdleCreation, Owners
<1>1. ASSUME NEW p \in Plans, BeginEdit(e, p)
      PROVE  LocksHeld'
  <2>1. /\ lock' = lock /\ creations' = creations /\ edits[e].pc = "idle"
        /\ \A f \in Edits \ {e} : edits'[f] = edits[f]
    BY <1>0, <1>1 DEF BeginEdit
  <2>2. \A t \in Tenants : lock[t] # e
    BY <2>1
  <2> QED  BY <2>1, <2>2
<1>2. CASE LockNext(e)
  <2>1. PICK t \in edits[e].todo : (\A other \in edits[e].todo : t <= other) /\ lockRow(e, t)
    BY <1>2 DEF LockNext, nextRow
  <2>2. /\ edits' = [edits EXCEPT ![e].todo = @ \ {t}]
        /\ lock[t] = None
        /\ lock' = [lock EXCEPT ![t] = e]
        /\ UNCHANGED creations
        /\ edits[e].pc = "locking"
    BY <2>1 DEF lockRow, free
  <2>3. t \in Tenants
    BY <1>0
  <2>4. \A other \in edits'[e].todo : t < other
    BY <2>1, <2>2, <2>3, <1>0
  <2>5. \A f \in Edits : edits'[f].pc = edits[f].pc /\ edits'[f].todo \subseteq edits[f].todo
    BY <2>2, <1>0
  <2>6. ASSUME NEW u \in Tenants, NEW f \in Edits, lock'[u] = f
        PROVE  edits'[f].pc # "idle" /\ \A other \in edits'[f].todo : u < other
    <3>1. CASE lock[u] = f
      BY <3>1, <2>5
    <3>2. CASE lock[u] # f
      BY <3>2, <2>6, <2>2, <2>4, <2>5, <1>0
    <3> QED  BY <3>1, <3>2
  <2>7. \A c \in Creations : creations'[c].pc \in inside => lock'[creations'[c].tenant] = c
    BY <2>2, <2>3, <1>0
  <2>8. \A u \in Tenants, c \in Creations : lock'[u] = c => creations'[c].pc \in inside
    BY <2>2, <2>3, <1>0
  <2> QED  BY <2>6, <2>7, <2>8
<1>3. CASE ReadPlan(e)
  BY <1>3, <1>0 DEF ReadPlan
<1>4. ASSUME endEdit(e)
      PROVE  LocksHeld'
  <2>1. None \notin Creations \cup Edits /\ e \notin Creations
    OBVIOUS
  <2>2. UNCHANGED creations /\ edits' = [edits EXCEPT ![e] = IdleEdit]
    BY <1>4 DEF endEdit
  <2>3. \A t \in Tenants : lock'[t] = IF lock[t] = e THEN None ELSE lock[t]
    BY <1>4 DEF endEdit, release
  <2>4. \A t \in Tenants : lock'[t] # e
    BY <1>0, <2>1, <2>3
  <2>5. \A t \in Tenants, x \in Creations \cup Edits : x # e => (lock'[t] = x <=> lock[t] = x)
    BY <1>0, <2>1, <2>3
  <2>6. \A f \in Edits : f # e => edits'[f] = edits[f]
    BY <1>0, <2>2
  <2>7. \A c \in Creations : c # e
    BY <2>1
  <2> HIDE ConstantsAssumption
  <2>8. \A c \in Creations : creations'[c].pc \in inside => lock'[creations'[c].tenant] = c
    BY <1>0, <2>2, <2>5, <2>7
  <2>9. \A t \in Tenants, c \in Creations : lock'[t] = c => creations'[c].pc \in inside
    BY <2>2, <2>5, <2>7
  <2>10. \A t \in Tenants, f \in Edits : lock'[t] = f =>
             edits'[f].pc # "idle" /\ \A other \in edits'[f].todo : t < other
    BY <2>4, <2>5, <2>6
  <2> QED  BY <2>8, <2>9, <2>10
<1>5. ASSUME NEW n \in Limits, SavePlan(e, n)
      PROVE  LocksHeld'
  BY <1>4, <1>5 DEF SavePlan
<1>6. ASSUME NEW m \in Limits, NEW n \in Limits, PatchPlan(e, m, n)
      PROVE  LocksHeld'
  BY <1>4, <1>6 DEF PatchPlan
<1>7. CASE EditFails(e)
  BY <1>4, <1>7 DEF EditFails
<1>8. CASE CancelEdit(e)
  BY <1>4, <1>8 DEF CancelEdit
<1> QED  BY <1>1, <1>2, <1>3, <1>4, <1>5, <1>6, <1>7, <1>8 DEF EditStep, EditProgress, editCall

(* Every step keeps the owners of the rows as LocksHeld says.              *)
LEMMA LocksStep == IInv /\ [Next]_vars => LocksHeld'
<1> SUFFICES ASSUME IInv, [Next]_vars PROVE LocksHeld'
  OBVIOUS
<1>1. ASSUME UNCHANGED <<creations, edits>>,
             \A t \in Tenants, x \in Creations \cup Edits : lock'[t] = x <=> lock[t] = x
      PROVE  LocksHeld'
  <2>1. \A c \in Creations : creations[c].pc \in inside => creations[c].tenant \in Tenants
    BY DEF IInv, TypeOK, Creation, IdleCreation, inside
  <2> QED  BY <1>1, <2>1 DEF IInv, LocksHeld
<1>2. CASE UNCHANGED vars
  BY <1>1, <1>2 DEF vars
<1> QED  BY <1>1, <1>2, CreationLocks, EditLocks, OthersKeepLocks, StepKinds DEF IInv

-----------------------------------------------------------------------------
(* An edit counts nothing and makes nothing that is counted.               *)
LEMMA EditsKeepCounts ==
    ASSUME NEW e \in Edits, editCall(e)
    PROVE  UNCHANGED <<staff, salons, creations>>
BY DEF editCall, EditStep, EditProgress, BeginEdit, LockNext, lockRow, ReadPlan, SavePlan,
       PatchPlan, EditFails, CancelEdit, endEdit, tables

(* A network never goes back to not existing.                              *)
LEMMA TenantsStep == IInv /\ [Next]_vars => TenantsExist'
<1> SUFFICES ASSUME IInv, [Next]_vars PROVE TenantsExist'
  OBVIOUS
<1> USE DEF IInv, exists
<1>1. ASSUME NEW t \in Tenants, exists(t)
      PROVE  exists(t)'
  <2>0. tenants \in [Tenants -> TenantRow]
    BY DEF TypeOK
  <2>1. CASE UNCHANGED tenants
    BY <1>1, <2>1
  <2>2. ASSUME NEW u \in Tenants, TenantStep(u)
        PROVE  exists(t)'
    BY <1>1, <2>0, <2>2 DEF TenantStep, CreateTenant, AddContact, ContactFails,
       CreateUserWithTenant, DeleteEmployee, TenantRow, tables
  <2>3. ASSUME NEW r \in Removals, removalCall(r)
        PROVE  exists(t)'
    <3>1. CASE SaveChurned(r)
      <4>1. removals[r].row \in TenantRow
        BY <3>1 DEF SaveChurned, TypeOK, Removal, IdleRemoval
      <4> QED  BY <1>1, <2>0, <3>1, <4>1 DEF SaveChurned, TenantRow
    <3>2. ~SaveChurned(r) => UNCHANGED tenants
      BY <2>3 DEF removalCall, RemovalStep, RemovalProgress, FindTenant, CountUsers,
                  BeginSave, RemovalFails, tables
    <3> QED  BY <2>1, <3>1, <3>2
  <2>4. ASSUME NEW m \in Moves, moveCall(m)
        PROVE  exists(t)'
    <3>1. CASE JoinPlan(m)
      BY <1>1, <2>0, <3>1 DEF JoinPlan, TenantRow
    <3>2. ~JoinPlan(m) => UNCHANGED tenants
      BY <2>4 DEF moveCall, MoveStep, UpdateTenant, MoveFails, tables
    <3> QED  BY <2>1, <3>1, <3>2
  <2>5. ASSUME NEW c \in Creations, creationCall(c)
        PROVE  UNCHANGED tenants
    BY <2>5 DEF creationCall, CreationStep, BeginCreation, LockTenant, ReadLimit,
       CheckQuota, InsertUser, InsertSalon, RollBack, tables
  <2>6. ASSUME NEW e \in Edits, editCall(e)
        PROVE  UNCHANGED tenants
    BY <2>6 DEF editCall, EditStep, EditProgress, BeginEdit, LockNext, lockRow, ReadPlan,
       SavePlan, PatchPlan, EditFails, CancelEdit, endEdit, tables
  <2>7. ASSUME \/ \E d \in Deletions : deletionCall(d)
               \/ \E p \in Plans : PlanStep(p)
               \/ \E d \in SalonEdits : SalonEditStep(d)
               \/ \E s \in Salons : DeleteSalon(s)
        PROVE  UNCHANGED tenants
    BY <2>7 DEF deletionCall, DeletionProgress, BeginDeletion, MeetTenant, PassTenant,
       DeletePlan, RefuseDeletion, CancelDeletion, endDeletion, PlanStep, CreatePlan,
       SalonEditStep, GetSalon, SaveSalon, SalonEditFails, DeleteSalon, tables
  <2>8. UNCHANGED vars => UNCHANGED tenants
    BY DEF vars
  <2> QED  BY <2>1, <2>2, <2>3, <2>4, <2>5, <2>6, <2>7, <2>8, StepKinds
<1>2. ASSUME NEW c \in Creations, creations'[c].pc # "idle"
      PROVE  creations'[c].tenant \in Tenants /\ exists(creations'[c].tenant)
  <2>0. creations \in [Creations -> Creation]
    BY DEF TypeOK
  <2>1. CASE creations'[c] = creations[c]
    BY <1>2, <2>0, <2>1 DEF TenantsExist, Creation, IdleCreation
  <2>2. ASSUME NEW kind \in {"user", "salon"}, NEW t \in Tenants, BeginCreation(c, kind, t)
        PROVE  creations'[c].tenant \in Tenants /\ exists(creations'[c].tenant)
    BY <2>0, <2>2 DEF BeginCreation
  <2>3. CASE CreationStep(c)
    <3>1. ~InsertUser(c) /\ ~RollBack(c) /\ \A s \in Salons : ~InsertSalon(c, s)
      BY <1>2, <2>0 DEF InsertUser, InsertSalon, RollBack, IdleCreation
    <3>2. creations[c].pc # "idle" /\ creations'[c].tenant = creations[c].tenant
      <4>1. CASE LockTenant(c)
        BY <2>0, <4>1 DEF LockTenant
      <4>2. CASE ReadLimit(c)
        BY <2>0, <4>2 DEF ReadLimit
      <4>3. CASE CheckQuota(c)
        BY <2>0, <4>3 DEF CheckQuota
      <4> QED  BY <2>3, <3>1, <4>1, <4>2, <4>3 DEF CreationStep
    <3> QED  BY <2>0, <3>2 DEF TenantsExist, Creation, IdleCreation
  <2>4. ASSUME NEW d \in Creations, d # c, creationCall(d)
        PROVE  creations'[c] = creations[c]
    BY <2>0, <2>4 DEF creationCall, CreationStep, BeginCreation, LockTenant, ReadLimit,
       CheckQuota, InsertUser, InsertSalon, RollBack
  <2>5. ASSUME NEW e \in Edits, editCall(e)
        PROVE  UNCHANGED creations
    BY <2>5, EditsKeepCounts
  <2>6. UNCHANGED vars => UNCHANGED creations
    BY DEF vars
  <2> QED  BY <2>1, <2>2, <2>3, <2>4, <2>5, <2>6, OthersKeepLocks, StepKinds DEF creationCall
<1> QED  BY <1>1, <1>2 DEF TenantsExist

-----------------------------------------------------------------------------
(* While a creation owns the row of its network and has not inserted, the  *)
(* users and the salons of the network only become fewer.                  *)
LEMMA CountsOnlyFall ==
    ASSUME IInv, [Next]_vars, NEW c \in Creations, NEW t \in Tenants,
           creations[c].tenant = t, creations[c].pc \in inside, creations'[c].pc # "idle"
    PROVE  staff'[t] <= staff[t] /\ salonsOf(t)' \subseteq salonsOf(t)
<1> DEFINE fall == staff'[t] <= staff[t] /\ salonsOf(t)' \subseteq salonsOf(t)
<1> USE ConstantsAssumption
<1>0. /\ lock[t] = c /\ exists(t) /\ t # None /\ c # None
  BY DEF IInv, LocksHeld, TenantsExist, inside, Transactions
<1>00. /\ staff \in [Tenants -> Nat]
      /\ salons \in [Salons -> SalonRow]
      /\ creations \in [Creations -> Creation]
      /\ \A d \in Creations : creations[d].pc # "idle" => creations[d].tenant \in Tenants
  BY DEF IInv, TypeOK, Creation, IdleCreation
<1>1. CASE UNCHANGED <<staff, salons>>
  BY <1>0, <1>00, <1>1 DEF salonsOf
<1>2. ASSUME NEW d \in Creations, InsertUser(d)
      PROVE  fall
  <2>1. d # c /\ creations[d].tenant # t
    BY <1>0, <1>00, <1>2 DEF InsertUser, IInv, LocksHeld, inside, IdleCreation
  <2>2. staff'[t] = staff[t] /\ UNCHANGED salons
    BY <1>0, <1>00, <1>2, <2>1 DEF InsertUser
  <2> QED  BY <1>0, <1>00, <2>2 DEF salonsOf
<1>3. ASSUME NEW d \in Creations, NEW s \in Salons, InsertSalon(d, s)
      PROVE  fall
  <2>1. d # c /\ creations[d].tenant # t
    BY <1>0, <1>00, <1>3 DEF InsertSalon, IInv, LocksHeld, inside, IdleCreation
  <2>2. UNCHANGED staff /\ salonsOf(t)' \subseteq salonsOf(t)
    BY <1>0, <1>00, <1>3, <2>1 DEF InsertSalon, salonsOf
  <2> QED  BY <1>0, <1>00, <2>2
<1>4. ASSUME NEW d \in Creations, creationCall(d)
      PROVE  fall
  BY <1>1, <1>2, <1>3, <1>4 DEF creationCall, CreationStep, BeginCreation, LockTenant,
     ReadLimit, CheckQuota, RollBack, tables
<1>5. ASSUME NEW e \in Edits, editCall(e)
      PROVE  fall
  BY <1>1, <1>5, EditsKeepCounts
<1>6. ASSUME NEW u \in Tenants, TenantStep(u)
      PROVE  fall
  <2>1. UNCHANGED salons
    BY <1>6 DEF TenantStep, CreateTenant, AddContact, ContactFails, CreateUserWithTenant,
       DeleteEmployee, tables
  <2>2. ASSUME AddContact(u) PROVE staff'[t] = staff[t]
    BY <1>0, <1>00, <2>2 DEF AddContact, forUpdate
  <2>3. ASSUME CreateUserWithTenant(u) PROVE staff'[t] = staff[t]
    BY <1>0, <1>00, <2>3 DEF CreateUserWithTenant, exists
  <2>4. ASSUME DeleteEmployee(u) PROVE staff'[t] <= staff[t]
    BY <1>0, <1>00, <2>4 DEF DeleteEmployee
  <2>5. UNCHANGED staff \/ AddContact(u) \/ CreateUserWithTenant(u) \/ DeleteEmployee(u)
    BY <1>6 DEF TenantStep, CreateTenant, ContactFails, tables
  <2>6. staff[t] \in Nat
    BY <1>00
  <2>7. staff'[t] <= staff[t]
    BY <2>2, <2>3, <2>4, <2>5, <2>6
  <2> QED  BY <2>1, <2>7 DEF salonsOf
<1>7. ASSUME \/ \E m \in Moves : moveCall(m)
             \/ \E r \in Removals : removalCall(r)
             \/ \E d \in Deletions : deletionCall(d)
             \/ \E p \in Plans : PlanStep(p)
      PROVE  UNCHANGED <<staff, salons>>
  BY <1>7 DEF moveCall, MoveStep, UpdateTenant, JoinPlan, MoveFails, endMove,
     removalCall, RemovalStep, RemovalProgress, FindTenant, CountUsers, BeginSave,
     SaveChurned, RemovalFails, endRemoval, deletionCall, DeletionProgress,
     BeginDeletion, MeetTenant, PassTenant, DeletePlan, RefuseDeletion, CancelDeletion,
     endDeletion, PlanStep, CreatePlan, tables
<1>8. ASSUME NEW d \in SalonEdits, SalonEditStep(d)
      PROVE  fall
  <2>1. UNCHANGED staff
    BY <1>8 DEF SalonEditStep, GetSalon, SaveSalon, SalonEditFails, tables
  <2>2. salonsOf(t)' \subseteq salonsOf(t)
    <3>1. CASE UNCHANGED salons
      BY <3>1 DEF salonsOf
    <3>2. CASE SaveSalon(d)
      BY <1>0, <1>00, <3>2 DEF SaveSalon, salonsOf, forUpdate
    <3> QED  BY <1>8, <3>1, <3>2 DEF SalonEditStep, GetSalon, SalonEditFails, tables
  <2> QED  BY <1>0, <1>00, <2>1, <2>2
<1>9. ASSUME NEW s \in Salons, DeleteSalon(s)
      PROVE  fall
  BY <1>0, <1>00, <1>9 DEF DeleteSalon, salonsOf
<1>10. UNCHANGED vars => UNCHANGED <<staff, salons>>
  BY DEF vars
<1>11. fall
  BY <1>1, <1>4, <1>5, <1>6, <1>7, <1>8, <1>9, <1>10, StepKinds
<1> QED  BY <1>11

(* Only CheckQuota brings a creation to the point where it may insert.     *)
LEMMA Checked ==
    ASSUME IInv, [Next]_vars, NEW c \in Creations, creations'[c].pc = "checked"
    PROVE  \/ CheckQuota(c)
           \/ creations[c].pc = "checked" /\ creations'[c] = creations[c]
<1>0. creations \in [Creations -> Creation]
  BY DEF IInv, TypeOK
<1>1. UNCHANGED vars => UNCHANGED creations
  BY DEF vars
<1>2. ASSUME NEW d \in Creations, NEW kind \in {"user", "salon"}, NEW t \in Tenants,
             BeginCreation(d, kind, t)
      PROVE  creations'[c] = creations[c]
  BY <1>0, <1>2 DEF BeginCreation
<1>3. ASSUME NEW d \in Creations, CreationStep(d)
      PROVE  CheckQuota(c) \/ creations'[c] = creations[c]
  <2>1. ASSUME LockTenant(d) PROVE creations'[c] = creations[c]
    BY <1>0, <2>1 DEF LockTenant
  <2>2. ASSUME ReadLimit(d) PROVE creations'[c] = creations[c]
    BY <1>0, <2>2 DEF ReadLimit
  <2>3. ASSUME CheckQuota(d), d # c PROVE creations'[c] = creations[c]
    BY <1>0, <2>3 DEF CheckQuota
  <2>4. ASSUME InsertUser(d) PROVE creations'[c] = creations[c]
    BY <1>0, <2>4 DEF InsertUser, IdleCreation
  <2>5. ASSUME NEW s \in Salons, InsertSalon(d, s) PROVE creations'[c] = creations[c]
    BY <1>0, <2>5 DEF InsertSalon, IdleCreation
  <2>6. ASSUME RollBack(d) PROVE creations'[c] = creations[c]
    BY <1>0, <2>6 DEF RollBack, IdleCreation
  <2> QED  BY <1>3, <2>1, <2>2, <2>3, <2>4, <2>5, <2>6 DEF CreationStep
<1>4. ASSUME NEW e \in Edits, editCall(e)
      PROVE  UNCHANGED creations
  BY <1>4, EditsKeepCounts
<1> QED  BY <1>1, <1>2, <1>3, <1>4, OthersKeepLocks, StepKinds DEF creationCall, IInv

(* No step takes a checked quota away from the creation that checked it.   *)
LEMMA QuotaStep == IInv /\ [Next]_vars => CheckedQuotaStillHolds'
<1> SUFFICES ASSUME IInv, [Next]_vars, NEW c \in Creations,
                    creations'[c].pc = "checked", creations'[c].limit > 0
             PROVE  used(creations[c].kind, creations[c].tenant)' < creations'[c].limit
  BY DEF CheckedQuotaStillHolds
<1>0. /\ creations \in [Creations -> Creation] /\ creations' \in [Creations -> Creation]
      /\ staff \in [Tenants -> Nat] /\ staff' \in [Tenants -> Nat]
  BY StepTypes DEF IInv, TypeOK
<1>1. CASE CheckQuota(c)
  <2>1. UNCHANGED <<staff, salons>> /\ creations'[c] = [creations[c] EXCEPT !.pc = "checked"]
    BY <1>0, <1>1 DEF CheckQuota, tables
  <2>2. creations[c].limit > 0 => used(creations[c].kind, creations[c].tenant) < creations[c].limit
    BY <1>1 DEF CheckQuota
  <2>3. /\ creations'[c].kind = creations[c].kind
        /\ creations'[c].tenant = creations[c].tenant
        /\ creations'[c].limit = creations[c].limit
    BY <2>1, <1>0 DEF Creation, IdleCreation
  <2> QED  BY <2>1, <2>2, <2>3 DEF used, salonsOf
<1>2. CASE creations[c].pc = "checked" /\ creations'[c] = creations[c]
  <2>1. PICK t \in Tenants : creations[c].tenant = t
    BY <1>0, <1>2 DEF Creation, IdleCreation
  <2>2. staff'[t] <= staff[t] /\ salonsOf(t)' \subseteq salonsOf(t)
    BY <1>2, <2>1, CountsOnlyFall DEF inside
  <2>3. IsFiniteSet(salonsOf(t))
    BY FS_Subset, ConstantsAssumption DEF salonsOf
  <2>4. /\ Cardinality(salonsOf(t)') <= Cardinality(salonsOf(t))
        /\ Cardinality(salonsOf(t)) \in Nat /\ Cardinality(salonsOf(t)') \in Nat
    BY <2>2, <2>3, FS_Subset, FS_CardinalityType
  <2>5. used(creations[c].kind, t) < creations[c].limit
    BY <1>2, <2>1 DEF IInv, CheckedQuotaStillHolds
  <2>6. creations[c].limit \in Nat
    BY <1>0 DEF Creation, IdleCreation
  <2>7. CASE creations[c].kind = "user"
    BY <1>0, <1>2, <2>1, <2>2, <2>5, <2>6, <2>7 DEF used
  <2>8. CASE creations[c].kind # "user"
    BY <1>2, <2>1, <2>4, <2>5, <2>6, <2>8 DEF used
  <2> QED  BY <2>7, <2>8
<1> QED  BY <1>1, <1>2, Checked

(* Every step keeps the invariant.                                         *)
LEMMA InvariantStep == IInv /\ [Next]_vars => IInv'
BY StepTypes, LocksStep, TenantsStep, QuotaStep DEF IInv

(* The invariant holds in every reachable state.                           *)
LEMMA Invariant == Spec => []IInv
BY InitInvariant, InvariantStep, PTL DEF Spec

(* What was counted under the lock of the network is still so when the row *)
(* is inserted: the quota cannot be overrun by calls that run side by side. *)
THEOREM QuotaChecksHold == Spec => []CheckedQuotaStillHolds
<1>1. IInv => CheckedQuotaStillHolds
  BY DEF IInv
<1> QED  BY <1>1, Invariant, PTL
-----------------------------------------------------------------------------
(* A finite set of numbers that has a member has a greatest one.           *)
LEMMA Greatest ==
    ASSUME NEW S, S \subseteq Nat, IsFiniteSet(S), S # {}
    PROVE  \E m \in S : \A n \in S : n <= m
<1> DEFINE above(m) == {n \in S : m < n}
           ranks == {Cardinality(above(m)) : m \in S}
<1>1. ASSUME NEW m \in S
      PROVE  IsFiniteSet(above(m)) /\ Cardinality(above(m)) \in Nat
  BY FS_Subset, FS_CardinalityType
<1>2. ranks \subseteq Nat /\ ranks # {}
  BY <1>1
<1>3. PICK r \in ranks : \A q \in ranks : ~ (<<q, r>> \in OpToRel(<, Nat))
  <2> HIDE DEF ranks
  <2> QED  BY <1>2, WFMin, NatLessThanWellFounded
<1>4. PICK m \in S : r = Cardinality(above(m))
  BY <1>3
<1>5. ASSUME NEW n \in S, m < n
      PROVE  FALSE
  <2>1. m \in Nat /\ n \in Nat /\ \A k \in S : k \in Nat /\ (n < k => m < k)
    BY <1>5
  <2>2. above(n) \subseteq above(m) /\ n \in above(m)
    BY <1>5, <2>1
  <2>3. ~(n < n)
    BY <2>1
  <2>4. above(n) \subseteq above(m) /\ n \in above(m) /\ n \notin above(n)
    BY <2>2, <2>3
  <2> DEFINE k == Cardinality(above(n))
             l == Cardinality(above(m))
  <2>5. k <= l /\ k # l
    <3> HIDE DEF above
    <3> QED  BY <2>4, <1>1, FS_Subset
  <2>6. k \in Nat /\ l \in Nat /\ k \in ranks
    BY <1>1
  <2>7. k < l
    BY <2>5, <2>6
  <2>8. <<k, r>> \in OpToRel(<, Nat)
    BY <1>4, <2>6, <2>7 DEF OpToRel
  <2> QED  BY <1>3, <2>6, <2>8
<1> QED  BY <1>5

(* A creation or an edit that waits for another waits for a row it has.    *)
LEMMA WaitForRow ==
    ASSUME TypeOK, NEW x \in Creations \cup Edits, NEW y \in Creations \cup Edits,
           y \in waitsFor(x)
    PROVE  /\ x \in Creations => creations[x].pc = "waiting"
           /\ \E t \in Tenants : lock[t] = y /\ (x \in Edits => t \in edits[x].todo)
<1> USE ConstantsAssumption DEF Transactions
<1>1. y \notin Deletions
  OBVIOUS
<1>2. \A t : y \in holders(t) => lock[t] = y
  BY <1>1 DEF holders
<1>3. CASE x \in Creations
  <2>1. x \notin Edits \cup Moves \cup Removals \cup Deletions
    BY <1>3
  <2>2. creations[x].pc = "waiting" /\ y \in holders(creations[x].tenant)
    BY <1>3, <2>1 DEF waitsFor
  <2>3. creations[x].tenant \in Tenants
    BY <1>3, <2>2 DEF TypeOK, Creation, IdleCreation
  <2> QED  BY <1>2, <2>1, <2>2, <2>3
<1>4. CASE x \in Edits
  <2>1. x \notin Creations \cup Moves \cup Removals \cup Deletions
    BY <1>4
  <2>2. y \notin deleters(edits[x].plan)
    BY <1>1 DEF deleters
  <2>3. \E t \in edits[x].todo : y \in holders(t)
    BY <1>4, <2>1, <2>2 DEF waitsFor, nextRow
  <2>4. edits[x].todo \subseteq Tenants
    BY <1>4 DEF TypeOK, Edit, IdleEdit
  <2> QED  BY <1>2, <2>1, <2>3, <2>4
<1> QED  BY <1>3, <1>4

(* A move and a removal wait for nobody but deletions.                     *)
LEMMA MoversWaitForDeletions ==
    ASSUME NEW x \in Moves \cup Removals
    PROVE  waitsFor(x) \subseteq Deletions
BY ConstantsAssumption, x \notin Creations \cup Edits \cup Deletions
   DEF waitsFor, deleters

(* Whoever has a row another transaction waits for, and waits itself for a *)
(* creation or an edit, is an edit, and waits for a row with a greater id. *)
LEMMA WaitsGoUp ==
    ASSUME IInv, NEW y \in Creations \cup Edits, NEW z \in Creations \cup Edits,
           NEW t \in Tenants, lock[t] = y, z \in waitsFor(y)
    PROVE  \E u \in Tenants : lock[u] = z /\ t < u
<1>1. y \notin Creations
  <2> SUFFICES ASSUME y \in Creations PROVE FALSE
    OBVIOUS
  <2>1. creations[y].pc \in inside
    BY DEF IInv, LocksHeld
  <2> QED  BY <2>1, WaitForRow DEF inside, IInv
<1>2. y \in Edits
  BY <1>1
<1>3. PICK u \in Tenants : lock[u] = z /\ u \in edits[y].todo
  BY <1>2, WaitForRow DEF IInv
<1>4. t < u
  BY <1>2, <1>3 DEF IInv, LocksHeld
<1> QED  BY <1>3, <1>4

(* No set of creations, edits, moves and removals waits for itself, in any *)
(* number and on any networks: where transactions do deadlock, the deletion*)
(* of a plan is one of them.                                               *)
THEOREM WaitsEnd == Spec => []CirclesHaveADeletion
<1>1. IInv => CirclesHaveADeletion
  <2> SUFFICES ASSUME IInv, NEW W \in SUBSET (Creations \cup Edits \cup Moves \cup Removals),
                      W # {}, \A x \in W : waitsFor(x) \cap W # {}
               PROVE  FALSE
    BY DEF CirclesHaveADeletion, closed
  <2>0. W \subseteq Creations \cup Edits
    BY MoversWaitForDeletions, ConstantsAssumption
  <2> DEFINE awaited == {t \in Tenants : \E x, y \in W : y \in waitsFor(x) /\ lock[t] = y}
  <2>1. awaited # {}
    <3>1. PICK x \in W, y \in W : y \in waitsFor(x)
      OBVIOUS
    <3>2. \E t \in Tenants : lock[t] = y
      BY <2>0, <3>1, WaitForRow DEF IInv
    <3> QED  BY <3>1, <3>2
  <2>2. awaited \subseteq Nat /\ IsFiniteSet(awaited)
    BY ConstantsAssumption, FS_Subset
  <2>3. PICK m \in awaited : \A n \in awaited : n <= m
    <3> HIDE DEF awaited
    <3> QED  BY <2>1, <2>2, Greatest
  <2>4. PICK y \in W : lock[m] = y
    BY <2>3
  <2>5. PICK z \in W : z \in waitsFor(y)
    BY <2>4
  <2>6. PICK u \in Tenants : lock[u] = z /\ m < u
    BY <2>0, <2>3, <2>4, <2>5, WaitsGoUp
  <2>7. u \in awaited
    BY <2>4, <2>5, <2>6
  <2>8. m \in Nat /\ u \in Nat
    BY <2>2, <2>3, <2>6, ConstantsAssumption
  <2> QED  BY <2>3, <2>6, <2>7, <2>8
<1> QED  BY <1>1, Invariant, PTL
=============================================================================
