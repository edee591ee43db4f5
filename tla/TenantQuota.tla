----------------------------- MODULE TenantQuota -----------------------------
(***************************************************************************)
(* Licence quotas of a network: the tenants, plans, users and salons       *)
(* tables, the transactions that count under the lock of the tenant row    *)
(* before they insert, and the handlers that move the limits meanwhile.    *)
(*                                                                         *)
(* A row is held from the statement that locks it to the end of its        *)
(* transaction.  Who locks or writes the tenant row waits for whoever has  *)
(* it; a foreign key's lock waits only for SELECT ... FOR UPDATE.  Of the  *)
(* rows of plans only DeletePlan holds one while it waits.  A statement    *)
(* outside a transaction is one action, or two when it waits between the   *)
(* row it writes and the row a foreign key names.                          *)
(***************************************************************************)
EXTENDS Naturals, FiniteSets

CONSTANTS
    Tenants,        \* networks, numbered in the order of their ids
    Plans,
    Salons,         \* salon ids that may be generated
    Creations,      \* CreateEmployee and CreateSalon calls in flight
    Edits,          \* UpdatePlan calls in flight
    SalonEdits,     \* UpdateSalon calls in flight
    Moves,          \* UpdateTenant calls that name a plan, in flight
    Removals,       \* DeleteTenant calls in flight
    Deletions,      \* DeletePlan calls in flight
    None,
    OwnLimit,       \* tenants.max_users of each network, 0 for no limit
    Limits,         \* values of a plan's limits that occur, 0 for no limit
    Offered,        \* plans UpdateTenant may move a network to
    MaxStaff        \* bound of the model on the users of a network

Transactions == Creations \cup Edits \cup Moves \cup Removals \cup Deletions

ASSUME ConstantsAssumption ==
    /\ Tenants \subseteq Nat
    /\ IsFiniteSet(Tenants) /\ IsFiniteSet(Salons)
    /\ None \notin Tenants \cup Plans \cup Transactions
    /\ Creations \cap (Edits \cup Moves \cup Removals \cup Deletions) = {}
    /\ Edits \cap (Moves \cup Removals \cup Deletions) = {}
    /\ Moves \cap (Removals \cup Deletions) = {} /\ Removals \cap Deletions = {}
    /\ OwnLimit \in [Tenants -> Nat]
    /\ Limits \subseteq Nat
    /\ Offered \subseteq Plans
    /\ MaxStaff \in Nat

VARIABLES
    tenants,        \* tenants[t]: the row of network t
    plans,          \* plans[p]: the row of plan p
    staff,          \* staff[t]: committed users of t that are not deleted
    salons,         \* salons[s]: the row with id s
    lock,           \* lock[t]: the transaction that holds the row of t
    contacts,       \* networks whose CreateTenant has yet to add the contact
    creations, edits, salonEdits, moves, removals, deletions
                    \* locals of the calls in flight

vars == <<tenants, plans, staff, salons, lock, contacts,
          creations, edits, salonEdits, moves, removals, deletions>>
tables == <<tenants, plans, staff, salons>>
requests == <<creations, edits, salonEdits, moves, removals, deletions>>
calls == <<contacts, requests>>
quotaCalls == <<contacts, creations, edits, salonEdits>>
rest == <<contacts, salonEdits, moves, removals, deletions>>

-----------------------------------------------------------------------------
TenantRow == [st : {"none", "active", "churned"}, plan : Plans \cup {None}]
PlanRow == [st : {"none", "live", "deleted"}, maxUsers : Nat, maxSalons : Nat]
SalonRow == [st : {"none", "live", "deleted"}, tenant : Tenants \cup {None}]

NoTenant == [st |-> "none", plan |-> None]
NoPlan == [st |-> "none", maxUsers |-> 0, maxSalons |-> 0]
NoSalon == [st |-> "none", tenant |-> None]
IdleCreation == [pc |-> "idle", kind |-> "user", tenant |-> None, limit |-> 0]
IdleEdit == [pc |-> "idle", plan |-> None, todo |-> {}, row |-> NoPlan]
IdleMove == [tenant |-> None, plan |-> None]
IdleRemoval == [pc |-> "idle", tenant |-> None, row |-> NoTenant]
IdleDeletion == [plan |-> None, todo |-> {}, at |-> None, passed |-> {}]

Creation == {IdleCreation} \cup
            [pc : {"waiting", "locked", "limited", "checked"},
             kind : {"user", "salon"}, tenant : Tenants, limit : Nat]
Edit == {IdleEdit} \cup
        [pc : {"locking", "read"}, plan : Plans, todo : SUBSET Tenants, row : PlanRow]
Removal == {IdleRemoval} \cup
           [pc : {"read", "counted", "saving"}, tenant : Tenants, row : TenantRow]
Move == {IdleMove} \cup [tenant : Tenants, plan : Plans]
Deletion == [plan : Plans \cup {None}, todo : SUBSET Tenants,
             at : Tenants \cup {None}, passed : SUBSET Tenants]

TypeOK ==
    /\ tenants \in [Tenants -> TenantRow]
    /\ plans \in [Plans -> PlanRow]
    /\ staff \in [Tenants -> Nat]
    /\ salons \in [Salons -> SalonRow]
    /\ lock \in [Tenants -> Creations \cup Edits \cup Moves \cup Removals \cup {None}]
    /\ contacts \subseteq Tenants
    /\ creations \in [Creations -> Creation]
    /\ edits \in [Edits -> Edit]
    /\ salonEdits \in [SalonEdits -> Salons \cup {None}]
    /\ moves \in [Moves -> Move]
    /\ removals \in [Removals -> Removal]
    /\ deletions \in [Deletions -> Deletion]

Init ==
    /\ tenants = [t \in Tenants |-> NoTenant]
    /\ plans = [p \in Plans |-> NoPlan]
    /\ staff = [t \in Tenants |-> 0]
    /\ salons = [s \in Salons |-> NoSalon]
    /\ lock = [t \in Tenants |-> None]
    /\ contacts = {}
    /\ creations = [c \in Creations |-> IdleCreation]
    /\ edits = [e \in Edits |-> IdleEdit]
    /\ salonEdits = [d \in SalonEdits |-> None]
    /\ moves = [m \in Moves |-> IdleMove]
    /\ removals = [r \in Removals |-> IdleRemoval]
    /\ deletions = [d \in Deletions |-> IdleDeletion]

exists(t) == tenants[t].st # "none"

(* FOR UPDATE waits for every lock of the row, the foreign key's included, *)
(* an UPDATE for all but the foreign key's, and that one for FOR UPDATE.   *)
free(t) == lock[t] = None /\ \A d \in Deletions : t \notin deletions[d].passed
writable(t) == lock[t] = None
forUpdate(t) == lock[t] \in Creations \cup Edits
deleting(p) == p \in Plans /\ \E d \in Deletions : deletions[d].plan = p

release(holder) == lock' = [t \in Tenants |-> IF lock[t] = holder THEN None ELSE lock[t]]

userLimit(t) ==
    LET own == OwnLimit[t]
        p == tenants[t].plan
    IN  IF p # None /\ plans[p].maxUsers > 0 /\ (own = 0 \/ plans[p].maxUsers < own)
        THEN plans[p].maxUsers ELSE own

salonLimit(t) == IF tenants[t].plan = None THEN 0 ELSE plans[tenants[t].plan].maxSalons

limitOf(kind, t) == IF kind = "user" THEN userLimit(t) ELSE salonLimit(t)

salonsOf(t) == {s \in Salons : salons[s].st = "live" /\ salons[s].tenant = t}

used(kind, t) == IF kind = "user" THEN staff[t] ELSE Cardinality(salonsOf(t))

-----------------------------------------------------------------------------
(* CreateEmployee and CreateSalon: enforceUserQuota or enforceSalonQuota,  *)
(* then the INSERT, in one transaction.                                    *)
BeginCreation(c, kind, t) ==
    /\ creations[c].pc = "idle"
    /\ exists(t)
    /\ staff[t] < MaxStaff
    /\ creations' = [creations EXCEPT ![c] =
           [pc |-> "waiting", kind |-> kind, tenant |-> t, limit |-> 0]]
    /\ UNCHANGED <<tables, lock, edits, rest>>

(* Mutant: the tenant row is read without FOR UPDATE. *)
ReadTenantUnlocked(c) ==
    /\ creations[c].pc = "waiting"
    /\ free(creations[c].tenant)
    /\ creations' = [creations EXCEPT ![c].pc = "locked"]
    /\ UNCHANGED <<tables, lock, edits, rest>>

LockTenant(c) ==
    /\ creations[c].pc = "waiting"
    /\ free(creations[c].tenant)
    /\ lock' = [lock EXCEPT ![creations[c].tenant] = c]
    /\ creations' = [creations EXCEPT ![c].pc = "locked"]
    /\ UNCHANGED <<tables, edits, rest>>

ReadLimit(c) ==
    /\ creations[c].pc = "locked"
    /\ creations' = [creations EXCEPT ![c].pc = "limited",
                         ![c].limit = limitOf(creations[c].kind, creations[c].tenant)]
    /\ UNCHANGED <<tables, lock, edits, rest>>

CheckQuota(c) ==
    /\ creations[c].pc = "limited"
    /\ \/ creations[c].limit = 0
       \/ used(creations[c].kind, creations[c].tenant) < creations[c].limit
    /\ creations' = [creations EXCEPT ![c].pc = "checked"]
    /\ UNCHANGED <<tables, lock, edits, rest>>

InsertUser(c) ==
    /\ creations[c].pc = "checked" /\ creations[c].kind = "user"
    /\ staff' = [staff EXCEPT ![creations[c].tenant] = @ + 1]
    /\ release(c)
    /\ creations' = [creations EXCEPT ![c] = IdleCreation]
    /\ UNCHANGED <<tenants, plans, salons, edits, rest>>

InsertSalon(c, s) ==
    /\ creations[c].pc = "checked" /\ creations[c].kind = "salon"
    /\ salons[s].st = "none"
    /\ salons' = [salons EXCEPT ![s] = [st |-> "live", tenant |-> creations[c].tenant]]
    /\ release(c)
    /\ creations' = [creations EXCEPT ![c] = IdleCreation]
    /\ UNCHANGED <<tenants, plans, staff, edits, rest>>

(* The quota is exhausted, the plan is missing, or a statement fails.      *)
RollBack(c) ==
    /\ creations[c].pc \in {"locked", "limited", "checked"}
    /\ release(c)
    /\ creations' = [creations EXCEPT ![c] = IdleCreation]
    /\ UNCHANGED <<tables, edits, rest>>

CreationStep(c) ==
    \/ LockTenant(c)
    \/ ReadLimit(c)
    \/ CheckQuota(c)
    \/ InsertUser(c)
    \/ \E s \in Salons : InsertSalon(c, s)
    \/ RollBack(c)

-----------------------------------------------------------------------------
(* UpdatePlan of the two services: lockTenantsUsingPlan, read, save.       *)
usersOf(p) == {t \in Tenants : tenants[t].plan = p}

BeginEdit(e, p) ==
    /\ edits[e].pc = "idle"
    /\ edits' = [edits EXCEPT ![e] =
           [pc |-> "locking", plan |-> p, todo |-> usersOf(p), row |-> NoPlan]]
    /\ UNCHANGED <<tables, lock, creations, rest>>

lockRow(e, t) ==
    /\ edits[e].pc = "locking"
    /\ free(t)
    /\ edits' = [edits EXCEPT ![e].todo = @ \ {t}]
    /\ lock' = [lock EXCEPT ![t] = e]
    /\ UNCHANGED <<tables, creations, rest>>

(* Mutant: no ORDER BY. *)
LockNextUnordered(e) == \E t \in edits[e].todo : lockRow(e, t)

(* ORDER BY id: the rows are locked from the least id on.  A row that has  *)
(* left the plan by the time it could be locked is locked all the same.    *)
nextRow(e) == {t \in edits[e].todo : \A other \in edits[e].todo : t <= other}

LockNext(e) == \E t \in nextRow(e) : lockRow(e, t)

ReadPlan(e) ==
    /\ edits[e].pc = "locking" /\ edits[e].todo = {}
    /\ plans[edits[e].plan].st = "live"
    /\ edits' = [edits EXCEPT ![e].pc = "read", ![e].row = plans[edits[e].plan]]
    /\ UNCHANGED <<tables, lock, creations, rest>>

endEdit(e) ==
    /\ release(e)
    /\ edits' = [edits EXCEPT ![e] = IdleEdit]
    /\ UNCHANGED <<tenants, staff, salons, creations, rest>>

(* AdminService.UpdatePlan saves the whole row it has read; Save inserts   *)
(* the row again when there is none left to update.  It waits for a        *)
(* deletion of the plan to end, as the next action does.                   *)
SavePlan(e, maxUsers) ==
    /\ edits[e].pc = "read" /\ ~deleting(edits[e].plan)
    /\ plans' = [plans EXCEPT ![edits[e].plan] = [edits[e].row EXCEPT !.maxUsers = maxUsers]]
    /\ endEdit(e)

(* planService.UpdatePlan writes both limits, each the new value or the    *)
(* one it has read, and nothing when the row is gone.                      *)
PatchPlan(e, maxUsers, maxSalons) ==
    /\ edits[e].pc = "read" /\ ~deleting(edits[e].plan)
    /\ maxUsers \in Limits \cup {edits[e].row.maxUsers}
    /\ maxSalons \in Limits \cup {edits[e].row.maxSalons}
    /\ plans' = [plans EXCEPT ![edits[e].plan] =
           IF @.st = "live"
           THEN [@ EXCEPT !.maxUsers = maxUsers, !.maxSalons = maxSalons] ELSE @]
    /\ endEdit(e)

(* Mutant: the transaction is left open when the plan is missing. *)
EditMissesPlan(e) ==
    /\ edits[e].pc = "read" /\ ~deleting(edits[e].plan)
    /\ UNCHANGED plans
    /\ endEdit(e)

(* The plan is gone, the price is out of range, or a statement fails.      *)
EditFails(e) ==
    /\ edits[e].pc # "idle" /\ edits[e].todo = {}
    /\ edits[e].pc = "read" => ~deleting(edits[e].plan)
    /\ UNCHANGED plans
    /\ endEdit(e)

(* planService.UpdatePlan runs under the context of its request: when the  *)
(* client goes away the transaction ends even while it waits for a row.    *)
CancelEdit(e) ==
    /\ edits[e].pc # "idle"
    /\ UNCHANGED plans
    /\ endEdit(e)

EditProgress(e) ==
    \/ LockNext(e)
    \/ ReadPlan(e)
    \/ \E n \in Limits : SavePlan(e, n)
    \/ \E m, n \in Limits : PatchPlan(e, m, n)
    \/ EditFails(e)

EditStep(e) == EditProgress(e) \/ CancelEdit(e)

CreatePlan(p, maxUsers, maxSalons) ==
    /\ plans[p].st = "none"
    /\ plans' = [plans EXCEPT ![p] =
           [st |-> "live", maxUsers |-> maxUsers, maxSalons |-> maxSalons]]
    /\ UNCHANGED <<tenants, staff, salons, lock, calls>>

(* DeletePlan has the row of the plan until it ends. The foreign key of    *)
(* tenants.plan_id then goes over the networks on it, in any order, and    *)
(* waits for those that are locked. One that is still on the plan refuses  *)
(* the deletion; one that has left meanwhile is passed, and stays locked.  *)
BeginDeletion(d, p) ==
    /\ deletions[d] = IdleDeletion
    /\ plans[p].st = "live" /\ ~deleting(p)
    /\ deletions' = [deletions EXCEPT ![d].plan = p, ![d].todo = usersOf(p)]
    /\ UNCHANGED <<tables, lock, quotaCalls, moves, removals>>

MeetTenant(d) ==
    /\ deletions[d].at = None
    /\ \E t \in deletions[d].todo :
           deletions' = [deletions EXCEPT ![d].at = t, ![d].todo = @ \ {t}]
    /\ UNCHANGED <<tables, lock, quotaCalls, moves, removals>>

PassTenant(d) ==
    LET t == deletions[d].at IN
    /\ t # None /\ ~forUpdate(t)
    /\ tenants[t].plan # deletions[d].plan
    /\ deletions' = [deletions EXCEPT ![d].at = None, ![d].passed = @ \cup {t}]
    /\ UNCHANGED <<tables, lock, quotaCalls, moves, removals>>

endDeletion(d) ==
    /\ deletions' = [deletions EXCEPT ![d] = IdleDeletion]
    /\ UNCHANGED <<tenants, staff, salons, lock, quotaCalls, moves, removals>>

DeletePlan(d) ==
    /\ deletions[d].plan # None /\ deletions[d].at = None /\ deletions[d].todo = {}
    /\ plans' = [plans EXCEPT ![deletions[d].plan].st = "deleted"]
    /\ endDeletion(d)

RefuseDeletion(d) ==
    LET t == deletions[d].at IN
    /\ t # None /\ ~forUpdate(t)
    /\ tenants[t].plan = deletions[d].plan
    /\ UNCHANGED plans
    /\ endDeletion(d)

(* As CancelEdit: planService.DeletePlan runs under its request's context. *)
CancelDeletion(d) ==
    /\ deletions[d].plan # None
    /\ UNCHANGED plans
    /\ endDeletion(d)

DeletionProgress(d) == MeetTenant(d) \/ PassTenant(d) \/ DeletePlan(d) \/ RefuseDeletion(d)

-----------------------------------------------------------------------------
(* Networks.                                                               *)
onPlan(p) == p = None \/ (p \in Plans /\ plans[p].st = "live" /\ ~deleting(p))

(* CreateTenant commits the network and then adds its contact, if it has   *)
(* one, with a statement whose error is ignored and that asks no quota.    *)
CreateTenant(t, p, contact) ==
    /\ tenants[t].st = "none"
    /\ onPlan(p)
    /\ tenants' = [tenants EXCEPT ![t] = [st |-> "active", plan |-> p]]
    /\ contacts' = IF contact THEN contacts \cup {t} ELSE contacts
    /\ UNCHANGED <<plans, staff, salons, lock, requests>>

AddContact(t) ==
    /\ t \in contacts
    /\ ~forUpdate(t)
    /\ contacts' = contacts \ {t}
    /\ staff' = [staff EXCEPT ![t] = @ + 1]
    /\ UNCHANGED <<tenants, plans, salons, lock, requests>>

ContactFails(t) ==
    /\ t \in contacts
    /\ contacts' = contacts \ {t}
    /\ UNCHANGED <<tables, lock, requests>>

(* Registration inserts the network and its owner in one transaction.      *)
CreateUserWithTenant(t) ==
    /\ tenants[t].st = "none"
    /\ tenants' = [tenants EXCEPT ![t].st = "active"]
    /\ staff' = [staff EXCEPT ![t] = 1]
    /\ UNCHANGED <<plans, salons, lock, calls>>

(* UpdateTenant is one UPDATE. It has the row of the network before the    *)
(* foreign key of a plan that is new to it locks the row of that plan, and *)
(* this waits for a deletion to end.                                       *)
joins(t, p) == tenants[t].plan = p \/ onPlan(p)
awaits(t, p) == tenants[t].plan # p /\ deleting(p)

UpdateTenant(m, t, p) ==
    /\ moves[m] = IdleMove
    /\ exists(t) /\ writable(t)
    /\ lock' = [lock EXCEPT ![t] = m]
    /\ moves' = [moves EXCEPT ![m] = [tenant |-> t, plan |-> p]]
    /\ UNCHANGED <<tables, quotaCalls, removals, deletions>>

endMove(m) ==
    /\ release(m)
    /\ moves' = [moves EXCEPT ![m] = IdleMove]
    /\ UNCHANGED <<plans, staff, salons, quotaCalls, removals, deletions>>

JoinPlan(m) ==
    /\ moves[m] # IdleMove
    /\ joins(moves[m].tenant, moves[m].plan)
    /\ tenants' = [tenants EXCEPT ![moves[m].tenant].plan = moves[m].plan]
    /\ endMove(m)

(* There is no such plan, or the statement fails.                          *)
MoveFails(m) ==
    /\ moves[m] # IdleMove
    /\ ~awaits(moves[m].tenant, moves[m].plan)
    /\ UNCHANGED tenants
    /\ endMove(m)

MoveStep(m) == JoinPlan(m) \/ MoveFails(m)

(* DeleteTenant reads the row, counts the users, saves the row it read,    *)
(* which is an UPDATE of all its columns, the plan among them.             *)
FindTenant(r, t) ==
    /\ removals[r].pc = "idle"
    /\ exists(t)
    /\ removals' = [removals EXCEPT ![r] =
           [pc |-> "read", tenant |-> t, row |-> tenants[t]]]
    /\ UNCHANGED <<tables, lock, quotaCalls, moves, deletions>>

CountUsers(r) ==
    /\ removals[r].pc = "read"
    /\ staff[removals[r].tenant] = 0
    /\ removals' = [removals EXCEPT ![r].pc = "counted"]
    /\ UNCHANGED <<tables, lock, quotaCalls, moves, deletions>>

BeginSave(r) ==
    /\ removals[r].pc = "counted"
    /\ writable(removals[r].tenant)
    /\ lock' = [lock EXCEPT ![removals[r].tenant] = r]
    /\ removals' = [removals EXCEPT ![r].pc = "saving"]
    /\ UNCHANGED <<tables, quotaCalls, moves, deletions>>

endRemoval(r) ==
    /\ release(r)
    /\ removals' = [removals EXCEPT ![r] = IdleRemoval]
    /\ UNCHANGED <<plans, staff, salons, quotaCalls, moves, deletions>>

SaveChurned(r) ==
    /\ removals[r].pc = "saving"
    /\ joins(removals[r].tenant, removals[r].row.plan)
    /\ tenants' = [tenants EXCEPT ![removals[r].tenant] =
           [removals[r].row EXCEPT !.st = "churned"]]
    /\ endRemoval(r)

(* The network still has users, its plan is gone, or a statement fails.    *)
RemovalFails(r) ==
    /\ removals[r].pc # "idle"
    /\ removals[r].pc = "saving" => ~awaits(removals[r].tenant, removals[r].row.plan)
    /\ UNCHANGED tenants
    /\ endRemoval(r)

-----------------------------------------------------------------------------
(* Mutant: an employee who is already deleted leaves the count again.      *)
DeleteAnyEmployee(t) ==
    /\ staff' = [staff EXCEPT ![t] = @ - 1]
    /\ UNCHANGED <<tenants, plans, salons, lock, calls>>

(* A soft delete: the row leaves the count, nobody waits for a lock.       *)
DeleteEmployee(t) ==
    /\ staff[t] > 0
    /\ staff' = [staff EXCEPT ![t] = @ - 1]
    /\ UNCHANGED <<tenants, plans, salons, lock, calls>>

DeleteSalon(s) ==
    /\ salons[s].st = "live"
    /\ salons' = [salons EXCEPT ![s].st = "deleted"]
    /\ UNCHANGED <<tenants, plans, staff, lock, calls>>

(* UpdateSalon reads the row and saves it whole.  Save turns into an       *)
(* INSERT when the row was deleted in between.                             *)
GetSalon(d, s) ==
    /\ salonEdits[d] = None
    /\ salons[s].st = "live"
    /\ salonEdits' = [salonEdits EXCEPT ![d] = s]
    /\ UNCHANGED <<tables, lock, contacts, creations, edits, moves, removals, deletions>>

SaveSalon(d) ==
    LET s == salonEdits[d] IN
    /\ s # None
    /\ salons[s].st = "live" \/ ~forUpdate(salons[s].tenant)
    /\ salons' = [salons EXCEPT ![s].st = "live"]
    /\ salonEdits' = [salonEdits EXCEPT ![d] = None]
    /\ UNCHANGED <<tenants, plans, staff, lock, contacts, creations, edits>>
    /\ UNCHANGED <<moves, removals, deletions>>

SalonEditFails(d) ==
    /\ salonEdits[d] # None
    /\ salonEdits' = [salonEdits EXCEPT ![d] = None]
    /\ UNCHANGED <<tables, lock, contacts, creations, edits, moves, removals, deletions>>

TenantStep(t) ==
    \/ \E p \in Plans \cup {None}, contact \in BOOLEAN : CreateTenant(t, p, contact)
    \/ AddContact(t)
    \/ ContactFails(t)
    \/ CreateUserWithTenant(t)
    \/ DeleteEmployee(t)

PlanStep(p) == \E m, n \in Limits : CreatePlan(p, m, n)

RemovalProgress(r) == BeginSave(r) \/ SaveChurned(r) \/ RemovalFails(r)

RemovalStep(r) == CountUsers(r) \/ RemovalProgress(r)

SalonEditStep(d) ==
    \/ \E s \in Salons : GetSalon(d, s)
    \/ SaveSalon(d)
    \/ SalonEditFails(d)

-----------------------------------------------------------------------------
(* Who waits for whom: those who have the row of a network or of a plan    *)
(* that a transaction is about to lock or to write.                        *)
holders(t) == ({lock[t]} \ {None}) \cup {d \in Deletions : t \in deletions[d].passed}
deleters(p) == {d \in Deletions : deletions[d].plan = p}

waitsFor(x) ==
    CASE x \in Creations /\ creations[x].pc = "waiting" -> holders(creations[x].tenant)
      [] x \in Edits /\ edits[x].pc = "locking" ->
             UNION {holders(t) : t \in nextRow(x)}
      [] x \in Edits /\ edits[x].pc = "read" -> deleters(edits[x].plan)
      [] x \in Moves /\ moves[x] # IdleMove ->
             IF awaits(moves[x].tenant, moves[x].plan) THEN deleters(moves[x].plan) ELSE {}
      [] x \in Removals /\ removals[x].pc = "saving" ->
             IF awaits(removals[x].tenant, removals[x].row.plan)
             THEN deleters(removals[x].row.plan) ELSE {}
      [] x \in Deletions /\ deletions[x].at # None ->
             IF forUpdate(deletions[x].at) THEN {lock[deletions[x].at]} ELSE {}
      [] OTHER -> {}

(* A circle: each waits for one of it, and of no fewer could this be said. *)
closed(W) == W # {} /\ \A x \in W : waitsFor(x) \cap W # {}
circle(W) == closed(W) /\ \A V \in SUBSET W : closed(V) => V = W

(* PostgreSQL aborts one of a circle, whichever looks first. A creation is *)
(* in none: while it waits it has no row.                                  *)
Abort(x) ==
    \/ x \in Edits /\ UNCHANGED plans /\ endEdit(x)
    \/ x \in Moves /\ UNCHANGED tenants /\ endMove(x)
    \/ x \in Removals /\ UNCHANGED tenants /\ endRemoval(x)
    \/ x \in Deletions /\ UNCHANGED plans /\ endDeletion(x)

waiting == {x \in Transactions : waitsFor(x) # {}}

BreakCircle == \E W \in SUBSET waiting : circle(W) /\ \E x \in W : Abort(x)

Next ==
    \/ \E c \in Creations : CreationStep(c)
    \/ \E c \in Creations, kind \in {"user", "salon"}, t \in Tenants :
           BeginCreation(c, kind, t)
    \/ \E e \in Edits : EditStep(e)
    \/ \E e \in Edits, p \in Plans : BeginEdit(e, p)
    \/ \E t \in Tenants : TenantStep(t)
    \/ \E p \in Plans : PlanStep(p)
    \/ \E m \in Moves : MoveStep(m)
    \/ \E m \in Moves, t \in Tenants, p \in Offered : UpdateTenant(m, t, p)
    \/ \E r \in Removals : RemovalStep(r)
    \/ \E r \in Removals, t \in Tenants : FindTenant(r, t)
    \/ \E d \in Deletions : DeletionProgress(d) \/ CancelDeletion(d)
    \/ \E d \in Deletions, p \in Plans : BeginDeletion(d, p)
    \/ BreakCircle
    \/ \E d \in SalonEdits : SalonEditStep(d)
    \/ \E s \in Salons : DeleteSalon(s)

Spec == Init /\ [][Next]_vars

(* Every transaction that runs goes on, PostgreSQL queues those that wait  *)
(* for a row, so that nobody is passed over for ever, and it looks for     *)
(* circles.  No client is obliged to go away.                              *)
Fairness ==
    /\ \A c \in Creations : SF_vars(CreationStep(c))
    /\ \A e \in Edits : SF_vars(EditProgress(e))
    /\ \A m \in Moves : SF_vars(MoveStep(m))
    /\ \A r \in Removals : SF_vars(RemovalProgress(r))
    /\ \A d \in Deletions : SF_vars(DeletionProgress(d))
    /\ WF_vars(BreakCircle)

FairSpec == Spec /\ Fairness

-----------------------------------------------------------------------------
(* What a transaction has counted stays true until it inserts: however     *)
(* many creations, edits and deletions run beside it, the row it adds does *)
(* not exceed the limit it has read.                                       *)
CheckedQuotaStillHolds ==
    \A c \in Creations :
        creations[c].pc = "checked" /\ creations[c].limit > 0 =>
            used(creations[c].kind, creations[c].tenant) < creations[c].limit

(* The limit it has read is still the limit of the network: no edit of the *)
(* plan gets between the check and the insert.                             *)
CheckedLimitIsInForce ==
    \A c \in Creations :
        creations[c].pc \in {"limited", "checked"} =>
            creations[c].limit = limitOf(creations[c].kind, creations[c].tenant)

(* No network has more salons than its plan allows.  For instances where   *)
(* no plan is edited and no network moves to another plan.                 *)
SalonQuotaHolds ==
    \A t \in Tenants :
        salonLimit(t) > 0 => Cardinality(salonsOf(t)) <= salonLimit(t)

(* DeleteTenant turns only networks without users into churned ones.       *)
DeletesOnlyEmptyTenants ==
    [][\A t \in Tenants :
           tenants[t].st # "churned" /\ tenants'[t].st = "churned" => staff[t] = 0]_vars

(* No transactions wait for each other in a circle, unless the deletion of *)
(* a plan is one of them: creations have one row, edits take theirs in the *)
(* order of the ids, and moves and removals wait with a row only for a     *)
(* deletion, so of any set of these one waits for none of them.            *)
CirclesHaveADeletion ==
    \A W \in SUBSET (Creations \cup Edits \cup Moves \cup Removals) : ~closed(W)

(* Whatever happens to the plans and to the networks meanwhile, a creation *)
(* of a row, an edit of a plan and its deletion, a move to a plan and the  *)
(* save of a removed network come to their end and free their rows.        *)
EveryTransactionEnds ==
    /\ \A c \in Creations : []<>(creations[c].pc = "idle")
    /\ \A e \in Edits : []<>(edits[e].pc = "idle")
    /\ \A m \in Moves : []<>(moves[m] = IdleMove)
    /\ \A r \in Removals : []<>(removals[r].pc # "saving")
    /\ \A d \in Deletions : []<>(deletions[d] = IdleDeletion)
=============================================================================
