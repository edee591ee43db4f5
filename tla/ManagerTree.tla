----------------------------- MODULE ManagerTree -----------------------------
(***************************************************************************)
(* The hierarchy of a network: users.managed_by, and the handlers that     *)
(* walk up it to decide who may edit whom and whether a new manager would  *)
(* close a circle.  UpdateEmployee and DeleteEmployee use no transaction:  *)
(* every row they read is an action, and so is their final write.          *)
(***************************************************************************)
EXTENDS Naturals, FiniteSets

CONSTANTS
    Users,          \* accounts that may be created
    TenantOf,       \* the network of each account, None for a super_admin
    CreatedAs,      \* the role each account is created with
    Edits,          \* UpdateEmployee and DeleteEmployee calls in flight
    NewRoles,       \* roles that updates ask for
    WalkBound,      \* rows a walk reads at most, 16
    None

Roles == {"super_admin", "franchiser", "franchiser_manager", "dealer", "salon_manager"}

ASSUME ConstantsAssumption ==
    /\ None \notin Users \cup Roles
    /\ IsFiniteSet(Users)
    /\ CreatedAs \in [Users -> Roles]
    /\ \A u \in Users : TenantOf[u] = None <=> CreatedAs[u] = "super_admin"
    /\ NewRoles \subseteq Roles
    /\ WalkBound \in Nat

VARIABLES
    users,          \* users[u]: the row of u
    edits,          \* edits[e]: locals of a call in flight
    raced           \* history: a link was written after a walk that another
                    \* link has overtaken

vars == <<users, edits, raced>>

-----------------------------------------------------------------------------
(* In an edit, up is managed_by of the last row read and seen the rows the *)
(* walk has passed; dirty is history: another link was written since the   *)
(* walk from the new manager began.  What is not used any more is cleared. *)
UserRow == [st : {"none", "live", "deleted"}, role : Roles, mgr : Users \cup {None}]
IdleEdit == [pc |-> "idle", kind |-> "update", caller |-> None, target |-> None,
             role |-> None, mgr |-> None, up |-> None, seen |-> {}, dirty |-> FALSE]
Edit == {IdleEdit} \cup
        [pc : {"authorize", "manager", "target", "climb", "write"},
         kind : {"update", "delete"}, caller : Users \cup {None}, target : Users,
         role : NewRoles \cup {None}, mgr : Users \cup {None},
         up : Users \cup {None}, seen : SUBSET Users, dirty : BOOLEAN]

TypeOK ==
    /\ users \in [Users -> UserRow]
    /\ edits \in [Edits -> Edit]
    /\ raced \in BOOLEAN

(* Of the users the seed creates, the super_admins.                        *)
Init ==
    /\ users = [u \in Users |->
           [st |-> IF CreatedAs[u] = "super_admin" THEN "live" ELSE "none",
            role |-> CreatedAs[u], mgr |-> None]]
    /\ edits = [e \in Edits |-> IdleEdit]
    /\ raced = FALSE

live(u) == u \in Users /\ users[u].st = "live"

(* allowedByCreator and allowedManage: the roles a role may create, assign *)
(* and delete.                                                             *)
allowedManage(role) ==
    CASE role = "super_admin"        -> Roles \ {"super_admin"}
      [] role = "franchiser"         -> {"franchiser_manager", "dealer"}
      [] role = "franchiser_manager" -> {"dealer"}
      [] role = "dealer"             -> {"salon_manager"}
      [] OTHER                       -> {}

hrRoles == Roles \ {"salon_manager"}

isSuper(u) == users[u].role = "super_admin"

-----------------------------------------------------------------------------
(* Registration, or the contact of CreateTenant, makes a network's owner,  *)
(* managed by nobody.                                                      *)
Register(u) ==
    /\ users[u].st = "none"
    /\ CreatedAs[u] = "franchiser"
    /\ users' = [users EXCEPT ![u].st = "live"]
    /\ UNCHANGED <<edits, raced>>

(* Without managed_by in the request the creator becomes the manager.  The *)
(* manager is read before the insert, but a row that is deleted in between *)
(* leaves what a deletion right after the insert leaves.                   *)
CreateEmployee(u, creator, m) ==
    /\ users[u].st = "none"
    /\ live(creator) /\ users[creator].role \in hrRoles
    /\ CreatedAs[u] \in allowedManage(users[creator].role)
    /\ isSuper(creator) \/ TenantOf[u] = TenantOf[creator]
    /\ m = creator \/ (live(m) /\ TenantOf[m] = TenantOf[u])
    /\ users' = [users EXCEPT ![u].st = "live", ![u].mgr = m]
    /\ UNCHANGED <<edits, raced>>

-----------------------------------------------------------------------------
(* What comes after the check of the caller: the new manager, if there is  *)
(* one, is validated.                                                      *)
goOn(edit) == [edit EXCEPT !.pc = IF edit.mgr = None THEN "write" ELSE "manager",
                           !.caller = None, !.up = None, !.seen = {}]

found(caller, target) ==
    /\ live(caller) /\ users[caller].role \in hrRoles
    /\ live(target)
    /\ isSuper(caller) \/ (TenantOf[target] = TenantOf[caller] /\ ~isSuper(target))

begin(e, kind, caller, target, role, mgr) ==
    /\ edits[e].pc = "idle"
    /\ found(caller, target)
    /\ LET edit == [pc |-> "authorize", kind |-> kind, caller |-> caller,
                    target |-> target, role |-> role, mgr |-> mgr,
                    up |-> users[target].mgr, seen |-> {}, dirty |-> FALSE]
       IN  edits' = [edits EXCEPT ![e] =
               IF isSuper(caller) \/ caller = target THEN goOn(edit) ELSE edit]
    /\ UNCHANGED <<users, raced>>

(* Nobody changes or deletes himself through HR.                           *)
BeginUpdate(e, caller, target, role, mgr) ==
    /\ role # None \/ mgr # None
    /\ role # None => /\ caller # target
                      /\ role \in allowedManage(users[caller].role) \ {"franchiser"}
    /\ mgr # target
    /\ begin(e, "update", caller, target, role, mgr)

BeginDelete(e, caller, target) ==
    /\ caller # target
    /\ users[target].role \in allowedManage(users[caller].role)
    /\ begin(e, "delete", caller, target, None, None)

(* The loop of canManage and of isDescendantOf.                            *)
goal(e) == IF edits[e].pc = "authorize" THEN edits[e].caller ELSE edits[e].target

(* Mutant: a walk stops one row too early. *)
exhaustedEarly(e) == edits[e].up = None \/ Cardinality(edits[e].seen) + 1 >= WalkBound

exhausted(e) == edits[e].up = None \/ Cardinality(edits[e].seen) >= WalkBound

arrived(e) == ~exhausted(e) /\ edits[e].up = goal(e)

(* Mutant: neither the rows passed are remembered nor the steps counted. *)
stuckAtRoot(e) ==
    \/ edits[e].up = None
    \/ edits[e].up # goal(e) /\ ~live(edits[e].up)

stuck(e) ==
    \/ exhausted(e)
    \/ edits[e].up # goal(e) /\ (edits[e].up \in edits[e].seen \/ ~live(edits[e].up))

WalkUp(e) ==
    LET parent == edits[e].up IN
    /\ edits[e].pc \in {"authorize", "climb"}
    /\ ~arrived(e) /\ ~stuck(e)
    /\ edits' = [edits EXCEPT ![e].up = users[parent].mgr, ![e].seen = @ \cup {parent}]
    /\ UNCHANGED <<users, raced>>

Authorized(e) ==
    /\ edits[e].pc = "authorize" /\ arrived(e)
    /\ edits' = [edits EXCEPT ![e] = goOn(edits[e])]
    /\ UNCHANGED <<users, raced>>

(* validateManagedBy reads the new manager and then the target.            *)
ReadManager(e) ==
    LET m == edits[e].mgr IN
    /\ edits[e].pc = "manager"
    /\ live(m)
    /\ edits' = [edits EXCEPT ![e].pc = "target", ![e].up = users[m].mgr]
    /\ UNCHANGED <<users, raced>>

ReadTarget(e) ==
    /\ edits[e].pc = "target"
    /\ live(edits[e].target)
    /\ TenantOf[edits[e].mgr] = TenantOf[edits[e].target]
    /\ edits' = [edits EXCEPT ![e].pc = "climb"]
    /\ UNCHANGED <<users, raced>>

NoDescendant(e) ==
    /\ edits[e].pc = "climb" /\ stuck(e)
    /\ edits' = [edits EXCEPT ![e].pc = "write", ![e].up = None, ![e].seen = {}]
    /\ UNCHANGED <<users, raced>>

(* A check fails: not in the hierarchy, gone, another network, or below.   *)
Denied(e) ==
    /\ \/ edits[e].pc = "authorize" /\ stuck(e)
       \/ edits[e].pc = "manager" /\ ~live(edits[e].mgr)
       \/ /\ edits[e].pc = "target"
          /\ ~live(edits[e].target) \/ TenantOf[edits[e].mgr] # TenantOf[edits[e].target]
       \/ edits[e].pc = "climb" /\ arrived(e)
    /\ edits' = [edits EXCEPT ![e] = IdleEdit]
    /\ UNCHANGED <<users, raced>>

chosen(asked, old) == IF asked = None THEN old ELSE asked

overtaken(edit) ==
    [edit EXCEPT !.dirty = \/ @
                           \/ edit.pc \in {"target", "climb"}
                           \/ edit.pc = "write" /\ edit.mgr # None]

(* UpdateUserFields and DeleteUser write no row that is deleted.           *)
UpdateUserFields(e) ==
    LET t == edits[e].target
        moves == live(t) /\ edits[e].mgr # None
    IN  /\ edits[e].pc = "write" /\ edits[e].kind = "update"
        /\ users' = IF live(t)
               THEN [users EXCEPT ![t].role = chosen(edits[e].role, @),
                                  ![t].mgr = chosen(edits[e].mgr, @)]
               ELSE users
        /\ raced' = (raced \/ (moves /\ edits[e].dirty))
        /\ edits' = [f \in Edits |->
               IF f = e THEN IdleEdit
               ELSE IF moves THEN overtaken(edits[f]) ELSE edits[f]]

DeleteUser(e) ==
    /\ edits[e].pc = "write" /\ edits[e].kind = "delete"
    /\ users' = [users EXCEPT ![edits[e].target].st = "deleted"]
    /\ edits' = [edits EXCEPT ![e] = IdleEdit]
    /\ UNCHANGED raced

(* A statement fails, or the process dies.                                 *)
EditFails(e) ==
    /\ edits[e].pc # "idle"
    /\ edits' = [edits EXCEPT ![e] = IdleEdit]
    /\ UNCHANGED <<users, raced>>

EditStep(e) ==
    \/ WalkUp(e)
    \/ Authorized(e)
    \/ ReadManager(e)
    \/ ReadTarget(e)
    \/ NoDescendant(e)
    \/ Denied(e)
    \/ UpdateUserFields(e)
    \/ DeleteUser(e)

Next ==
    \/ \E u \in Users : Register(u)
    \/ \E u, creator, m \in Users : CreateEmployee(u, creator, m)
    \/ \E e \in Edits, caller, target \in Users :
           \/ \E role \in NewRoles \cup {None}, mgr \in Users \cup {None} :
                  BeginUpdate(e, caller, target, role, mgr)
           \/ BeginDelete(e, caller, target)
    \/ \E e \in Edits : EditStep(e) \/ EditFails(e)

Spec == Init /\ [][Next]_vars

(* A request that is served goes on.                                       *)
Fairness == \A e \in Edits : WF_vars(EditStep(e))

FairSpec == Spec /\ Fairness

-----------------------------------------------------------------------------
(* No live users manage each other in a circle: of any set of them, one is *)
(* managed by nobody of the set.                                           *)
NoManagerCycle ==
    \A W \in SUBSET {u \in Users : live(u)} :
        W # {} => \E u \in W : users[u].mgr \notin W

(* A circle can only come from calls that overlap: as long as no link was  *)
(* written from a walk that another link had overtaken, there is none,     *)
(* whoever is created, deleted or moved by whom, and in whatever order --  *)
(* provided that no chain of managers is longer than a walk.               *)
OnlyRacesMakeCycles == raced \/ NoManagerCycle

(* No edit puts a user under somebody of another network, although the two *)
(* rows are read apart from each other and from the write.                 *)
EditsStayInNetwork ==
    [][\A u \in Users :
           users[u].st # "none" /\ users'[u].mgr # users[u].mgr =>
               TenantOf[users'[u].mgr] = TenantOf[u]]_vars

(* Every call comes to an answer, even when its walk meets a circle that   *)
(* calls side by side have made.                                           *)
EveryEditEnds == \A e \in Edits : []<>(edits[e].pc = "idle")
=============================================================================
