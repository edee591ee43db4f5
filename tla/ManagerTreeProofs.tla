-------------------------- MODULE ManagerTreeProofs --------------------------
(***************************************************************************)
(* For every network and any number of calls: the types of ManagerTree,    *)
(* that edits keep users under managers of their own network, and, as long *)
(* as nobody has more managers above him than a walk reads, that only      *)
(* overlapping calls can close a circle.                                   *)
(***************************************************************************)
EXTENDS ManagerTree, FiniteSetTheorems, TLAPS

-----------------------------------------------------------------------------
HasRow(u) == u \in Users /\ users[u].st # "none"

ManagersHaveRows ==
    \A u \in Users : users[u].mgr # None => HasRow(users[u].mgr)

(* What the checks a call has passed tell of its locals.                   *)
Checked(e) ==
    /\ HasRow(edits[e].target)
    /\ edits[e].mgr # edits[e].target
    /\ edits[e].pc \in {"manager", "target", "climb"} => edits[e].mgr \in Users
    /\ edits[e].pc = "manager" => edits[e].seen = {}
    /\ edits[e].pc \in {"target", "climb", "write"} /\ edits[e].mgr # None =>
           HasRow(edits[e].mgr)
    /\ edits[e].pc \in {"climb", "write"} /\ edits[e].mgr # None =>
           TenantOf[edits[e].mgr] = TenantOf[edits[e].target]

ChecksHold == \A e \in Edits : edits[e].pc # "idle" => Checked(e)

(* The managers above u: in every set that has the manager of u and the    *)
(* manager of each of its members.                                         *)
Closed(W) == \A w \in W : users[w].mgr \in W \cup {None}

ClosedAbove(u) == {W \in SUBSET Users : Closed(W) /\ users[u].mgr \in W \cup {None}}

Above(u) == {v \in Users : \A W \in ClosedAbove(u) : v \in W}

(* Nobody has more managers above him than a walk reads.                   *)
LowHierarchy == \A u \in Users : Cardinality(Above(u)) <= WalkBound

(* Whoever the walk from the new manager has passed or is about to read is *)
(* above the new manager.                                                  *)
StaysAbove(e) ==
    \A W \in ClosedAbove(edits[e].mgr) :
        edits[e].seen \subseteq W /\ edits[e].up \in W \cup {None}

(* Whoever it has passed is managed by somebody it has passed or is about  *)
(* to read.                                                                *)
PathRead(e) ==
    edits[e].pc \in {"target", "climb"} /\ ~edits[e].dirty =>
        /\ StaysAbove(e)
        /\ edits[e].target \notin edits[e].seen
        /\ \A s \in edits[e].seen : HasRow(s)
        /\ \A s \in edits[e].seen \cup {edits[e].mgr} :
               users[s].mgr \in edits[e].seen \cup {edits[e].up}

PathsRead == \A e \in Edits : PathRead(e)

Living == {u \in Users : live(u)}

(* No circle leads from the new manager of t up to t.                      *)
SafeMove(t, m) ==
    \A W \in SUBSET Living :
        t \in W /\ m \in W => \E u \in W \ {t} : users[u].mgr \notin W

MovesSafe ==
    \A e \in Edits :
        edits[e].pc = "write" /\ edits[e].mgr # None /\ ~edits[e].dirty =>
            SafeMove(edits[e].target, edits[e].mgr)

NoRaceNoCycle == raced \/ (NoManagerCycle /\ MovesSafe)

Inv == TypeOK /\ ManagersHaveRows /\ ChecksHold
CycleInv == Inv /\ PathsRead /\ NoRaceNoCycle

-----------------------------------------------------------------------------
(* The locals of a call that is not over.                                  *)
OpenEdit ==
    [pc : {"authorize", "manager", "target", "climb", "write"},
     kind : {"update", "delete"}, caller : Users \cup {None}, target : Users,
     role : NewRoles \cup {None}, mgr : Users \cup {None},
     up : Users \cup {None}, seen : SUBSET Users, dirty : BOOLEAN]

(* The locals of a call in flight have the type of an open call.           *)
LEMMA OpenEdits ==
    ASSUME TypeOK, NEW e \in Edits, edits[e].pc # "idle"
    PROVE  edits[e] \in OpenEdit
BY DEF TypeOK, Edit, IdleEdit, OpenEdit

(* The manager of any user is a user or nobody.                            *)
LEMMA Managers ==
    ASSUME TypeOK, NEW u \in Users
    PROVE  users[u] \in UserRow /\ users[u].mgr \in Users \cup {None}
BY DEF TypeOK, UserRow

(* What comes after the check of the caller keeps the type of the locals.  *)
LEMMA GoesOn ==
    ASSUME NEW edit \in OpenEdit
    PROVE  goOn(edit) \in OpenEdit
BY DEF goOn, OpenEdit

(* So does the mark that another link has overtaken the walk.              *)
LEMMA Overtaken ==
    ASSUME NEW edit \in Edit
    PROVE  overtaken(edit) \in Edit
<1> DEFINE d == \/ edit.dirty
                \/ edit.pc \in {"target", "climb"}
                \/ edit.pc = "write" /\ edit.mgr # None
<1>1. overtaken(edit) = [edit EXCEPT !.dirty = d]
  BY DEF overtaken
<1>2. CASE edit = IdleEdit
  BY <1>1, <1>2 DEF IdleEdit, Edit
<1>3. CASE edit \in OpenEdit
  <2>1. d \in BOOLEAN
    OBVIOUS
  <2> HIDE DEF d
  <2>2. [edit EXCEPT !.dirty = d] \in OpenEdit
    BY <1>3, <2>1 DEF OpenEdit
  <2> QED  BY <1>1, <2>2 DEF OpenEdit, Edit
<1> QED  BY <1>2, <1>3 DEF Edit, OpenEdit

-----------------------------------------------------------------------------
(* A call that begins has the locals of its type.                          *)
LEMMA BeginTypes ==
    ASSUME TypeOK, NEW e \in Edits, NEW kind \in {"update", "delete"},
           NEW caller \in Users, NEW target \in Users,
           NEW role \in NewRoles \cup {None}, NEW mgr \in Users \cup {None},
           begin(e, kind, caller, target, role, mgr)
    PROVE  TypeOK'
<1> DEFINE edit == [pc |-> "authorize", kind |-> kind, caller |-> caller,
                    target |-> target, role |-> role, mgr |-> mgr,
                    up |-> users[target].mgr, seen |-> {}, dirty |-> FALSE]
           next == IF isSuper(caller) \/ caller = target THEN goOn(edit) ELSE edit
<1>1. edit \in OpenEdit
  BY Managers DEF OpenEdit
<1>2. next \in Edit
  BY <1>1, GoesOn DEF Edit, OpenEdit
<1>3. edits' = [edits EXCEPT ![e] = next]
  BY DEF begin
<1> QED  BY <1>2, <1>3 DEF TypeOK, begin

(* A call that takes a step keeps the type of everything.                  *)
LEMMA StepTypes ==
    ASSUME TypeOK, NEW e \in Edits, EditStep(e) \/ EditFails(e)
    PROVE  TypeOK'
<1>1. edits[e] \in OpenEdit
  <2>1. edits[e].pc # "idle"
    BY DEF EditStep, EditFails, WalkUp, Authorized, ReadManager, ReadTarget,
           NoDescendant, Denied, UpdateUserFields, DeleteUser
  <2> QED  BY <2>1, OpenEdits
<1>2. ASSUME NEW next \in OpenEdit \cup {IdleEdit},
             edits' = [edits EXCEPT ![e] = next], UNCHANGED <<users, raced>>
      PROVE  TypeOK'
  BY <1>2 DEF TypeOK, Edit, OpenEdit
<1>3. CASE WalkUp(e)
  <2> DEFINE p == edits[e].up
             next == [edits[e] EXCEPT !.up = users[p].mgr, !.seen = @ \cup {p}]
  <2>1. edits' = [edits EXCEPT ![e] = next] /\ UNCHANGED <<users, raced>>
    BY <1>3 DEF WalkUp
  <2>2. p \in Users
    BY <1>1, <1>3 DEF WalkUp, stuck, exhausted, OpenEdit
  <2>3. users[p].mgr \in Users \cup {None}
    BY <2>2, Managers
  <2>4. next \in OpenEdit
    BY <1>1, <2>2, <2>3 DEF OpenEdit
  <2> QED  BY <1>2, <2>1, <2>4
<1>4. CASE Authorized(e)
  BY <1>1, <1>2, <1>4, GoesOn DEF Authorized
<1>5. CASE ReadManager(e)
  <2> DEFINE m == edits[e].mgr
             next == [edits[e] EXCEPT !.pc = "target", !.up = users[m].mgr]
  <2>1. edits' = [edits EXCEPT ![e] = next] /\ UNCHANGED <<users, raced>>
    BY <1>5 DEF ReadManager
  <2>2. users[m].mgr \in Users \cup {None}
    BY <1>5, Managers DEF ReadManager, live
  <2>3. next \in OpenEdit
    BY <1>1, <2>2 DEF OpenEdit
  <2> QED  BY <1>2, <2>1, <2>3
<1>6. CASE ReadTarget(e)
  <2> DEFINE next == [edits[e] EXCEPT !.pc = "climb"]
  <2>1. edits' = [edits EXCEPT ![e] = next] /\ UNCHANGED <<users, raced>>
    BY <1>6 DEF ReadTarget
  <2>2. next \in OpenEdit
    BY <1>1 DEF OpenEdit
  <2> QED  BY <1>2, <2>1, <2>2
<1>7. CASE NoDescendant(e)
  <2> DEFINE next == [edits[e] EXCEPT !.pc = "write", !.up = None, !.seen = {}]
  <2>1. edits' = [edits EXCEPT ![e] = next] /\ UNCHANGED <<users, raced>>
    BY <1>7 DEF NoDescendant
  <2>2. next \in OpenEdit
    BY <1>1 DEF OpenEdit
  <2> QED  BY <1>2, <2>1, <2>2
<1>8. CASE Denied(e) \/ EditFails(e)
  BY <1>2, <1>8 DEF Denied, EditFails
<1>9. CASE UpdateUserFields(e)
  <2> DEFINE t == edits[e].target
             r == chosen(edits[e].role, users[t].role)
             m == chosen(edits[e].mgr, users[t].mgr)
             moves == live(t) /\ edits[e].mgr # None
  <2>1. t \in Users /\ users[t] \in UserRow
    BY <1>1, Managers DEF OpenEdit
  <2>2. r \in Roles /\ m \in Users \cup {None}
    BY <1>1, <2>1, ConstantsAssumption DEF OpenEdit, UserRow, chosen
  <2>3. users' = users \/ users' = [users EXCEPT ![t].role = r, ![t].mgr = m]
    BY <1>9 DEF UpdateUserFields
  <2>4. users' \in [Users -> UserRow]
    <3> HIDE DEF r, m, t
    <3> QED  BY <2>1, <2>2, <2>3 DEF TypeOK, UserRow
  <2>5. edits' \in [Edits -> Edit]
    <3>1. IdleEdit \in Edit
      BY DEF Edit
    <3>2. \A f \in Edits : edits[f] \in Edit /\ overtaken(edits[f]) \in Edit
      BY Overtaken DEF TypeOK
    <3>3. edits' = [f \in Edits |-> IF f = e THEN IdleEdit
                        ELSE IF moves THEN overtaken(edits[f]) ELSE edits[f]]
      BY <1>9 DEF UpdateUserFields
    <3> HIDE DEF moves
    <3> QED  BY <3>1, <3>2, <3>3
  <2>6. raced' \in BOOLEAN
    BY <1>9 DEF UpdateUserFields
  <2> QED  BY <2>4, <2>5, <2>6 DEF TypeOK
<1>10. CASE DeleteUser(e)
  <2>1. edits[e].target \in Users
    BY <1>1 DEF OpenEdit
  <2>2. users' \in [Users -> UserRow]
    BY <1>10, <2>1 DEF DeleteUser, TypeOK, UserRow
  <2> QED  BY <1>10, <2>2 DEF DeleteUser, TypeOK, Edit
<1> QED  BY <1>3, <1>4, <1>5, <1>6, <1>7, <1>8, <1>9, <1>10 DEF EditStep

(* So does the creation of a user.                                         *)
LEMMA CreationTypes ==
    ASSUME TypeOK, NEW u \in Users,
           Register(u) \/ \E creator, m \in Users : CreateEmployee(u, creator, m)
    PROVE  TypeOK'
BY DEF TypeOK, UserRow, Register, CreateEmployee

(* It holds before anything has happened.                                  *)
LEMMA InitTypes == Init => TypeOK
<1> SUFFICES ASSUME Init PROVE TypeOK
  OBVIOUS
<1>1. ASSUME NEW u \in Users
      PROVE  [st |-> IF CreatedAs[u] = "super_admin" THEN "live" ELSE "none",
              role |-> CreatedAs[u], mgr |-> None] \in UserRow
  <2>1. CreatedAs[u] \in Roles
    BY ConstantsAssumption
  <2> QED  BY <2>1 DEF UserRow
<1>2. users \in [Users -> UserRow]
  BY <1>1 DEF Init
<1> QED  BY <1>2 DEF Init, TypeOK, Edit

(* Every step keeps it.                                                    *)
LEMMA NextTypes == TypeOK /\ [Next]_vars => TypeOK'
<1> SUFFICES ASSUME TypeOK, [Next]_vars PROVE TypeOK'
  OBVIOUS
<1>1. CASE UNCHANGED vars
  BY <1>1 DEF TypeOK, vars
<1>2. ASSUME NEW e \in Edits, NEW caller \in Users, NEW target \in Users,
             NEW role \in NewRoles \cup {None}, NEW mgr \in Users \cup {None},
             BeginUpdate(e, caller, target, role, mgr)
      PROVE  TypeOK'
  BY <1>2, BeginTypes DEF BeginUpdate
<1>3. ASSUME NEW e \in Edits, NEW caller \in Users, NEW target \in Users,
             BeginDelete(e, caller, target)
      PROVE  TypeOK'
  BY <1>3, BeginTypes DEF BeginDelete
<1> QED  BY <1>1, <1>2, <1>3, StepTypes, CreationTypes DEF Next

(* Every table and local of the model keeps its type, in every network.    *)
THEOREM TypeCorrect == Spec => []TypeOK
<1> QED  BY InitTypes, NextTypes, PTL DEF Spec

-----------------------------------------------------------------------------
(* A step of one call that writes no row keeps what the checks tell of the *)
(* others.                                                                 *)
LEMMA LocalStep ==
    ASSUME Inv, NEW e \in Edits, NEW next,
           edits' = [edits EXCEPT ![e] = next], UNCHANGED users, TypeOK',
           next.pc = "idle" \/ Checked(e)'
    PROVE  Inv'
<1>1. ManagersHaveRows'
  BY DEF Inv, ManagersHaveRows, HasRow
<1>2. ASSUME NEW f \in Edits, edits'[f].pc # "idle"
      PROVE  Checked(f)'
  <2>1. CASE f = e
    BY <1>2, <2>1 DEF Inv, TypeOK
  <2>2. CASE f # e
    <3>1. edits'[f] = edits[f]
      BY <2>2 DEF Inv, TypeOK
    <3> QED  BY <1>2, <3>1 DEF Inv, ChecksHold, Checked, HasRow
  <2> QED  BY <2>1, <2>2
<1>3. ChecksHold'
  BY <1>2 DEF ChecksHold
<1> QED  BY <1>1, <1>3 DEF Inv

(* A creation gives one user without a row a row, under nobody or under    *)
(* somebody who has one already.                                           *)
NewRow(u, m) ==
    /\ users[u].st = "none"
    /\ m = None \/ HasRow(m)
    /\ users' = [users EXCEPT ![u].st = "live", ![u].mgr = m]
    /\ UNCHANGED <<edits, raced>>

(* What registration and CreateEmployee do to the table.                   *)
LEMMA CreationShape ==
    ASSUME Inv, NEW u \in Users,
           Register(u) \/ \E creator, m \in Users : CreateEmployee(u, creator, m)
    PROVE  \E m \in Users \cup {None} : NewRow(u, m)
<1>1. CASE Register(u)
  <2>1. users[u] \in UserRow /\ users[u].mgr \in Users \cup {None}
    BY Managers DEF Inv
  <2>2. users' = [users EXCEPT ![u].st = "live", ![u].mgr = users[u].mgr]
    BY <1>1, <2>1 DEF Register, UserRow, Inv, TypeOK
  <2>3. NewRow(u, users[u].mgr)
    BY <1>1, <2>1, <2>2 DEF Register, NewRow, Inv, ManagersHaveRows
  <2> QED  BY <2>1, <2>3
<1>2. ASSUME NEW creator \in Users, NEW m \in Users, CreateEmployee(u, creator, m)
      PROVE  NewRow(u, m)
  BY <1>2 DEF CreateEmployee, NewRow, HasRow, live
<1> QED  BY <1>1, <1>2

(* What a creation leaves of the table.                                    *)
LEMMA NewRowLeaves ==
    ASSUME TypeOK, NEW u \in Users, NEW m \in Users \cup {None}, NewRow(u, m)
    PROVE  /\ users'[u].mgr = m /\ m # u
           /\ \A v \in Users \ {u} : users'[v] = users[v]
           /\ \A v : HasRow(v) => v # u /\ users'[v].st # "none"
           /\ Living' \subseteq Living \cup {u}
<1>1. users \in [Users -> UserRow] /\ u \notin {None}
  BY ConstantsAssumption DEF TypeOK
<1>2. users'[u].mgr = m
  BY <1>1 DEF NewRow, UserRow
<1>3. users'[u].st = "live"
  BY <1>1 DEF NewRow, UserRow
<1>4. \A v \in Users \ {u} : users'[v] = users[v]
  BY <1>1 DEF NewRow
<1>5. m # u
  BY <1>1 DEF NewRow, HasRow
<1>6. \A v : HasRow(v) => v # u /\ users'[v].st # "none"
  BY <1>3, <1>4 DEF HasRow, NewRow
<1>7. Living' \subseteq Living \cup {u}
  BY <1>4 DEF Living, live
<1> QED  BY <1>2, <1>4, <1>5, <1>6, <1>7

(* A new row takes nothing back of what calls in flight have checked.      *)
LEMMA CreationChecks ==
    ASSUME Inv, NEW u \in Users, NEW m \in Users \cup {None}, NewRow(u, m), TypeOK'
    PROVE  Inv'
<1> USE NewRowLeaves
<1>1. ManagersHaveRows'
  <2>1. ASSUME NEW v \in Users, users'[v].mgr # None
        PROVE  users'[v].mgr \in Users /\ users'[users'[v].mgr].st # "none"
    <3>1. users'[v].mgr = m \/ users'[v].mgr = users[v].mgr
      BY DEF Inv
    <3>2. HasRow(users'[v].mgr)
      BY <2>1, <3>1 DEF Inv, ManagersHaveRows, NewRow
    <3> QED  BY <3>2 DEF Inv, HasRow
  <2> QED  BY <2>1 DEF ManagersHaveRows, HasRow
<1>2. ASSUME NEW e \in Edits, edits'[e].pc # "idle"
      PROVE  Checked(e)'
  <2>1. edits' = edits /\ Checked(e)
    BY <1>2 DEF NewRow, Inv, ChecksHold
  <2>2. \A v : HasRow(v) => v \in Users /\ users'[v].st # "none"
    BY DEF Inv, HasRow
  <2> QED  BY <2>1, <2>2 DEF Checked, HasRow
<1> QED  BY <1>1, <1>2 DEF Inv, ChecksHold

(* A call that begins has been checked as far as it has come.              *)
LEMMA BeginChecks ==
    ASSUME Inv, NEW e \in Edits, NEW kind \in {"update", "delete"},
           NEW caller \in Users, NEW target \in Users,
           NEW role \in NewRoles \cup {None}, NEW mgr \in Users \cup {None},
           mgr # target, begin(e, kind, caller, target, role, mgr)
    PROVE  Inv'
<1> DEFINE edit == [pc |-> "authorize", kind |-> kind, caller |-> caller,
                    target |-> target, role |-> role, mgr |-> mgr,
                    up |-> users[target].mgr, seen |-> {}, dirty |-> FALSE]
           next == IF isSuper(caller) \/ caller = target THEN goOn(edit) ELSE edit
<1>1. edits' = [edits EXCEPT ![e] = next] /\ UNCHANGED users
  BY DEF begin
<1>2. edits'[e] = next
  BY <1>1 DEF Inv, TypeOK
<1>3. /\ next.target = target /\ next.mgr = mgr /\ next.seen = {}
      /\ next.pc \in {"authorize", "manager", "write"}
      /\ next.pc = "manager" => mgr \in Users
      /\ next.pc = "write" => mgr = None
  BY DEF goOn
<1>4. HasRow(target)'
  BY <1>1 DEF begin, found, live, HasRow
<1> HIDE DEF next
<1>5. Checked(e)'
  BY <1>2, <1>3, <1>4 DEF Checked
<1>6. TypeOK'
  BY BeginTypes DEF Inv
<1> QED  BY <1>1, <1>5, <1>6, LocalStep

(* A step of a call adds what it has checked to what was.                  *)
LEMMA StepChecks ==
    ASSUME Inv, NEW e \in Edits, EditStep(e) \/ EditFails(e)
    PROVE  Inv'
<1>1. edits[e].pc # "idle"
  BY DEF EditStep, EditFails, WalkUp, Authorized, ReadManager, ReadTarget,
         NoDescendant, Denied, UpdateUserFields, DeleteUser
<1>2. Checked(e) /\ edits[e] \in OpenEdit
  BY <1>1, OpenEdits DEF Inv, ChecksHold
<1>3. TypeOK'
  BY StepTypes DEF Inv
<1>4. ASSUME NEW next, edits' = [edits EXCEPT ![e] = next], UNCHANGED users,
             \/ next.pc = "idle"
             \/ /\ next.target = edits[e].target /\ next.mgr = edits[e].mgr
                /\ next.pc \in {"manager", "target", "climb"} => next.mgr \in Users
                /\ next.pc = "manager" => next.seen = {}
                /\ next.pc \in {"target", "climb", "write"} /\ next.mgr # None =>
                       HasRow(next.mgr)
                /\ next.pc \in {"climb", "write"} /\ next.mgr # None =>
                       TenantOf[next.mgr] = TenantOf[next.target]
      PROVE  Inv'
  <2>1. edits'[e] = next
    BY <1>4 DEF Inv, TypeOK
  <2>2. next.pc = "idle" \/ Checked(e)'
    BY <1>2, <1>4, <2>1 DEF Checked, HasRow
  <2> QED  BY <1>3, <1>4, <2>2, LocalStep
<1>5. CASE WalkUp(e)
  BY <1>2, <1>4, <1>5, ZenonT(40) DEF WalkUp, Checked, OpenEdit
<1>6. CASE Authorized(e)
  <2>1. edits' = [edits EXCEPT ![e] = goOn(edits[e])] /\ UNCHANGED users
    BY <1>6 DEF Authorized
  <2>2. /\ goOn(edits[e]).target = edits[e].target
        /\ goOn(edits[e]).mgr = edits[e].mgr
        /\ goOn(edits[e]).seen = {}
        /\ goOn(edits[e]).pc = IF edits[e].mgr = None THEN "write" ELSE "manager"
    BY <1>2 DEF goOn, OpenEdit
  <2>3. edits[e].mgr \in Users \cup {None}
    BY <1>2 DEF OpenEdit
  <2> QED  BY <1>4, <2>1, <2>2, <2>3
<1>7. CASE ReadManager(e)
  BY <1>2, <1>4, <1>7 DEF ReadManager, Checked, OpenEdit, HasRow, live
<1>8. CASE ReadTarget(e)
  BY <1>2, <1>4, <1>8 DEF ReadTarget, Checked, OpenEdit
<1>9. CASE NoDescendant(e)
  BY <1>2, <1>4, <1>9, ZenonT(40) DEF NoDescendant, Checked, OpenEdit
<1>10. CASE Denied(e) \/ EditFails(e)
  BY <1>4, <1>10 DEF Denied, EditFails, IdleEdit
<1>11. ASSUME \A v : HasRow(v) => HasRow(v)', ManagersHaveRows',
              edits'[e].pc = "idle",
              \A f \in Edits \ {e} : /\ edits'[f].pc = edits[f].pc
                                     /\ edits'[f].target = edits[f].target
                                     /\ edits'[f].mgr = edits[f].mgr
                                     /\ edits'[f].seen = edits[f].seen
       PROVE  Inv'
  BY <1>3, <1>11 DEF Inv, ChecksHold, Checked
<1>12. CASE UpdateUserFields(e)
  <2> DEFINE t == edits[e].target
             m == chosen(edits[e].mgr, users[t].mgr)
             r == chosen(edits[e].role, users[t].role)
  <2>1. t \in Users /\ users \in [Users -> UserRow]
    BY <1>2 DEF OpenEdit, Inv, TypeOK
  <2>2. users' = users \/ users' = [users EXCEPT ![t].role = r, ![t].mgr = m]
    BY <1>12 DEF UpdateUserFields
  <2>3. \A v \in Users : users'[v].st = users[v].st
    <3> HIDE DEF t, m, r
    <3> QED  BY <2>1, <2>2 DEF UserRow
  <2>4. \A v : HasRow(v) => HasRow(v)'
    BY <2>3 DEF HasRow
  <2>5. m = None \/ HasRow(m)
    BY <1>2, <1>12, <2>1 DEF UpdateUserFields, Checked, chosen, Inv, ManagersHaveRows
  <2>6. ASSUME NEW v \in Users
        PROVE  users'[v].mgr \in {users[v].mgr, m}
    <3> HIDE DEF t, m, r
    <3> QED  BY <2>1, <2>2 DEF UserRow
  <2>7. ManagersHaveRows'
    <3> HIDE DEF t, m, r
    <3> QED  BY <2>4, <2>5, <2>6 DEF ManagersHaveRows, Inv
  <2>8. \A f \in Edits \ {e} : edits'[f] = edits[f] \/ edits'[f] = overtaken(edits[f])
    BY <1>12 DEF UpdateUserFields
  <2>9. ASSUME NEW f \in Edits
        PROVE  /\ overtaken(edits[f]).pc = edits[f].pc
               /\ overtaken(edits[f]).target = edits[f].target
               /\ overtaken(edits[f]).mgr = edits[f].mgr
               /\ overtaken(edits[f]).seen = edits[f].seen
    BY DEF overtaken, Inv, TypeOK, Edit, IdleEdit
  <2>10. edits'[e].pc = "idle"
    BY <1>12 DEF UpdateUserFields, IdleEdit
  <2> QED  BY <1>11, <2>4, <2>7, <2>8, <2>9, <2>10
<1>13. CASE DeleteUser(e)
  <2>1. edits[e].target \in Users /\ users \in [Users -> UserRow]
    BY <1>2 DEF OpenEdit, Inv, TypeOK
  <2>2. \A v : HasRow(v) => HasRow(v)'
    BY <1>13, <2>1 DEF DeleteUser, HasRow, UserRow
  <2>3. \A v \in Users : users'[v].mgr = users[v].mgr
    BY <1>13, <2>1 DEF DeleteUser, UserRow
  <2>4. ManagersHaveRows'
    BY <2>2, <2>3 DEF ManagersHaveRows, Inv
  <2>5. /\ edits'[e].pc = "idle"
        /\ \A f \in Edits \ {e} : edits'[f] = edits[f]
    BY <1>13 DEF DeleteUser, IdleEdit, Inv, TypeOK
  <2> QED  BY <1>11, <2>2, <2>4, <2>5
<1> QED  BY <1>5, <1>6, <1>7, <1>8, <1>9, <1>10, <1>12, <1>13 DEF EditStep

(* No call is in flight at first and nobody is managed by anybody.         *)
LEMMA InitInv == Init => Inv
<1>1. Init => ManagersHaveRows /\ ChecksHold
  BY DEF Init, ManagersHaveRows, ChecksHold, IdleEdit
<1> QED  BY <1>1, InitTypes DEF Inv

(* Every step keeps the types, the managers' rows and what calls checked.  *)
LEMMA NextInv == Inv /\ [Next]_vars => Inv'
<1> SUFFICES ASSUME Inv, [Next]_vars PROVE Inv'
  OBVIOUS
<1>0. TypeOK'
  BY NextTypes DEF Inv
<1>1. CASE UNCHANGED vars
  <2>1. users' = users /\ edits' = edits
    BY <1>1 DEF vars
  <2> QED  BY <1>0, <2>1 DEF Inv, ManagersHaveRows, ChecksHold, Checked, HasRow
<1>2. ASSUME NEW u \in Users,
             Register(u) \/ \E creator, m \in Users : CreateEmployee(u, creator, m)
      PROVE  Inv'
  BY <1>0, <1>2, CreationShape, CreationChecks
<1>3. ASSUME NEW e \in Edits, NEW caller \in Users, NEW target \in Users,
             NEW role \in NewRoles \cup {None}, NEW mgr \in Users \cup {None},
             BeginUpdate(e, caller, target, role, mgr)
      PROVE  Inv'
  BY <1>3, BeginChecks DEF BeginUpdate
<1>4. ASSUME NEW e \in Edits, NEW caller \in Users, NEW target \in Users,
             BeginDelete(e, caller, target)
      PROVE  Inv'
  BY <1>4, BeginChecks, ConstantsAssumption DEF BeginDelete
<1> QED  BY <1>1, <1>2, <1>3, <1>4, StepChecks DEF Next

(* The row an edit moves and the row of its new manager are of the same    *)
(* network, because what validateManagedBy compared cannot change.         *)
LEMMA MovesInNetwork ==
    ASSUME Inv, NEW e \in Edits, UpdateUserFields(e), NEW u \in Users,
           users'[u].mgr # users[u].mgr
    PROVE  TenantOf[users'[u].mgr] = TenantOf[u]
<1> DEFINE t == edits[e].target
           m == chosen(edits[e].mgr, users[t].mgr)
           r == chosen(edits[e].role, users[t].role)
<1>1. Checked(e) /\ edits[e].pc = "write"
  BY DEF UpdateUserFields, Inv, ChecksHold
<1>2. t \in Users /\ users \in [Users -> UserRow]
  BY <1>1 DEF Checked, HasRow, Inv, TypeOK
<1>3. users' = users \/ users' = [users EXCEPT ![t].role = r, ![t].mgr = m]
  BY DEF UpdateUserFields
<1>4. u = t /\ users'[u].mgr = m
  <2> HIDE DEF t, m, r
  <2> QED  BY <1>2, <1>3 DEF UserRow
<1>5. edits[e].mgr # None /\ m = edits[e].mgr
  BY <1>4 DEF chosen
<1> QED  BY <1>1, <1>4, <1>5 DEF Checked

(* EditsStayInNetwork for every step: no other action moves a user who     *)
(* has a row.                                                              *)
LEMMA StepStaysInNetwork ==
    ASSUME Inv, [Next]_vars, NEW u \in Users,
           users[u].st # "none", users'[u].mgr # users[u].mgr
    PROVE  TenantOf[users'[u].mgr] = TenantOf[u]
<1>1. users' # users
  OBVIOUS
<1>2. ASSUME NEW v \in Users,
             Register(v) \/ \E creator, m \in Users : CreateEmployee(v, creator, m)
      PROVE  FALSE
  <2>1. PICK m \in Users \cup {None} : NewRow(v, m)
    BY <1>2, CreationShape
  <2> QED  BY <2>1, NewRowLeaves, ZenonT(40) DEF NewRow, Inv
<1>3. ASSUME NEW e \in Edits, DeleteUser(e)
      PROVE  FALSE
  <2>1. edits[e].target \in Users
    BY <1>3 DEF DeleteUser, Inv, ChecksHold, Checked, HasRow
  <2>2. users \in [Users -> UserRow]
    BY DEF Inv, TypeOK
  <2>3. users' = [users EXCEPT ![edits[e].target].st = "deleted"]
    BY <1>3 DEF DeleteUser
  <2> QED  BY <2>1, <2>2, <2>3 DEF UserRow
<1>4. ASSUME NEW e \in Edits, EditStep(e) \/ EditFails(e)
      PROVE  UpdateUserFields(e)
  BY <1>1, <1>3, <1>4 DEF EditStep, EditFails, WalkUp, Authorized, ReadManager,
     ReadTarget, NoDescendant, Denied
<1>5. ASSUME NEW e \in Edits, NEW caller \in Users, NEW target \in Users,
             \/ \E role \in NewRoles \cup {None}, mgr \in Users \cup {None} :
                    BeginUpdate(e, caller, target, role, mgr)
             \/ BeginDelete(e, caller, target)
      PROVE  FALSE
  BY <1>1, <1>5 DEF BeginUpdate, BeginDelete, begin
<1>6. \E e \in Edits : UpdateUserFields(e)
  BY <1>1, <1>2, <1>4, <1>5 DEF Next, vars
<1> QED  BY <1>6, MovesInNetwork

(* No edit puts a user under a manager of another network, however many    *)
(* calls overlap and however long their walks are.                         *)
THEOREM NetworksAreKept == Spec => EditsStayInNetwork
<1>1. Inv /\ [Next]_vars =>
          [\A u \in Users :
              users[u].st # "none" /\ users'[u].mgr # users[u].mgr =>
                  TenantOf[users'[u].mgr] = TenantOf[u]]_vars
  BY StepStaysInNetwork
<1> QED  BY <1>1, InitInv, NextInv, PTL DEF Spec, EditsStayInNetwork

-----------------------------------------------------------------------------
(* While no link is written, the managers above anybody stay the same.     *)
LEMMA SameAbove ==
    ASSUME \A v \in Users : users'[v].mgr = users[v].mgr, NEW u \in Users
    PROVE  ClosedAbove(u)' = ClosedAbove(u)
BY DEF ClosedAbove, Closed

(* A walk that is about to read an unread row has been shorter than the    *)
(* chain above the new manager.                                            *)
LEMMA WalkFitsChain ==
    ASSUME TypeOK, LowHierarchy, NEW e \in Edits, StaysAbove(e),
           edits[e].mgr \in Users, edits[e].seen \in SUBSET Users,
           edits[e].up \in Users \ edits[e].seen
    PROVE  Cardinality(edits[e].seen) \in Nat /\ Cardinality(edits[e].seen) < WalkBound
<1> DEFINE seen == edits[e].seen
           up == edits[e].up
           A == Above(edits[e].mgr)
<1>1. seen \cup {up} \subseteq A
  BY ConstantsAssumption DEF StaysAbove, Above
<1>2. IsFiniteSet(A) /\ Cardinality(A) <= WalkBound
  <2>1. A \in SUBSET Users
    BY DEF Above
  <2> QED  BY <2>1, ConstantsAssumption, FS_Subset DEF LowHierarchy
<1> HIDE DEF A, seen, up
<1>3. IsFiniteSet(seen \cup {up}) /\ Cardinality(seen \cup {up}) <= Cardinality(A)
  BY <1>1, <1>2, FS_Subset
<1>4. IsFiniteSet(seen) /\ up \notin seen
  BY <1>3, FS_Subset DEF seen, up
<1>5. Cardinality(seen \cup {up}) = Cardinality(seen) + 1 /\ Cardinality(seen) \in Nat
  BY <1>4, FS_AddElement, FS_CardinalityType
<1>6. Cardinality(A) \in Nat /\ WalkBound \in Nat
  BY <1>2, FS_CardinalityType, ConstantsAssumption
<1> QED  BY <1>2, <1>3, <1>5, <1>6 DEF seen

(* A walk that ends without having met the target has shown that no circle *)
(* leads up to it: the users it has passed would close one by themselves.  *)
LEMMA WalkProvesMoveSafe ==
    ASSUME CycleInv, LowHierarchy, ~raced,
           NEW e \in Edits, NoDescendant(e), ~edits[e].dirty
    PROVE  SafeMove(edits[e].target, edits[e].mgr)
<1> DEFINE t == edits[e].target
           m == edits[e].mgr
           seen == edits[e].seen
           up == edits[e].up
<1>1. /\ edits[e].pc = "climb" /\ stuck(e) /\ Checked(e) /\ edits[e] \in OpenEdit
      /\ m \in Users /\ t \in Users /\ m # t
  BY OpenEdits DEF NoDescendant, CycleInv, Inv, ChecksHold, Checked, HasRow
<1>2. /\ t \notin seen
      /\ \A s \in seen \cup {m} : users[s].mgr \in seen \cup {up}
  BY <1>1 DEF CycleInv, PathsRead, PathRead
<1>3. up \in Users \ seen => Cardinality(seen) \in Nat /\ Cardinality(seen) < WalkBound
  <2>1. StaysAbove(e) /\ seen \in SUBSET Users
    BY <1>1 DEF CycleInv, PathsRead, PathRead, OpenEdit
  <2> QED  BY <1>1, <2>1, WalkFitsChain DEF CycleInv, Inv
<1>4. up = None \/ (up # t /\ (up \in seen \/ ~live(up)))
  <2>1. up \in Users \cup {None}
    BY <1>1 DEF OpenEdit
  <2>2. CASE up \in Users \ seen
    BY <1>1, <1>3, <2>2, ConstantsAssumption DEF stuck, exhausted, goal
  <2> QED  BY <1>2, <2>1, <2>2
<1>5. NoManagerCycle
  BY DEF CycleInv, NoRaceNoCycle
<1>6. ASSUME NEW W \in SUBSET Living, t \in W, m \in W,
             \A u \in W \ {t} : users[u].mgr \in W
      PROVE  FALSE
  <2> DEFINE P == W \cap (seen \cup {m})
  <2>1. m \in P /\ P \in SUBSET Living /\ t \notin P
    BY <1>1, <1>2, <1>6
  <2>2. ASSUME NEW u \in P
        PROVE  users[u].mgr \in P
    <3>1. users[u].mgr \in W
      BY <1>6, <2>1, <2>2
    <3>2. live(users[u].mgr) /\ users[u].mgr # None
      BY <3>1, ConstantsAssumption DEF Living, live
    <3>3. users[u].mgr \in seen \cup {up}
      BY <1>2, <2>2
    <3>4. users[u].mgr \in seen
      BY <1>4, <3>2, <3>3
    <3> QED  BY <3>1, <3>4
  <2>3. P \in SUBSET {u \in Users : live(u)} /\ P # {}
    BY <2>1 DEF Living
  <2> HIDE DEF P
  <2> QED  BY <1>5, <2>2, <2>3 DEF NoManagerCycle
<1> QED  BY <1>6 DEF SafeMove

(* A new row comes above nobody who has one.                               *)
LEMMA RowsStayAbove ==
    ASSUME CycleInv, NEW u \in Users, NEW m \in Users \cup {None}, NewRow(u, m),
           NEW e \in Edits, StaysAbove(e), HasRow(edits[e].mgr)
    PROVE  StaysAbove(e)'
<1>1. /\ \A v \in Users \ {u} : users'[v] = users[v]
      /\ \A v : HasRow(v) => v # u
      /\ edits' = edits
  BY NewRowLeaves DEF CycleInv, Inv, NewRow
<1>2. \A v \in Users : users[v].mgr # u
  BY <1>1, ConstantsAssumption DEF CycleInv, Inv, ManagersHaveRows
<1>3. edits[e].mgr \in Users \ {u}
  BY <1>1 DEF HasRow
<1>4. ASSUME NEW W \in ClosedAbove(edits[e].mgr)'
      PROVE  edits[e].seen \subseteq W /\ edits[e].up \in W \cup {None}
  <2>1. /\ W \in SUBSET Users /\ \A w \in W : users'[w].mgr \in W \cup {None}
        /\ users'[edits[e].mgr].mgr \in W \cup {None}
    BY <1>1, <1>4 DEF ClosedAbove, Closed
  <2>2. \A w \in W \ {u} : users[w].mgr \in (W \ {u}) \cup {None}
    BY <1>1, <1>2, <2>1
  <2>3. users[edits[e].mgr].mgr \in (W \ {u}) \cup {None}
    BY <1>1, <1>2, <1>3, <2>1
  <2>4. W \ {u} \in ClosedAbove(edits[e].mgr)
    BY <2>1, <2>2, <2>3 DEF ClosedAbove, Closed
  <2> QED  BY <2>4 DEF StaysAbove
<1> QED  BY <1>1, <1>4 DEF StaysAbove

(* A new row closes no circle: nobody is managed by it yet.                *)
LEMMA CreationKeepsOrder ==
    ASSUME CycleInv, NEW u \in Users, NEW m \in Users \cup {None}, NewRow(u, m)
    PROVE  PathsRead' /\ NoRaceNoCycle'
<1>1. /\ users'[u].mgr = m /\ m # u
      /\ \A v \in Users \ {u} : users'[v] = users[v]
      /\ \A v : HasRow(v) => v # u /\ users'[v].st # "none"
      /\ Living' \subseteq Living \cup {u}
      /\ edits' = edits /\ raced' = raced
  BY NewRowLeaves DEF CycleInv, Inv, NewRow
<1>2. PathsRead'
  <2>1. ASSUME NEW e \in Edits, edits[e].pc \in {"target", "climb"}, ~edits[e].dirty
        PROVE  PathRead(e)'
    <3>1. PathRead(e) /\ HasRow(edits[e].mgr)
      BY <2>1, ConstantsAssumption
         DEF CycleInv, PathsRead, Inv, ChecksHold, Checked
    <3>2. \A s \in edits[e].seen \cup {edits[e].mgr} :
              HasRow(s) /\ users'[s] = users[s]
      BY <1>1, <2>1, <3>1 DEF PathRead, HasRow
    <3>3. StaysAbove(e)'
      <4>1. StaysAbove(e) /\ HasRow(edits[e].mgr)
        BY <2>1, <3>1 DEF PathRead
      <4> QED  BY <4>1, <1>1, RowsStayAbove
    <3> QED  BY <1>1, <2>1, <3>1, <3>2, <3>3 DEF PathRead, HasRow
  <2> QED  BY <1>1, <2>1 DEF PathsRead, PathRead
<1>3. ASSUME NEW v \in Living
      PROVE  /\ v \in Users \ {u} /\ users'[v].mgr = users[v].mgr
             /\ users[v].mgr # u
  <2>1. HasRow(v) /\ v \in Users \ {u}
    BY <1>1 DEF Living, live, HasRow
  <2>2. users[v].mgr = None \/ HasRow(users[v].mgr)
    BY <2>1 DEF CycleInv, Inv, ManagersHaveRows
  <2> QED  BY <1>1, <2>1, <2>2, ConstantsAssumption
<1>4. CASE ~raced /\ NoManagerCycle /\ MovesSafe
  <2>1. ASSUME NEW W \in SUBSET Living', W # {}
        PROVE  \E v \in W : users'[v].mgr \notin W
    <3>1. W \ {u} \in SUBSET {v \in Users : live(v)}
      BY <1>1 DEF Living
    <3>2. CASE W \ {u} = {}
      BY <1>1, <2>1, <3>2
    <3>3. CASE W \ {u} # {}
      <4>1. PICK v \in W \ {u} : users[v].mgr \notin W \ {u}
        BY <1>4, <3>1, <3>3 DEF NoManagerCycle
      <4> QED  BY <1>3, <3>1, <4>1 DEF Living
    <3> QED  BY <3>2, <3>3
  <2>2. ASSUME NEW e \in Edits, edits[e].pc = "write", edits[e].mgr # None,
               ~edits[e].dirty, NEW W \in SUBSET Living',
               edits[e].target \in W, edits[e].mgr \in W
        PROVE  \E v \in W \ {edits[e].target} : users'[v].mgr \notin W
    <3>1. W \ {u} \in SUBSET Living
      BY <1>1
    <3>2. edits[e].target # u /\ edits[e].mgr # u
      BY <1>1, <2>2 DEF CycleInv, Inv, ChecksHold, Checked
    <3>3. PICK v \in (W \ {u}) \ {edits[e].target} : users[v].mgr \notin W \ {u}
      BY <1>4, <2>2, <3>1, <3>2 DEF MovesSafe, SafeMove
    <3> QED  BY <1>3, <3>1, <3>3
  <2>3. NoManagerCycle'
    BY <2>1 DEF NoManagerCycle, Living
  <2>4. MovesSafe'
    BY <1>1, <2>2 DEF MovesSafe, SafeMove
  <2> QED  BY <1>2, <2>3, <2>4 DEF NoRaceNoCycle
<1> QED  BY <1>1, <1>2, <1>4 DEF CycleInv, NoRaceNoCycle

(* A step that moves nobody closes no circle, whatever it deletes.         *)
LEMMA OthersKeepOrder ==
    ASSUME CycleInv, NEW e \in Edits, raced' = raced,
           \A v \in Users : users'[v].mgr = users[v].mgr,
           \A v : HasRow(v) => users'[v].st # "none", Living' \subseteq Living,
           \A f \in Edits \ {e} : edits'[f] = edits[f],
           PathRead(e)',
           raced \/ edits'[e].pc # "write" \/ edits'[e].mgr = None \/ edits'[e].dirty
                 \/ SafeMove(edits'[e].target, edits'[e].mgr)
    PROVE  PathsRead' /\ NoRaceNoCycle'
<1>1. PathsRead'
  <2>1. ASSUME NEW f \in Edits \ {e}
        PROVE  PathRead(f)'
    <3>1. PathRead(f) /\ (edits[f].pc \in {"target", "climb"} => edits[f].mgr \in Users)
      BY DEF CycleInv, PathsRead, Inv, ChecksHold, Checked
    <3>2. edits[f].mgr \in Users => ClosedAbove(edits[f].mgr)' = ClosedAbove(edits[f].mgr)
      <4>1. \A u \in Users : ClosedAbove(u)' = ClosedAbove(u)
        BY SameAbove
      <4> QED  BY <4>1
    <3>3. StaysAbove(f) /\ edits[f].mgr \in Users => StaysAbove(f)'
      BY <3>2 DEF StaysAbove
    <3> QED  BY <3>1, <3>3 DEF PathRead, HasRow
  <2> QED  BY <2>1 DEF PathsRead
<1>2. CASE ~raced /\ NoManagerCycle /\ MovesSafe
  <2>1. NoManagerCycle'
    <3>1. ASSUME NEW W \in SUBSET Living', W # {}
          PROVE  \E v \in W : users'[v].mgr \notin W
      <4>1. PICK v \in W : users[v].mgr \notin W
        BY <1>2, <3>1 DEF NoManagerCycle, Living
      <4> QED  BY <4>1, <3>1 DEF Living
    <3> QED  BY <3>1 DEF NoManagerCycle, Living
  <2>2. ASSUME NEW f \in Edits, edits'[f].pc = "write", edits'[f].mgr # None,
               ~edits'[f].dirty
        PROVE  SafeMove(edits'[f].target, edits'[f].mgr)
    BY <1>2, <2>2 DEF MovesSafe
  <2>3. ASSUME NEW f \in Edits, edits'[f].pc = "write", edits'[f].mgr # None,
               ~edits'[f].dirty, NEW W \in SUBSET Living',
               edits'[f].target \in W, edits'[f].mgr \in W
        PROVE  \E v \in W \ {edits'[f].target} : users'[v].mgr \notin W
    <3>1. PICK v \in W \ {edits'[f].target} : users[v].mgr \notin W
      BY <2>2, <2>3 DEF SafeMove
    <3>2. v \in Users
      BY <2>3 DEF Living
    <3> QED  BY <3>1, <3>2
  <2>4. MovesSafe'
    BY <2>3 DEF MovesSafe, SafeMove
  <2> QED  BY <1>1, <2>1, <2>4 DEF NoRaceNoCycle
<1> QED  BY <1>1, <1>2 DEF CycleInv, NoRaceNoCycle

(* A link written from a walk that none has overtaken closes no circle.    *)
LEMMA MoveKeepsOrder ==
    ASSUME CycleInv, NEW e \in Edits, UpdateUserFields(e)
    PROVE  PathsRead' /\ NoRaceNoCycle'
<1> DEFINE t == edits[e].target
           m == edits[e].mgr
           r == chosen(edits[e].role, users[t].role)
           moves == live(t) /\ m # None
<1>1. /\ t \in Users /\ users \in [Users -> UserRow] /\ raced \in BOOLEAN
      /\ edits \in [Edits -> Edit] /\ edits[e].pc = "write" /\ m # t
  BY DEF UpdateUserFields, CycleInv, Inv, TypeOK, ChecksHold, Checked, HasRow
<1>2. /\ users' = IF live(t)
             THEN [users EXCEPT ![t].role = r, ![t].mgr = chosen(m, users[t].mgr)]
             ELSE users
      /\ raced' = (raced \/ (moves /\ edits[e].dirty))
      /\ edits' = [f \in Edits |->
             IF f = e THEN IdleEdit
             ELSE IF moves THEN overtaken(edits[f]) ELSE edits[f]]
  BY <1>1 DEF UpdateUserFields
<1>3. \A v \in Users : users'[v].st = users[v].st
  <2> HIDE DEF t, m, r
  <2> QED  BY <1>1, <1>2 DEF UserRow
<1>4. CASE ~moves
  <2>1. \A v \in Users : users'[v].mgr = users[v].mgr
    <3>1. live(t) => m = None
      BY <1>4
    <3> HIDE DEF t, m, r
    <3> QED  BY <1>1, <1>2, <3>1 DEF UserRow, chosen
  <2>2. /\ raced' = raced /\ edits'[e] = IdleEdit
        /\ \A f \in Edits \ {e} : edits'[f] = edits[f]
    <3> HIDE DEF moves
    <3> QED  BY <1>1, <1>2, <1>4
  <2>3. PathRead(e)' /\ edits'[e].pc # "write"
    BY <2>2 DEF PathRead, IdleEdit
  <2>4. \A v : HasRow(v) => users'[v].st # "none"
    BY <1>3 DEF HasRow
  <2>5. Living' \subseteq Living
    BY <1>3 DEF Living, live
  <2> QED  BY <2>1, <2>2, <2>3, <2>4, <2>5, OthersKeepOrder
<1>5. CASE moves
  <2>1. edits'[e].pc = "idle"
    BY <1>2 DEF IdleEdit
  <2>2. ASSUME NEW f \in Edits,
               \/ edits'[f].pc \in {"target", "climb"}
               \/ edits'[f].pc = "write" /\ edits'[f].mgr # None
        PROVE  edits'[f].dirty
    <3>1. f # e /\ edits'[f] = overtaken(edits[f])
      BY <1>2, <1>5, <2>1, <2>2
    <3>2. CASE edits[f] = IdleEdit
      BY <2>2, <3>1, <3>2 DEF overtaken, IdleEdit
    <3>3. CASE edits[f] \in OpenEdit
      BY <2>2, <3>1, <3>3 DEF overtaken, OpenEdit
    <3> QED  BY <1>1, <3>2, <3>3 DEF Edit, OpenEdit
  <2>3. PathsRead' /\ MovesSafe'
    BY <2>2 DEF PathsRead, PathRead, MovesSafe
  <2>4. CASE ~raced /\ ~edits[e].dirty
    <3>1. NoManagerCycle /\ SafeMove(t, m)
      BY <1>1, <1>5, <2>4 DEF CycleInv, NoRaceNoCycle, MovesSafe
    <3>2. users'[t].mgr = m /\ \A v \in Users \ {t} : users'[v].mgr = users[v].mgr
      <4>1. users' = [users EXCEPT ![t].role = r, ![t].mgr = m]
        BY <1>2, <1>5 DEF chosen
      <4> HIDE DEF t, m, r
      <4> QED  BY <1>1, <4>1 DEF UserRow
    <3>3. Living' = Living
      BY <1>3 DEF Living, live
    <3>4. ASSUME NEW W \in SUBSET Living, W # {}
          PROVE  \E u \in W : users'[u].mgr \notin W
      <4> HIDE DEF t, m, r
      <4>1. CASE t \in W /\ m \in W
        <5>1. PICK u \in W \ {t} : users[u].mgr \notin W
          BY <3>1, <4>1 DEF SafeMove
        <5> QED  BY <3>2, <5>1 DEF Living
      <4>2. CASE t \in W /\ m \notin W
        BY <3>2, <4>2
      <4>3. CASE t \notin W
        <5>1. PICK u \in W : users[u].mgr \notin W
          BY <3>1, <3>4 DEF NoManagerCycle, Living
        <5> QED  BY <3>2, <4>3, <5>1 DEF Living
      <4> QED  BY <4>1, <4>2, <4>3
    <3>5. NoManagerCycle'
      BY <3>3, <3>4 DEF NoManagerCycle, Living
    <3> QED  BY <2>3, <3>5 DEF NoRaceNoCycle
  <2>5. CASE raced \/ edits[e].dirty
    <3>1. raced'
      BY <1>1, <1>2, <1>5, <2>5
    <3> QED  BY <2>3, <3>1 DEF NoRaceNoCycle
  <2> QED  BY <2>4, <2>5
<1> QED  BY <1>4, <1>5

(* A call that begins has read nothing above a new manager yet.            *)
LEMMA BeginKeepsOrder ==
    ASSUME CycleInv, NEW e \in Edits, NEW kind \in {"update", "delete"},
           NEW caller \in Users, NEW target \in Users,
           NEW role \in NewRoles \cup {None}, NEW mgr \in Users \cup {None},
           begin(e, kind, caller, target, role, mgr)
    PROVE  PathsRead' /\ NoRaceNoCycle'
<1> DEFINE edit == [pc |-> "authorize", kind |-> kind, caller |-> caller,
                    target |-> target, role |-> role, mgr |-> mgr,
                    up |-> users[target].mgr, seen |-> {}, dirty |-> FALSE]
           next == IF isSuper(caller) \/ caller = target THEN goOn(edit) ELSE edit
<1>1. edits' = [edits EXCEPT ![e] = next] /\ UNCHANGED <<users, raced>>
  BY DEF begin
<1>2. next.pc \in {"authorize", "manager", "write"} /\ (next.pc = "write" => next.mgr = None)
  BY DEF goOn
<1>3. edits'[e] = next /\ \A f \in Edits \ {e} : edits'[f] = edits[f]
  BY <1>1 DEF CycleInv, Inv, TypeOK
<1> HIDE DEF next
<1>4. PathRead(e)' /\ (edits'[e].pc # "write" \/ edits'[e].mgr = None)
  BY <1>2, <1>3 DEF PathRead
<1>5. Living' \subseteq Living /\ \A v : HasRow(v) => users'[v].st # "none"
  BY <1>1 DEF Living, live, HasRow
<1> QED  BY <1>1, <1>3, <1>4, <1>5, OthersKeepOrder

(* A step of a call that moves nobody closes no circle.                    *)
LEMMA StepKeepsOrder ==
    ASSUME CycleInv, LowHierarchy, NEW e \in Edits, EditStep(e) \/ EditFails(e)
    PROVE  PathsRead' /\ NoRaceNoCycle'
<1>1. edits[e].pc # "idle"
  BY DEF EditStep, EditFails, WalkUp, Authorized, ReadManager, ReadTarget,
         NoDescendant, Denied, UpdateUserFields, DeleteUser
<1>2. Checked(e) /\ edits[e] \in OpenEdit /\ PathRead(e)
  BY <1>1, OpenEdits DEF CycleInv, Inv, ChecksHold, PathsRead
<1>3. ASSUME NEW next, edits' = [edits EXCEPT ![e] = next], UNCHANGED <<users, raced>>,
             PathRead(e)',
             raced \/ next.pc # "write" \/ next.mgr = None \/ next.dirty
                   \/ SafeMove(next.target, next.mgr)
      PROVE  PathsRead' /\ NoRaceNoCycle'
  <2>1. edits'[e] = next /\ \A f \in Edits \ {e} : edits'[f] = edits[f]
    BY <1>3 DEF CycleInv, Inv, TypeOK
  <2>2. Living' \subseteq Living /\ \A v : HasRow(v) => users'[v].st # "none"
    BY <1>3 DEF Living, live, HasRow
  <2> QED  BY <1>3, <2>1, <2>2, OthersKeepOrder
<1>4. CASE WalkUp(e)
  <2> DEFINE p == edits[e].up
             next == [edits[e] EXCEPT !.up = users[p].mgr, !.seen = @ \cup {p}]
  <2>1. edits' = [edits EXCEPT ![e] = next] /\ UNCHANGED <<users, raced>>
    BY <1>4 DEF WalkUp
  <2>2. /\ edits'[e] = next /\ next.pc = edits[e].pc /\ next.target = edits[e].target
        /\ next.mgr = edits[e].mgr /\ next.dirty = edits[e].dirty
        /\ next.up = users[p].mgr /\ next.seen = edits[e].seen \cup {p}
        /\ edits[e].pc \in {"authorize", "climb"}
    BY <1>2, <1>4, <2>1 DEF CycleInv, Inv, TypeOK, OpenEdit, WalkUp
  <2>3. edits[e].pc = "climb" => HasRow(p) /\ p # edits[e].target
    <3>1. p # goal(e) /\ live(p)
      BY <1>4 DEF WalkUp, arrived, stuck, exhausted
    <3> QED  BY <3>1 DEF goal, live, HasRow
  <2> HIDE DEF next
  <2>4. StaysAbove(e) /\ edits[e].pc = "climb" => StaysAbove(e)'
    <3>1. \A W \in ClosedAbove(edits[e].mgr) : Closed(W)
      BY DEF ClosedAbove
    <3>2. edits[e].pc = "climb" => p \in Users /\ p # None
      BY <2>3, ConstantsAssumption DEF HasRow
    <3>3. ClosedAbove(edits[e].mgr)' = ClosedAbove(edits[e].mgr)
      BY <2>1, <2>2 DEF ClosedAbove, Closed
    <3> QED  BY <2>2, <3>1, <3>2, <3>3 DEF StaysAbove, Closed
  <2>5. PathRead(e)'
    BY <1>2, <2>1, <2>2, <2>3, <2>4 DEF PathRead, HasRow
  <2> QED  BY <1>3, <2>1, <2>2, <2>5
<1>5. CASE Authorized(e)
  <2>1. edits' = [edits EXCEPT ![e] = goOn(edits[e])] /\ UNCHANGED <<users, raced>>
    BY <1>5 DEF Authorized
  <2>2. goOn(edits[e]).pc \in {"write", "manager"}
        /\ (goOn(edits[e]).pc = "write" => goOn(edits[e]).mgr = None)
    BY <1>2 DEF goOn, OpenEdit
  <2>3. PathRead(e)'
    BY <2>1, <2>2 DEF PathRead, CycleInv, Inv, TypeOK
  <2> QED  BY <1>3, <2>1, <2>2, <2>3
<1>6. CASE ReadManager(e)
  <2> DEFINE m == edits[e].mgr
             next == [edits[e] EXCEPT !.pc = "target", !.up = users[m].mgr]
  <2>1. edits' = [edits EXCEPT ![e] = next] /\ UNCHANGED <<users, raced>>
    BY <1>6 DEF ReadManager
  <2>2. /\ edits'[e] = next /\ next.pc = "target" /\ next.seen = {}
        /\ next.mgr = m /\ next.up = users[m].mgr
    BY <1>2, <1>6, <2>1 DEF CycleInv, Inv, TypeOK, OpenEdit, ReadManager, Checked
  <2> HIDE DEF next
  <2>3. StaysAbove(e)'
    BY <2>1, <2>2 DEF StaysAbove, ClosedAbove
  <2>4. PathRead(e)'
    BY <2>1, <2>2, <2>3 DEF PathRead
  <2> QED  BY <1>3, <2>1, <2>2, <2>4
<1>7. CASE ReadTarget(e)
  <2> DEFINE next == [edits[e] EXCEPT !.pc = "climb"]
  <2>1. edits' = [edits EXCEPT ![e] = next] /\ UNCHANGED <<users, raced>>
    BY <1>7 DEF ReadTarget
  <2>2. /\ edits'[e] = next /\ next.pc = "climb" /\ next.seen = edits[e].seen
        /\ next.mgr = edits[e].mgr /\ next.up = edits[e].up
        /\ next.target = edits[e].target /\ next.dirty = edits[e].dirty
        /\ edits[e].pc = "target"
    BY <1>2, <1>7, <2>1 DEF CycleInv, Inv, TypeOK, OpenEdit, ReadTarget
  <2> HIDE DEF next
  <2>3. StaysAbove(e)' <=> StaysAbove(e)
    BY <2>1, <2>2 DEF StaysAbove, ClosedAbove, Closed
  <2>4. PathRead(e)'
    BY <1>2, <2>1, <2>2, <2>3 DEF PathRead, HasRow
  <2> QED  BY <1>3, <2>1, <2>2, <2>4
<1>8. CASE NoDescendant(e)
  <2> DEFINE next == [edits[e] EXCEPT !.pc = "write", !.up = None, !.seen = {}]
  <2>1. edits' = [edits EXCEPT ![e] = next] /\ UNCHANGED <<users, raced>>
    BY <1>8 DEF NoDescendant
  <2>2. /\ edits'[e] = next /\ next.pc = "write" /\ next.dirty = edits[e].dirty
        /\ next.target = edits[e].target /\ next.mgr = edits[e].mgr
    BY <1>2, <1>8, <2>1 DEF CycleInv, Inv, TypeOK, OpenEdit
  <2> HIDE DEF next
  <2>3. PathRead(e)'
    BY <2>1, <2>2 DEF PathRead
  <2>4. raced \/ next.dirty \/ SafeMove(next.target, next.mgr)
    BY <1>8, <2>2, WalkProvesMoveSafe
  <2> QED  BY <1>3, <2>1, <2>3, <2>4
<1>9. CASE Denied(e) \/ EditFails(e)
  <2>1. edits' = [edits EXCEPT ![e] = IdleEdit] /\ UNCHANGED <<users, raced>>
    BY <1>9 DEF Denied, EditFails
  <2>2. PathRead(e)'
    BY <2>1 DEF PathRead, IdleEdit, CycleInv, Inv, TypeOK
  <2>3. IdleEdit.pc # "write"
    BY DEF IdleEdit
  <2> QED  BY <1>3, <2>1, <2>2, <2>3
<1>10. CASE DeleteUser(e)
  <2>1. /\ edits[e].target \in Users /\ users \in [Users -> UserRow]
        /\ users' = [users EXCEPT ![edits[e].target].st = "deleted"]
    BY <1>2, <1>10 DEF OpenEdit, CycleInv, Inv, TypeOK, DeleteUser
  <2>2. \A v \in Users : users'[v].mgr = users[v].mgr
    BY <2>1 DEF UserRow
  <2>3. \A v : HasRow(v) => users'[v].st # "none"
    BY <2>1 DEF HasRow, UserRow
  <2>4. Living' \subseteq Living
    BY <2>1 DEF Living, live, UserRow
  <2>5. /\ edits'[e] = IdleEdit /\ raced' = raced
        /\ \A f \in Edits \ {e} : edits'[f] = edits[f]
    BY <1>10 DEF DeleteUser, CycleInv, Inv, TypeOK
  <2>6. PathRead(e)' /\ edits'[e].pc # "write"
    BY <2>5 DEF PathRead, IdleEdit
  <2> QED  BY <2>2, <2>3, <2>4, <2>5, <2>6, OthersKeepOrder
<1> QED  BY <1>4, <1>5, <1>6, <1>7, <1>8, <1>9, <1>10, MoveKeepsOrder DEF EditStep

(* Every step keeps the walks sound and, without a race, the links.        *)
LEMMA NextCycleInv ==
    ASSUME CycleInv, LowHierarchy, [Next]_vars
    PROVE  CycleInv'
<1>0. Inv'
  BY NextInv DEF CycleInv
<1>1. CASE UNCHANGED vars
  <2>1. users' = users /\ edits' = edits /\ raced' = raced
    BY <1>1 DEF vars
  <2>2. PathsRead'
    BY <2>1 DEF CycleInv, PathsRead, PathRead, StaysAbove, ClosedAbove, Closed, HasRow
  <2>3. NoRaceNoCycle'
    BY <2>1 DEF CycleInv, NoRaceNoCycle, NoManagerCycle, MovesSafe, SafeMove,
                Living, live
  <2> QED  BY <1>0, <2>2, <2>3 DEF CycleInv
<1>2. ASSUME NEW u \in Users,
             Register(u) \/ \E creator, m \in Users : CreateEmployee(u, creator, m)
      PROVE  CycleInv'
  <2>1. PICK m \in Users \cup {None} : NewRow(u, m)
    BY <1>2, CreationShape DEF CycleInv
  <2> QED  BY <1>0, <2>1, CreationKeepsOrder DEF CycleInv
<1>3. ASSUME NEW e \in Edits, EditStep(e) \/ EditFails(e)
      PROVE  CycleInv'
  BY <1>0, <1>3, StepKeepsOrder DEF CycleInv
<1>4. ASSUME NEW e \in Edits, NEW caller \in Users, NEW target \in Users,
             NEW role \in NewRoles \cup {None}, NEW mgr \in Users \cup {None},
             BeginUpdate(e, caller, target, role, mgr)
      PROVE  CycleInv'
  BY <1>0, <1>4, BeginKeepsOrder DEF BeginUpdate, CycleInv
<1>5. ASSUME NEW e \in Edits, NEW caller \in Users, NEW target \in Users,
             BeginDelete(e, caller, target)
      PROVE  CycleInv'
  BY <1>0, <1>5, BeginKeepsOrder DEF BeginDelete, CycleInv
<1> QED  BY <1>1, <1>2, <1>3, <1>4, <1>5 DEF Next

(* At first there are no links and no walks.                               *)
LEMMA InitCycleInv == Init => CycleInv
<1> SUFFICES ASSUME Init PROVE CycleInv
  OBVIOUS
<1>1. \A e \in Edits : edits[e].pc = "idle"
  BY DEF Init, IdleEdit
<1>2. PathsRead /\ MovesSafe
  BY <1>1 DEF PathsRead, PathRead, MovesSafe
<1>3. \A u \in Users : users[u].mgr = None
  BY DEF Init
<1>4. NoManagerCycle
  <2>1. ASSUME NEW W \in SUBSET {u \in Users : live(u)}, W # {}
        PROVE  \E u \in W : users[u].mgr \notin W
    BY <1>3, <2>1, ConstantsAssumption
  <2> QED  BY <2>1 DEF NoManagerCycle
<1> QED  BY <1>2, <1>4, InitInv DEF CycleInv, NoRaceNoCycle

(* As long as nobody has more than WalkBound managers above him, the walks *)
(* of isDescendantOf do what they are for: a circle of managers takes two  *)
(* calls that overlap.                                                     *)
THEOREM LowHierarchyNoCycle == Spec /\ []LowHierarchy => []OnlyRacesMakeCycles
<1>1. Init => CycleInv
  BY InitCycleInv
<1>2. CycleInv /\ LowHierarchy /\ [Next]_vars => CycleInv'
  BY NextCycleInv
<1>3. CycleInv => OnlyRacesMakeCycles
  BY DEF CycleInv, NoRaceNoCycle, OnlyRacesMakeCycles
<1> QED  BY <1>1, <1>2, <1>3, PTL DEF Spec

(* A network of at most WalkBound users cannot grow higher than that, so   *)
(* there only calls that overlap make a circle.                            *)
COROLLARY OneAtATimeNoCycle ==
    Cardinality(Users) <= WalkBound => (Spec => []OnlyRacesMakeCycles)
<1> SUFFICES ASSUME Cardinality(Users) <= WalkBound
             PROVE  Spec => []OnlyRacesMakeCycles
  OBVIOUS
<1>1. LowHierarchy
  <2>1. ASSUME NEW u \in Users
        PROVE  Cardinality(Above(u)) <= WalkBound
    <3>1. Above(u) \in SUBSET Users
      BY DEF Above
    <3>2. /\ IsFiniteSet(Above(u)) /\ Cardinality(Above(u)) <= Cardinality(Users)
          /\ Cardinality(Above(u)) \in Nat /\ Cardinality(Users) \in Nat
      BY <3>1, ConstantsAssumption, FS_Subset, FS_CardinalityType
    <3> QED  BY <3>2, ConstantsAssumption
  <2> QED  BY <2>1 DEF LowHierarchy
<1> QED  BY <1>1, LowHierarchyNoCycle, PTL
=============================================================================
