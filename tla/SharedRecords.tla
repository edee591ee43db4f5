--------------------------- MODULE SharedRecords ---------------------------
(***************************************************************************)
(* Goals and checklists, which several users of a network change. A change *)
(* reads the row, is checked against it, alters the copy and saves all of  *)
(* it. A row that is gone by then is inserted again.                       *)
(*                                                                         *)
(* A row is a record of either kind; what a kind lacks is left alone:      *)
(*   owner     who assigned the goal or made the checklist                 *)
(*   network   the owner's, Nobody for a super administrator's             *)
(*   assignee  who has the goal, or is to do the checklist, if anybody     *)
(*   text      a goal's period with its dates, a checklist's description   *)
(*   status    a goal's figures, a checklist's status                      *)
(***************************************************************************)
EXTENDS Naturals, FiniteSets

CONSTANTS
  Callers,     \* who may call
  CallerRole,  \* the role of each user
  NetworkOf,   \* the network of each user; Nobody for a super administrator
  RecordIds,   \* bound: identifiers of the rows that are made
  GoalRoles,   \* bound: roles that are named when a goal is made
  Texts,       \* periods and descriptions
  Statuses,    \* figures and statuses
  completed,   \* the status of a completed checklist
  Calls,       \* requests in handling
  Nobody       \* no row, user, network or request

\* Every role may assign to the ones after it.
AssignOrder == <<"super_admin", "franchiser", "franchiser_manager", "dealer", "dealer_manager">>
canAssign(assigner, assignee) ==
  \E i, j \in DOMAIN AssignOrder : i < j /\ AssignOrder[i] = assigner /\ AssignOrder[j] = assignee

ASSUME RecordUsersAssumption ==
  /\ CallerRole \in [Callers -> {AssignOrder[i] : i \in DOMAIN AssignOrder}]
  /\ \A u \in Callers : NetworkOf[u] = Nobody <=> CallerRole[u] = "super_admin"
ASSUME RecordValuesAssumption == Nobody \notin Callers /\ completed \in Statuses

VARIABLES
  records,  \* the rows
  gone,     \* identifiers of the rows that were deleted
  request   \* what each request is about to do, and the row it read

recordVars == <<records, gone, request>>

RecordRow ==
  [kind : {"goal", "checklist"}, owner : Callers,
   network : {NetworkOf[u] : u \in Callers}, assignee : Callers \cup {Nobody},
   role : {AssignOrder[i] : i \in DOMAIN AssignOrder} \cup {Nobody},
   text : Texts, status : Statuses]

Doing ==
  [op : {"save"}, id : RecordIds, row : RecordRow]
    \cup [op : {"complete", "delete"}, id : RecordIds]

RecordsTypeOK ==
  /\ records \in [RecordIds -> RecordRow \cup {Nobody}]
  /\ gone \subseteq RecordIds
  /\ request \in [Calls -> Doing \cup {Nobody}]

RecordsInit ==
  /\ records = [i \in RecordIds |-> Nobody] /\ gone = {}
  /\ request = [c \in Calls |-> Nobody]

(* -------------------------------- checks --------------------------------- *)

IsSuper(u) == CallerRole[u] = "super_admin"

\* A checklist may be given to nobody, a super administrator, or a colleague.
ValidateAssignee(a, network) ==
  a # Nobody => IsSuper(a) \/ (network # Nobody /\ NetworkOf[a] = network)

checklistOwnedByCaller(u, r) ==
  \/ IsSuper(u)
  \/ r.owner = u
  \/ r.assignee = u /\ (r.network = Nobody \/ NetworkOf[u] = Nobody \/ r.network = NetworkOf[u])

InNetwork(u, r) == r.network # Nobody /\ NetworkOf[u] = r.network

MayChangeGoal(u, r) ==
  \/ IsSuper(u)
  \/ /\ r.owner = u \/ (InNetwork(u, r) /\ canAssign(CallerRole[u], r.role))
     /\ r.network # Nobody => InNetwork(u, r)

MayDeleteGoal(u, r) ==
  \/ IsSuper(u)
  \/ r.owner = u
  \/ InNetwork(u, r) /\ canAssign(CallerRole[u], r.role)

\* idx_goals_assignee_period_dates, which the database keeps.
PeriodTaken(id, r) ==
  \E i \in RecordIds \ {id} :
    /\ r.kind = "goal" /\ records[i] # Nobody /\ records[i].kind = "goal"
    /\ records[i].assignee = r.assignee /\ records[i].text = r.text

(* ------------------------------- creations ------------------------------- *)

Unused(id) == records[id] = Nobody /\ id \notin gone

CreateChecklist(u, id, a, t, s) ==
  /\ Unused(id) /\ s # completed
  /\ ValidateAssignee(a, NetworkOf[u])
  /\ records' = [records EXCEPT ![id] =
       [kind |-> "checklist", owner |-> u, network |-> NetworkOf[u], assignee |-> a,
        role |-> Nobody, text |-> t, status |-> s]]
  /\ UNCHANGED <<gone, request>>

\* The role is the one the caller names.
CreateGoal(u, id, a, role, t, s) ==
  /\ Unused(id)
  /\ canAssign(CallerRole[u], role)
  /\ IsSuper(u) \/ NetworkOf[a] = NetworkOf[u]
  /\ LET r == [kind |-> "goal", owner |-> u, network |-> NetworkOf[u], assignee |-> a,
               role |-> role, text |-> t, status |-> s] IN
     /\ ~PeriodTaken(id, r)
     /\ records' = [records EXCEPT ![id] = r]
  /\ UNCHANGED <<gone, request>>

(* ---------------------- reading, checking, altering ---------------------- *)

Reads(c, id, kind) == request[c] = Nobody /\ records[id] # Nobody /\ records[id].kind = kind

Holds(c, doing) ==
  /\ request' = [request EXCEPT ![c] = doing]
  /\ UNCHANGED <<records, gone>>

Saves(c, id, row) ==
  Holds(c, [op |-> "save", id |-> id, row |-> row])

UpdateChecklistStatus(c, u, id, s) ==
  /\ Reads(c, id, "checklist") /\ checklistOwnedByCaller(u, records[id])
  /\ Saves(c, id, [records[id] EXCEPT !.status = s])

\* The mutated form: a super administrator assigns to whom he likes.
UpdateChecklistFreely(c, u, id, a, t, s) ==
  /\ Reads(c, id, "checklist") /\ checklistOwnedByCaller(u, records[id])
  /\ IsSuper(u) \/ ValidateAssignee(a, NetworkOf[u])
  /\ Saves(c, id, [records[id] EXCEPT !.assignee = a, !.text = t, !.status = s])

\* Assignee and description are sent always; the form sends the status too.
UpdateChecklist(c, u, id, a, t, s) ==
  /\ Reads(c, id, "checklist") /\ checklistOwnedByCaller(u, records[id])
  /\ ValidateAssignee(a, NetworkOf[u])
  /\ Saves(c, id, [records[id] EXCEPT !.assignee = a, !.text = t, !.status = s])

CompleteChecklist(c, u, id) ==
  /\ Reads(c, id, "checklist") /\ checklistOwnedByCaller(u, records[id])
  /\ Holds(c, [op |-> "complete", id |-> id])

\* The mutated form: the error of the second read is passed over.
CompleteUnfound(c) ==
  /\ request[c] # Nobody /\ request[c].op = "complete"
  /\ LET id == request[c].id IN
     Saves(c, id, IF records[id] = Nobody THEN Nobody
                  ELSE [records[id] EXCEPT !.status = completed])

\* The service reads the row a second time, and a row that is gone is an error.
CompleteReads(c) ==
  /\ request[c] # Nobody /\ request[c].op = "complete"
  /\ LET id == request[c].id IN
     \/ records[id] = Nobody /\ Holds(c, Nobody)
     \/ records[id] # Nobody
          /\ Saves(c, id, [records[id] EXCEPT !.status = completed])

\* Only what was sent is altered in the copy.
UpdateGoal(c, u, id, given, t, s) ==
  /\ Reads(c, id, "goal") /\ MayChangeGoal(u, records[id])
  /\ Saves(c, id, [records[id] EXCEPT !.text = IF "text" \in given THEN t ELSE @,
                                    !.status = IF "status" \in given THEN s ELSE @])

Delete(c, u, id) ==
  /\ \/ Reads(c, id, "checklist") /\ checklistOwnedByCaller(u, records[id])
     \/ Reads(c, id, "goal") /\ MayDeleteGoal(u, records[id])
  /\ Holds(c, [op |-> "delete", id |-> id])

(* ------------------------------- the writes ------------------------------ *)

\* The whole copy, whatever the row is by now; one that is gone is inserted.
Save(c) ==
  /\ request[c] # Nobody /\ request[c].op = "save"
  /\ ~PeriodTaken(request[c].id, request[c].row)
  /\ records' = [records EXCEPT ![request[c].id] = request[c].row]
  /\ request' = [request EXCEPT ![c] = Nobody]
  /\ UNCHANGED gone

DeleteRow(c) ==
  /\ request[c] # Nobody /\ request[c].op = "delete"
  /\ records' = [records EXCEPT ![request[c].id] = Nobody]
  /\ gone' = gone \cup {request[c].id}
  /\ request' = [request EXCEPT ![c] = Nobody]

\* The database refuses, or cannot be reached.
WriteFails(c) == request[c] # Nobody /\ Holds(c, Nobody)

RecordsNext ==
  \/ \E u \in Callers, id \in RecordIds, t \in Texts, s \in Statuses :
       \/ \E a \in Callers \cup {Nobody} : CreateChecklist(u, id, a, t, s)
       \/ \E a \in Callers, role \in GoalRoles : CreateGoal(u, id, a, role, t, s)
       \/ \E c \in Calls, a \in Callers \cup {Nobody} : UpdateChecklist(c, u, id, a, t, s)
       \/ \E c \in Calls, given \in SUBSET {"text", "status"} : UpdateGoal(c, u, id, given, t, s)
       \/ \E c \in Calls : UpdateChecklistStatus(c, u, id, s)
  \/ \E c \in Calls, u \in Callers, id \in RecordIds : CompleteChecklist(c, u, id) \/ Delete(c, u, id)
  \/ \E c \in Calls : CompleteReads(c) \/ Save(c) \/ DeleteRow(c) \/ WriteFails(c)

RecordsSpec == RecordsInit /\ [][RecordsNext]_recordVars

(* ------------------------------ properties ------------------------------- *)

\* Whoever changes a record, and whichever old copy is saved over a newer one,
\* the record of a network is given to a colleague, to a super administrator
\* or to nobody: a change checks the assignee against the network of its
\* caller, not of the record.
AssigneeInNetwork ==
  \A id \in RecordIds :
    LET r == records[id] IN
    r # Nobody /\ r.network # Nobody => ValidateAssignee(r.assignee, r.network)

=============================================================================
