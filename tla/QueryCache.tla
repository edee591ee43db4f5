----------------------------- MODULE QueryCache -----------------------------
(***************************************************************************)
(* The lists the web client keeps in RTK Query: which endpoint provides    *)
(* which tags, which mutation invalidates which, and which components show *)
(* a list, offer mutations of its rows and ask for it again after a save.  *)
(*                                                                         *)
(* A list is the set of its rows' ids and the version of the server's      *)
(* table it was read at. The library (1.9.7) is modelled from how these    *)
(* endpoints use it: an invalidated entry somebody shows is fetched again  *)
(* at once, unless a fetch of it is pending; one nobody shows is dropped.  *)
(***************************************************************************)
EXTENDS Naturals, FiniteSets

CONSTANTS
  Rows,        \* ids a table may give to its rows
  Components,  \* the components a behaviour may show, by name
  MaxVersion,  \* bound: changes of a table
  MaxSaves     \* bound: mutations on the wire

ASSUME RowsAssumption == Rows # {} /\ IsFiniteSet(Rows)
ASSUME BoundsAssumption == MaxVersion \in Nat /\ MaxSaves \in Nat

AnyId == "any"   \* a tag without an id: it stands for the whole type
LIST == "LIST"   \* the id some APIs give to the list itself
NewRow == "new"  \* a row the server has yet to give an id
Tag(type, id) == <<type, id>>

(* ------------------------------ endpoints ------------------------------ *)

\* The tag type each query provides and the table of the server it reads.
TypeOf == [getNotifications |-> "Notification", getChecklists |-> "Checklist",
           getLeads |-> "Lead", getDealers |-> "Dealer", getEmployees |-> "Employee",
           getSalons |-> "Salon", getUnitTemplates |-> "UnitTemplate",
           getTasks |-> "Tasks", getRequests |-> "Requests", getReportHistory |-> "Reports",
           getAlerts |-> "Alerts", getUnreadAlerts |-> "Alerts",
           getAlertSettings |-> "AlertSettings", getPlans |-> "Plan",
           getVisibleGoals |-> "Goal", getMyGoal |-> "Goal", getMyProfile |-> "UserProfile"]

Queries == DOMAIN TypeOf
Tables == {TypeOf[q] : q \in Queries}

\* Lists tagged with each row and with the type; a failed fetch provides the
\* type alone.
RowTagged(type, rows) == {Tag(type, r) : r \in rows} \cup {Tag(type, AnyId)}

\* The dealer's endpoints provide their type and nothing finer.
TypeTagged == {"getTasks", "getRequests", "getReportHistory", "getAlerts",
               "getUnreadAlerts", "getAlertSettings"}

PlanTags(rows) == {Tag("Plan", LIST)} \cup {Tag("Plan", r) : r \in rows}

\* Goals and the profile provide the ids of the result, and nothing without one.
GoalTags(rows) == {Tag("Goal", r) : r \in rows}
ProfileTags(rows) == {Tag("UserProfile", r) : r \in rows}

\* What a query provides after a result with these rows; {} for a failure.
Provides(q, rows) ==
  CASE q \in TypeTagged                       -> {Tag(TypeOf[q], AnyId)}
    [] q = "getPlans"                         -> PlanTags(rows)
    [] q \in {"getVisibleGoals", "getMyGoal"} -> GoalTags(rows)
    [] q = "getMyProfile"                     -> ProfileTags(rows)
    [] OTHER                                  -> RowTagged(TypeOf[q], rows)

\* A mutation: what it does to a row, of which tables, and the tags it
\* invalidates: the type, the row saved, or the id LIST.
Mutation(does, tables, invalidates) ==
  [does |-> does, tables |-> tables, invalidates |-> invalidates]

NotificationApi == [readNotification |-> Mutation("update", {"Notification"}, {AnyId})]
ChecklistApi ==
  [createChecklist |-> Mutation("create", {"Checklist"}, {AnyId}),
   updateChecklist |-> Mutation("update", {"Checklist"}, {"row"}),
   deleteChecklist |-> Mutation("delete", {"Checklist"}, {AnyId})]
LeadApi ==
  [createLead       |-> Mutation("create", {"Lead"}, {AnyId}),
   updateLeadStatus |-> Mutation("update", {"Lead"}, {"row"}),
   addLeadActivity  |-> Mutation("update", {"Lead"}, {"row"})]
EmployeeApi ==
  [createEmployee |-> Mutation("create", {"Employee"}, {AnyId}),
   updateEmployee |-> Mutation("update", {"Employee"}, {"row"}),
   deleteEmployee |-> Mutation("delete", {"Employee"}, {AnyId})]

\* The mutated form: a new salon names itself, as a changed one does.
SalonApiNewRow ==
  [createSalon   |-> Mutation("create", {"Salon"}, {"row"}),
   assignManager |-> Mutation("update", {"Employee", "Salon"}, {AnyId}),
   updateSalon   |-> Mutation("update", {"Salon"}, {"row"}),
   deleteSalon   |-> Mutation("delete", {"Salon"}, {AnyId})]

SalonApi ==
  [createSalon   |-> Mutation("create", {"Salon"}, {AnyId}),
   assignManager |-> Mutation("update", {"Employee", "Salon"}, {AnyId}),
   updateSalon   |-> Mutation("update", {"Salon"}, {"row"}),
   deleteSalon   |-> Mutation("delete", {"Salon"}, {AnyId})]
TemplateApi ==
  [createUnitTemplate |-> Mutation("create", {"UnitTemplate"}, {AnyId}),
   deleteUnitTemplate |-> Mutation("delete", {"UnitTemplate"}, {AnyId})]
DealerApi ==
  [updateTaskStatus |-> Mutation("update", {"Tasks"}, {AnyId}),
   addTaskComment   |-> Mutation("update", {"Tasks"}, {AnyId}),
   createRequest    |-> Mutation("create", {"Requests"}, {AnyId})]
ReportApi ==
  [createReport        |-> Mutation("create", {"Reports"}, {AnyId}),
   markAlertRead       |-> Mutation("update", {"Alerts"}, {AnyId}),
   updateAlertSettings |-> Mutation("update", {"AlertSettings"}, {AnyId})]
PlanApi ==
  [createPlan |-> Mutation("create", {"Plan"}, {LIST}),
   updatePlan |-> Mutation("update", {"Plan"}, {"row"}),
   deletePlan |-> Mutation("delete", {"Plan"}, {LIST})]
GoalApi ==
  [setGoal    |-> Mutation("create", {"Goal"}, {LIST}),
   updateGoal |-> Mutation("update", {"Goal"}, {LIST}),
   deleteGoal |-> Mutation("delete", {"Goal"}, {LIST})]
UserApi == [updateProfile |-> Mutation("update", {"UserProfile"}, {"row"})]

Api(m) ==
  CASE m \in DOMAIN NotificationApi -> NotificationApi[m]
    [] m \in DOMAIN ChecklistApi    -> ChecklistApi[m]
    [] m \in DOMAIN LeadApi         -> LeadApi[m]
    [] m \in DOMAIN EmployeeApi     -> EmployeeApi[m]
    [] m \in DOMAIN SalonApi        -> SalonApi[m]
    [] m \in DOMAIN TemplateApi     -> TemplateApi[m]
    [] m \in DOMAIN DealerApi       -> DealerApi[m]
    [] m \in DOMAIN ReportApi       -> ReportApi[m]
    [] m \in DOMAIN PlanApi         -> PlanApi[m]
    [] m \in DOMAIN GoalApi         -> GoalApi[m]
    [] OTHER                        -> UserApi[m]

\* The tags a mutation of row r names.
Invalidated(m, r) ==
  {Tag(t, IF i = "row" THEN r ELSE i) : t \in Api(m).tables, i \in Api(m).invalidates}

\* A tag without an id names every provider of its type.
Names(tag, provided) ==
  IF tag[2] = AnyId THEN \E p \in provided : p[1] = tag[1] ELSE tag \in provided

(* ------------------------------ components ------------------------------ *)

\* What a component shows, which mutations its buttons and forms send, and
\* which queries it asks for again by itself after one of them succeeds.
Component(shows, sends, refetches) ==
  [shows |-> shows, sends |-> sends, refetches |-> refetches]

ChecklistBoard ==
  Component({"getChecklists"}, {"createChecklist", "updateChecklist", "deleteChecklist"},
            {"getChecklists"})
GoalList ==
  Component({"getVisibleGoals"}, {"setGoal", "updateGoal", "deleteGoal"}, {"getVisibleGoals"})
GoalCard == Component({"getMyGoal"}, {}, {})
PlanList == Component({"getPlans"}, {"createPlan", "updatePlan", "deletePlan"}, {"getPlans"})
SalonManagerWidget ==
  Component({"getSalons", "getEmployees"},
            {"createSalon", "updateSalon", "deleteSalon", "assignManager"}, {})
SalonsPage == Component({"getSalons"}, {"createSalon"}, {})
SalonFunnelTab == Component({"getLeads"}, {"createLead", "updateLeadStatus"}, {"getLeads"})
ProfitTab == Component({"getUnitTemplates"}, {"createUnitTemplate"}, {})
ProfilePage == Component({"getMyProfile"}, {"updateProfile"}, {})

ComponentNamed(c) ==
  CASE c = "ChecklistBoard"     -> ChecklistBoard
    [] c = "GoalList"           -> GoalList
    [] c = "GoalCard"           -> GoalCard
    [] c = "PlanList"           -> PlanList
    [] c = "SalonManagerWidget" -> SalonManagerWidget
    [] c = "SalonsPage"         -> SalonsPage
    [] c = "SalonFunnelTab"     -> SalonFunnelTab
    [] c = "ProfitTab"          -> ProfitTab
    [] OTHER                    -> ProfilePage

(* -------------------------------- state -------------------------------- *)

VARIABLES
  component,       \* the component this behaviour is about
  componentShown,  \* whether it is on the screen
  database,        \* each table: its rows, the ids it has given and how often it changed
  entry,           \* the cache: what each query holds, and for which tags
  fetch,           \* the fetch of each query: idle, sent, or the result on its way
  saves,           \* mutations on the wire
  told,            \* the version of each table the browser knows its own changes by
  overtaken        \* entries whose fetch was pending when a save of theirs succeeded

cacheVars == <<component, componentShown, database, entry, fetch, saves, told, overtaken>>

Shows == ComponentNamed(component).shows
Sends == ComponentNamed(component).sends

NoEntry == [status |-> "none", version |-> 0, rows |-> {}, tags |-> {}]
Idle == [at |-> "idle", version |-> 0, rows |-> {}]
Sent == [at |-> "sent", version |-> 0, rows |-> {}]

\* A query's fetch is pending from its start until its answer is taken.
Pending(q) == fetch[q].at # "idle"

\* Tables start empty, but for the one profile the server has of the user.
FirstRows(t) == IF t = "UserProfile" THEN {CHOOSE r \in Rows : TRUE} ELSE {}

CacheInit ==
  /\ component \in Components
  /\ componentShown = FALSE
  /\ database = [t \in Tables |-> [version |-> 0, rows |-> FirstRows(t), given |-> FirstRows(t)]]
  /\ entry = [q \in Queries |-> NoEntry]
  /\ fetch = [q \in Queries |-> Idle]
  /\ saves = {}
  /\ told = [t \in Tables |-> 0]
  /\ overtaken = {}

(* ------------------------------- actions ------------------------------- *)

\* The component appears: a query with no entry is fetched, one with an entry
\* is shown as it is.
Mount ==
  /\ ~componentShown
  /\ componentShown' = TRUE
  /\ fetch' = [q \in Queries |-> IF q \in Shows /\ entry[q].status = "none" /\ ~Pending(q)
                                   THEN Sent ELSE fetch[q]]
  /\ UNCHANGED <<component, database, entry, saves, told, overtaken>>

Unmount ==
  /\ componentShown
  /\ componentShown' = FALSE
  /\ UNCHANGED <<component, database, entry, fetch, saves, told, overtaken>>

\* An entry nobody shows is dropped after a minute, with its fetch.
Expire(q) ==
  /\ ~componentShown
  /\ entry[q].status # "none" \/ Pending(q)
  /\ entry' = [entry EXCEPT ![q] = NoEntry]
  /\ fetch' = [fetch EXCEPT ![q] = Idle]
  /\ overtaken' = overtaken \ {q}
  /\ UNCHANGED <<component, componentShown, database, saves, told>>

\* The button that asks for the list again; a pending fetch is left alone.
Refetch ==
  /\ componentShown
  /\ ComponentNamed(component).refetches # {}
  /\ \E q \in ComponentNamed(component).refetches :
       ~Pending(q) /\ fetch' = [fetch EXCEPT ![q] = Sent]
  /\ UNCHANGED <<component, componentShown, database, entry, saves, told, overtaken>>

\* The server reads the table for a fetch.
ServerReads(q) ==
  /\ fetch[q].at = "sent"
  /\ fetch' = [fetch EXCEPT ![q] = [at |-> "read", version |-> database[TypeOf[q]].version,
                                    rows |-> database[TypeOf[q]].rows]]
  /\ UNCHANGED <<component, componentShown, database, entry, saves, told, overtaken>>

QueryFulfilled(q) ==
  /\ fetch[q].at = "read"
  /\ entry' = [entry EXCEPT ![q] = [status |-> "done", version |-> fetch[q].version,
                                    rows |-> fetch[q].rows,
                                    tags |-> Provides(q, fetch[q].rows)]]
  /\ fetch' = [fetch EXCEPT ![q] = Idle]
  /\ overtaken' = IF fetch[q].version >= told[TypeOf[q]] THEN overtaken \ {q} ELSE overtaken
  /\ UNCHANGED <<component, componentShown, database, saves, told>>

\* A failed fetch leaves the rows shown and provides what a result without
\* rows does.
QueryRejected(q) ==
  /\ Pending(q)
  /\ entry' = [entry EXCEPT ![q].status = "failed", ![q].tags = Provides(q, {})]
  /\ fetch' = [fetch EXCEPT ![q] = Idle]
  /\ UNCHANGED <<component, componentShown, database, saves, told, overtaken>>

\* The user saves: a new row, or one of the rows a list on the screen has.
SendSave(m, r) ==
  /\ componentShown /\ m \in Sends
  /\ Cardinality(saves) < MaxSaves
  /\ IF Api(m).does = "create" THEN r = NewRow
       ELSE \E q \in Shows : TypeOf[q] \in Api(m).tables /\ r \in entry[q].rows
  /\ saves' = saves \cup {[mutation |-> m, row |-> r, at |-> "sent", version |-> told]}
  /\ UNCHANGED <<component, componentShown, database, entry, fetch, told, overtaken>>

\* The id a table gives next, of those it never gave: which one makes no difference.
Fresh(t) ==
  LET left == Rows \ database[t].given
  IN IF left = {} THEN {} ELSE {CHOOSE r \in left : TRUE}

\* An id is given once: no row ever has the id of one that was deleted.
Changed(table, does, r) ==
  [version |-> table.version + 1,
   rows |-> CASE does = "create" -> table.rows \cup {r}
              [] does = "delete" -> table.rows \ {r}
              [] OTHER           -> table.rows,
   given |-> IF does = "create" THEN table.given \cup {r} ELSE table.given]

\* The server does what a mutation asks, in all its tables at once.
ServerApplies(s) ==
  LET m == Api(s.mutation) IN
  \E r \in Rows :
    /\ s.at = "sent"
    /\ \A t \in m.tables : database[t].version < MaxVersion
    /\ IF m.does = "create" THEN \A t \in m.tables : r \in Fresh(t)
       ELSE r = s.row /\ \E t \in m.tables : r \in database[t].rows
    /\ database' = [t \in Tables |-> IF t \in m.tables THEN Changed(database[t], m.does, r)
                                   ELSE database[t]]
    /\ saves' = (saves \ {s}) \cup
         {[s EXCEPT !.at = "applied", !.row = r,
                    !.version = [t \in Tables |-> database'[t].version]]}
    /\ UNCHANGED <<component, componentShown, entry, fetch, told, overtaken>>

\* Another browser adds or removes a row of a table on the screen.
OthersChange ==
  \E t \in {TypeOf[q] : q \in Shows} \ {"UserProfile"}, does \in {"create", "delete"}, r \in Rows :
    /\ database[t].version < MaxVersion
    /\ r \in IF does = "create" THEN Fresh(t) ELSE database[t].rows
    /\ database' = [database EXCEPT ![t] = Changed(database[t], does, r)]
    /\ UNCHANGED <<component, componentShown, entry, fetch, saves, told, overtaken>>

\* Entries a settled save touches: those with a tag it names. What nobody shows
\* is dropped; what is shown and not pending is fetched again.
Touched(s) ==
  {q \in Queries : \E tag \in Invalidated(s.mutation, s.row) : Names(tag, entry[q].tags)}

Invalidate(touched, asked) ==
  LET dropped == IF componentShown THEN {} ELSE touched
      again == {q \in (IF componentShown THEN touched ELSE {}) \cup asked : ~Pending(q)}
  IN /\ entry' = [q \in Queries |-> IF q \in dropped THEN NoEntry ELSE entry[q]]
     /\ fetch' = [q \in Queries |-> IF q \in dropped THEN Idle
                                    ELSE IF q \in again THEN Sent ELSE fetch[q]]

\* A save succeeds: its tags are invalidated, then the handler of a component
\* still on the screen asks for its own queries again.
SaveFulfilled(s) ==
  /\ s.at = "applied"
  /\ saves' = saves \ {s}
  /\ Invalidate(Touched(s), IF componentShown THEN ComponentNamed(component).refetches ELSE {})
  /\ told' = [t \in Tables |-> IF t \in Api(s.mutation).tables /\ s.version[t] > told[t]
                               THEN s.version[t] ELSE told[t]]
  /\ overtaken' = overtaken \cup {q \in Queries : Pending(q) /\ TypeOf[q] \in Api(s.mutation).tables}
  /\ UNCHANGED <<component, componentShown, database>>

\* A save is refused or lost. Its tags are invalidated all the same (those of
\* the profile need a result); the handler only reports.
SaveRejected(s) ==
  /\ saves' = saves \ {s}
  /\ Invalidate(IF s.mutation = "updateProfile" THEN {} ELSE Touched(s), {})
  /\ UNCHANGED <<component, componentShown, database, told, overtaken>>

CacheNext ==
  \/ Mount
  \/ Unmount
  \/ \E q \in Queries : Expire(q)
  \/ Refetch
  \/ \E q \in Queries : ServerReads(q)
  \/ \E q \in Queries : QueryFulfilled(q)
  \/ \E q \in Queries : QueryRejected(q)
  \/ \E m \in Sends, r \in Rows \cup {NewRow} : SendSave(m, r)
  \/ \E s \in saves : ServerApplies(s)
  \/ OthersChange
  \/ \E s \in saves : SaveFulfilled(s)
  \/ \E s \in saves : SaveRejected(s)

CacheSpec == CacheInit /\ [][CacheNext]_cacheVars

(* ------------------------------ properties ------------------------------ *)

\* Every variable has its type.
CacheTypeOK ==
  /\ component \in Components
  /\ componentShown \in BOOLEAN
  /\ database \in [Tables -> [version : 0..MaxVersion, rows : SUBSET Rows, given : SUBSET Rows]]
  /\ DOMAIN entry = Queries
  /\ \A q \in Queries :
       /\ entry[q].status \in {"none", "done", "failed"}
       /\ entry[q].version \in 0..MaxVersion
       /\ entry[q].rows \subseteq Rows
       /\ entry[q].tags \subseteq {TypeOf[q]} \X (Rows \cup {AnyId, LIST})
  /\ fetch \in [Queries -> [at : {"idle", "sent", "read"}, version : 0..MaxVersion,
                            rows : SUBSET Rows]]
  /\ saves \subseteq [mutation : Sends, row : Rows \cup {NewRow}, at : {"sent", "applied"},
                      version : [Tables -> 0..MaxVersion]]
  /\ told \in [Tables -> 0..MaxVersion]
  /\ overtaken \subseteq Queries

\* A list that was read and is at rest shows every change its own browser was
\* told had succeeded, unless a fetch was already pending at that moment. The
\* goals are left out: their saves name a tag no query provides.
ReadsOwnWrites ==
  \A q \in Shows \ {"getVisibleGoals", "getMyGoal"} :
    componentShown /\ entry[q].status = "done" /\ ~Pending(q) /\ q \notin overtaken
      => entry[q].version >= told[TypeOf[q]]
=============================================================================
