----------------------------- MODULE ListProofs -----------------------------
(***************************************************************************)
(* Two lists that follow the server, for any rows, saves and calls on the  *)
(* wire: the lists of the RTK Query cache, whose saves name what they make *)
(* stale, and the administrator's table of networks, whose handlers ask    *)
(* for it again.                                                           *)
(***************************************************************************)
EXTENDS QueryCache, TenantAdmin, TLAPS

(* ---------------------------- the RTK cache ---------------------------- *)

\* The lists the property is about.
CachedLists == Shows \ {"getVisibleGoals", "getMyGoal"}

\* What a save may be for: a row the server has, or one it is to make.
SaveRows == Rows \cup {NewRow}

\* A save that names the row it was for, and so only lists that had the row.
NamesItsRow(s) == "row" \in Api(s.mutation).invalidates

EntryRecord ==
  [status : {"none", "done", "failed"}, version : 0..MaxVersion, rows : SUBSET Rows,
   tags : SUBSET (Tables \X (Rows \cup {AnyId, LIST}))]

CacheTyped == CacheTypeOK /\ entry \in [Queries -> EntryRecord]

\* A result is done with the tags of its rows.
TagsOfRows ==
  \A q \in Queries : entry[q].status = "done" => entry[q].tags = Provides(q, entry[q].rows)

\* Nobody has heard of a version the server has not reached.
NothingEarly ==
  /\ \A t \in Tables : told[t] <= database[t].version
  /\ \A q \in Queries : fetch[q].at = "read" => fetch[q].version <= database[TypeOf[q]].version
  /\ \A s \in saves, t \in Tables : s.at = "applied" => s.version[t] <= database[t].version

\* Nor of a row whose id the server has not given.
RowsWereGiven ==
  /\ \A t \in Tables : database[t].rows \subseteq database[t].given
  /\ \A q \in Queries : entry[q].rows \cup fetch[q].rows \subseteq database[TypeOf[q]].given
  /\ \A s \in saves : NamesItsRow(s) =>
       \A t \in Api(s.mutation).tables : s.row \in database[t].given

\* A row that a later reading lacks is gone.
RowsGone ==
  \A q \in Queries : fetch[q].at = "read"
    => entry[q].rows \cap database[TypeOf[q]].rows \subseteq fetch[q].rows

\* Rows read at a version have the row of a save, or it is gone, or they were
\* read after the server did what was asked.
HasRowOf(s, table, rows, version) ==
  \/ s.row \in rows
  \/ s.at = "sent" /\ s.row \notin database[table].rows
  \/ s.at = "applied" /\ version >= s.version[table]

SavesAreNoticed ==
  \A q \in Shows, s \in saves : NamesItsRow(s) /\ TypeOf[q] \in Api(s.mutation).tables =>
    /\ entry[q].status = "done" => HasRowOf(s, TypeOf[q], entry[q].rows, entry[q].version)
    /\ fetch[q].at = "read" => HasRowOf(s, TypeOf[q], fetch[q].rows, fetch[q].version)

\* What is shown, and what is on its way, is at least what the browser was told
\* of, but for the entries overtaken.
ListsAreFresh ==
  \A q \in CachedLists \ overtaken :
    /\ entry[q].status = "done" /\ ~Pending(q) => entry[q].version >= told[TypeOf[q]]
    /\ fetch[q].at = "read" => fetch[q].version >= told[TypeOf[q]]

CacheInv ==
  /\ CacheTyped /\ TagsOfRows /\ NothingEarly /\ RowsWereGiven /\ RowsGone
  /\ SavesAreNoticed /\ ListsAreFresh

\* What the mutations of the components do, and which tags they name.
LEMMA Mutations ==
  /\ \A m \in {"createChecklist", "deleteChecklist", "updateChecklist"} :
       Api(m).tables = {"Checklist"}
  /\ \A m \in {"setGoal", "updateGoal", "deleteGoal"} : Api(m).tables = {"Goal"}
  /\ \A m \in {"createPlan", "deletePlan", "updatePlan"} : Api(m).tables = {"Plan"}
  /\ \A m \in {"createSalon", "deleteSalon", "updateSalon"} : Api(m).tables = {"Salon"}
  /\ Api("assignManager").tables = {"Employee", "Salon"}
  /\ \A m \in {"createLead", "updateLeadStatus"} : Api(m).tables = {"Lead"}
  /\ Api("createUnitTemplate").tables = {"UnitTemplate"}
  /\ Api("updateProfile").tables = {"UserProfile"}
  /\ \A m \in {"createChecklist", "deleteChecklist", "createSalon", "deleteSalon",
               "assignManager", "createLead", "createUnitTemplate"} :
       Api(m).invalidates = {AnyId}
  /\ \A m \in {"createPlan", "deletePlan", "setGoal", "updateGoal", "deleteGoal"} :
       Api(m).invalidates = {LIST}
  /\ \A m \in {"updateChecklist", "updatePlan", "updateSalon", "updateLeadStatus",
               "updateProfile"} :
       Api(m).invalidates = {"row"} /\ Api(m).does = "update"
<1> USE DEF Mutation, NotificationApi, ChecklistApi, LeadApi, EmployeeApi, SalonApi, TemplateApi,
            DealerApi, ReportApi, PlanApi, GoalApi, UserApi
<1>1. \A m \in {"createChecklist", "deleteChecklist", "updateChecklist"} : Api(m) = ChecklistApi[m]
  BY DEF Api
<1>2. \A m \in {"setGoal", "updateGoal", "deleteGoal"} : Api(m) = GoalApi[m]
  BY DEF Api
<1>3. \A m \in {"createPlan", "deletePlan", "updatePlan"} : Api(m) = PlanApi[m]
  BY DEF Api
<1>4. \A m \in {"createSalon", "deleteSalon", "updateSalon", "assignManager"} : Api(m) = SalonApi[m]
  BY DEF Api
<1>5. \A m \in {"createLead", "updateLeadStatus"} : Api(m) = LeadApi[m]
  BY DEF Api
<1>6. Api("createUnitTemplate") = TemplateApi["createUnitTemplate"]
  BY DEF Api
<1>7. Api("updateProfile") = UserApi["updateProfile"]
  BY DEF Api
<1> QED  BY <1>1, <1>2, <1>3, <1>4, <1>5, <1>6, <1>7

\* What each component shows and sends.
LEMMA ComponentsShow ==
  /\ Shows \subseteq Queries
  /\ \A p, q \in Shows : TypeOf[p] = TypeOf[q] => p = q
  /\ \A m \in Sends : Api(m).tables \subseteq Tables
  /\ \A m \in Sends : "row" \in Api(m).invalidates =>
       Api(m).does = "update" /\ \E t \in Tables : Api(m).tables = {t}
  /\ \A q \in CachedLists, m \in Sends : TypeOf[q] \in Api(m).tables =>
       \/ "row" \in Api(m).invalidates
       \/ AnyId \in Api(m).invalidates /\ q \notin {"getPlans", "getMyProfile"}
       \/ LIST \in Api(m).invalidates /\ q = "getPlans"
<1>1. /\ TypeOf["getChecklists"] = "Checklist" /\ TypeOf["getVisibleGoals"] = "Goal"
      /\ TypeOf["getMyGoal"] = "Goal" /\ TypeOf["getPlans"] = "Plan"
      /\ TypeOf["getSalons"] = "Salon" /\ TypeOf["getEmployees"] = "Employee"
      /\ TypeOf["getLeads"] = "Lead" /\ TypeOf["getUnitTemplates"] = "UnitTemplate"
      /\ TypeOf["getMyProfile"] = "UserProfile"
  BY DEF TypeOf
<1>2. {"getChecklists", "getVisibleGoals", "getMyGoal", "getPlans", "getSalons", "getEmployees",
       "getLeads", "getUnitTemplates", "getMyProfile"} \subseteq Queries
  BY DEF Queries, TypeOf
<1>3. {"Checklist", "Goal", "Plan", "Salon", "Employee", "Lead", "UnitTemplate", "UserProfile"}
        \subseteq Tables
  <2>1. \A q \in Queries : TypeOf[q] \in Tables
    BY DEF Tables
  <2> QED  BY <1>1, <1>2, <2>1
<1>4. /\ ComponentNamed(component) \in
             {ChecklistBoard, GoalList, GoalCard, PlanList, SalonManagerWidget, SalonsPage,
              SalonFunnelTab, ProfitTab, ProfilePage}
      /\ Shows = ComponentNamed(component).shows /\ Sends = ComponentNamed(component).sends
  BY DEF ComponentNamed, Shows, Sends
<1> DEFINE Fits(shows, sends) ==
  /\ shows \subseteq Queries
  /\ \A p, q \in shows : TypeOf[p] = TypeOf[q] => p = q
  /\ \A m \in sends : Api(m).tables \subseteq Tables
  /\ \A m \in sends : "row" \in Api(m).invalidates =>
       Api(m).does = "update" /\ \E t \in Tables : Api(m).tables = {t}
  /\ \A q \in shows \ {"getVisibleGoals", "getMyGoal"}, m \in sends : TypeOf[q] \in Api(m).tables =>
       \/ "row" \in Api(m).invalidates
       \/ AnyId \in Api(m).invalidates /\ q \notin {"getPlans", "getMyProfile"}
       \/ LIST \in Api(m).invalidates /\ q = "getPlans"
<1>5. Fits(ChecklistBoard.shows, ChecklistBoard.sends)
  BY <1>1, <1>2, <1>3, Mutations DEF ChecklistBoard, Component, AnyId, LIST
<1>6. Fits(GoalList.shows, GoalList.sends) /\ Fits(GoalCard.shows, GoalCard.sends)
  BY <1>1, <1>2, <1>3, Mutations DEF GoalList, GoalCard, Component, AnyId, LIST
<1>7. Fits(PlanList.shows, PlanList.sends)
  BY <1>1, <1>2, <1>3, Mutations DEF PlanList, Component, AnyId, LIST
<1>8. Fits(SalonManagerWidget.shows, SalonManagerWidget.sends)
  BY <1>1, <1>2, <1>3, Mutations DEF SalonManagerWidget, Component, AnyId, LIST
<1>9. Fits(SalonsPage.shows, SalonsPage.sends)
  BY <1>1, <1>2, <1>3, Mutations DEF SalonsPage, Component, AnyId, LIST
<1>10. Fits(SalonFunnelTab.shows, SalonFunnelTab.sends)
  BY <1>1, <1>2, <1>3, Mutations DEF SalonFunnelTab, Component, AnyId, LIST
<1>11. Fits(ProfitTab.shows, ProfitTab.sends)
  BY <1>1, <1>2, <1>3, Mutations DEF ProfitTab, Component, AnyId, LIST
<1>12. Fits(ProfilePage.shows, ProfilePage.sends)
  BY <1>1, <1>2, <1>3, Mutations DEF ProfilePage, Component, AnyId, LIST
<1>13. Fits(Shows, Sends)
  <2> HIDE DEF Fits
  <2> QED  BY <1>4, <1>5, <1>6, <1>7, <1>8, <1>9, <1>10, <1>11, <1>12
<1> QED  BY <1>13 DEF CachedLists

\* No component shows a list of those tagged by their type alone.
LEMMA NoTypeTagged == Shows \cap TypeTagged = {}
<1>1. ComponentNamed(component) \in
        {ChecklistBoard, GoalList, GoalCard, PlanList, SalonManagerWidget, SalonsPage,
         SalonFunnelTab, ProfitTab, ProfilePage}
  BY DEF ComponentNamed
<1> QED
  BY <1>1 DEF Shows, TypeTagged, Component, ChecklistBoard, GoalList, GoalCard, PlanList,
              SalonManagerWidget, SalonsPage, SalonFunnelTab, ProfitTab, ProfilePage

\* The tags of a result.
LEMMA ListTags ==
  ASSUME NEW q \in CachedLists, NEW rows
  PROVE  /\ q \notin {"getPlans", "getMyProfile"}
              => \E tag \in Provides(q, rows) : tag[1] = TypeOf[q]
         /\ q = "getPlans" => Tag(TypeOf[q], LIST) \in Provides(q, rows)
         /\ \A r \in rows : Tag(TypeOf[q], r) \in Provides(q, rows)
<1>1. q \notin {"getVisibleGoals", "getMyGoal"}
  BY DEF CachedLists
<1>2. q \notin TypeTagged
  BY NoTypeTagged DEF CachedLists
<1>3. CASE q = "getPlans"
  <2>1. Provides(q, rows) = PlanTags(rows) /\ TypeOf[q] = "Plan"
    BY <1>3 DEF Provides, TypeTagged, TypeOf
  <2> QED  BY <1>3, <2>1 DEF PlanTags, Tag
<1>4. CASE q = "getMyProfile"
  <2>1. Provides(q, rows) = ProfileTags(rows) /\ TypeOf[q] = "UserProfile"
    BY <1>4 DEF Provides, TypeTagged, TypeOf
  <2> QED  BY <1>4, <2>1 DEF ProfileTags, Tag
<1>5. CASE q \notin {"getPlans", "getMyProfile"}
  <2>1. Provides(q, rows) = RowTagged(TypeOf[q], rows)
    BY <1>1, <1>2, <1>5 DEF Provides
  <2>2. Tag(TypeOf[q], AnyId) \in Provides(q, rows)
    BY <2>1 DEF RowTagged
  <2>3. Tag(TypeOf[q], AnyId)[1] = TypeOf[q]
    BY DEF Tag
  <2>4. \A r \in rows : Tag(TypeOf[q], r) \in Provides(q, rows)
    BY <2>1 DEF RowTagged
  <2> QED  BY <1>5, <2>2, <2>3, <2>4
<1> QED  BY <1>3, <1>4, <1>5

\* A save of a component names each list it shows of the tables it changed, if
\* the list has the row that the save names.
LEMMA SavesNameLists ==
  ASSUME NEW q \in CachedLists, NEW m \in Sends, TypeOf[q] \in Api(m).tables, NEW r, NEW rows,
         "row" \in Api(m).invalidates => r \in rows
  PROVE  \E tag \in Invalidated(m, r) : Names(tag, Provides(q, rows))
<1> DEFINE T == TypeOf[q]
           P == Provides(q, rows)
<1>1. \A i \in Api(m).invalidates : Tag(T, IF i = "row" THEN r ELSE i) \in Invalidated(m, r)
  BY DEF Invalidated
<1>2. \A id : Tag(T, id)[1] = T /\ Tag(T, id)[2] = id
  BY DEF Tag
<1>3. CASE "row" \in Api(m).invalidates
  <2>1. Tag(T, r) \in Invalidated(m, r)
    BY <1>1, <1>3
  <2>2. Tag(T, r) \in P
    BY <1>3, ListTags, NoTypeTagged DEF CachedLists
  <2>3. Names(Tag(T, r), P)
    BY <1>2, <2>2 DEF Names
  <2> QED  BY <2>1, <2>3
<1>4. CASE AnyId \in Api(m).invalidates /\ q \notin {"getPlans", "getMyProfile"}
  <2>1. Tag(T, AnyId) \in Invalidated(m, r)
    BY <1>1, <1>4 DEF AnyId
  <2>2. Names(Tag(T, AnyId), P)
    BY <1>2, <1>4, ListTags DEF Names
  <2> QED  BY <2>1, <2>2
<1>5. CASE LIST \in Api(m).invalidates /\ q = "getPlans"
  <2>1. Tag(T, LIST) \in Invalidated(m, r)
    BY <1>1, <1>5 DEF LIST
  <2>2. Names(Tag(T, LIST), P)
    BY <1>2, <1>5, ListTags DEF Names
  <2> QED  BY <2>1, <2>2
<1> QED  BY <1>3, <1>4, <1>5, ComponentsShow

\* The tags of a query are of its type.
LEMMA TagTypes ==
  ASSUME NEW q \in Queries, NEW rows \in SUBSET Rows
  PROVE  /\ Provides(q, rows) \subseteq {TypeOf[q]} \X (Rows \cup {AnyId, LIST})
         /\ TypeOf[q] \in Tables
<1>1. /\ RowTagged(TypeOf[q], rows) \subseteq {TypeOf[q]} \X (Rows \cup {AnyId, LIST})
      /\ {Tag(TypeOf[q], AnyId)} \subseteq {TypeOf[q]} \X (Rows \cup {AnyId, LIST})
  BY DEF RowTagged, Tag
<1>2. /\ PlanTags(rows) \subseteq {"Plan"} \X (Rows \cup {AnyId, LIST})
      /\ GoalTags(rows) \subseteq {"Goal"} \X (Rows \cup {AnyId, LIST})
      /\ ProfileTags(rows) \subseteq {"UserProfile"} \X (Rows \cup {AnyId, LIST})
  BY DEF PlanTags, GoalTags, ProfileTags, Tag
<1>3. /\ TypeOf["getPlans"] = "Plan" /\ TypeOf["getVisibleGoals"] = "Goal"
      /\ TypeOf["getMyGoal"] = "Goal" /\ TypeOf["getMyProfile"] = "UserProfile"
  BY DEF TypeOf
<1>4. \/ Provides(q, rows) = RowTagged(TypeOf[q], rows)
      \/ Provides(q, rows) = {Tag(TypeOf[q], AnyId)}
      \/ q = "getPlans" /\ Provides(q, rows) = PlanTags(rows)
      \/ q \in {"getVisibleGoals", "getMyGoal"} /\ Provides(q, rows) = GoalTags(rows)
      \/ q = "getMyProfile" /\ Provides(q, rows) = ProfileTags(rows)
  <2>1. "getPlans" \notin TypeTagged /\ "getVisibleGoals" \notin TypeTagged
        /\ "getMyGoal" \notin TypeTagged /\ "getMyProfile" \notin TypeTagged
    BY DEF TypeTagged
  <2>2. q \in TypeTagged => Provides(q, rows) = {Tag(TypeOf[q], AnyId)}
    BY <2>1 DEF Provides
  <2>3. q = "getPlans" => Provides(q, rows) = PlanTags(rows)
    BY <2>1 DEF Provides
  <2>4. q \in {"getVisibleGoals", "getMyGoal"} => Provides(q, rows) = GoalTags(rows)
    BY <2>1 DEF Provides
  <2>5. q = "getMyProfile" => Provides(q, rows) = ProfileTags(rows)
    BY <2>1 DEF Provides
  <2>6. q \notin TypeTagged \cup {"getPlans", "getVisibleGoals", "getMyGoal", "getMyProfile"}
          => Provides(q, rows) = RowTagged(TypeOf[q], rows)
    BY DEF Provides
  <2> QED  BY <2>2, <2>3, <2>4, <2>5, <2>6
<1>5. TypeOf[q] \in Tables
  BY DEF Tables
<1> QED  BY <1>1, <1>2, <1>3, <1>4, <1>5

\* What an invalidation does to an entry and its fetch.
LEMMA Invalidates ==
  ASSUME CacheTyped, NEW touched \in SUBSET Queries, NEW asked, Invalidate(touched, asked)
  PROVE  /\ DOMAIN entry' = Queries /\ DOMAIN fetch' = Queries
         /\ \A q \in Queries :
              \/ entry'[q] = entry[q] /\ fetch'[q] = fetch[q] /\ (q \in touched => Pending(q))
              \/ entry'[q] = entry[q] /\ fetch'[q] = Sent /\ ~Pending(q)
              \/ entry'[q] = NoEntry /\ fetch'[q] = Idle
         /\ entry' = [q \in Queries |-> entry'[q]] /\ fetch' = [q \in Queries |-> fetch'[q]]
<1> DEFINE dropped == IF componentShown THEN {} ELSE touched
           again == {q \in (IF componentShown THEN touched ELSE {}) \cup asked : ~Pending(q)}
<1>1. /\ entry' = [q \in Queries |-> IF q \in dropped THEN NoEntry ELSE entry[q]]
      /\ fetch' = [q \in Queries |-> IF q \in dropped THEN Idle
                                     ELSE IF q \in again THEN Sent ELSE fetch[q]]
  BY DEF Invalidate
<1>2. \A q \in touched : q \in dropped \/ q \in again \/ Pending(q)
  BY DEF CacheTyped, CacheTypeOK
<1>3. \A q \in again : ~Pending(q)
  OBVIOUS
<1> HIDE DEF dropped, again
<1> QED  BY <1>1, <1>2, <1>3

\* What a step may do to an entry, and to a table.
EntryStep(q) ==
  \/ entry'[q] = entry[q] /\ fetch'[q] = fetch[q]
  \/ entry'[q] = entry[q] /\ fetch'[q] = Sent /\ ~Pending(q)
  \/ entry'[q] = NoEntry /\ fetch'[q] = Idle
  \/ /\ entry'[q] = entry[q] /\ database' = database
     /\ fetch'[q] = [at |-> "read", version |-> database[TypeOf[q]].version,
                     rows |-> database[TypeOf[q]].rows]
  \/ /\ fetch[q].at = "read" /\ fetch'[q] = Idle
     /\ entry'[q] = [status |-> "done", version |-> fetch[q].version, rows |-> fetch[q].rows,
                     tags |-> Provides(q, fetch[q].rows)]
  \/ /\ fetch'[q] = Idle
     /\ entry'[q] = [entry[q] EXCEPT !.status = "failed", !.tags = Provides(q, {})]

TableStep(t) ==
  /\ database[t].version <= database'[t].version
  /\ database[t].given \subseteq database'[t].given
  /\ \A r \in database'[t].rows :
       r \in database'[t].given /\ (r \in database[t].rows \/ r \notin database[t].given)

\* An id the server gives is one it never gave.
LEMMA FreshIds == \A t : Fresh(t) \subseteq Rows \ database[t].given
<1> SUFFICES ASSUME NEW t, NEW r \in Fresh(t) PROVE r \in Rows \ database[t].given
  OBVIOUS
<1> DEFINE left == Rows \ database[t].given
<1>1. left # {} /\ r = CHOOSE x \in left : TRUE
  BY DEF Fresh
<1> HIDE DEF left
<1>2. r \in left
  BY <1>1
<1> QED  BY <1>2 DEF left

\* No table changes but at the server, and then by a row more or less.
LEMMA TablesStep ==
  ASSUME CacheTyped, RowsWereGiven, [CacheNext]_cacheVars
  PROVE  /\ database' \in [Tables -> [version : 0..MaxVersion, rows : SUBSET Rows, given : SUBSET Rows]]
         /\ \A t \in Tables : TableStep(t)
<1>0. /\ database \in [Tables -> [version : 0..MaxVersion, rows : SUBSET Rows, given : SUBSET Rows]]
      /\ \A t \in Tables : database[t].rows \subseteq database[t].given
      /\ saves \subseteq [mutation : Sends, row : SaveRows, at : {"sent", "applied"},
                          version : [Tables -> 0..MaxVersion]]
  BY DEF CacheTyped, CacheTypeOK, RowsWereGiven, SaveRows
<1>1. ASSUME database' = database
      PROVE  /\ database' \in [Tables -> [version : 0..MaxVersion, rows : SUBSET Rows, given : SUBSET Rows]]
             /\ \A t \in Tables : TableStep(t)
  BY <1>0, <1>1 DEF TableStep
<1>2. ASSUME NEW t \in Tables, NEW does, NEW r \in Rows, database[t].version < MaxVersion,
             does = "create" => r \notin database[t].given
      PROVE  /\ Changed(database[t], does, r) \in [version : 0..MaxVersion, rows : SUBSET Rows, given : SUBSET Rows]
             /\ (database'[t] = Changed(database[t], does, r) => TableStep(t))
             /\ Changed(database[t], does, r).version = database[t].version + 1
  <2> DEFINE old == database[t]
             new == Changed(database[t], does, r)
  <2>1. /\ old.version \in 0..MaxVersion /\ old.rows \subseteq Rows /\ old.given \subseteq Rows
        /\ old.rows \subseteq old.given
    BY <1>0
  <2>2. /\ new.version = old.version + 1
        /\ new.rows = CASE does = "create" -> old.rows \cup {r}
                         [] does = "delete" -> old.rows \ {r}
                         [] OTHER           -> old.rows
        /\ new.given = IF does = "create" THEN old.given \cup {r} ELSE old.given
        /\ new = [version |-> new.version, rows |-> new.rows, given |-> new.given]
    BY DEF Changed
  <2> HIDE DEF new
  <2>3. new.version \in 0..MaxVersion /\ old.version <= new.version
    BY <1>2, <2>1, <2>2, BoundsAssumption
  <2>4. new.rows \subseteq Rows /\ new.given \subseteq Rows /\ old.given \subseteq new.given
    BY <2>1, <2>2
  <2>5. \A s \in new.rows : s \in new.given /\ (s \in old.rows \/ s \notin old.given)
    BY <1>2, <2>1, <2>2
  <2>6. new \in [version : 0..MaxVersion, rows : SUBSET Rows, given : SUBSET Rows]
    BY <2>2, <2>3, <2>4
  <2> QED  BY <2>2, <2>3, <2>4, <2>5, <2>6 DEF TableStep, new
<1>3. ASSUME NEW s \in saves, ServerApplies(s)
      PROVE  /\ database' \in [Tables -> [version : 0..MaxVersion, rows : SUBSET Rows, given : SUBSET Rows]]
             /\ \A t \in Tables : TableStep(t)
  <2> DEFINE m == Api(s.mutation)
  <2>1. PICK r \in Rows :
          /\ \A t \in m.tables : database[t].version < MaxVersion
          /\ m.does = "create" => \A t \in m.tables : r \in Fresh(t)
          /\ database' = [t \in Tables |-> IF t \in m.tables THEN Changed(database[t], m.does, r)
                                           ELSE database[t]]
    BY <1>3 DEF ServerApplies
  <2> HIDE DEF m
  <2>2. ASSUME NEW t \in Tables
        PROVE  /\ database'[t] \in [version : 0..MaxVersion, rows : SUBSET Rows, given : SUBSET Rows]
               /\ TableStep(t)
    <3>1. CASE t \in m.tables
      BY <1>2, <2>1, <3>1, FreshIds
    <3>2. CASE t \notin m.tables
      BY <1>0, <2>1, <3>2 DEF TableStep
    <3> QED  BY <3>1, <3>2
  <2> QED  BY <2>1, <2>2
<1>4. CASE OthersChange
  <2>1. PICK t \in {TypeOf[q] : q \in Shows} \ {"UserProfile"}, does \in {"create", "delete"}, r \in Rows :
          /\ database[t].version < MaxVersion
          /\ r \in IF does = "create" THEN Fresh(t) ELSE database[t].rows
          /\ database' = [database EXCEPT ![t] = Changed(database[t], does, r)]
    BY <1>4 DEF OthersChange
  <2>2. t \in Tables
    BY <2>1, ComponentsShow DEF Tables
  <2>3. ASSUME NEW u \in Tables
        PROVE  /\ database'[u] \in [version : 0..MaxVersion, rows : SUBSET Rows, given : SUBSET Rows]
               /\ TableStep(u)
    <3>1. CASE u = t
      BY <1>0, <1>2, <2>1, <2>2, <3>1, FreshIds
    <3>2. CASE u # t
      BY <1>0, <2>1, <3>2 DEF TableStep
    <3> QED  BY <3>1, <3>2
  <2>4. database' = [u \in Tables |-> database'[u]]
    BY <1>0, <2>1
  <2> QED  BY <2>3, <2>4
<1>5. CASE UNCHANGED cacheVars
  BY <1>1, <1>5 DEF cacheVars
<1>6. CASE \/ Mount \/ Unmount \/ Refetch
           \/ \E q \in Queries : Expire(q) \/ ServerReads(q) \/ QueryFulfilled(q) \/ QueryRejected(q)
           \/ \E m \in Sends, r \in SaveRows : SendSave(m, r)
           \/ \E s \in saves : SaveFulfilled(s) \/ SaveRejected(s)
  BY <1>1, <1>6 DEF Mount, Unmount, Refetch, Expire, ServerReads, QueryFulfilled, QueryRejected,
                    SendSave, SaveFulfilled, SaveRejected
<1> QED  BY <1>3, <1>4, <1>5, <1>6 DEF CacheNext, SaveRows

\* No entry changes but in one of six ways.
LEMMA EntriesStep ==
  ASSUME CacheTyped, [CacheNext]_cacheVars
  PROVE  /\ \A q \in Queries : EntryStep(q)
         /\ entry' = [q \in Queries |-> entry'[q]] /\ fetch' = [q \in Queries |-> fetch'[q]]
<1>0. /\ entry \in [Queries -> EntryRecord]
      /\ fetch \in [Queries -> [at : {"idle", "sent", "read"}, version : 0..MaxVersion,
                                rows : SUBSET Rows]]
  BY DEF CacheTyped, CacheTypeOK
<1> DEFINE Goal == /\ \A q \in Queries : EntryStep(q)
                   /\ entry' = [q \in Queries |-> entry'[q]]
                   /\ fetch' = [q \in Queries |-> fetch'[q]]
<1> SUFFICES Goal
  OBVIOUS
<1>1. ASSUME entry' = entry, fetch' = fetch PROVE Goal
  BY <1>0, <1>1 DEF EntryStep
<1>2. CASE Mount
  BY <1>0, <1>2 DEF Mount, EntryStep
<1>3. ASSUME NEW q \in Queries, Expire(q) PROVE Goal
  BY <1>0, <1>3 DEF Expire, EntryStep
<1>4. CASE Refetch
  <2>1. PICK q : ~Pending(q) /\ fetch' = [fetch EXCEPT ![q] = Sent] /\ entry' = entry
    BY <1>4 DEF Refetch
  <2> QED  BY <1>0, <2>1 DEF EntryStep
<1>5. ASSUME NEW q \in Queries, ServerReads(q) PROVE Goal
  <2>1. entry' = entry /\ database' = database
        /\ fetch' = [fetch EXCEPT ![q] = [at |-> "read", version |-> database[TypeOf[q]].version,
                                         rows |-> database[TypeOf[q]].rows]]
    BY <1>5 DEF ServerReads
  <2> QED  BY <1>0, <2>1 DEF EntryStep
<1>6. ASSUME NEW q \in Queries, QueryFulfilled(q) PROVE Goal
  <2>1. /\ fetch[q].at = "read"
        /\ entry' = [entry EXCEPT ![q] = [status |-> "done", version |-> fetch[q].version,
                                          rows |-> fetch[q].rows,
                                          tags |-> Provides(q, fetch[q].rows)]]
        /\ fetch' = [fetch EXCEPT ![q] = Idle]
    BY <1>6 DEF QueryFulfilled
  <2> QED  BY <1>0, <2>1 DEF EntryStep
<1>7. ASSUME NEW q \in Queries, QueryRejected(q) PROVE Goal
  <2>1. /\ entry' = [entry EXCEPT ![q] = [entry[q] EXCEPT !.status = "failed", !.tags = Provides(q, {})]]
        /\ fetch' = [fetch EXCEPT ![q] = Idle]
    BY <1>0, <1>7 DEF QueryRejected
  <2> QED  BY <1>0, <2>1 DEF EntryStep
<1>8. ASSUME NEW s \in saves, SaveFulfilled(s) \/ SaveRejected(s) PROVE Goal
  <2>1. PICK touched \in SUBSET Queries : \E asked : Invalidate(touched, asked)
    BY <1>8 DEF SaveFulfilled, SaveRejected, Touched
  <2>2. PICK asked : Invalidate(touched, asked)
    BY <2>1
  <2> QED  BY <2>2, Invalidates DEF EntryStep
<1>9. CASE UNCHANGED cacheVars
  BY <1>1, <1>9 DEF cacheVars
<1>10. CASE \/ Unmount \/ OthersChange
            \/ \E m \in Sends, r \in SaveRows : SendSave(m, r)
            \/ \E s \in saves : ServerApplies(s)
  BY <1>1, <1>10 DEF Unmount, OthersChange, SendSave, ServerApplies
<1> HIDE DEF Goal
<1> QED  BY <1>2, <1>3, <1>4, <1>5, <1>6, <1>7, <1>8, <1>9, <1>10 DEF CacheNext, SaveRows

\* No action leads out of the types.
LEMMA CacheTypePreserved ==
  CacheTyped /\ RowsWereGiven /\ [CacheNext]_cacheVars => CacheTyped'
<1> SUFFICES ASSUME CacheTyped, RowsWereGiven, [CacheNext]_cacheVars PROVE CacheTyped'
  OBVIOUS
<1>0. /\ component \in Components /\ componentShown \in BOOLEAN
      /\ database \in [Tables -> [version : 0..MaxVersion, rows : SUBSET Rows, given : SUBSET Rows]]
      /\ entry \in [Queries -> EntryRecord]
      /\ fetch \in [Queries -> [at : {"idle", "sent", "read"}, version : 0..MaxVersion,
                                rows : SUBSET Rows]]
      /\ saves \subseteq [mutation : Sends, row : SaveRows, at : {"sent", "applied"},
                          version : [Tables -> 0..MaxVersion]]
      /\ told \in [Tables -> 0..MaxVersion] /\ overtaken \subseteq Queries
      /\ \A q \in Queries : entry[q].tags \subseteq {TypeOf[q]} \X (Rows \cup {AnyId, LIST})
  BY DEF CacheTyped, CacheTypeOK, SaveRows
<1>1. component' = component
  BY DEF CacheNext, cacheVars, Mount, Unmount, Refetch, Expire, ServerReads, QueryFulfilled,
         QueryRejected, SendSave, ServerApplies, OthersChange, SaveFulfilled, SaveRejected
<1>2. componentShown' \in BOOLEAN
  BY <1>0 DEF CacheNext, cacheVars, Mount, Unmount, Refetch, Expire, ServerReads, QueryFulfilled,
         QueryRejected, SendSave, ServerApplies, OthersChange, SaveFulfilled, SaveRejected
<1>3. database' \in [Tables -> [version : 0..MaxVersion, rows : SUBSET Rows, given : SUBSET Rows]]
  BY TablesStep
<1>4. overtaken' \subseteq Queries
  BY <1>0 DEF CacheNext, cacheVars, Mount, Unmount, Refetch, Expire, ServerReads, QueryFulfilled,
         QueryRejected, SendSave, ServerApplies, OthersChange, SaveFulfilled, SaveRejected
<1>5. told' \in [Tables -> 0..MaxVersion]
  <2>1. CASE told' = told
    BY <1>0, <2>1
  <2>2. ASSUME NEW s \in saves, SaveFulfilled(s) PROVE told' \in [Tables -> 0..MaxVersion]
    <3>1. s.version \in [Tables -> 0..MaxVersion]
      BY <1>0
    <3>2. told' = [t \in Tables |-> IF t \in Api(s.mutation).tables /\ s.version[t] > told[t]
                                    THEN s.version[t] ELSE told[t]]
      BY <2>2 DEF SaveFulfilled
    <3> QED  BY <1>0, <3>1, <3>2
  <2> QED  BY <2>1, <2>2 DEF CacheNext, cacheVars, Mount, Unmount, Refetch, Expire, ServerReads,
        QueryFulfilled, QueryRejected, SendSave, ServerApplies, OthersChange, SaveRejected
<1>6. saves' \subseteq [mutation : Sends, row : SaveRows, at : {"sent", "applied"},
                        version : [Tables -> 0..MaxVersion]]
  <2>1. CASE saves' \subseteq saves
    BY <1>0, <2>1
  <2>2. ASSUME NEW m \in Sends, NEW r \in SaveRows, SendSave(m, r)
        PROVE  saves' \subseteq [mutation : Sends, row : SaveRows, at : {"sent", "applied"},
                                version : [Tables -> 0..MaxVersion]]
    BY <1>0, <2>2 DEF SendSave
  <2>3. ASSUME NEW s \in saves, ServerApplies(s)
        PROVE  saves' \subseteq [mutation : Sends, row : SaveRows, at : {"sent", "applied"},
                                version : [Tables -> 0..MaxVersion]]
    <3> DEFINE reached == [t \in Tables |-> database'[t].version]
               done(r) == [s EXCEPT !.at = "applied", !.row = r, !.version = reached]
    <3>1. reached \in [Tables -> 0..MaxVersion]
      BY <1>3
    <3>2. PICK r \in Rows : saves' = (saves \ {s}) \cup {done(r)}
      BY <2>3 DEF ServerApplies
    <3> HIDE DEF reached
    <3>3. done(r) \in [mutation : Sends, row : SaveRows, at : {"sent", "applied"},
                       version : [Tables -> 0..MaxVersion]]
      BY <1>0, <3>1 DEF SaveRows
    <3> QED  BY <1>0, <3>2, <3>3
  <2> QED  BY <2>1, <2>2, <2>3 DEF SaveRows, CacheNext, cacheVars, Mount, Unmount, Refetch, Expire,
        ServerReads, QueryFulfilled, QueryRejected, OthersChange, SaveFulfilled, SaveRejected
<1>7. ASSUME NEW q \in Queries
      PROVE  /\ entry'[q] \in EntryRecord
             /\ entry'[q].tags \subseteq {TypeOf[q]} \X (Rows \cup {AnyId, LIST})
             /\ fetch'[q] \in [at : {"idle", "sent", "read"}, version : 0..MaxVersion,
                               rows : SUBSET Rows]
  <2>1. EntryStep(q)
    BY EntriesStep
  <2>2. /\ entry[q] \in EntryRecord /\ TypeOf[q] \in Tables
        /\ fetch[q] \in [at : {"idle", "sent", "read"}, version : 0..MaxVersion, rows : SUBSET Rows]
        /\ database[TypeOf[q]].version \in 0..MaxVersion /\ database[TypeOf[q]].rows \subseteq Rows
        /\ entry[q].tags \subseteq {TypeOf[q]} \X (Rows \cup {AnyId, LIST})
    BY <1>0, TagTypes
  <2>3. /\ Provides(q, fetch[q].rows) \subseteq {TypeOf[q]} \X (Rows \cup {AnyId, LIST})
        /\ Provides(q, {}) \subseteq {TypeOf[q]} \X (Rows \cup {AnyId, LIST})
    <3>1. fetch[q].rows \in SUBSET Rows /\ {} \in SUBSET Rows
      BY <2>2
    <3> QED  BY <3>1, TagTypes
  <2>4. {TypeOf[q]} \X (Rows \cup {AnyId, LIST}) \subseteq Tables \X (Rows \cup {AnyId, LIST})
    BY <2>2
  <2>5. 0 \in 0..MaxVersion
    BY BoundsAssumption
  <2>6. fetch'[q] \in [at : {"idle", "sent", "read"}, version : 0..MaxVersion, rows : SUBSET Rows]
    BY <2>1, <2>2, <2>5 DEF EntryStep, Sent, Idle
  <2>7. NoEntry \in EntryRecord /\ NoEntry.tags = {}
    BY <2>5 DEF NoEntry, EntryRecord
  <2>8. entry'[q].tags \subseteq {TypeOf[q]} \X (Rows \cup {AnyId, LIST})
    <3>1. CASE entry'[q] \in {entry[q], NoEntry}
      BY <2>2, <2>7, <3>1
    <3>2. CASE entry'[q] = [status |-> "done", version |-> fetch[q].version, rows |-> fetch[q].rows,
                            tags |-> Provides(q, fetch[q].rows)]
      BY <2>3, <3>2
    <3>3. CASE entry'[q] = [entry[q] EXCEPT !.status = "failed", !.tags = Provides(q, {})]
      BY <2>2, <2>3, <3>3 DEF EntryRecord
    <3> QED  BY <2>1, <3>1, <3>2, <3>3 DEF EntryStep
  <2>9. entry'[q] \in EntryRecord
    <3>1. CASE entry'[q] \in {entry[q], NoEntry}
      BY <2>2, <2>7, <3>1
    <3>2. CASE entry'[q] = [status |-> "done", version |-> fetch[q].version, rows |-> fetch[q].rows,
                            tags |-> Provides(q, fetch[q].rows)]
      BY <2>2, <2>3, <2>4, <3>2 DEF EntryRecord
    <3>3. CASE entry'[q] = [entry[q] EXCEPT !.status = "failed", !.tags = Provides(q, {})]
      <4> DEFINE T == SUBSET (Tables \X (Rows \cup {AnyId, LIST}))
                 none == Provides(q, {})
      <4>1. none \in T
        BY <2>3, <2>4
      <4>2. entry[q] \in [status : {"none", "done", "failed"}, version : 0..MaxVersion,
                          rows : SUBSET Rows, tags : T]
        BY <2>2 DEF EntryRecord
      <4> HIDE DEF T, none
      <4>3. [entry[q] EXCEPT !.status = "failed", !.tags = none]
                \in [status : {"none", "done", "failed"}, version : 0..MaxVersion,
                     rows : SUBSET Rows, tags : T]
        BY <4>1, <4>2
      <4> QED  BY <3>3, <4>3 DEF EntryRecord, T, none
    <3> QED  BY <2>1, <3>1, <3>2, <3>3 DEF EntryStep
  <2> QED  BY <2>6, <2>8, <2>9
<1>8. entry' \in [Queries -> EntryRecord]
  BY <1>7, EntriesStep
<1>9. fetch' \in [Queries -> [at : {"idle", "sent", "read"}, version : 0..MaxVersion,
                             rows : SUBSET Rows]]
  BY <1>7, EntriesStep
<1>10. \A q \in Queries :
         /\ entry'[q].status \in {"none", "done", "failed"} /\ entry'[q].version \in 0..MaxVersion
         /\ entry'[q].rows \subseteq Rows
  BY <1>8 DEF EntryRecord
<1>11. Sends' = Sends
  BY <1>1 DEF Sends, ComponentNamed
<1>12. CacheTypeOK'
  BY <1>0, <1>1, <1>2, <1>3, <1>4, <1>5, <1>6, <1>7, <1>8, <1>9, <1>10, <1>11 DEF CacheTypeOK, SaveRows
<1> QED  BY <1>8, <1>12 DEF CacheTyped

\* A done entry keeps the tags of its rows.
LEMMA TagsPreserved ==
  CacheTyped /\ TagsOfRows /\ [CacheNext]_cacheVars => TagsOfRows'
<1> SUFFICES ASSUME CacheTyped, TagsOfRows, [CacheNext]_cacheVars, NEW q \in Queries,
                    entry'[q].status = "done"
             PROVE  entry'[q].tags = Provides(q, entry'[q].rows)
  BY DEF TagsOfRows
<1>1. EntryStep(q)
  BY EntriesStep
<1>2. CASE entry'[q] = entry[q]
  BY <1>2 DEF TagsOfRows
<1>3. CASE entry'[q] = NoEntry
  BY <1>3 DEF NoEntry
<1>4. CASE entry'[q] = [status |-> "done", version |-> fetch[q].version, rows |-> fetch[q].rows,
                        tags |-> Provides(q, fetch[q].rows)]
  BY <1>4
<1>5. CASE entry'[q] = [entry[q] EXCEPT !.status = "failed", !.tags = Provides(q, {})]
  <2>1. entry[q] \in EntryRecord
    BY DEF CacheTyped
  <2> QED  BY <1>5, <2>1 DEF EntryRecord
<1> QED  BY <1>1, <1>2, <1>3, <1>4, <1>5 DEF EntryStep

\* What becomes of the saves in a step: they stay, but one that is sent, applied
\* or over.
LEMMA SavesStep ==
  ASSUME [CacheNext]_cacheVars
  PROVE  \/ saves' \subseteq saves
         \/ \E m \in Sends, r \in SaveRows : SendSave(m, r)
         \/ \E s \in saves : ServerApplies(s)
BY DEF SaveRows, CacheNext, cacheVars, Mount, Unmount, Refetch, Expire, ServerReads,
       QueryFulfilled, QueryRejected, OthersChange, SaveFulfilled, SaveRejected

\* The numbers and rows of the state.
LEMMA CacheNumbers ==
  ASSUME CacheTyped
  PROVE  /\ \A t \in Tables : told[t] \in Nat /\ database[t].version \in Nat
         /\ \A s \in saves : /\ s.mutation \in Sends /\ s.row \in SaveRows /\ s.at \in {"sent", "applied"}
                            /\ \A t \in Tables : s.version[t] \in Nat
         /\ \A q \in Queries : /\ fetch[q].version \in Nat /\ entry[q].version \in Nat
                               /\ TypeOf[q] \in Tables
<1>1. \A n \in 0..MaxVersion : n \in Nat
  BY BoundsAssumption
<1>2. \A t \in Tables : told[t] \in 0..MaxVersion /\ database[t].version \in 0..MaxVersion
  BY DEF CacheTyped, CacheTypeOK
<1>3. \A s \in saves : s \in [mutation : Sends, row : SaveRows, at : {"sent", "applied"},
                            version : [Tables -> 0..MaxVersion]]
  BY DEF CacheTyped, CacheTypeOK, SaveRows
<1>4. \A s \in saves : /\ s.mutation \in Sends /\ s.row \in SaveRows /\ s.at \in {"sent", "applied"}
                     /\ \A t \in Tables : s.version[t] \in 0..MaxVersion
  BY <1>3
<1>5. \A q \in Queries : fetch[q].version \in 0..MaxVersion /\ entry[q].version \in 0..MaxVersion
  BY DEF CacheTyped, CacheTypeOK
<1>6. \A q \in Queries : TypeOf[q] \in Tables
  BY DEF Tables
<1> QED  BY <1>1, <1>2, <1>4, <1>5, <1>6

\* The server's record of a save it has done: of the row asked for, if it was not
\* to make one.
LEMMA RowApplied ==
  ASSUME CacheTyped, NEW s \in saves, ServerApplies(s)
  PROVE  \E d : /\ saves' = (saves \ {s}) \cup {d} /\ d.mutation = s.mutation
                /\ Api(s.mutation).does # "create" => d.row = s.row
                /\ s.at = "sent" /\ d.at = "applied"
                /\ \A t \in Tables : d.version[t] = database'[t].version
<1> DEFINE reached == [t \in Tables |-> database'[t].version]
           d(r) == [s EXCEPT !.at = "applied", !.row = r, !.version = reached]
<1>1. PICK r \in Rows : /\ saves' = (saves \ {s}) \cup {d(r)} /\ s.at = "sent"
                        /\ Api(s.mutation).does # "create" => r = s.row
  BY DEF ServerApplies
<1>2. s \in [mutation : Sends, row : SaveRows, at : {"sent", "applied"}, version : [Tables -> 0..MaxVersion]]
  BY DEF CacheTyped, CacheTypeOK, SaveRows
<1>3. \A t \in Tables : reached[t] = database'[t].version
  OBVIOUS
<1> HIDE DEF reached
<1>4. d(r).mutation = s.mutation /\ d(r).row = r /\ d(r).at = "applied" /\ d(r).version = reached
  BY <1>2
<1> HIDE DEF d
<1> WITNESS d(r)
<1> QED  BY <1>1, <1>3, <1>4

\* The browser is told of no version the server has not reached.
LEMMA NothingEarlyPreserved ==
  CacheTyped /\ RowsWereGiven /\ NothingEarly /\ [CacheNext]_cacheVars => NothingEarly'
<1> SUFFICES ASSUME CacheTyped, RowsWereGiven, NothingEarly, [CacheNext]_cacheVars
             PROVE  NothingEarly'
  OBVIOUS
<1>1. \A t \in Tables : /\ database[t].version \in Nat /\ database'[t].version \in Nat
                        /\ database[t].version <= database'[t].version
  BY TablesStep DEF TableStep, CacheTyped, CacheTypeOK
<1>2. /\ \A t \in Tables : told[t] \in Nat
      /\ \A s \in saves, t \in Tables : s.version[t] \in Nat
      /\ \A q \in Queries : fetch[q].version \in Nat /\ TypeOf[q] \in Tables
  BY CacheNumbers
<1>3. ASSUME NEW t \in Tables PROVE told'[t] <= database'[t].version
  <2>1. CASE told' = told
    BY <1>1, <1>2, <2>1 DEF NothingEarly
  <2>2. ASSUME NEW s \in saves, SaveFulfilled(s) PROVE told'[t] <= database'[t].version
    <3>1. told'[t] \in {told[t], s.version[t]} /\ s.at = "applied"
      BY <2>2 DEF SaveFulfilled
    <3> QED  BY <1>1, <1>2, <3>1 DEF NothingEarly
  <2> QED  BY <2>1, <2>2 DEF CacheNext, cacheVars, Mount, Unmount, Refetch, Expire, ServerReads,
        QueryFulfilled, QueryRejected, SendSave, ServerApplies, OthersChange, SaveRejected
<1>4. ASSUME NEW q \in Queries, fetch'[q].at = "read"
      PROVE  fetch'[q].version <= database'[TypeOf[q]].version
  <2>1. EntryStep(q)
    BY EntriesStep
  <2>2. CASE fetch'[q] = fetch[q]
    BY <1>1, <1>2, <1>4, <2>2 DEF NothingEarly
  <2>3. CASE fetch'[q] \in {Idle, Sent}
    BY <1>4, <2>3 DEF Idle, Sent
  <2>4. CASE fetch'[q].version = database[TypeOf[q]].version
    BY <1>1, <1>2, <2>4
  <2> QED  BY <2>1, <2>2, <2>3, <2>4 DEF EntryStep
<1>5. ASSUME NEW s \in saves', NEW t \in Tables, s.at = "applied"
      PROVE  s.version[t] <= database'[t].version
  <2>1. CASE s \in saves
    BY <1>1, <1>2, <1>5, <2>1 DEF NothingEarly
  <2>2. CASE s \notin saves
    <3>1. CASE \E m \in Sends, r \in SaveRows : SendSave(m, r)
      BY <1>5, <2>2, <3>1 DEF SendSave
    <3>2. ASSUME NEW u \in saves, ServerApplies(u) PROVE s.version[t] <= database'[t].version
      <4>1. s.version[t] = database'[t].version
        BY <1>5, <2>2, <3>2, RowApplied
      <4> QED  BY <1>1, <4>1
    <3> QED  BY <1>5, <2>2, <3>1, <3>2, SavesStep
  <2> QED  BY <2>1, <2>2
<1> QED  BY <1>3, <1>4, <1>5 DEF NothingEarly

\* A save that names its row is of one table, where a list on the screen has it.
LEMMA SentFromAList ==
  ASSUME NEW m \in Sends, NEW r \in SaveRows, SendSave(m, r), "row" \in Api(m).invalidates
  PROVE  \E p \in Shows : /\ Api(m).tables = {TypeOf[p]} /\ r \in entry[p].rows
<1>1. Api(m).does = "update" /\ \E t \in Tables : Api(m).tables = {t}
  BY ComponentsShow
<1>2. \E q \in Shows : TypeOf[q] \in Api(m).tables /\ r \in entry[q].rows
  BY <1>1 DEF SendSave
<1> QED  BY <1>1, <1>2

\* No row is heard of before the server has given its id.
LEMMA RowsGivenPreserved ==
  CacheTyped /\ RowsWereGiven /\ [CacheNext]_cacheVars => RowsWereGiven'
<1> SUFFICES ASSUME CacheTyped, RowsWereGiven, [CacheNext]_cacheVars PROVE RowsWereGiven'
  OBVIOUS
<1>1. \A t \in Tables : TableStep(t)
  BY TablesStep
<1>2. \A t \in Tables : database'[t].rows \subseteq database'[t].given
  BY <1>1 DEF TableStep
<1>3. ASSUME NEW q \in Queries
      PROVE  entry'[q].rows \cup fetch'[q].rows \subseteq database'[TypeOf[q]].given
  <2>1. /\ TypeOf[q] \in Tables /\ entry[q] \in EntryRecord
        /\ entry[q].rows \cup fetch[q].rows \cup database[TypeOf[q]].rows
             \subseteq database[TypeOf[q]].given
    BY CacheNumbers DEF RowsWereGiven, CacheTyped
  <2>2. database[TypeOf[q]].given \subseteq database'[TypeOf[q]].given
    BY <1>1, <2>1 DEF TableStep
  <2>3. EntryStep(q)
    BY EntriesStep
  <2>4. entry'[q].rows \in {entry[q].rows, {}, fetch[q].rows}
    <3>1. [entry[q] EXCEPT !.status = "failed", !.tags = Provides(q, {})].rows = entry[q].rows
      BY <2>1 DEF EntryRecord
    <3>2. NoEntry.rows = {}
      BY DEF NoEntry
    <3>3. entry'[q] \in {entry[q], NoEntry,
                        [entry[q] EXCEPT !.status = "failed", !.tags = Provides(q, {})]}
          \/ entry'[q].rows = fetch[q].rows
      BY <2>3 DEF EntryStep
    <3> QED  BY <3>1, <3>2, <3>3
  <2>5. fetch'[q].rows \in {fetch[q].rows, {}, database[TypeOf[q]].rows}
    BY <2>3 DEF EntryStep, Idle, Sent
  <2> QED  BY <2>1, <2>2, <2>4, <2>5
<1>4. ASSUME NEW s \in saves', NamesItsRow(s), NEW t \in Api(s.mutation).tables
      PROVE  s.row \in database'[t].given
  <2>1. ASSUME NEW u \in saves, u.mutation = s.mutation, u.row = s.row
        PROVE  s.row \in database'[t].given
    <3>1. u.row \in database[t].given /\ t \in Tables
      BY <1>4, <2>1, CacheNumbers, ComponentsShow DEF RowsWereGiven, NamesItsRow
    <3> QED  BY <1>1, <2>1, <3>1 DEF TableStep
  <2>2. CASE s \in saves
    BY <2>1, <2>2
  <2>3. ASSUME s \notin saves, NEW m \in Sends, NEW r \in SaveRows, SendSave(m, r)
        PROVE  s.row \in database'[t].given
    <3>1. s.mutation = m /\ s.row = r /\ database' = database
      BY <2>3 DEF SendSave
    <3>2. PICK p \in Shows : Api(m).tables = {TypeOf[p]} /\ r \in entry[p].rows
      BY <1>4, <2>3, <3>1, SentFromAList DEF NamesItsRow
    <3>3. r \in database[TypeOf[p]].given
      BY <3>2, ComponentsShow DEF RowsWereGiven
    <3> QED  BY <1>4, <3>1, <3>2, <3>3
  <2>4. ASSUME s \notin saves, NEW u \in saves, ServerApplies(u)
        PROVE  s.row \in database'[t].given
    <3>1. s.mutation = u.mutation /\ (Api(u.mutation).does # "create" => s.row = u.row)
      BY <2>4, RowApplied
    <3>2. Api(u.mutation).does # "create"
      BY <1>4, <3>1, CacheNumbers, ComponentsShow DEF NamesItsRow
    <3> QED  BY <2>1, <3>1, <3>2
  <2> QED  BY <2>2, <2>3, <2>4, SavesStep
<1> QED  BY <1>2, <1>3, <1>4 DEF RowsWereGiven, NamesItsRow

\* A row a later reading lacks stays gone.
LEMMA RowsGonePreserved ==
  CacheTyped /\ RowsWereGiven /\ RowsGone /\ [CacheNext]_cacheVars => RowsGone'
<1> SUFFICES ASSUME CacheTyped, RowsWereGiven, RowsGone, [CacheNext]_cacheVars,
                    NEW q \in Queries, fetch'[q].at = "read",
                    NEW r \in entry'[q].rows, r \in database'[TypeOf[q]].rows
             PROVE  r \in fetch'[q].rows
  BY DEF RowsGone
<1>1. EntryStep(q)
  BY EntriesStep
<1>2. TypeOf[q] \in Tables
  BY CacheNumbers
<1>3. TableStep(TypeOf[q])
  BY <1>2, TablesStep
<1>4. CASE entry'[q] = entry[q] /\ fetch'[q] = fetch[q]
  <2>1. r \in database[TypeOf[q]].rows
    BY <1>2, <1>3, <1>4 DEF TableStep, RowsWereGiven
  <2> QED  BY <1>4, <2>1 DEF RowsGone
<1>5. CASE database' = database /\ fetch'[q].rows = database[TypeOf[q]].rows
  BY <1>5
<1>6. CASE fetch'[q] \in {Idle, Sent}
  BY <1>6 DEF Idle, Sent
<1> QED  BY <1>1, <1>4, <1>5, <1>6 DEF EntryStep

\* Every list has, or has lost, the row of a save, or was read after it.
LEMMA SavesNoticedPreserved ==
  CacheInv /\ [CacheNext]_cacheVars => SavesAreNoticed'
<1> SUFFICES ASSUME CacheInv, [CacheNext]_cacheVars PROVE SavesAreNoticed'
  OBVIOUS
<1>0. CacheTyped /\ NothingEarly /\ RowsWereGiven /\ RowsGone /\ SavesAreNoticed
  BY DEF CacheInv
<1>1. Shows' = Shows
  <2>1. component' = component
    BY DEF CacheNext, cacheVars, Mount, Unmount, Refetch, Expire, ServerReads, QueryFulfilled,
           QueryRejected, SendSave, ServerApplies, OthersChange, SaveFulfilled, SaveRejected
  <2> QED  BY <2>1 DEF Shows, ComponentNamed
<1>2. SUFFICES ASSUME NEW q \in Shows, NEW s \in saves', NamesItsRow(s),
                      TypeOf[q] \in Api(s.mutation).tables
               PROVE  /\ entry'[q].status = "done"
                           => HasRowOf(s, TypeOf[q], entry[q].rows, entry[q].version)'
                      /\ fetch'[q].at = "read"
                           => HasRowOf(s, TypeOf[q], fetch[q].rows, fetch[q].version)'
  BY <1>1 DEF SavesAreNoticed, NamesItsRow, HasRowOf
<1> DEFINE T == TypeOf[q]
<1>3. q \in Queries /\ T \in Tables /\ EntryStep(q) /\ TableStep(T)
  BY <1>0, ComponentsShow, CacheNumbers, EntriesStep, TablesStep
<1>4. CASE s \in saves
  <2>1. s.row \in database[T].given
    BY <1>0, <1>2, <1>4 DEF RowsWereGiven
  <2>2. s.row \notin database[T].rows => s.row \notin database'[T].rows
    BY <1>3, <2>1 DEF TableStep
  <2>3. /\ entry[q].status = "done" => HasRowOf(s, T, entry[q].rows, entry[q].version)
        /\ fetch[q].at = "read" => HasRowOf(s, T, fetch[q].rows, fetch[q].version)
    BY <1>0, <1>2, <1>4 DEF SavesAreNoticed
  <2>4. ASSUME entry'[q].status = "done"
        PROVE  HasRowOf(s, T, entry[q].rows, entry[q].version)'
    <3>1. CASE entry'[q] = entry[q]
      BY <2>2, <2>3, <2>4, <3>1 DEF HasRowOf
    <3>2. CASE fetch[q].at = "read" /\ entry'[q].rows = fetch[q].rows
                                   /\ entry'[q].version = fetch[q].version
      BY <2>2, <2>3, <3>2 DEF HasRowOf
    <3>3. [entry[q] EXCEPT !.status = "failed", !.tags = Provides(q, {})].status = "failed"
      BY <1>0, <1>3 DEF CacheTyped, EntryRecord
    <3>4. NoEntry.status = "none"
      BY DEF NoEntry
    <3>5. \/ entry'[q] \in {entry[q], NoEntry,
                           [entry[q] EXCEPT !.status = "failed", !.tags = Provides(q, {})]}
          \/ fetch[q].at = "read" /\ entry'[q].rows = fetch[q].rows
                                 /\ entry'[q].version = fetch[q].version
      BY <1>3 DEF EntryStep
    <3> QED  BY <2>4, <3>1, <3>2, <3>3, <3>4, <3>5
  <2>5. ASSUME fetch'[q].at = "read"
        PROVE  HasRowOf(s, T, fetch[q].rows, fetch[q].version)'
    <3>1. CASE fetch'[q] = fetch[q]
      BY <2>2, <2>3, <2>5, <3>1 DEF HasRowOf
    <3>2. CASE /\ database' = database /\ fetch'[q].rows = database[T].rows
               /\ fetch'[q].version = database[T].version
      <4>1. s.at \in {"sent", "applied"}
        BY <1>0, <1>4, CacheNumbers
      <4>2. s.at = "applied" => database[T].version >= s.version[T]
        BY <1>0, <1>3, <1>4, CacheNumbers DEF NothingEarly
      <4> QED  BY <3>2, <4>1, <4>2 DEF HasRowOf
    <3>3. CASE fetch'[q] \in {Idle, Sent}
      BY <2>5, <3>3 DEF Idle, Sent
    <3> QED  BY <1>3, <3>1, <3>2, <3>3 DEF EntryStep
  <2> QED  BY <2>4, <2>5
<1>5. ASSUME s \notin saves, NEW m \in Sends, NEW r \in SaveRows, SendSave(m, r)
      PROVE  /\ entry'[q].status = "done"
                  => HasRowOf(s, TypeOf[q], entry[q].rows, entry[q].version)'
             /\ fetch'[q].at = "read"
                  => HasRowOf(s, TypeOf[q], fetch[q].rows, fetch[q].version)'
  <2>1. /\ s.mutation = m /\ s.row = r /\ s.at = "sent"
        /\ UNCHANGED <<database, entry, fetch>>
    BY <1>5 DEF SendSave
  <2>2. PICK p \in Shows : Api(m).tables = {TypeOf[p]} /\ r \in entry[p].rows
    BY <1>2, <1>5, <2>1, SentFromAList DEF NamesItsRow
  <2>3. p = q
    BY <1>2, <2>1, <2>2, ComponentsShow
  <2>4. fetch[q].at = "read" => r \in fetch[q].rows \/ r \notin database[T].rows
    BY <1>0, <1>3, <2>2, <2>3 DEF RowsGone
  <2> QED  BY <2>1, <2>2, <2>3, <2>4 DEF HasRowOf
<1>6. ASSUME s \notin saves, NEW u \in saves, ServerApplies(u)
      PROVE  /\ entry'[q].status = "done"
                  => HasRowOf(s, TypeOf[q], entry[q].rows, entry[q].version)'
             /\ fetch'[q].at = "read"
                  => HasRowOf(s, TypeOf[q], fetch[q].rows, fetch[q].version)'
  <2>1. /\ s.mutation = u.mutation /\ s.at = "applied" /\ u.at = "sent"
        /\ Api(u.mutation).does # "create" => s.row = u.row
    BY <1>0, <1>6, RowApplied
  <2>2. UNCHANGED <<entry, fetch>>
    BY <1>6 DEF ServerApplies
  <2>3. Api(u.mutation).does = "update" /\ Api(u.mutation).tables = {T}
    BY <1>0, <1>2, <2>1, ComponentsShow, CacheNumbers DEF NamesItsRow
  <2>4. u.row \in database[T].rows
    BY <1>6, <2>3 DEF ServerApplies
  <2>5. /\ entry[q].status = "done" => u.row \in entry[q].rows
        /\ fetch[q].at = "read" => u.row \in fetch[q].rows
    BY <1>0, <1>2, <2>1, <2>4 DEF SavesAreNoticed, HasRowOf, NamesItsRow
  <2> QED  BY <2>1, <2>2, <2>3, <2>5 DEF HasRowOf
<1> QED  BY <1>4, <1>5, <1>6, SavesStep

\* Whatever the browser is told of, its lists show, or are fetched again, or
\* dropped, or overtaken.
LEMMA ListsFreshPreserved == CacheInv /\ [CacheNext]_cacheVars => ListsAreFresh'
<1> SUFFICES ASSUME CacheInv, [CacheNext]_cacheVars PROVE ListsAreFresh'
  OBVIOUS
<1>0. CacheTyped /\ TagsOfRows /\ NothingEarly /\ SavesAreNoticed /\ ListsAreFresh
  BY DEF CacheInv
<1>1. CachedLists' = CachedLists
  <2>1. component' = component
    BY DEF CacheNext, cacheVars, Mount, Unmount, Refetch, Expire, ServerReads, QueryFulfilled,
           QueryRejected, SendSave, ServerApplies, OthersChange, SaveFulfilled, SaveRejected
  <2> QED  BY <2>1 DEF CachedLists, Shows, ComponentNamed
<1>2. SUFFICES ASSUME NEW q \in CachedLists, q \notin overtaken'
               PROVE  /\ entry'[q].status = "done" /\ fetch'[q].at = "idle"
                           => entry'[q].version >= told'[TypeOf[q]]
                      /\ fetch'[q].at = "read" => fetch'[q].version >= told'[TypeOf[q]]
  BY <1>1 DEF ListsAreFresh, Pending
<1> DEFINE T == TypeOf[q]
<1>3. /\ q \in Queries /\ q \in Shows /\ T \in Tables /\ EntryStep(q)
      /\ told[T] \in Nat /\ database[T].version \in Nat /\ told[T] <= database[T].version
  BY <1>0, ComponentsShow, CacheNumbers, EntriesStep DEF CachedLists, NothingEarly
<1>4. q \notin overtaken =>
        /\ entry[q].status = "done" /\ fetch[q].at = "idle" => entry[q].version >= told[T]
        /\ fetch[q].at = "read" => fetch[q].version >= told[T]
  BY <1>0 DEF ListsAreFresh, Pending
<1>5. Idle.at = "idle" /\ Sent.at = "sent" /\ NoEntry.status = "none"
  BY DEF Idle, Sent, NoEntry
<1>6. [entry[q] EXCEPT !.status = "failed", !.tags = Provides(q, {})].status = "failed"
  BY <1>0, <1>3 DEF CacheTyped, EntryRecord
<1>7. ASSUME told' = told, q \notin overtaken
      PROVE  /\ entry'[q].status = "done" /\ fetch'[q].at = "idle" => entry'[q].version >= told'[T]
             /\ fetch'[q].at = "read" => fetch'[q].version >= told'[T]
  <2>1. CASE entry'[q] = entry[q] /\ fetch'[q] = fetch[q]
    BY <1>4, <1>7, <2>1
  <2>2. CASE fetch'[q] = Sent
    BY <1>5, <2>2
  <2>3. CASE entry'[q] = NoEntry /\ fetch'[q] = Idle
    BY <1>5, <2>3
  <2>4. CASE fetch'[q] = [at |-> "read", version |-> database[T].version, rows |-> database[T].rows]
    BY <1>3, <1>7, <2>4
  <2>5. CASE /\ fetch[q].at = "read" /\ fetch'[q] = Idle
             /\ entry'[q] = [status |-> "done", version |-> fetch[q].version, rows |-> fetch[q].rows,
                             tags |-> Provides(q, fetch[q].rows)]
    BY <1>4, <1>5, <1>7, <2>5
  <2>6. CASE /\ fetch'[q] = Idle
             /\ entry'[q] = [entry[q] EXCEPT !.status = "failed", !.tags = Provides(q, {})]
    BY <1>5, <1>6, <2>6
  <2> QED  BY <1>3, <2>1, <2>2, <2>3, <2>4, <2>5, <2>6 DEF EntryStep
<1>8. ASSUME NEW p \in Queries, Expire(p)
      PROVE  /\ entry'[q].status = "done" /\ fetch'[q].at = "idle" => entry'[q].version >= told'[T]
             /\ fetch'[q].at = "read" => fetch'[q].version >= told'[T]
  <2>1. CASE p = q
    BY <1>0, <1>3, <1>5, <1>8, <2>1 DEF Expire, CacheTyped, CacheTypeOK
  <2>2. CASE p # q
    BY <1>2, <1>7, <1>8, <2>2 DEF Expire
  <2> QED  BY <2>1, <2>2
<1>9. ASSUME NEW p \in Queries, QueryFulfilled(p)
      PROVE  /\ entry'[q].status = "done" /\ fetch'[q].at = "idle" => entry'[q].version >= told'[T]
             /\ fetch'[q].at = "read" => fetch'[q].version >= told'[T]
  <2>1. CASE q \notin overtaken
    BY <1>7, <1>9, <2>1 DEF QueryFulfilled
  <2>2. CASE q \in overtaken
    <3>1. p = q /\ fetch[q].version >= told[T] /\ told' = told
      BY <1>2, <1>9, <2>2 DEF QueryFulfilled
    <3>2. entry'[q].version = fetch[q].version /\ fetch'[q] = Idle
      BY <1>0, <1>3, <1>9, <3>1 DEF QueryFulfilled, CacheTyped, CacheTypeOK
    <3> QED  BY <1>5, <3>1, <3>2
  <2> QED  BY <2>1, <2>2
<1>10. ASSUME NEW s \in saves, SaveFulfilled(s)
       PROVE  /\ entry'[q].status = "done" /\ fetch'[q].at = "idle" => entry'[q].version >= told'[T]
              /\ fetch'[q].at = "read" => fetch'[q].version >= told'[T]
  <2> DEFINE m == s.mutation
  <2>1. /\ s.at = "applied" /\ q \notin overtaken
        /\ told'[T] = IF T \in Api(m).tables /\ s.version[T] > told[T] THEN s.version[T] ELSE told[T]
        /\ ~(Pending(q) /\ T \in Api(m).tables)
    BY <1>2, <1>3, <1>10 DEF SaveFulfilled
  <2>2. Touched(s) \in SUBSET Queries
    BY DEF Touched
  <2>3. \/ entry'[q] = entry[q] /\ fetch'[q] = fetch[q] /\ (q \in Touched(s) => Pending(q))
        \/ entry'[q] = entry[q] /\ fetch'[q] = Sent /\ ~Pending(q)
        \/ entry'[q] = NoEntry /\ fetch'[q] = Idle
    <3>1. PICK asked : Invalidate(Touched(s), asked)
      BY <1>10 DEF SaveFulfilled
    <3> QED  BY <1>0, <1>3, <2>2, <3>1, Invalidates
  <2>4. ASSUME entry[q].status = "done", fetch[q].at = "idle", q \notin Touched(s), T \in Api(m).tables
        PROVE  entry[q].version >= s.version[T]
    <3>1. m \in Sends /\ entry[q].tags = Provides(q, entry[q].rows)
      BY <1>0, <1>3, <2>4, CacheNumbers DEF TagsOfRows
    <3>2. ~\E tag \in Invalidated(m, s.row) : Names(tag, entry[q].tags)
      BY <1>3, <2>4 DEF Touched
    <3>3. "row" \in Api(m).invalidates /\ s.row \notin entry[q].rows
      BY <2>4, <3>1, <3>2, SavesNameLists
    <3> QED  BY <1>0, <1>3, <2>1, <2>4, <3>3 DEF SavesAreNoticed, HasRowOf, NamesItsRow
  <2>5. CASE entry'[q] = entry[q] /\ fetch'[q] = fetch[q] /\ (q \in Touched(s) => Pending(q))
    <3>1. ASSUME fetch[q].at = "read" PROVE fetch[q].version >= told'[T]
      BY <1>4, <2>1, <3>1 DEF Pending
    <3>2. ASSUME entry[q].status = "done", fetch[q].at = "idle" PROVE entry[q].version >= told'[T]
      <4>1. q \notin Touched(s)
        BY <2>5, <3>2 DEF Pending
      <4> QED  BY <1>4, <2>1, <2>4, <3>2, <4>1
    <3> QED  BY <2>5, <3>1, <3>2
  <2> QED  BY <1>5, <2>3, <2>5
<1>11. CASE \/ Mount \/ Unmount \/ Refetch \/ OthersChange \/ UNCHANGED cacheVars
            \/ \E p \in Queries : ServerReads(p) \/ QueryRejected(p)
            \/ \E m \in Sends, r \in SaveRows : SendSave(m, r)
            \/ \E s \in saves : ServerApplies(s) \/ SaveRejected(s)
  <2>1. told' = told /\ overtaken' = overtaken
    BY <1>11 DEF cacheVars, Mount, Unmount, Refetch, ServerReads, QueryRejected, SendSave,
                 ServerApplies, OthersChange, SaveRejected
  <2> QED  BY <1>2, <1>7, <2>1
<1> QED  BY <1>8, <1>9, <1>10, <1>11 DEF CacheNext, SaveRows

\* Nothing is shown, cached or on the wire.
LEMMA CacheInitially == CacheInit => CacheInv
<1> SUFFICES ASSUME CacheInit PROVE CacheInv
  OBVIOUS
<1>1. \A t \in Tables : FirstRows(t) \subseteq Rows
  BY RowsAssumption DEF FirstRows
<1>2. 0 \in 0..MaxVersion
  BY BoundsAssumption
<1>3. /\ NoEntry \in EntryRecord /\ NoEntry.tags = {} /\ NoEntry.rows = {}
      /\ NoEntry.status = "none" /\ Idle.at = "idle" /\ Idle.rows = {}
  BY <1>2 DEF NoEntry, EntryRecord, Idle
<1>4. \A q \in Queries : entry[q] = NoEntry /\ fetch[q] = Idle
  BY DEF CacheInit
<1>5. entry \in [Queries -> EntryRecord]
  BY <1>3 DEF CacheInit
<1>6. CacheTypeOK
  <2>1. component \in Components /\ componentShown \in BOOLEAN /\ overtaken \subseteq Queries
    BY DEF CacheInit
  <2>2. database \in [Tables -> [version : 0..MaxVersion, rows : SUBSET Rows, given : SUBSET Rows]]
    BY <1>1, <1>2 DEF CacheInit
  <2>3. fetch \in [Queries -> [at : {"idle", "sent", "read"}, version : 0..MaxVersion, rows : SUBSET Rows]]
    BY <1>2 DEF CacheInit, Idle
  <2>4. \A q \in Queries :
          /\ entry[q].status \in {"none", "done", "failed"} /\ entry[q].version \in 0..MaxVersion
          /\ entry[q].rows \subseteq Rows
          /\ entry[q].tags \subseteq {TypeOf[q]} \X (Rows \cup {AnyId, LIST})
    BY <1>3, <1>4, <1>5 DEF EntryRecord
  <2>5. saves \subseteq [mutation : Sends, row : SaveRows, at : {"sent", "applied"},
                        version : [Tables -> 0..MaxVersion]]
    BY DEF CacheInit
  <2>6. told \in [Tables -> 0..MaxVersion] /\ DOMAIN entry = Queries
    BY <1>2 DEF CacheInit
  <2> QED  BY <2>1, <2>2, <2>3, <2>4, <2>5, <2>6 DEF CacheTypeOK, SaveRows
<1>7. TagsOfRows
  BY <1>3, <1>4 DEF TagsOfRows
<1>8. NothingEarly /\ RowsWereGiven
  <2>1. \A t \in Tables : /\ told[t] = 0 /\ database[t].version = 0
                          /\ database[t].rows = database[t].given
    BY DEF CacheInit
  <2>2. saves = {}
    BY DEF CacheInit
  <2> QED  BY <1>3, <1>4, <2>1, <2>2 DEF NothingEarly, RowsWereGiven
<1>9. RowsGone
  BY <1>3, <1>4 DEF RowsGone
<1>10. SavesAreNoticed
  BY DEF CacheInit, SavesAreNoticed
<1>11. ListsAreFresh
  BY <1>3, <1>4, ComponentsShow DEF ListsAreFresh, CachedLists
<1> QED  BY <1>5, <1>6, <1>7, <1>8, <1>9, <1>10, <1>11 DEF CacheInv, CacheTyped

\* The invariant of the cache.
LEMMA CachePreserved == CacheInv /\ [CacheNext]_cacheVars => CacheInv'
<1> SUFFICES ASSUME CacheInv, [CacheNext]_cacheVars PROVE CacheInv'
  OBVIOUS
<1>1. CacheTyped' /\ TagsOfRows' /\ NothingEarly' /\ RowsWereGiven' /\ RowsGone'
  BY CacheTypePreserved, TagsPreserved, NothingEarlyPreserved, RowsGivenPreserved,
     RowsGonePreserved DEF CacheInv
<1>2. SavesAreNoticed' /\ ListsAreFresh'
  BY SavesNoticedPreserved, ListsFreshPreserved
<1> QED  BY <1>1, <1>2 DEF CacheInv

\* Entries, fetches, saves and tables keep their types.
THEOREM CacheTypeCorrect == CacheSpec => []CacheTypeOK
<1>1. CacheInv => CacheTypeOK
  BY DEF CacheInv, CacheTyped
<1> QED  BY <1>1, CacheInitially, CachePreserved, PTL DEF CacheSpec

\* A list at rest shows every change its own browser was told of, on every
\* component but the goals, for any rows, changes and saves on the wire.
THEOREM ListsReadOwnWrites == CacheSpec => []ReadsOwnWrites
<1>1. CacheInv => ReadsOwnWrites
  BY DEF CacheInv, ListsAreFresh, ReadsOwnWrites, CachedLists
<1> QED  BY <1>1, CacheInitially, CachePreserved, PTL DEF CacheSpec

USE FirstAssumption, NoTenantAssumption, MockAssumption

\* A change of its own that the server has made and the handler not yet heard of.
Unheard == {c \in adminCalls \ Loads : c.at = "answered"}

\* The server's list is what was last read, unless something is yet to be heard
\* or never will be.
TableInStep == ~unseenChange /\ Unheard = {}

\* Where loads do not overlap there is at most one.
LoneLoad == ~loadsOverlap => \A c, d \in Loads : c = d

\* Such a load, once answered, carries the server's list, and where there is
\* none the table shows it.
LoadIsFresh ==
  ~loadsOverlap /\ TableInStep => \A c \in Loads : c.at = "answered" => c.rows = ServerList
TableIsFresh ==
  ~loadsOverlap /\ TableInStep /\ Loads = {} => tenants \in {NoRows, MockList, ServerList}

TenantsInv == LoneLoad /\ LoadIsFresh /\ TableIsFresh

(* --------------------------------- types --------------------------------- *)

\* The lists a load may carry, or the table show.
RowLists == [TenantRows -> TenantStatus]
PanelKinds == [kind : {"none", "create", "card", "terminate"}, row : TenantRows \cup {NoTenant}]
AdminCalls == [kind : {"load", "reload", "create", "terminate", "resume", "change"},
               row : TenantRows \cup {NoTenant}, at : {"sent", "answered"}, rows : RowLists]

\* The list of made-up rows, and the one of none, are lists of rows; so is the server's.
LEMMA RowListsTyped ==
  /\ MockList \in RowLists /\ NoRows \in RowLists
  /\ AdminTypeOK => ServerList \in RowLists
<1>1. MockList \in RowLists
  <2>1. \A r \in TenantRows : r \notin Tenants => MockTenants[r] \in {"active", "suspended"}
    BY DEF TenantRows, MockTenants
  <2> QED  BY <2>1 DEF MockList, RowLists, TenantStatus
<1>2. NoRows \in RowLists
  BY DEF NoRows, RowLists, TenantStatus
<1>3. ASSUME AdminTypeOK PROVE ServerList \in RowLists
  BY <1>3 DEF AdminTypeOK, ServerList, RowLists, TenantStatus
<1> QED  BY <1>1, <1>2, <1>3

\* A call sent is one on the wire.
LEMMA AdminCallTyped ==
  ASSUME NEW k \in {"load", "reload", "create", "terminate", "resume", "change"},
         NEW r \in TenantRows \cup {NoTenant}
  PROVE  AdminCall(k, r) \in AdminCalls
BY RowListsTyped DEF AdminCall, AdminCalls

\* Loading the table again leaves what it is about typed.
LEMMA FetchTenantsTyped ==
  ASSUME NEW among \in SUBSET AdminCalls, fetchTenants(among)
  PROVE  adminCalls' \subseteq AdminCalls /\ tenantsLoading' \in BOOLEAN /\ loadsOverlap' \in BOOLEAN
<1>1. PICK k \in {"load", "reload"} : adminCalls' = among \cup {AdminCall(k, NoTenant)}
  BY DEF fetchTenants
<1>2. AdminCall(k, NoTenant) \in AdminCalls
  BY AdminCallTyped
<1> QED  BY <1>1, <1>2 DEF fetchTenants

\* No step of the screen, or of the server under it, leaves its type.
LEMMA AdminTypePreserved == AdminTypeOK /\ [AdminNext]_adminVars => AdminTypeOK'
<1> SUFFICES ASSUME AdminTypeOK, [AdminNext]_adminVars PROVE AdminTypeOK'
  OBVIOUS
<1>0. /\ networks \in [Tenants -> {"active", "blocked", "none"}] /\ tenants \in RowLists
      /\ tenantsLoading \in BOOLEAN /\ loadsOverlap \in BOOLEAN /\ unseenChange \in BOOLEAN
      /\ panel \in PanelKinds /\ adminCalls \subseteq AdminCalls
  BY DEF AdminTypeOK, RowLists, PanelKinds, AdminCalls
<1> DEFINE Goal == /\ networks' \in [Tenants -> {"active", "blocked", "none"}] /\ tenants' \in RowLists
                   /\ tenantsLoading' \in BOOLEAN /\ loadsOverlap' \in BOOLEAN
                   /\ unseenChange' \in BOOLEAN
                   /\ panel' \in PanelKinds /\ adminCalls' \subseteq AdminCalls
<1> SUFFICES Goal
  BY DEF AdminTypeOK, RowLists, PanelKinds, AdminCalls
<1>1. CASE OpenSection
  BY <1>0, <1>1, FetchTenantsTyped DEF OpenSection
<1>2. ASSUME NEW k \in {"create", "card", "terminate"}, NEW r \in TenantRows \cup {NoTenant},
             OpenPanel(k, r)
      PROVE  Goal
  <2>1. Panel(k, r) \in PanelKinds
    BY DEF Panel, PanelKinds
  <2> QED  BY <1>0, <1>2, <2>1 DEF OpenPanel
<1>3. CASE ClosePanel
  <2>1. Uncovered \in PanelKinds
    BY DEF Uncovered, Panel, PanelKinds
  <2> QED  BY <1>0, <1>3, <2>1 DEF ClosePanel
<1>4. ASSUME NEW k \in {"create", "terminate", "change", "resume"},
             NEW r \in TenantRows \cup {NoTenant}, SendAdmin(AdminCall(k, r))
      PROVE  Goal
  BY <1>0, <1>4, AdminCallTyped DEF SendAdmin
<1>5. panel.row \in TenantRows \cup {NoTenant}
  BY <1>0 DEF PanelKinds
<1>6. ASSUME NEW c \in adminCalls, AdminReads(c) PROVE Goal
  <2>1. [c EXCEPT !.at = "answered", !.rows = ServerList] \in AdminCalls
    BY <1>0, RowListsTyped DEF AdminCalls
  <2> QED  BY <1>0, <1>6, <2>1 DEF AdminReads
<1>7. ASSUME NEW c \in adminCalls, TableLoaded(c) \/ TableLoadFailed(c) PROVE Goal
  <2>1. c.rows \in RowLists
    BY <1>0 DEF AdminCalls
  <2> QED  BY <1>0, <1>7, <2>1, RowListsTyped DEF TableLoaded, TableLoadFailed, TableLoadEnds
<1>8. ASSUME NEW c \in adminCalls, AdminApplies(c) PROVE Goal
  <2>1. [c EXCEPT !.at = "answered"] \in AdminCalls
    BY <1>0 DEF AdminCalls
  <2>2. Applied(c) \subseteq [Tenants -> {"active", "blocked", "none"}]
    BY <1>0 DEF Applied
  <2> QED  BY <1>0, <1>8, <2>1, <2>2 DEF AdminApplies
<1>9. ASSUME NEW c \in adminCalls, Succeeded(c) PROVE Goal
  <2>1. panel' \in PanelKinds
    BY <1>0, <1>9 DEF Succeeded, CloseModal, Uncovered, Panel, PanelKinds
  <2> QED  BY <1>0, <1>9, <2>1, FetchTenantsTyped DEF Succeeded
<1>10. ASSUME NEW c \in adminCalls, Failed(c) PROVE Goal
  BY <1>0, <1>10 DEF Failed
<1>11. ASSUME NEW t \in Tenants, OthersBlock(t) PROVE Goal
  BY <1>0, <1>11 DEF OthersBlock
<1>12. CASE UNCHANGED adminVars
  BY <1>0, <1>12 DEF adminVars
<1>13. CASE handleCreateTenant \/ handleTerminate \/ handleChange
            \/ \E r \in TenantRows : handleResume(r)
  BY <1>4, <1>5, <1>13 DEF handleCreateTenant, handleTerminate, handleChange, handleResume
<1> QED
  BY <1>1, <1>2, <1>3, <1>6, <1>7, <1>8, <1>9, <1>10, <1>11, <1>12, <1>13 DEF AdminNext

\* The screen opens typed.
LEMMA AdminTypeInitially == AdminInit => AdminTypeOK
<1> SUFFICES ASSUME AdminInit PROVE AdminTypeOK
  OBVIOUS
<1>1. AdminCall("load", NoTenant) \in AdminCalls
  BY AdminCallTyped
<1>2. networks \in [Tenants -> {"active", "blocked", "none"}]
  BY DEF AdminInit
<1> QED
  BY <1>1, <1>2, RowListsTyped
     DEF AdminInit, AdminTypeOK, AdminCalls, RowLists, Uncovered, Panel

\* Whatever is created, blocked and removed while loads are on the wire, the
\* table and its calls are of networks there may be or of made-up rows.
THEOREM TenantsTypeCorrect == AdminSpec => []AdminTypeOK
BY AdminTypeInitially, AdminTypePreserved, PTL DEF AdminSpec

(* ------------------------------- the spinner ------------------------------- *)

\* A load sent is on the wire, beside what was there.
LEMMA FetchAdds ==
  ASSUME NEW among, fetchTenants(among)
  PROVE  \E k \in {"load", "reload"} :
           /\ adminCalls' = among \cup {AdminCall(k, NoTenant)}
           /\ Loads' = {c \in among : c.kind \in {"load", "reload"}} \cup {AdminCall(k, NoTenant)}
<1>1. PICK k \in {"load", "reload"} : adminCalls' = among \cup {AdminCall(k, NoTenant)}
  BY DEF fetchTenants
<1>2. AdminCall(k, NoTenant).kind = k
  BY DEF AdminCall
<1> QED  BY <1>1, <1>2 DEF Loads

\* A call of a handler is not a load.
LEMMA SendAdds ==
  ASSUME NEW k \in {"create", "terminate", "resume", "change"}, NEW r, SendAdmin(AdminCall(k, r))
  PROVE  Loads' = Loads /\ Unheard' = Unheard
<1>1. AdminCall(k, r).kind = k /\ AdminCall(k, r).at = "sent"
  BY DEF AdminCall
<1>2. Loads' = Loads
  BY <1>1 DEF SendAdmin, Loads
<1> QED  BY <1>1, <1>2 DEF SendAdmin, Unheard

\* The four actions that send what is not a load.
HandlersSend ==
  \/ handleCreateTenant \/ handleTerminate \/ handleChange
  \/ \E r \in TenantRows : handleResume(r)

\* They leave the loads, and what is yet to be heard, alone.
LEMMA SendsKeep ==
  HandlersSend => /\ Loads' = Loads /\ Unheard' = Unheard
           /\ UNCHANGED <<networks, tenants, tenantsLoading, loadsOverlap, unseenChange>>
BY SendAdds DEF HandlersSend, handleCreateTenant, handleTerminate, handleChange, handleResume, SendAdmin

\* While the spinner turns, every step leaves a load on the wire or stops it.
LEMMA TenantsSpinnerPreserved ==
  NoIdleSpinner /\ [AdminNext]_adminVars => NoIdleSpinner'
<1> SUFFICES ASSUME NoIdleSpinner, [AdminNext]_adminVars PROVE NoIdleSpinner'
  OBVIOUS
<1> USE DEF NoIdleSpinner
<1>1. CASE OpenSection \/ \E c \in adminCalls : Succeeded(c)
  <2>1. PICK among : fetchTenants(among)
    BY <1>1 DEF OpenSection, Succeeded
  <2> QED  BY <2>1, FetchAdds
<1>2. ASSUME NEW c \in adminCalls, AdminReads(c) PROVE NoIdleSpinner'
  <2>1. [c EXCEPT !.at = "answered", !.rows = ServerList].kind = c.kind
    BY DEF AdminReads
  <2> QED  BY <1>2, <2>1 DEF AdminReads, Loads
<1>3. ASSUME NEW c \in adminCalls, TableLoaded(c) \/ TableLoadFailed(c) PROVE NoIdleSpinner'
  BY <1>3 DEF TableLoaded, TableLoadFailed, TableLoadEnds
<1>4. ASSUME NEW c \in adminCalls, AdminApplies(c) PROVE NoIdleSpinner'
  BY <1>4 DEF AdminApplies, Loads
<1>5. ASSUME NEW c \in adminCalls, Failed(c) PROVE NoIdleSpinner'
  BY <1>5 DEF Failed, Loads
<1>6. CASE HandlersSend
  BY <1>6, SendsKeep
<1>7. ASSUME UNCHANGED <<tenantsLoading, adminCalls>> PROVE NoIdleSpinner'
  BY <1>7 DEF Loads
<1> QED
  BY <1>1, <1>2, <1>3, <1>4, <1>5, <1>6, <1>7
     DEF AdminNext, OpenPanel, ClosePanel, OthersBlock, adminVars, HandlersSend

\* However loads overlap and fail, the table does not wait for nothing.
THEOREM TableSpinnerStops == AdminSpec => []NoIdleSpinner
<1>1. AdminInit => NoIdleSpinner
  <2>1. AdminCall("load", NoTenant).kind = "load"
    BY DEF AdminCall
  <2>2. AdminInit => AdminCall("load", NoTenant) \in Loads
    BY <2>1 DEF AdminInit, Loads
  <2> QED  BY <2>2 DEF NoIdleSpinner
<1> QED  BY <1>1, TenantsSpinnerPreserved, PTL DEF AdminSpec

(* ------------------------------- the table ------------------------------- *)

\* Loads and changes as they were, all that was in step stays in step.
LEMMA TenantsKept ==
  ASSUME TenantsInv, Loads' = Loads, Unheard' = Unheard,
         UNCHANGED <<networks, tenants, loadsOverlap>>, unseenChange' <=> unseenChange
  PROVE  TenantsInv'
BY DEF TenantsInv, LoneLoad, LoadIsFresh, TableIsFresh, TableInStep, ServerList

\* A load sent beside none is the only one; beside another it overlaps.
LEMMA FetchFresh ==
  ASSUME NEW among \in SUBSET adminCalls, fetchTenants(among),
         \A c \in Loads : c \in among
  PROVE  TenantsInv'
<1>1. PICK k \in {"load", "reload"} :
        Loads' = {c \in among : c.kind \in {"load", "reload"}} \cup {AdminCall(k, NoTenant)}
  BY FetchAdds
<1>2. ~loadsOverlap' => Loads' = {AdminCall(k, NoTenant)}
  BY <1>1 DEF fetchTenants
<1>3. AdminCall(k, NoTenant).at = "sent"
  BY DEF AdminCall
<1> QED  BY <1>2, <1>3 DEF TenantsInv, LoneLoad, LoadIsFresh, TableIsFresh

\* Every action keeps the table in step, or knows that it is not.
LEMMA TenantsPreserved ==
  TenantsInv /\ [AdminNext]_adminVars => TenantsInv'
<1> SUFFICES ASSUME TenantsInv, [AdminNext]_adminVars PROVE TenantsInv'
  OBVIOUS
<1>1. CASE OpenSection
  BY <1>1, FetchFresh DEF OpenSection, Loads
<1>2. ASSUME NEW c \in adminCalls, Succeeded(c) PROVE TenantsInv'
  BY <1>2, FetchFresh DEF Succeeded, Loads
<1>3. ASSUME NEW c \in adminCalls, AdminReads(c) PROVE TenantsInv'
  <2> DEFINE d == [c EXCEPT !.at = "answered", !.rows = ServerList]
  <2>1. d.kind = c.kind /\ (d.at = "answered" => d.rows = ServerList)
    OBVIOUS
  <2>2. d \in Loads' /\ Loads' = (Loads \ {c}) \cup {d}
    BY <1>3, <2>1 DEF AdminReads, Loads
  <2>3. LoneLoad /\ ~loadsOverlap => Loads' = {d}
    BY <1>3, <2>2 DEF AdminReads, LoneLoad
  <2>4. ServerList' = ServerList
    BY <1>3 DEF AdminReads, ServerList
  <2>5. loadsOverlap' = loadsOverlap
    BY <1>3 DEF AdminReads
  <2> QED  BY <2>1, <2>2, <2>3, <2>4, <2>5 DEF TenantsInv, LoneLoad, LoadIsFresh, TableIsFresh
<1>4. ASSUME NEW c \in adminCalls, TableLoaded(c) \/ TableLoadFailed(c) PROVE TenantsInv'
  <2>1. c \in Loads /\ Loads' = Loads \ {c} /\ Unheard' = Unheard
    BY <1>4 DEF TableLoaded, TableLoadFailed, TableLoadEnds, Loads, Unheard
  <2>2. UNCHANGED <<networks, loadsOverlap, unseenChange>> /\ ServerList' = ServerList
    BY <1>4 DEF TableLoaded, TableLoadFailed, TableLoadEnds, ServerList
  <2>3. tenants' = MockList \/ (c.at = "answered" /\ tenants' = c.rows)
    BY <1>4 DEF TableLoaded, TableLoadFailed
  <2>4. LoneLoad' /\ LoadIsFresh'
    BY <2>1, <2>2 DEF TenantsInv, LoneLoad, LoadIsFresh, TableInStep
  <2>5. TableIsFresh'
    BY <2>1, <2>2, <2>3 DEF TenantsInv, LoadIsFresh, TableIsFresh, TableInStep, MockList
  <2> QED  BY <2>4, <2>5 DEF TenantsInv
<1>5. ASSUME NEW c \in adminCalls, AdminApplies(c) PROVE TenantsInv'
  <2> DEFINE d == [c EXCEPT !.at = "answered"]
  <2>1. d.kind = c.kind /\ d.at = "answered"
    OBVIOUS
  <2>2. Loads' = Loads /\ d \in adminCalls' \ Loads'
    BY <1>5, <2>1 DEF AdminApplies, Loads
  <2>3. ~TableInStep'
    BY <2>1, <2>2 DEF TableInStep, Unheard
  <2> QED  BY <1>5, <2>2, <2>3 DEF AdminApplies, TenantsInv, LoneLoad, LoadIsFresh, TableIsFresh
<1>6. ASSUME NEW c \in adminCalls, Failed(c) PROVE TenantsInv'
  <2>1. Loads' = Loads
    BY <1>6 DEF Failed, Loads
  <2>2. c.at = "answered" => unseenChange'
    BY <1>6 DEF Failed
  <2>3. ASSUME c.at # "answered" PROVE Unheard' = Unheard /\ (unseenChange' <=> unseenChange)
    <3>1. adminCalls' = adminCalls \ {c}
      BY <1>6 DEF Failed
    <3>2. Unheard' = Unheard
      <4>1. \A x : x \in Unheard' <=> x \in Unheard
        BY <2>1, <2>3, <3>1 DEF Unheard
      <4> QED  BY <4>1 DEF Unheard
    <3>3. unseenChange' <=> unseenChange
      BY <1>6, <2>3 DEF Failed
    <3> QED  BY <3>2, <3>3
  <2>4. UNCHANGED <<networks, tenants, loadsOverlap>>
    BY <1>6 DEF Failed
  <2>5. CASE c.at = "answered"
    BY <2>1, <2>2, <2>4, <2>5 DEF TenantsInv, LoneLoad, LoadIsFresh, TableIsFresh, TableInStep
  <2>6. CASE c.at # "answered"
    <3>1. unseenChange' <=> unseenChange
      BY <2>3, <2>6
    <3> QED  BY <2>1, <2>3, <2>4, <2>6, <3>1, TenantsKept
  <2> QED  BY <2>5, <2>6
<1>7. CASE HandlersSend
  BY <1>7, SendsKeep, TenantsKept
<1>8. ASSUME NEW t \in Tenants, OthersBlock(t) PROVE TenantsInv'
  BY <1>8 DEF OthersBlock, TenantsInv, LoneLoad, LoadIsFresh, TableIsFresh, TableInStep, Loads
<1>9. ASSUME UNCHANGED <<networks, tenants, adminCalls, loadsOverlap, unseenChange>> PROVE TenantsInv'
  BY <1>9, TenantsKept DEF Loads, Unheard
<1> QED
  BY <1>1, <1>2, <1>3, <1>4, <1>5, <1>6, <1>7, <1>8, <1>9
     DEF AdminNext, OpenPanel, ClosePanel, adminVars, HandlersSend

\* For any number of handlers at work: a table at rest, loaded from the server,
\* shows every change they have made.
THEOREM TableFollowsChanges == AdminSpec => []RowsFollowChanges
<1>1. AdminInit => TenantsInv
  BY DEF AdminInit, TenantsInv, LoneLoad, LoadIsFresh, TableIsFresh, Loads, AdminCall
<1>2. TenantsInv => RowsFollowChanges
  BY DEF TenantsInv, TableIsFresh, TableInStep, RowsFollowChanges, Loads, Unheard
<1> QED  BY <1>1, <1>2, TenantsPreserved, PTL DEF AdminSpec
=============================================================================
