---------------------------- MODULE TenantAdmin ----------------------------
(***************************************************************************)
(* The super administrator's screen of networks: the table of tenants,     *)
(* with its drawer, dialogs and handlers, over the store that keeps them.  *)
(*                                                                         *)
(* A handler sends its call, and only after the answer closes its dialog   *)
(* and asks for the table again. Nothing stops a second call, so answers   *)
(* overlap. A failed load shows made-up rows, whose ids no server knows.   *)
(* The filters narrow the table in the browser only; they hide rows from a *)
(* user who is free to leave them alone anyway, and are left out.          *)
(***************************************************************************)
EXTENDS Naturals, FiniteSets

CONSTANTS
  Tenants,       \* ids the server may give to networks
  FirstTenants,  \* the networks there are at the start
  NoTenant,      \* no row
  MaxAdminCalls  \* bound: calls on the wire

ASSUME FirstAssumption == FirstTenants \subseteq Tenants
ASSUME NoTenantAssumption == NoTenant \notin Tenants
ASSUME CallsAssumption == MaxAdminCalls \in Nat

VARIABLES
  networks,        \* the server's networks: active, blocked, or none
  tenants,         \* the rows in the store
  tenantsLoading,  \* the spinner
  panel,           \* the drawer or modal over the table, and the row it is for
  adminCalls,      \* calls on the wire
  loadsOverlap,    \* whether the last load was sent while another was on the wire
  unseenChange     \* whether the server changed untold since it read a load

adminVars == <<networks, tenants, tenantsLoading, panel, adminCalls, loadsOverlap, unseenChange>>

(* ------------------------------- the rows ------------------------------- *)

\* What the table shows when the load fails: rows of both statuses it knows.
MockTenants == [id \in {"1", "3"} |-> IF id = "3" THEN "suspended" ELSE "active"]

ASSUME MockAssumption == Tenants \cap DOMAIN MockTenants = {}

TenantRows == Tenants \cup DOMAIN MockTenants
TenantStatus == {"active", "suspended", "blocked", "none"}

MockList == [r \in TenantRows |-> IF r \in Tenants THEN "none" ELSE MockTenants[r]]
ServerList == [r \in TenantRows |-> IF r \in Tenants THEN networks[r] ELSE "none"]
NoRows == [r \in TenantRows |-> "none"]
Listed == {r \in TenantRows : tenants[r] # "none"}

\* The buttons of a row. Terminated is a status no server sends. The pause
\* button of an active row sets a flag no modal is bound to, so that
\* handleSuspend is never called: it does nothing.
RowActions(r) ==
  {"card", "terminate"} \cup (IF tenants[r] = "suspended" THEN {"resume"} ELSE {})

Panel(kind, r) == [kind |-> kind, row |-> r]
Uncovered == Panel("none", NoTenant)

(* -------------------------------- calls -------------------------------- *)

AdminCall(kind, r) == [kind |-> kind, row |-> r, at |-> "sent", rows |-> NoRows]

Loads == {c \in adminCalls : c.kind \in {"load", "reload"}}

\* fetchTenants: the spinner, and one more load beside those on the wire.
fetchTenants(among) ==
  LET first == AdminCall("load", NoTenant) IN
  /\ Cardinality(among) < MaxAdminCalls
  /\ adminCalls' = among \cup {IF first \in among THEN AdminCall("reload", NoTenant) ELSE first}
  /\ tenantsLoading' = TRUE
  /\ loadsOverlap' = (\E c \in among : c.kind \in {"load", "reload"})

SendAdmin(c) ==
  /\ c \notin adminCalls /\ Cardinality(adminCalls) < MaxAdminCalls
  /\ adminCalls' = adminCalls \cup {c}
  /\ UNCHANGED <<networks, tenants, tenantsLoading, panel, loadsOverlap, unseenChange>>

AdminInit ==
  /\ networks = [t \in Tenants |-> IF t \in FirstTenants THEN "active" ELSE "none"]
  /\ tenants = NoRows
  /\ tenantsLoading = TRUE
  /\ panel = Uncovered
  /\ adminCalls = {AdminCall("load", NoTenant)}
  /\ loadsOverlap = FALSE
  /\ unseenChange = FALSE

(* ------------------------------ the table ------------------------------ *)

\* The section is opened again: its store kept the rows.
OpenSection ==
  /\ panel = Uncovered
  /\ fetchTenants(adminCalls)
  /\ UNCHANGED <<networks, tenants, panel, unseenChange>>

AdminReads(c) ==
  /\ c \in Loads /\ c.at = "sent"
  /\ adminCalls' = (adminCalls \ {c}) \cup {[c EXCEPT !.at = "answered", !.rows = ServerList]}
  /\ unseenChange' = FALSE
  /\ UNCHANGED <<networks, tenants, tenantsLoading, panel, loadsOverlap>>

\* A load is answered, or fails and leaves the made-up rows; either way the
\* spinner stops, another load or not.
TableLoadEnds(c) ==
  /\ adminCalls' = adminCalls \ {c}
  /\ tenantsLoading' = FALSE
  /\ UNCHANGED <<networks, panel, loadsOverlap, unseenChange>>

TableLoaded(c) == c \in Loads /\ c.at = "answered" /\ tenants' = c.rows /\ TableLoadEnds(c)

\* The mutated form: a failure that returns without the finally clause.
LoadGivesUp(c) ==
  /\ c \in Loads
  /\ tenants' = MockList
  /\ adminCalls' = adminCalls \ {c}
  /\ UNCHANGED <<networks, tenantsLoading, panel, loadsOverlap, unseenChange>>

TableLoadFailed(c) == c \in Loads /\ tenants' = MockList /\ TableLoadEnds(c)

\* A row's drawer, which keeps the row as it is now, or its modal.
OpenPanel(kind, r) ==
  /\ panel = Uncovered
  /\ IF kind = "create" THEN r = NoTenant ELSE r \in Listed /\ kind \in RowActions(r)
  /\ panel' = Panel(kind, r)
  /\ UNCHANGED <<networks, tenants, tenantsLoading, adminCalls, loadsOverlap, unseenChange>>

ClosePanel ==
  /\ panel # Uncovered
  /\ panel' = Uncovered
  /\ UNCHANGED <<networks, tenants, tenantsLoading, adminCalls, loadsOverlap, unseenChange>>

\* The handlers send; what follows a success waits for the answer. The two
\* modals for terminating confirm to the same handler.
handleCreateTenant == panel.kind = "create" /\ SendAdmin(AdminCall("create", NoTenant))

handleTerminate == panel.kind = "terminate" /\ SendAdmin(AdminCall("terminate", panel.row))

handleResume(r) ==
  /\ panel = Uncovered /\ r \in Listed /\ "resume" \in RowActions(r)
  /\ SendAdmin(AdminCall("resume", r))

\* handleChangeTariff and handleChangeLicenses of the drawer.
handleChange == panel.kind = "card" /\ SendAdmin(AdminCall("change", panel.row))

\* What the server does with a call: it knows no made-up id, and of a change
\* it reads neither the tariff nor the licences.
Applied(c) ==
  CASE c.kind = "create"    -> {[networks EXCEPT ![t] = "active"] :
                                  t \in {u \in Tenants : networks[u] = "none"}}
    [] c.row \notin Tenants -> {}
    [] c.kind = "terminate" -> {[networks EXCEPT ![c.row] = "none"]}
    [] c.kind = "resume"    -> {[networks EXCEPT ![c.row] = "active"]}
    [] OTHER                -> {networks}

AdminApplies(c) ==
  /\ c \in adminCalls \ Loads /\ c.at = "sent"
  /\ networks' \in Applied(c)
  /\ adminCalls' = (adminCalls \ {c}) \cup {[c EXCEPT !.at = "answered"]}
  /\ UNCHANGED <<tenants, tenantsLoading, panel, loadsOverlap, unseenChange>>

\* A success closes the modal of its kind, for whatever row it is open by then.
CloseModal(c) ==
  panel' = IF c.kind \in {"create", "terminate"} /\ panel.kind = c.kind THEN Uncovered ELSE panel

\* The mutated form: a termination is not followed by a load.
SucceedsUnlisted(c) ==
  /\ c \in adminCalls \ Loads /\ c.at = "answered"
  /\ CloseModal(c)
  /\ IF c.kind = "terminate"
       THEN adminCalls' = adminCalls \ {c} /\ UNCHANGED <<tenantsLoading, loadsOverlap>>
       ELSE fetchTenants(adminCalls \ {c})
  /\ UNCHANGED <<networks, tenants, unseenChange>>

Succeeded(c) ==
  /\ c \in adminCalls \ Loads /\ c.at = "answered"
  /\ CloseModal(c)
  /\ fetchTenants(adminCalls \ {c})
  /\ UNCHANGED <<networks, tenants, unseenChange>>

\* The call is refused, or its answer is lost: a message, and no new load.
Failed(c) ==
  /\ c \in adminCalls \ Loads
  /\ adminCalls' = adminCalls \ {c}
  /\ unseenChange' = (unseenChange \/ c.at = "answered")
  /\ UNCHANGED <<networks, tenants, tenantsLoading, panel, loadsOverlap>>

\* Another administrator blocks or unblocks a network.
OthersBlock(t) ==
  /\ networks[t] # "none"
  /\ networks' = [networks EXCEPT ![t] = IF @ = "active" THEN "blocked" ELSE "active"]
  /\ unseenChange' = TRUE
  /\ UNCHANGED <<tenants, tenantsLoading, panel, adminCalls, loadsOverlap>>

AdminNext ==
  \/ OpenSection
  \/ OpenPanel("create", NoTenant)
  \/ \E r \in TenantRows : OpenPanel("card", r) \/ OpenPanel("terminate", r) \/ handleResume(r)
  \/ ClosePanel
  \/ handleCreateTenant \/ handleTerminate \/ handleChange
  \/ \E c \in adminCalls : AdminReads(c) \/ TableLoaded(c) \/ TableLoadFailed(c)
  \/ \E c \in adminCalls : AdminApplies(c) \/ Succeeded(c) \/ Failed(c)
  \/ \E t \in Tenants : OthersBlock(t)

AdminSpec == AdminInit /\ [][AdminNext]_adminVars

(* ------------------------------ properties ------------------------------ *)

\* Every variable has its type.
AdminTypeOK ==
  /\ networks \in [Tenants -> {"active", "blocked", "none"}]
  /\ tenants \in [TenantRows -> TenantStatus]
  /\ tenantsLoading \in BOOLEAN /\ loadsOverlap \in BOOLEAN /\ unseenChange \in BOOLEAN
  /\ panel \in [kind : {"none", "create", "card", "terminate"}, row : TenantRows \cup {NoTenant}]
  /\ adminCalls \subseteq [kind : {"load", "reload", "create", "terminate", "resume", "change"},
                           row : TenantRows \cup {NoTenant}, at : {"sent", "answered"},
                           rows : [TenantRows -> TenantStatus]]

\* With no call on the wire, a table loaded from the server shows what the
\* server has: each handler asks for the table again after its own change.
\* Two loads that were on the wire together may be taken in the wrong order,
\* and nobody tells the browser of another administrator's change or of one
\* whose answer was lost.
RowsFollowChanges ==
  adminCalls = {} /\ ~loadsOverlap /\ ~unseenChange /\ tenants \notin {NoRows, MockList}
    => tenants = ServerList

\* The table never waits for nothing: while its spinner turns, a load is on
\* the wire. (A load may be on the wire without it: the first answer stops it.)
NoIdleSpinner == tenantsLoading => Loads # {}
=============================================================================
