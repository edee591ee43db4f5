--------------------------- MODULE BrowserSession ---------------------------
(***************************************************************************)
(* One browser tab of the web client: the Redux slice that says who is     *)
(* signed in, the copies of it in localStorage, the page shown and the     *)
(* redirect each page guards itself with, the summary every dashboard      *)
(* keeps in its store, and the calls to the server that are on the wire.   *)
(*                                                                         *)
(* The session itself is an HttpOnly cookie the page cannot read; only the *)
(* server sets and clears it, with its answers.                            *)
(***************************************************************************)
EXTENDS Naturals, FiniteSets

CONSTANTS
  Users,   \* people who share the browser
  RoleOf,  \* the role of each user, as the server states it in a profile
  NoUser,  \* nobody
  Typed,   \* addresses a visitor may open the application at
  MaxWire  \* bound: calls on the wire at a time

Roles == {"super_admin", "franchiser", "franchiser_manager", "dealer", "salon_manager"}

HomePages == {"/admin", "/franchiser-manager", "/dealer", "/salon-manager"}
MemberPages == {"/settings", "/profile", "/checklists"}
Pages == {"/", "/login", "/register"} \cup HomePages \cup MemberPages

ASSUME RolesAssumption == RoleOf \in [Users -> Roles]
ASSUME NoUserAssumption == NoUser \notin Users

ASSUME TypedAssumption == Typed \subseteq Pages
ASSUME MaxWireAssumption == MaxWire \in Nat

VARIABLES
  auth,       \* state.auth of the store: user, isAuthenticated, loading
  cached,     \* localStorage.user
  persisted,  \* localStorage.reduxState
  page,       \* the route shown
  cookie,     \* whose session cookie the browser holds
  wire,       \* calls whose answer has not arrived
  summary,    \* whose figures each dashboard's store holds; NoUser: none or made-up ones
  disk        \* whose figures localStorage['franchiser-storage'] holds

sessionVars == <<auth, cached, persisted, page, cookie, wire, summary, disk>>

Owner == Users \cup {NoUser}

\* What a call is, and the user it was made for or with whose cookie.
Call(kind, u) == [kind |-> kind, user |-> u]
AuthKinds == {"login", "register"}
OnWire(kinds) == {c \in wire : c.kind \in kinds}
Send(c) == Cardinality(wire) < MaxWire /\ wire' = wire \cup {c}

(* ------------------------------- pages ------------------------------- *)

HomePage == [super_admin |-> "/admin", franchiser |-> "/franchiser-manager",
             franchiser_manager |-> "/franchiser-manager", dealer |-> "/dealer",
             salon_manager |-> "/salon-manager"]

HomeOf(u) == HomePage[RoleOf[u]]

\* The mutated form: the login page trusts a profile without the flag.
LoginTargetsOfProfile == IF auth.user # NoUser THEN {HomeOf(auth.user)} ELSE {}

\* Where the login page sends a visitor who is signed in.
LoginTargets == IF auth.signedIn /\ auth.user # NoUser THEN {HomeOf(auth.user)} ELSE {}

\* Where the registration page sends a visitor who is signed in.
RegisterTargets == IF auth.signedIn THEN {"/"} ELSE {}

\* The index page draws the dashboard of the role itself; only an
\* administrator is sent on, and only a visitor not signed in to the login.
IndexTargets ==
  (IF auth.signedIn THEN {} ELSE {"/login"})
    \cup (IF auth.user # NoUser /\ RoleOf[auth.user] = "super_admin" THEN {"/admin"} ELSE {})

\* A role's page: its effect sends a visitor not signed in to the login, and
\* while a profile is there its render sends every other role to its own page.
AdminTargets ==
  (IF auth.signedIn THEN {} ELSE {"/login"})
    \cup (IF auth.user # NoUser THEN {HomeOf(auth.user)} \ {"/admin"} ELSE {})
ManagerTargets ==
  (IF auth.signedIn THEN {} ELSE {"/login"})
    \cup (IF auth.user # NoUser THEN {HomeOf(auth.user)} \ {"/franchiser-manager"} ELSE {})
DealerTargets ==
  (IF auth.signedIn THEN {} ELSE {"/login"})
    \cup (IF auth.user # NoUser THEN {HomeOf(auth.user)} \ {"/dealer"} ELSE {})
SalonTargets ==
  (IF auth.signedIn THEN {} ELSE {"/login"})
    \cup (IF auth.user # NoUser THEN {HomeOf(auth.user)} \ {"/salon-manager"} ELSE {})

MemberTargets == IF auth.signedIn THEN {} ELSE {"/login"}

\* The redirects a page asks the router for.
TargetsFrom(p) ==
  CASE p = "/"                   -> IndexTargets
    [] p = "/login"              -> LoginTargets
    [] p = "/register"           -> RegisterTargets
    [] p = "/admin"              -> AdminTargets
    [] p = "/franchiser-manager" -> ManagerTargets
    [] p = "/dealer"             -> DealerTargets
    [] p = "/salon-manager"      -> SalonTargets
    [] OTHER                     -> MemberTargets

\* The links a page offers without loading the application anew.
Links ==
  CASE page = "/login"    -> {"/", "/register"}
    [] page = "/register" -> {"/", "/login"}
    [] OTHER              -> {"/", "/profile", "/settings"}

(* --------------------------- the dashboards --------------------------- *)

Dashboards == {"franchiser", "manager", "dealer", "admin", "salon"}

DashboardOf == [super_admin |-> "admin", franchiser |-> "franchiser",
                franchiser_manager |-> "manager", dealer |-> "dealer",
                salon_manager |-> "salon"]

\* The dashboard on the screen: the index page draws those of all roles but
\* the administrator's, a role's page its own.
Shown ==
  {DashboardOf[RoleOf[u]] : u \in {v \in Users :
     /\ v = auth.user
     /\ \/ page = HomeOf(v)
        \/ page = "/" /\ RoleOf[v] # "super_admin"}}

(* ---------------------------- local storage ---------------------------- *)

\* store.subscribe: after every dispatch the profile goes to localStorage.
Persist(a) == [user |-> a.user, signedIn |-> a.signedIn]

cacheUser(u) == cached' = u

\* The mutated form: the cached profile stays.
clearFiguresOnly == disk' = NoUser /\ UNCHANGED cached

\* Both the cached profile and the persisted figures go; the stores in
\* memory do not, and sessionStorage holds none of this.
clearUserCache == cached' = NoUser /\ disk' = NoUser

(* -------------------------------- Init -------------------------------- *)

SessionInit ==
  /\ auth = [user |-> NoUser, signedIn |-> FALSE, loading |-> FALSE]
  /\ cached = NoUser
  /\ persisted = [user |-> NoUser, signedIn |-> FALSE]
  /\ page = "/login"
  /\ cookie = NoUser
  /\ wire = {}
  /\ summary = [d \in Dashboards |-> NoUser]
  /\ disk = NoUser

\* The page becomes p while the calls w are on the wire. The salon manager's
\* figures are state of the component: leaving drops them, and an answer for a
\* component that is gone changes nothing.
GoTo(p, w) ==
  /\ page' = p
  /\ IF p # page /\ "salon" \in Shown
       THEN /\ wire' = {c \in w : c.kind # "salon"}
            /\ summary' = [summary EXCEPT !["salon"] = NoUser]
       ELSE wire' = w /\ UNCHANGED summary

(* --------------------------- signing in and out --------------------------- *)

\* login.pending: the form's button does nothing while a call is awaited.
SubmitLogin(u) ==
  /\ page = "/login" /\ ~auth.loading
  /\ auth' = [auth EXCEPT !.loading = TRUE]
  /\ persisted' = Persist(auth')
  /\ Send(Call("login", u))
  /\ UNCHANGED <<cached, page, cookie, summary, disk>>

\* The mutated form: the registration form has a flag of its own.
SubmitRegisterAnyTime(u) ==
  /\ page = "/register" /\ Call("register", u) \notin wire
  /\ auth' = [auth EXCEPT !.loading = TRUE]
  /\ persisted' = Persist(auth')
  /\ Send(Call("register", u))
  /\ UNCHANGED <<cached, page, cookie, summary, disk>>

\* register.pending: the same flag.
SubmitRegister(u) ==
  /\ page = "/register" /\ ~auth.loading
  /\ auth' = [auth EXCEPT !.loading = TRUE]
  /\ persisted' = Persist(auth')
  /\ Send(Call("register", u))
  /\ UNCHANGED <<cached, page, cookie, summary, disk>>

\* login.fulfilled and the rest of onFinish: an answer without a profile
\* leaves the profile there was, not signed in.
LoginFulfilled(c, profile) ==
  /\ c \in OnWire({"login"})
  /\ cookie' = c.user
  /\ auth' = [user |-> IF profile THEN c.user ELSE auth.user,
              signedIn |-> profile, loading |-> FALSE]
  /\ IF profile THEN cacheUser(c.user) ELSE UNCHANGED cached
  /\ persisted' = Persist(auth')
  /\ GoTo(IF profile THEN HomeOf(c.user) ELSE "/", wire \ {c})
  /\ UNCHANGED disk

\* register.fulfilled: the answer may or may not have opened a session, and
\* the page goes to the login whether it carries a profile or not.
RegisterFulfilled(c, profile, opened) ==
  /\ c \in OnWire({"register"})
  /\ cookie' = IF opened THEN c.user ELSE cookie
  /\ auth' = [user |-> IF profile THEN c.user ELSE auth.user,
              signedIn |-> profile, loading |-> FALSE]
  /\ IF profile THEN cacheUser(c.user) ELSE UNCHANGED cached
  /\ persisted' = Persist(auth')
  /\ GoTo("/login", wire \ {c})
  /\ UNCHANGED disk

\* login.rejected and register.rejected
AuthRejected(c) ==
  /\ c \in OnWire(AuthKinds)
  /\ wire' = wire \ {c}
  /\ auth' = [auth EXCEPT !.loading = FALSE]
  /\ persisted' = Persist(auth')
  /\ UNCHANGED <<cached, page, cookie, summary, disk>>

\* handleLogout: the call to the server is sent and not awaited, the store and
\* its copies are cleared at once. The salon manager's dashboard has no menu.
\* What localStorage held of the figures goes; the stores keep theirs.
Logout ==
  /\ Shown \ {"salon"} # {}
  /\ Send(Call("logout", cookie))
  /\ auth' = [auth EXCEPT !.user = NoUser, !.signedIn = FALSE]
  /\ clearUserCache
  /\ persisted' = Persist(auth')
  /\ page' = "/login"
  /\ UNCHANGED <<cookie, summary>>

\* The answer to a logout clears the cookies, whoever they belong to by now.
LogoutAnswered(c) ==
  /\ c \in OnWire({"logout"})
  /\ wire' = wire \ {c}
  /\ cookie' = NoUser
  /\ UNCHANGED <<auth, cached, persisted, page, summary, disk>>

LogoutFailed(c) ==
  /\ c \in OnWire({"logout"})
  /\ wire' = wire \ {c}
  /\ UNCHANGED <<auth, cached, persisted, page, cookie, summary, disk>>

(* ------------------------------ navigation ------------------------------ *)

Redirect ==
  \E p \in TargetsFrom(page) :
    /\ GoTo(p, wire)
    /\ UNCHANGED <<auth, cached, persisted, cookie, disk>>

Navigate ==
  \E p \in Links \ {page} :
    /\ GoTo(p, wire)
    /\ UNCHANGED <<auth, cached, persisted, cookie, disk>>

\* What the store starts from, and what _app makes of a cached profile.
loadState == [user |-> persisted.user, signedIn |-> persisted.signedIn, loading |-> FALSE]
setAuthFromStorage == [user |-> cached, signedIn |-> TRUE, loading |-> FALSE]

\* The tab is loaded anew at some address: the store starts from reduxState,
\* then the effect of _app restores the cached profile. Answers on their way
\* have no receiver, though the browser still takes a cookie from one.
Reload(p) ==
  /\ auth' = IF cached # NoUser THEN setAuthFromStorage ELSE loadState
  /\ persisted' = IF cached # NoUser THEN Persist(auth') ELSE persisted
  /\ cookie' \in {cookie} \cup {c.user : c \in OnWire(AuthKinds)}
                   \cup {NoUser : c \in OnWire({"logout"})}
  /\ wire' = {}
  /\ page' = p
  /\ summary' = [d \in Dashboards |-> IF d = "franchiser" THEN disk ELSE NoUser]
  /\ UNCHANGED <<cached, disk>>

\* The server ends the session: it expires, or the user is blocked.
SessionExpires ==
  /\ cookie # NoUser
  /\ cookie' = NoUser
  /\ UNCHANGED <<auth, cached, persisted, page, wire, summary, disk>>

(* --------------------------- dashboard figures --------------------------- *)

\* What localStorage holds once the store of the dashboard d has been set: the
\* franchiser's store alone writes itself there.
persist(d, figure) == IF d = "franchiser" THEN figure ELSE disk

\* fetchSummary, on mount and on its timer, with whatever cookie there is (one
\* call per dashboard and cookie at a time: a bound).
PollSummary(d) ==
  /\ d \in Shown
  /\ Call(d, cookie) \notin wire
  /\ Send(Call(d, cookie))
  /\ disk' = persist(d, summary[d])
  /\ UNCHANGED <<auth, cached, persisted, page, cookie, summary>>

SummaryAnswered(c) ==
  /\ c \in OnWire(Dashboards)
  /\ c.user # NoUser
  /\ wire' = wire \ {c}
  /\ summary' = [summary EXCEPT ![c.kind] = c.user]
  /\ disk' = persist(c.kind, c.user)
  /\ UNCHANGED <<auth, cached, persisted, page, cookie>>

\* The franchiser's store keeps what it has; the others put made-up figures in
\* its place.
SummaryFailed(c) ==
  /\ c \in OnWire(Dashboards)
  /\ wire' = wire \ {c}
  /\ summary' = IF c.kind = "franchiser" THEN summary
                ELSE [summary EXCEPT ![c.kind] = NoUser]
  /\ disk' = persist(c.kind, summary[c.kind])
  /\ UNCHANGED <<auth, cached, persisted, page, cookie>>

(* ------------------------------------------------------------------------ *)

LoginAnswered(c) == \E profile \in BOOLEAN : LoginFulfilled(c, profile)
RegisterAnswered(c) == \E profile, opened \in BOOLEAN : RegisterFulfilled(c, profile, opened)

AuthAnswered == \E c \in wire : LoginAnswered(c) \/ RegisterAnswered(c) \/ AuthRejected(c)

SessionNext ==
  \/ \E u \in Users : SubmitLogin(u)
  \/ \E u \in Users : SubmitRegister(u)
  \/ AuthAnswered
  \/ Logout
  \/ \E c \in wire : LogoutAnswered(c)
  \/ \E c \in wire : LogoutFailed(c)
  \/ Redirect
  \/ Navigate
  \/ \E p \in Typed \cup {page} : Reload(p)
  \/ SessionExpires
  \/ \E d \in Dashboards : PollSummary(d)
  \/ \E c \in wire : SummaryAnswered(c)
  \/ \E c \in wire : SummaryFailed(c)

SessionSpec == SessionInit /\ [][SessionNext]_sessionVars

(* ------------------------------ properties ------------------------------ *)

\* Every variable has its type: who, which page, which calls.
SessionTypeOK ==
  /\ auth \in [user : Owner, signedIn : BOOLEAN, loading : BOOLEAN]
  /\ cached \in Owner
  /\ persisted \in [user : Owner, signedIn : BOOLEAN]
  /\ page \in Pages
  /\ cookie \in Owner
  /\ wire \subseteq [kind : AuthKinds \cup {"logout"} \cup Dashboards, user : Owner]
  /\ summary \in [Dashboards -> Owner]
  /\ disk \in Owner

\* The three copies of who is signed in name one person: the slice, the profile
\* cached by login and register, and the state the store's subscriber writes.
\* A reload therefore never brings back somebody who had signed out.
CopiesAgree ==
  /\ cached = auth.user
  /\ persisted = Persist(auth)
  /\ auth.signedIn => auth.user # NoUser

\* The flag the two forms share admits one call at a time: it is up exactly
\* while a login or a registration is on the wire, also after a reload.
OneAuthCall ==
  Cardinality(OnWire(AuthKinds)) = IF auth.loading THEN 1 ELSE 0

\* Whoever is signed in, and whatever page the router shows, at most two
\* redirects follow: the eight guards, each in a file of its own, never send
\* one visitor round in a circle.
RedirectsSettle ==
  \A p \in Pages : \A q \in TargetsFrom(p) : \A r \in TargetsFrom(q) : TargetsFrom(r) = {}

\* What clearUserCache is there for: the next user of the browser does not see
\* the figures of the one before.
NoPredecessorData ==
  auth.signedIn => \A d \in Shown : summary[d] \in {auth.user, NoUser}
=============================================================================
