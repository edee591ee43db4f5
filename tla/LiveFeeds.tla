----------------------------- MODULE LiveFeeds -----------------------------
(***************************************************************************)
(* The components that listen to the server over a WebSocket: the salon    *)
(* manager's notification bell, the dealer's alerts and the dealer's       *)
(* communications tab. Each opens a socket when it appears and closes it   *)
(* when it goes; when a socket closes, the bell falls back to polling and  *)
(* the other two try again after five seconds.                             *)
(*                                                                         *)
(* A callback outlives the component it belongs to: what closes late, or   *)
(* is answered late, still starts timers and writes localStorage, while    *)
(* setting the state of a component that is gone changes nothing.          *)
(***************************************************************************)
EXTENDS Naturals, FiniteSets

CONSTANTS
  Feeds,          \* the components a behaviour may be about, by name
  Items,          \* alerts or tasks
  NoCount,        \* nothing stored
  MaxFeedVisits,  \* bound: times the component appears
  MaxFeedCalls    \* bound: calls on the wire, of each kind

ASSUME FeedsAssumption == Feeds \subseteq {"bell", "alerts", "tasks"}
ASSUME CountAssumption == NoCount \notin Nat
ASSUME FeedBoundsAssumption == MaxFeedVisits \in Nat /\ MaxFeedCalls \in Nat /\ IsFiniteSet(Items)

VARIABLES
  feed,         \* the component this behaviour is about
  feedShown,    \* whether it is on the screen
  feedVisit,    \* how often it appeared
  storedId,     \* localStorage has the user's id
  links,        \* sockets, and timers that will open one, each of its visit
  polls,        \* visits that have an interval running
  serverItems,  \* the items the server has: none, unread, read
  feedRows,     \* the items shown
  badge,        \* the bell's unreadCount
  stored,       \* localStorage: the bell's count
  marks,        \* the dealer's localUnread: by item, unset, unread or read
  keptMarks,    \* localStorage: those marks
  fetches,      \* loads of the bell on the wire
  patches,      \* read marks of the bell on the wire
  foreign       \* whether a visit that had ended was the last to write localStorage

feedVars == <<feed, feedShown, feedVisit, storedId, links, polls, serverItems, feedRows, badge,
              stored, marks, keptMarks, fetches, patches, foreign>>

linkVars == <<links, polls>>
dataVars == <<feedRows, badge, stored, marks, keptMarks, foreign>>
callVars == <<fetches, patches>>

Link(v, at) == [visit |-> v, at |-> at]
Fetch(v, n) == [visit |-> v, n |-> n, at |-> "sent", items |-> [i \in Items |-> "none"]]

Unread(list) == Cardinality({i \in Items : list[i] = "unread"})

\* The callback runs for the component on the screen.
Current(v) == feedShown /\ v = feedVisit

\* fetchAlerts; a load that cannot be told from one on the wire is that load.
fetchAlerts(v) ==
  \E n \in 1..MaxFeedCalls :
    /\ \A f \in fetches : f.n # n
    /\ fetches' = fetches \cup {Fetch(v, n)}

FeedInit ==
  /\ feed \in Feeds
  /\ feedShown = FALSE
  /\ feedVisit = 0
  /\ storedId \in BOOLEAN
  /\ links = {} /\ polls = {}
  /\ serverItems = [i \in Items |-> "none"]
  /\ feedRows = [i \in Items |-> "none"]
  /\ badge = 0 /\ stored = NoCount
  /\ marks = [i \in Items |-> "unset"] /\ keptMarks = [i \in Items |-> "unset"]
  /\ fetches = {} /\ patches = {}
  /\ foreign = FALSE

(* --------------------------- appear and leave --------------------------- *)

Appears ==
  /\ ~feedShown /\ feedVisit < MaxFeedVisits
  /\ feedShown' = TRUE
  /\ feedVisit' = feedVisit + 1
  /\ feedRows' = [i \in Items |-> "none"]
  /\ UNCHANGED <<feed, storedId, serverItems, stored, keptMarks, patches>>

\* The bell shows the stored count, loads, and opens a socket only when there
\* is an id to be found.
BellAppears ==
  /\ feed = "bell" /\ Appears
  /\ badge' = IF stored = NoCount THEN 0 ELSE stored
  /\ fetchAlerts(feedVisit')
  /\ links' = links \cup (IF storedId THEN {Link(feedVisit', "connecting")} ELSE {})
  /\ foreign' = FALSE
  /\ UNCHANGED <<polls, marks>>

\* The dealer's alerts take up the stored marks.
AlertsAppear ==
  /\ feed = "alerts" /\ Appears
  /\ marks' = keptMarks
  /\ links' = links \cup {Link(feedVisit', "connecting")}
  /\ foreign' = FALSE
  /\ UNCHANGED <<polls, badge, fetches>>

TasksAppear ==
  /\ feed = "tasks" /\ Appears
  /\ links' = links \cup {Link(feedVisit', "connecting")}
  /\ UNCHANGED <<polls, badge, marks, fetches, foreign>>

\* The cleanup closes the socket of this visit and clears its interval. A
\* timer that will open the next socket is not cleared.
Leaves ==
  /\ feedShown
  /\ feedShown' = FALSE
  /\ links' = {IF l.visit = feedVisit /\ l.at \in {"connecting", "open"}
                 THEN Link(feedVisit, "closing") ELSE l : l \in links}
  /\ polls' = polls \ {feedVisit}
  /\ UNCHANGED <<feed, feedVisit, storedId, serverItems, dataVars, callVars>>

(* ------------------------------ the socket ------------------------------ *)

Opens(l) ==
  /\ l.at = "connecting"
  /\ links' = (links \ {l}) \cup {Link(l.visit, "open")}
  /\ UNCHANGED <<feed, feedShown, feedVisit, storedId, polls, serverItems, dataVars, callVars>>

\* onclose of the bell: startPolling, an interval and a load at once.
BellCloses(l) ==
  /\ feed = "bell" /\ l.at # "timer"
  /\ links' = links \ {l}
  /\ polls' = polls \cup {l.visit}
  /\ fetchAlerts(l.visit)
  /\ UNCHANGED <<feed, feedShown, feedVisit, storedId, serverItems, dataVars, patches>>

\* The mutated form: the disconnection is only logged.
BellClosesQuietly(l) ==
  /\ feed = "bell" /\ l.at # "timer"
  /\ links' = links \ {l}
  /\ UNCHANGED <<feed, feedShown, feedVisit, storedId, polls, serverItems, dataVars, callVars>>

FallBack(l) == BellCloses(l)

\* onclose of the other two, whoever closed the socket: again in five seconds.
RetryLater(l) ==
  /\ feed # "bell" /\ l.at # "timer"
  /\ links' = (links \ {l}) \cup {Link(l.visit, "timer")}
  /\ UNCHANGED <<feed, feedShown, feedVisit, storedId, polls, serverItems, dataVars, callVars>>

\* The mutated form: the error that precedes a close schedules a socket too.
RetryTwice(l) ==
  /\ feed # "bell" /\ l.at # "timer"
  /\ links' = (links \ {l}) \cup {Link(l.visit, "timer"), Link(l.visit, "connecting")}
  /\ UNCHANGED <<feed, feedShown, feedVisit, storedId, polls, serverItems, dataVars, callVars>>

Closes(l) == RetryLater(l)

\* The timer fires: connectWebSocket again, component or not.
Reconnects(l) ==
  /\ l.at = "timer"
  /\ links' = (links \ {l}) \cup {Link(l.visit, "connecting")}
  /\ UNCHANGED <<feed, feedShown, feedVisit, storedId, polls, serverItems, dataVars, callVars>>

(* --------------------------- what is received --------------------------- *)

\* The server has a new item, and sends it over a socket that is open, if any.
ServerRaises(i) ==
  /\ serverItems[i] = "none" /\ feed = "bell"
  /\ serverItems' = [serverItems EXCEPT ![i] = "unread"]
  /\ UNCHANGED <<feed, feedShown, feedVisit, storedId, linkVars, dataVars, callVars>>

\* onmessage of the bell: the alert goes on top, the badge and the stored
\* count go up (at most one for each item: a bound).
BellHears(l, i) ==
  /\ feed = "bell" /\ l.at = "open" /\ Current(l.visit) /\ serverItems[i] # "none"
  /\ badge < Cardinality(Items)
  /\ feedRows' = [feedRows EXCEPT ![i] = "unread"]
  /\ badge' = badge + 1
  /\ stored' = badge + 1
  /\ foreign' = FALSE
  /\ UNCHANGED <<feed, feedShown, feedVisit, storedId, linkVars, serverItems, marks, keptMarks,
                 callVars>>

\* NEW_ALERT: listed and marked unread, here and in localStorage. The updater of
\* a component that is gone may still be run, on the marks it last had.
AlertHeard(l, i) ==
  /\ feed = "alerts" /\ l.at = "open"
  /\ IF Current(l.visit)
       THEN /\ feedRows' = [feedRows EXCEPT ![i] = "unread"]
            /\ marks' = [marks EXCEPT ![i] = "unread"]
            /\ keptMarks' = marks'
            /\ foreign' = FALSE
       ELSE /\ keptMarks' \in [Items -> {"unset", "unread", "read"}]
            /\ foreign' = TRUE
            /\ UNCHANGED <<feedRows, marks>>
  /\ UNCHANGED <<feed, feedShown, feedVisit, storedId, linkVars, serverItems, badge, stored,
                 callVars>>

\* TASK_CREATED, and TASK_UPDATED of a task that is shown.
TaskHeard(l, i, status) ==
  /\ feed = "tasks" /\ l.at = "open" /\ Current(l.visit)
  /\ feedRows[i] = "none" => status = "new"
  /\ feedRows' = [feedRows EXCEPT ![i] = status]
  /\ UNCHANGED <<feed, feedShown, feedVisit, storedId, linkVars, serverItems, badge, stored, marks,
                 keptMarks, callVars, foreign>>

\* The tab is drawn without a list of tasks: every draw makes an empty list, and
\* the effect on it replaces what the socket brought.
PropsAgain ==
  /\ feed \in {"tasks", "alerts"} /\ feedShown
  /\ feedRows' = [i \in Items |-> "none"]
  /\ UNCHANGED <<feed, feedShown, feedVisit, storedId, linkVars, serverItems, badge, stored, marks,
                 keptMarks, callVars, foreign>>

\* The buttons of a task; no call is made.
handleTaskStatusChange(i, status) ==
  /\ feed = "tasks" /\ feedShown
  /\ feedRows[i] = "new" \/ (feedRows[i] = "in_progress" /\ status = "done")
  /\ feedRows' = [feedRows EXCEPT ![i] = status]
  /\ UNCHANGED <<feed, feedShown, feedVisit, storedId, linkVars, serverItems, badge, stored, marks,
                 keptMarks, callVars, foreign>>

\* handleMarkAsRead of the dealer's alerts, in localStorage too.
MarkAlert(i) ==
  /\ feed = "alerts" /\ feedShown /\ feedRows[i] # "none"
  /\ marks' = [marks EXCEPT ![i] = "read"]
  /\ keptMarks' = marks'
  /\ foreign' = FALSE
  /\ UNCHANGED <<feed, feedShown, feedVisit, storedId, linkVars, serverItems, feedRows, badge, stored,
                 callVars>>

(* ------------------------------ the bell's calls ------------------------------ *)

PollTick(v) ==
  /\ v \in polls
  /\ fetchAlerts(v)
  /\ UNCHANGED <<feed, feedShown, feedVisit, storedId, linkVars, serverItems, dataVars, patches>>

ServerLists(f) ==
  /\ f.at = "sent"
  /\ fetches' = (fetches \ {f}) \cup {[f EXCEPT !.at = "answered", !.items = serverItems]}
  /\ UNCHANGED <<feed, feedShown, feedVisit, storedId, linkVars, serverItems, dataVars, patches>>

\* The mutated form: the count is shown, and not stored.
FetchAnsweredUnstored(f) ==
  /\ f.at = "answered"
  /\ fetches' = fetches \ {f}
  /\ IF Current(f.visit) THEN feedRows' = f.items /\ badge' = Unread(f.items)
                         ELSE UNCHANGED <<feedRows, badge>>
  /\ foreign' = ~Current(f.visit)
  /\ UNCHANGED <<feed, feedShown, feedVisit, storedId, linkVars, serverItems, stored, marks,
                 keptMarks, patches>>

\* The answer: alerts and count, and the count stored, component or not.
FetchAnswered(f) ==
  /\ f.at = "answered"
  /\ fetches' = fetches \ {f}
  /\ stored' = Unread(f.items)
  /\ IF Current(f.visit) THEN feedRows' = f.items /\ badge' = Unread(f.items)
                         ELSE UNCHANGED <<feedRows, badge>>
  /\ foreign' = ~Current(f.visit)
  /\ UNCHANGED <<feed, feedShown, feedVisit, storedId, linkVars, serverItems, marks, keptMarks,
                 patches>>

FetchFails(f) ==
  /\ fetches' = fetches \ {f}
  /\ UNCHANGED <<feed, feedShown, feedVisit, storedId, linkVars, serverItems, dataVars, patches>>

handleMarkRead(i) ==
  /\ feed = "bell" /\ feedShown /\ feedRows[i] = "unread"
  /\ Cardinality(patches) < MaxFeedCalls
  /\ \E n \in 1..MaxFeedCalls :
       /\ \A p \in patches : p.n # n
       /\ patches' = patches \cup {[visit |-> feedVisit, n |-> n, item |-> i, at |-> "sent"]}
  /\ UNCHANGED <<feed, feedShown, feedVisit, storedId, linkVars, serverItems, dataVars, fetches>>

ServerMarks(p) ==
  /\ p.at = "sent"
  /\ serverItems' = [serverItems EXCEPT ![p.item] = IF @ = "none" THEN @ ELSE "read"]
  /\ patches' = (patches \ {p}) \cup {[p EXCEPT !.at = "answered"]}
  /\ UNCHANGED <<feed, feedShown, feedVisit, storedId, linkVars, dataVars, fetches>>

\* The mutated form: a badge at zero is counted down too.
LessUnguarded(n) == n - 1

Less(n) == IF n = 0 THEN 0 ELSE n - 1

\* A mark is answered: the alert shows read, the badge goes down by one however
\* often that alert was marked, and the count is stored.
MarkAnswered(p) ==
  /\ p.at = "answered"
  /\ patches' = patches \ {p}
  /\ IF Current(p.visit)
       THEN /\ feedRows' = [feedRows EXCEPT ![p.item] = IF @ = "none" THEN @ ELSE "read"]
            /\ badge' = Less(badge)
            /\ stored' = Less(badge)
            /\ foreign' = FALSE
       ELSE /\ stored' \in {stored} \cup 0..Cardinality(Items)
            /\ foreign' = TRUE
            /\ UNCHANGED <<feedRows, badge>>
  /\ UNCHANGED <<feed, feedShown, feedVisit, storedId, linkVars, serverItems, marks, keptMarks,
                 fetches>>

MarkFails(p) ==
  /\ patches' = patches \ {p}
  /\ UNCHANGED <<feed, feedShown, feedVisit, storedId, linkVars, serverItems, dataVars, fetches>>

FeedNext ==
  \/ BellAppears \/ AlertsAppear \/ TasksAppear \/ Leaves
  \/ \E l \in links : Opens(l) \/ FallBack(l) \/ Closes(l) \/ Reconnects(l)
  \/ \E i \in Items : ServerRaises(i)
  \/ \E l \in links, i \in Items : BellHears(l, i) \/ AlertHeard(l, i)
  \/ \E l \in links, i \in Items, s \in {"new", "in_progress", "done"} : TaskHeard(l, i, s)
  \/ PropsAgain
  \/ \E i \in Items, s \in {"in_progress", "done"} : handleTaskStatusChange(i, s)
  \/ \E i \in Items : MarkAlert(i) \/ handleMarkRead(i)
  \/ \E v \in polls : PollTick(v)
  \/ \E f \in fetches : ServerLists(f) \/ FetchAnswered(f) \/ FetchFails(f)
  \/ \E p \in patches : ServerMarks(p) \/ MarkAnswered(p) \/ MarkFails(p)

FeedSpec == FeedInit /\ [][FeedNext]_feedVars

(* ------------------------------ properties ------------------------------ *)

\* Every variable has its type.
FeedTypeOK ==
  /\ feed \in Feeds /\ feedVisit \in 0..MaxFeedVisits
  /\ {feedShown, storedId, foreign} \subseteq BOOLEAN
  /\ links \subseteq [visit : 1..MaxFeedVisits, at : {"connecting", "open", "closing", "timer"}]
  /\ polls \subseteq 1..MaxFeedVisits
  /\ serverItems \in [Items -> {"none", "unread", "read"}]
  /\ feedRows \in [Items -> {"none", "unread", "read", "new", "in_progress", "done"}]
  /\ badge \in 0..Cardinality(Items) /\ stored \in 0..Cardinality(Items) \cup {NoCount}
  /\ {marks, keptMarks} \subseteq [Items -> {"unset", "unread", "read"}]
  /\ fetches \subseteq [visit : 1..MaxFeedVisits, n : 1..MaxFeedCalls, at : {"sent", "answered"},
                        items : [Items -> {"none", "unread", "read"}]]
  /\ patches \subseteq [visit : 1..MaxFeedVisits, n : 1..MaxFeedCalls, at : {"sent", "answered"},
                        item : Items]

\* A bell on the screen that found an id hears of alerts: it has a socket that
\* may yet open or is open, or the interval that replaces it.
BellHasSource ==
  feed = "bell" /\ feedShown /\ storedId
    => feedVisit \in polls \/ \E l \in links : Current(l.visit)

\* Whatever the order of closes, errors, timers and visits, a component that
\* reconnects has one socket or timer for each time it appeared: never two
\* that would each bring a message, and none the less after it has gone.
OneLinkPerVisit ==
  feed # "bell" => \A v \in 1..feedVisit : Cardinality({l \in links : l.visit = v}) = 1

\* What a component shows is what it stored, and what it will show again after
\* it was away, unless one of its own earlier visits wrote over it: a callback
\* of a component that is gone.
StoredAsShown ==
  feedShown /\ ~foreign =>
    CASE feed = "bell" -> stored \in {NoCount, badge}
      [] OTHER         -> keptMarks = marks
=============================================================================
