---------------------------- MODULE PanelProofs ----------------------------
(***************************************************************************)
(* Three kinds of component that keep what they load to themselves, for    *)
(* any number of visits and calls and any order of the answers: the feeds  *)
(* that a socket or an interval renews, the form of a dealer's expenses,   *)
(* and the tabs with a selection.                                          *)
(***************************************************************************)
EXTENDS LiveFeeds, ExpenseForm, SelectionTabs, FiniteSetTheorems, TLAPS

(* ---------------------------- the live feeds ---------------------------- *)

\* Loads and marks of a typed state are records of these fields.
FetchRecord == [visit : 1..MaxFeedVisits, n : 1..MaxFeedCalls, at : {"sent", "answered"},
                items : [Items -> {"none", "unread", "read"}]]
PatchRecord == [visit : 1..MaxFeedVisits, n : 1..MaxFeedCalls, at : {"sent", "answered"},
                item : Items]
LinkRecord == [visit : 1..MaxFeedVisits, at : {"connecting", "open", "closing", "timer"}]

\* The component on the screen has appeared, and no socket or interval is of a
\* visit to come.
VisitsAreCounted ==
  /\ feedShown => feedVisit >= 1
  /\ \A l \in links : l.visit <= feedVisit

\* Only the bell polls, loads and marks over HTTP, and only the others start
\* timers; of the others, the tasks keep no marks.
EachItsOwnMeans ==
  /\ feed = "bell" => \A l \in links : l.at # "timer"
  /\ feed # "bell" => polls = {} /\ fetches = {} /\ patches = {}
  /\ feed = "tasks" => keptMarks = marks

\* What is closing belongs to a visit that has ended.
ClosingHasLeft ==
  feedShown => \A l \in links : l.visit = feedVisit => l.at # "closing"

LinksOf(v) == {l \in links : l.visit = v}

\* OneLinkPerVisit without counting: the links of a visit are one.
OneLinkEach ==
  feed # "bell" => \A v \in 1..feedVisit : \E l \in links : LinksOf(v) = {l}

FeedInv ==
  /\ FeedTypeOK /\ VisitsAreCounted /\ EachItsOwnMeans /\ ClosingHasLeft
  /\ BellHasSource /\ OneLinkEach /\ StoredAsShown

\* A count of unread items is at most the number of items.
LEMMA UnreadCounted ==
  ASSUME NEW list
  PROVE  Cardinality(Items) \in Nat /\ Unread(list) \in 0..Cardinality(Items)
<1>1. IsFiniteSet(Items)
  BY FeedBoundsAssumption
<1>2. {i \in Items : list[i] = "unread"} \subseteq Items
  OBVIOUS
<1> QED  BY <1>1, <1>2, FS_Subset, FS_CardinalityType DEF Unread

\* A load that starts is a record of its visit, and every other load stays.
LEMMA FetchStarts ==
  ASSUME FeedTypeOK, NEW v \in 1..MaxFeedVisits, fetchAlerts(v)
  PROVE  fetches' \subseteq FetchRecord
<1>1. PICK n \in 1..MaxFeedCalls : fetches' = fetches \cup {Fetch(v, n)}
  BY DEF fetchAlerts
<1>2. Fetch(v, n) \in FetchRecord
  BY DEF Fetch, FetchRecord
<1> QED  BY <1>1, <1>2 DEF FeedTypeOK, FetchRecord

\* No action leads out of the types.
LEMMA FeedTypePreserved == FeedTypeOK /\ VisitsAreCounted /\ [FeedNext]_feedVars => FeedTypeOK'
<1> SUFFICES ASSUME FeedTypeOK, VisitsAreCounted, [FeedNext]_feedVars PROVE FeedTypeOK'
  OBVIOUS
<1> USE FeedBoundsAssumption, CountAssumption
<1>0. /\ links \subseteq LinkRecord /\ fetches \subseteq FetchRecord /\ patches \subseteq PatchRecord
      /\ Cardinality(Items) \in Nat /\ feedVisit \in 0..MaxFeedVisits
      /\ feedRows \in [Items -> {"none", "unread", "read", "new", "in_progress", "done"}]
      /\ marks \in [Items -> {"unset", "unread", "read"}]
      /\ keptMarks \in [Items -> {"unset", "unread", "read"}]
      /\ serverItems \in [Items -> {"none", "unread", "read"}]
      /\ badge \in 0..Cardinality(Items) /\ stored \in 0..Cardinality(Items) \cup {NoCount}
      /\ feedShown \in BOOLEAN /\ storedId \in BOOLEAN /\ foreign \in BOOLEAN
      /\ feedShown => feedVisit \in 1..MaxFeedVisits
  BY UnreadCounted DEF FeedTypeOK, LinkRecord, FetchRecord, PatchRecord, VisitsAreCounted
<1>1. CASE BellAppears
  <2>1. feedVisit' \in 1..MaxFeedVisits
    BY <1>0, <1>1 DEF BellAppears, Appears
  <2>2. fetches' \subseteq FetchRecord
    BY <1>1, <2>1, FetchStarts DEF BellAppears
  <2>3. links' \subseteq LinkRecord
    BY <1>0, <1>1, <2>1 DEF BellAppears, Link, LinkRecord
  <2>4. badge' \in 0..Cardinality(Items)
    BY <1>0, <1>1 DEF BellAppears
  <2>5. foreign' \in BOOLEAN /\ feedShown' \in BOOLEAN
    BY <1>1 DEF BellAppears, Appears
  <2>6. feedRows' \in [Items -> {"none", "unread", "read", "new", "in_progress", "done"}]
    BY <1>1 DEF BellAppears, Appears
  <2>7. UNCHANGED <<feed, storedId, serverItems, stored, keptMarks, patches, polls, marks>>
    BY <1>1 DEF BellAppears, Appears
  <2> QED  BY <1>0, <2>1, <2>2, <2>3, <2>4, <2>5, <2>6, <2>7 DEF FeedTypeOK, LinkRecord, FetchRecord, PatchRecord
<1>2. CASE AlertsAppear \/ TasksAppear
  <2>1. feedVisit' \in 1..MaxFeedVisits
    BY <1>0, <1>2 DEF AlertsAppear, TasksAppear, Appears
  <2>2. links' \subseteq LinkRecord
    BY <1>0, <1>2, <2>1 DEF AlertsAppear, TasksAppear, Link, LinkRecord
  <2>3. /\ marks' \in {marks, keptMarks} /\ foreign' \in BOOLEAN /\ feedShown' = TRUE
        /\ feedRows' = [i \in Items |-> "none"]
        /\ UNCHANGED <<feed, storedId, serverItems, stored, keptMarks, patches, polls, badge, fetches>>
    BY <1>0, <1>2 DEF AlertsAppear, TasksAppear, Appears
  <2> QED  BY <1>0, <2>1, <2>2, <2>3 DEF FeedTypeOK, LinkRecord, FetchRecord, PatchRecord
<1>3. CASE Leaves
  <2>1. links' \subseteq LinkRecord
    BY <1>0, <1>3 DEF Leaves, Link, LinkRecord
  <2> QED  BY <1>0, <1>3, <2>1
           DEF Leaves, dataVars, callVars, FeedTypeOK, LinkRecord, FetchRecord, PatchRecord
<1>4. ASSUME NEW l \in links, Opens(l) \/ FallBack(l) \/ Closes(l) \/ Reconnects(l)
      PROVE  FeedTypeOK'
  <2>1. l.visit \in 1..MaxFeedVisits /\ links' \subseteq LinkRecord
    BY <1>0, <1>4
       DEF Opens, FallBack, BellCloses, Closes, RetryLater, Reconnects, Link, LinkRecord
  <2>2. fetches' \subseteq FetchRecord
    BY <1>0, <1>4, <2>1, FetchStarts
       DEF Opens, FallBack, BellCloses, Closes, RetryLater, Reconnects, callVars
  <2> QED  BY <1>0, <1>4, <2>1, <2>2
           DEF Opens, FallBack, BellCloses, Closes, RetryLater, Reconnects, dataVars, callVars,
               FeedTypeOK, LinkRecord, FetchRecord, PatchRecord
<1>5. ASSUME NEW i \in Items, ServerRaises(i) PROVE FeedTypeOK'
  BY <1>0, <1>5 DEF ServerRaises, linkVars, dataVars, callVars, FeedTypeOK
<1>6. ASSUME NEW l \in links, NEW i \in Items, BellHears(l, i) \/ AlertHeard(l, i)
      PROVE  FeedTypeOK'
  <2>1. CASE BellHears(l, i)
    <3>1. badge + 1 \in 0..Cardinality(Items)
      BY <1>0, <2>1 DEF BellHears
    <3> QED  BY <1>0, <2>1, <3>1 DEF BellHears, linkVars, callVars, FeedTypeOK
  <2>2. CASE AlertHeard(l, i)
    <3>1. /\ feedRows' \in [Items -> {"none", "unread", "read", "new", "in_progress", "done"}]
          /\ marks' \in [Items -> {"unset", "unread", "read"}]
          /\ keptMarks' \in [Items -> {"unset", "unread", "read"}]
          /\ foreign' \in BOOLEAN
      BY <1>0, <2>2, ZenonT(40) DEF AlertHeard
    <3> QED  BY <1>0, <2>2, <3>1 DEF AlertHeard, linkVars, callVars, FeedTypeOK
  <2> QED  BY <1>6, <2>1, <2>2
<1>7. ASSUME NEW l \in links, NEW i \in Items, NEW s \in {"new", "in_progress", "done"},
             TaskHeard(l, i, s)
      PROVE  FeedTypeOK'
  BY <1>0, <1>7 DEF TaskHeard, linkVars, callVars, FeedTypeOK
<1>8. CASE PropsAgain
  BY <1>0, <1>8 DEF PropsAgain, linkVars, callVars, FeedTypeOK
<1>9. ASSUME NEW i \in Items, NEW s \in {"in_progress", "done"}, handleTaskStatusChange(i, s)
      PROVE  FeedTypeOK'
  BY <1>0, <1>9 DEF handleTaskStatusChange, linkVars, callVars, FeedTypeOK
<1>10. ASSUME NEW i \in Items, MarkAlert(i) PROVE FeedTypeOK'
  BY <1>0, <1>10 DEF MarkAlert, linkVars, callVars, FeedTypeOK
<1>11. ASSUME NEW i \in Items, handleMarkRead(i) PROVE FeedTypeOK'
  <2>1. PICK n \in 1..MaxFeedCalls :
          patches' = patches \cup {[visit |-> feedVisit, n |-> n, item |-> i, at |-> "sent"]}
    BY <1>11 DEF handleMarkRead
  <2>2. patches' \subseteq PatchRecord
    BY <1>0, <1>11, <2>1 DEF handleMarkRead, PatchRecord
  <2> QED  BY <1>0, <1>11, <2>2 DEF handleMarkRead, linkVars, dataVars, FeedTypeOK, PatchRecord
<1>12. ASSUME NEW v \in polls, PollTick(v) PROVE FeedTypeOK'
  <2>1. fetches' \subseteq FetchRecord
    BY <1>0, <1>12, FetchStarts DEF PollTick, FeedTypeOK
  <2> QED  BY <1>0, <1>12, <2>1 DEF PollTick, linkVars, dataVars, FeedTypeOK, FetchRecord
<1>13. ASSUME NEW f \in fetches, ServerLists(f) \/ FetchAnswered(f) \/ FetchFails(f)
       PROVE  FeedTypeOK'
  <2>1. CASE ServerLists(f)
    <3>1. [f EXCEPT !.at = "answered", !.items = serverItems] \in FetchRecord
      BY <1>0, <1>13 DEF FetchRecord
    <3> QED  BY <1>0, <2>1, <3>1 DEF ServerLists, linkVars, dataVars, FeedTypeOK, FetchRecord
  <2>2. CASE FetchAnswered(f)
    <3>1. f.items \in [Items -> {"none", "unread", "read"}]
      BY <1>0, <1>13 DEF FetchRecord
    <3>2. Unread(f.items) \in 0..Cardinality(Items)
      BY UnreadCounted
    <3>3. foreign' \in BOOLEAN
      BY <2>2 DEF FetchAnswered
    <3>4. feedRows' \in [Items -> {"none", "unread", "read", "new", "in_progress", "done"}]
      BY <1>0, <2>2, <3>1 DEF FetchAnswered
    <3> QED  BY <1>0, <2>2, <3>2, <3>3, <3>4 DEF FetchAnswered, linkVars, FeedTypeOK, FetchRecord
  <2>3. CASE FetchFails(f)
    BY <1>0, <2>3 DEF FetchFails, linkVars, dataVars, FeedTypeOK, FetchRecord
  <2> QED  BY <1>13, <2>1, <2>2, <2>3
<1>14. ASSUME NEW p \in patches, ServerMarks(p) \/ MarkAnswered(p) \/ MarkFails(p)
       PROVE  FeedTypeOK'
  <2>0. p.item \in Items /\ patches' \subseteq PatchRecord
    BY <1>0, <1>14 DEF ServerMarks, MarkAnswered, MarkFails, PatchRecord
  <2>1. CASE ServerMarks(p)
    BY <1>0, <2>0, <2>1 DEF ServerMarks, linkVars, dataVars, FeedTypeOK, PatchRecord
  <2>2. CASE MarkAnswered(p)
    <3>1. feedRows' \in [Items -> {"none", "unread", "read", "new", "in_progress", "done"}]
      BY <1>0, <2>0, <2>2 DEF MarkAnswered
    <3>2. badge' \in 0..Cardinality(Items) /\ stored' \in 0..Cardinality(Items) \cup {NoCount}
      BY <1>0, <2>2 DEF MarkAnswered, Less
    <3> QED  BY <1>0, <2>0, <2>2, <3>1, <3>2 DEF MarkAnswered, linkVars, FeedTypeOK, PatchRecord
  <2>3. CASE MarkFails(p)
    BY <1>0, <2>0, <2>3 DEF MarkFails, linkVars, dataVars, FeedTypeOK, PatchRecord
  <2> QED  BY <1>14, <2>1, <2>2, <2>3
<1>15. CASE UNCHANGED feedVars
  BY <1>0, <1>15 DEF feedVars, FeedTypeOK
<1> QED  BY <1>1, <1>2, <1>3, <1>4, <1>5, <1>6, <1>7, <1>8, <1>9, <1>10, <1>11, <1>12, <1>13,
            <1>14, <1>15 DEF FeedNext

\* What a step does to the sockets and intervals: a visit begins, it ends, one
\* socket moves on or is replaced by an interval, or nothing of this happens.
LinksStay ==
  /\ UNCHANGED <<feed, feedVisit, links, polls, storedId>>
  /\ feedShown' = feedShown
LinkMoves ==
  /\ UNCHANGED <<feed, feedVisit, feedShown, storedId>>
  /\ \E l \in links :
       \/ /\ l.at = "connecting" /\ links' = (links \ {l}) \cup {Link(l.visit, "open")}
          /\ polls' = polls
       \/ /\ feed = "bell" /\ links' = links \ {l} /\ polls' = polls \cup {l.visit}
       \/ /\ feed # "bell" /\ links' = (links \ {l}) \cup {Link(l.visit, "timer")}
          /\ polls' = polls
       \/ /\ l.at = "timer" /\ links' = (links \ {l}) \cup {Link(l.visit, "connecting")}
          /\ polls' = polls
VisitBegins ==
  /\ Appears
  /\ links' = links \cup {Link(feedVisit', "connecting")} \/ (feed = "bell" /\ ~storedId /\ links' = links)
  /\ polls' = polls

\* Every step is one of these four.
LEMMA LinkSteps ==
  [FeedNext]_feedVars => LinksStay \/ LinkMoves \/ VisitBegins \/ Leaves
<1> SUFFICES ASSUME [FeedNext]_feedVars PROVE LinksStay \/ LinkMoves \/ VisitBegins \/ Leaves
  OBVIOUS
<1>1. CASE BellAppears \/ AlertsAppear \/ TasksAppear
  BY <1>1 DEF BellAppears, AlertsAppear, TasksAppear, VisitBegins
<1>2. ASSUME NEW l \in links, Opens(l) \/ FallBack(l) \/ Closes(l) \/ Reconnects(l)
      PROVE  LinkMoves
  BY <1>2 DEF Opens, FallBack, BellCloses, Closes, RetryLater, Reconnects, LinkMoves
<1>3. ASSUME NEW l \in links, NEW i \in Items, BellHears(l, i) \/ AlertHeard(l, i)
      PROVE  LinksStay
  BY <1>3 DEF BellHears, AlertHeard, linkVars, LinksStay
<1>4. ASSUME NEW l \in links, NEW i \in Items, NEW s \in {"new", "in_progress", "done"},
             TaskHeard(l, i, s)
      PROVE  LinksStay
  BY <1>4 DEF TaskHeard, linkVars, LinksStay
<1>5. ASSUME NEW i \in Items, ServerRaises(i) \/ MarkAlert(i) \/ handleMarkRead(i) PROVE LinksStay
  BY <1>5 DEF ServerRaises, MarkAlert, handleMarkRead, linkVars, LinksStay
<1>6. ASSUME NEW i \in Items, NEW s \in {"in_progress", "done"}, handleTaskStatusChange(i, s)
      PROVE  LinksStay
  BY <1>6 DEF handleTaskStatusChange, linkVars, LinksStay
<1>7. CASE PropsAgain \/ UNCHANGED feedVars
  BY <1>7 DEF PropsAgain, linkVars, LinksStay, feedVars
<1>8. ASSUME NEW v \in polls, PollTick(v) PROVE LinksStay
  BY <1>8 DEF PollTick, linkVars, LinksStay
<1>9. ASSUME NEW f \in fetches, ServerLists(f) \/ FetchAnswered(f) \/ FetchFails(f) PROVE LinksStay
  BY <1>9 DEF ServerLists, FetchAnswered, FetchFails, linkVars, LinksStay
<1>10. ASSUME NEW p \in patches, ServerMarks(p) \/ MarkAnswered(p) \/ MarkFails(p) PROVE LinksStay
  BY <1>10 DEF ServerMarks, MarkAnswered, MarkFails, linkVars, LinksStay
<1> QED  BY <1>1, <1>2, <1>3, <1>4, <1>5, <1>6, <1>7, <1>8, <1>9, <1>10 DEF FeedNext

\* The links of each visit, the source of the bell and the count of visits are
\* kept by each of the four kinds of steps.
LEMMA LinksPreserved ==
  ASSUME FeedTypeOK, VisitsAreCounted, ClosingHasLeft, BellHasSource, OneLinkEach,
         feed = "bell" => \A l \in links : l.at # "timer",
         [FeedNext]_feedVars
  PROVE  /\ VisitsAreCounted' /\ ClosingHasLeft' /\ BellHasSource' /\ OneLinkEach'
         /\ (feed = "bell" => \A l \in links : l.at # "timer")'
<1>0. /\ links \subseteq LinkRecord /\ feedVisit \in Nat /\ MaxFeedVisits \in Nat
      /\ feedShown \in BOOLEAN /\ storedId \in BOOLEAN
      /\ \A l \in links : l.visit \in Nat /\ l.visit <= feedVisit
  BY FeedBoundsAssumption DEF FeedTypeOK, LinkRecord, VisitsAreCounted
<1>1. CASE LinksStay
  BY <1>1 DEF LinksStay, VisitsAreCounted, ClosingHasLeft, BellHasSource, OneLinkEach, LinksOf,
              Current
<1>2. CASE LinkMoves
  <2>1. PICK l \in links : LinkMoves!2!(l)
    BY <1>2 DEF LinkMoves
  <2>2. UNCHANGED <<feed, feedVisit, feedShown, storedId>>
    BY <1>2 DEF LinkMoves
  <2>3. PICK a \in {"open", "timer", "connecting"} :
          \/ links' = (links \ {l}) \cup {Link(l.visit, a)} /\ polls' = polls
               /\ (feed = "bell" => a # "timer")
          \/ feed = "bell" /\ links' = links \ {l} /\ polls' = polls \cup {l.visit}
    BY <2>1
  <2>4. VisitsAreCounted' /\ ClosingHasLeft' /\ (feed = "bell" => \A k \in links : k.at # "timer")'
    BY <1>0, <2>2, <2>3 DEF VisitsAreCounted, ClosingHasLeft, Link
  <2>5. BellHasSource'
    <3> SUFFICES ASSUME feed = "bell", feedShown, storedId, feedVisit \notin polls
                 PROVE  feedVisit \in polls' \/ \E k \in links' : k.visit = feedVisit
      BY <2>2, <2>3 DEF BellHasSource, Current
    <3>1. PICK k \in links : k.visit = feedVisit
      BY DEF BellHasSource, Current
    <3>2. CASE k = l
      <4>1. Link(l.visit, a).visit = feedVisit
        BY <3>1, <3>2 DEF Link
      <4> QED  BY <2>3, <3>1, <3>2, <4>1
    <3>3. CASE k # l
      BY <2>3, <3>1, <3>3
    <3> QED  BY <3>2, <3>3
  <2>6. OneLinkEach'
    <3> SUFFICES ASSUME feed # "bell", NEW v \in 1..feedVisit
                 PROVE  \E k \in links' : LinksOf(v)' = {k}
      BY <2>2 DEF OneLinkEach
    <3>1. PICK k \in links : LinksOf(v) = {k}
      BY DEF OneLinkEach
    <3>2. links' = (links \ {l}) \cup {Link(l.visit, a)}
      BY <2>3
    <3>3. CASE l.visit = v
      <4>1. l = k
        BY <3>1, <3>3 DEF LinksOf
      <4>2. LinksOf(v)' = {Link(v, a)}
        BY <3>1, <3>2, <3>3, <4>1 DEF LinksOf, Link
      <4> QED  BY <3>2, <3>3, <4>2
    <3>4. CASE l.visit # v
      <4>1. LinksOf(v)' = LinksOf(v) /\ k \in links'
        BY <3>1, <3>2, <3>4 DEF LinksOf, Link
      <4> QED  BY <3>1, <4>1
    <3> QED  BY <3>3, <3>4
  <2> QED  BY <2>4, <2>5, <2>6
<1>3. CASE VisitBegins
  <2>1. /\ feed' = feed /\ feedVisit' = feedVisit + 1 /\ feedShown' = TRUE
        /\ storedId' = storedId /\ polls' = polls
        /\ \/ links' = links \cup {Link(feedVisit + 1, "connecting")}
           \/ feed = "bell" /\ ~storedId /\ links' = links
    BY <1>3 DEF VisitBegins, Appears
  <2>2. VisitsAreCounted'
    BY <1>0, <2>1 DEF VisitsAreCounted, Link
  <2>3. ClosingHasLeft' /\ (feed = "bell" => \A k \in links : k.at # "timer")'
    BY <1>0, <2>1 DEF ClosingHasLeft, Link
  <2>4. BellHasSource'
    <3> SUFFICES ASSUME feed = "bell", storedId
                 PROVE  \E k \in links' : k.visit = feedVisit + 1
      BY <2>1 DEF BellHasSource, Current
    <3>1. Link(feedVisit + 1, "connecting").visit = feedVisit + 1
      BY DEF Link
    <3> QED  BY <2>1, <3>1
  <2>5. OneLinkEach'
    <3> SUFFICES ASSUME feed # "bell", NEW v \in 1..(feedVisit + 1)
                 PROVE  \E k \in links' : LinksOf(v)' = {k}
      BY <2>1 DEF OneLinkEach
    <3>1. CASE v = feedVisit + 1
      <4>1. LinksOf(v)' = {Link(v, "connecting")}
        BY <1>0, <2>1, <3>1 DEF LinksOf, Link
      <4> QED  BY <2>1, <3>1, <4>1
    <3>2. CASE v # feedVisit + 1
      <4>1. v \in 1..feedVisit
        BY <1>0, <3>2
      <4>2. PICK k \in links : LinksOf(v) = {k}
        BY <4>1 DEF OneLinkEach
      <4>3. LinksOf(v)' = LinksOf(v)
        BY <2>1, <3>2 DEF LinksOf, Link
      <4> QED  BY <2>1, <4>2, <4>3
    <3> QED  BY <3>1, <3>2
  <2> QED  BY <2>2, <2>3, <2>4, <2>5
<1>4. CASE Leaves
  <2> DEFINE moved(l) == IF l.visit = feedVisit /\ l.at \in {"connecting", "open"}
                           THEN Link(feedVisit, "closing") ELSE l
  <2>1. /\ UNCHANGED <<feed, feedVisit, storedId>> /\ feedShown' = FALSE
        /\ links' = {moved(l) : l \in links}
    BY <1>4 DEF Leaves
  <2>2. \A l \in links : moved(l).visit = l.visit /\ (moved(l).at = l.at \/ moved(l).at = "closing")
    BY DEF Link
  <2> HIDE DEF moved
  <2>3. VisitsAreCounted' /\ ClosingHasLeft' /\ BellHasSource'
        /\ (feed = "bell" => \A k \in links : k.at # "timer")'
    BY <1>0, <2>1, <2>2 DEF VisitsAreCounted, ClosingHasLeft, BellHasSource
  <2>4. OneLinkEach'
    <3> SUFFICES ASSUME feed # "bell", NEW v \in 1..feedVisit
                 PROVE  \E k \in links' : LinksOf(v)' = {k}
      BY <2>1 DEF OneLinkEach
    <3>1. PICK k \in links : LinksOf(v) = {k}
      BY DEF OneLinkEach
    <3>2. LinksOf(v)' = {moved(k)}
      BY <2>1, <2>2, <3>1 DEF LinksOf
    <3> QED  BY <2>1, <3>1, <3>2
  <2> QED  BY <2>3, <2>4
<1> QED  BY <1>1, <1>2, <1>3, <1>4, LinkSteps

\* Each component keeps to its own means, and what it stored is what it shows.
LEMMA StoragePreserved ==
  ASSUME FeedTypeOK, EachItsOwnMeans, StoredAsShown, [FeedNext]_feedVars
  PROVE  /\ (feed # "bell" => polls = {} /\ fetches = {} /\ patches = {})'
         /\ (feed = "tasks" => keptMarks = marks)'
         /\ StoredAsShown'
<1>0. /\ feed \in {"bell", "alerts", "tasks"}
      /\ feed # "bell" => polls = {} /\ fetches = {} /\ patches = {}
      /\ feed = "tasks" => keptMarks = marks
  BY FeedsAssumption DEF FeedTypeOK, EachItsOwnMeans
<1> USE DEF StoredAsShown
<1>1. CASE BellAppears
  BY <1>0, <1>1 DEF BellAppears, Appears
<1>2. CASE AlertsAppear
  BY <1>0, <1>2 DEF AlertsAppear, Appears
<1>3. CASE TasksAppear
  BY <1>0, <1>3 DEF TasksAppear, Appears
<1>4. CASE Leaves
  BY <1>0, <1>4 DEF Leaves, dataVars, callVars
<1>5. ASSUME NEW l \in links, Opens(l) \/ FallBack(l) \/ Closes(l) \/ Reconnects(l)
      PROVE  /\ (feed # "bell" => polls = {} /\ fetches = {} /\ patches = {})'
             /\ (feed = "tasks" => keptMarks = marks)' /\ StoredAsShown'
  BY <1>0, <1>5 DEF Opens, FallBack, BellCloses, Closes, RetryLater, Reconnects, dataVars, callVars
<1>6. ASSUME NEW l \in links, NEW i \in Items, BellHears(l, i) \/ AlertHeard(l, i)
      PROVE  /\ (feed # "bell" => polls = {} /\ fetches = {} /\ patches = {})'
             /\ (feed = "tasks" => keptMarks = marks)' /\ StoredAsShown'
  BY <1>0, <1>6 DEF BellHears, AlertHeard, linkVars, callVars
<1>7. ASSUME NEW l \in links, NEW i \in Items, NEW s \in {"new", "in_progress", "done"},
             TaskHeard(l, i, s)
      PROVE  /\ (feed # "bell" => polls = {} /\ fetches = {} /\ patches = {})'
             /\ (feed = "tasks" => keptMarks = marks)' /\ StoredAsShown'
  BY <1>0, <1>7 DEF TaskHeard, linkVars, callVars
<1>8. ASSUME NEW i \in Items, ServerRaises(i) \/ MarkAlert(i) \/ handleMarkRead(i)
      PROVE  /\ (feed # "bell" => polls = {} /\ fetches = {} /\ patches = {})'
             /\ (feed = "tasks" => keptMarks = marks)' /\ StoredAsShown'
  BY <1>0, <1>8 DEF ServerRaises, MarkAlert, handleMarkRead, linkVars, dataVars, callVars
<1>9. ASSUME NEW i \in Items, NEW s \in {"in_progress", "done"}, handleTaskStatusChange(i, s)
      PROVE  /\ (feed # "bell" => polls = {} /\ fetches = {} /\ patches = {})'
             /\ (feed = "tasks" => keptMarks = marks)' /\ StoredAsShown'
  BY <1>0, <1>9 DEF handleTaskStatusChange, linkVars, callVars
<1>10. CASE PropsAgain \/ UNCHANGED feedVars
  BY <1>0, <1>10 DEF PropsAgain, linkVars, callVars, feedVars
<1>11. ASSUME NEW v \in polls, PollTick(v)
       PROVE  /\ (feed # "bell" => polls = {} /\ fetches = {} /\ patches = {})'
              /\ (feed = "tasks" => keptMarks = marks)' /\ StoredAsShown'
  BY <1>0, <1>11 DEF PollTick, linkVars, dataVars
<1>12. ASSUME NEW f \in fetches, ServerLists(f) \/ FetchAnswered(f) \/ FetchFails(f)
       PROVE  /\ (feed # "bell" => polls = {} /\ fetches = {} /\ patches = {})'
              /\ (feed = "tasks" => keptMarks = marks)' /\ StoredAsShown'
  <2>1. feed = "bell"
    BY <1>0, <1>12
  <2>2. CASE FetchAnswered(f)
    <3>1. Current(f.visit) => badge' = stored'
      BY <2>2 DEF FetchAnswered
    <3>2. foreign' = ~Current(f.visit) /\ feed' = feed
      BY <2>2 DEF FetchAnswered
    <3> QED  BY <2>1, <3>1, <3>2
  <2> QED  BY <1>12, <2>1, <2>2 DEF ServerLists, FetchFails, linkVars, dataVars
<1>13. ASSUME NEW p \in patches, ServerMarks(p) \/ MarkAnswered(p) \/ MarkFails(p)
       PROVE  /\ (feed # "bell" => polls = {} /\ fetches = {} /\ patches = {})'
              /\ (feed = "tasks" => keptMarks = marks)' /\ StoredAsShown'
  BY <1>0, <1>13 DEF ServerMarks, MarkAnswered, MarkFails, linkVars, dataVars, Current
<1> QED  BY <1>1, <1>2, <1>3, <1>4, <1>5, <1>6, <1>7, <1>8, <1>9, <1>10, <1>11, <1>12, <1>13
         DEF FeedNext

\* No step of a feed, its server or its connections breaks the invariant.
LEMMA FeedPreserved == FeedInv /\ [FeedNext]_feedVars => FeedInv'
<1> SUFFICES ASSUME FeedInv, [FeedNext]_feedVars PROVE FeedInv'
  OBVIOUS
<1>1. FeedTypeOK'
  BY FeedTypePreserved DEF FeedInv
<1>2. /\ VisitsAreCounted' /\ ClosingHasLeft' /\ BellHasSource' /\ OneLinkEach'
      /\ (feed = "bell" => \A l \in links : l.at # "timer")'
  BY LinksPreserved DEF FeedInv, EachItsOwnMeans
<1>3. /\ (feed # "bell" => polls = {} /\ fetches = {} /\ patches = {})'
      /\ (feed = "tasks" => keptMarks = marks)' /\ StoredAsShown'
  BY StoragePreserved DEF FeedInv
<1>4. EachItsOwnMeans'
  BY <1>2, <1>3 DEF EachItsOwnMeans
<1> QED  BY <1>1, <1>2, <1>3, <1>4 DEF FeedInv

\* A feed about to appear has nothing yet that could be wrong.
LEMMA FeedInitially == FeedInit => FeedInv
<1> SUFFICES ASSUME FeedInit PROVE FeedInv
  OBVIOUS
<1>1. FeedTypeOK
  <2>1. feedVisit \in 0..MaxFeedVisits /\ badge \in 0..Cardinality(Items)
    <3>1. Cardinality(Items) \in Nat
      BY UnreadCounted
    <3> QED  BY <3>1, FeedBoundsAssumption DEF FeedInit
  <2>2. feedShown \in BOOLEAN /\ storedId \in BOOLEAN /\ foreign \in BOOLEAN
    BY DEF FeedInit
  <2> QED  BY <2>1, <2>2 DEF FeedInit, FeedTypeOK
<1>2. VisitsAreCounted /\ ClosingHasLeft /\ BellHasSource /\ OneLinkEach
  BY DEF FeedInit, VisitsAreCounted, ClosingHasLeft, BellHasSource, OneLinkEach
<1>3. EachItsOwnMeans /\ StoredAsShown
  BY DEF FeedInit, EachItsOwnMeans, StoredAsShown
<1> QED  BY <1>1, <1>2, <1>3 DEF FeedInv

\* Every reachable state of the feeds is typed.
THEOREM FeedTypeCorrect == FeedSpec => []FeedTypeOK
<1>1. FeedInv => FeedTypeOK
  BY DEF FeedInv
<1> QED  BY <1>1, FeedInitially, FeedPreserved, PTL DEF FeedSpec

\* A bell that found an id hears of alerts in every reachable state ...
THEOREM BellKeepsItsSource == FeedSpec => []BellHasSource
<1>1. FeedInv => BellHasSource
  BY DEF FeedInv
<1> QED  BY <1>1, FeedInitially, FeedPreserved, PTL DEF FeedSpec

\* ... and what it hears of them by is alive: no socket that is being closed and
\* no timer stands for it.
BellSourceAlive ==
  feed = "bell" /\ feedShown /\ storedId
    => feedVisit \in polls
         \/ \E l \in links : l.visit = feedVisit /\ l.at \in {"connecting", "open"}

\* A bell on the screen that found an id hears of alerts now, not once a timer rings.
THEOREM BellSourceIsAlive == FeedSpec => []BellSourceAlive
<1>1. FeedInv => BellSourceAlive
  BY DEF FeedInv, BellSourceAlive, BellHasSource, Current, ClosingHasLeft, EachItsOwnMeans,
         FeedTypeOK
<1> QED  BY <1>1, FeedInitially, FeedPreserved, PTL DEF FeedSpec

\* Whatever the order of closes, errors, timers and visits, a component that
\* reconnects has one socket or timer for each visit.
THEOREM LinksAreNotDoubled == FeedSpec => []OneLinkPerVisit
<1>1. FeedInv => OneLinkPerVisit
  <2> SUFFICES ASSUME FeedInv, feed # "bell", NEW v \in 1..feedVisit
               PROVE  Cardinality(LinksOf(v)) = 1
    BY DEF OneLinkPerVisit, LinksOf
  <2>1. PICK l \in links : LinksOf(v) = {l}
    BY DEF FeedInv, OneLinkEach
  <2>2. Cardinality({l}) = 1
    BY FS_Singleton
  <2> QED  BY <2>1, <2>2
<1> QED  BY <1>1, FeedInitially, FeedPreserved, PTL DEF FeedSpec

\* What a component shows is what it stored, unless a visit that had ended was
\* the last to write.
THEOREM StorageHoldsWhatIsShown == FeedSpec => []StoredAsShown
<1>1. FeedInv => StoredAsShown
  BY DEF FeedInv
<1> QED  BY <1>1, FeedInitially, FeedPreserved, PTL DEF FeedSpec

(* -------------------------- the dealer's expenses ------------------------- *)

\* As long as the month was never changed during a save or an import, there is
\* one load at a time, of the month selected; the form is in its spinner's
\* place while it lasts, and no save is on the wire with it.
OneLoadOfTheMonth ==
  /\ \A f, g \in fetchExpenses : f = g
  /\ \A f \in fetchExpenses : f.month = selectedMonth /\ formLoading
  /\ handleSave # NoSave => fetchExpenses = {} /\ FormDrawn

\* What is on the wire is of the month selected.
WireOfTheMonth ==
  /\ handleSave # NoSave => handleSave = [month |-> selectedMonth, data |-> selectedMonth]
  /\ handleImport \in {selectedMonth, NoMonth}

\* The form is filled for the month selected: it is drawn, or the load has
\* already learnt that there is no record.
Filled == FormDrawn \/ \E f \in fetchExpenses : f.asks = "before"

FormOfTheMonth == Filled => formData \in {selectedMonth, NoMonth} /\ (unsaved => hasChanges)

\* A save on the wire has a month and figures.
SaveIsOfAMonth == handleSave # NoSave => handleSave \in [month : Months, data : Months]

FormInv ==
  /\ ExpensesTypeOK /\ SaveIsOfAMonth
  /\ ~crossed =>
       /\ OneLoadOfTheMonth /\ WireOfTheMonth /\ FormOfTheMonth
       /\ \A m \in Months : expenses[m] \in {m, NoMonth}

\* Loads of a typed state are records of these fields.
MonthLoad == [n : 1..MaxFetches, month : Months, asks : {"month", "before"}]

\* The months are numbered from one, and no month is not one of them.
LEMMA MonthsAreNumbers == Months \subseteq Nat \ {0} /\ NoMonth \notin Months
BY LastMonthAssumption DEF Months, NoMonth

\* A load that starts is a record of its month.
LEMMA MonthLoadStarts ==
  ASSUME ExpensesTypeOK, NEW m \in Months, FetchFor(m)
  PROVE  /\ fetchExpenses' \subseteq MonthLoad /\ formLoading' = TRUE
         /\ fetchExpenses = {} => \A f \in fetchExpenses' : f.month = m /\ f.asks = "month"
         /\ fetchExpenses = {} => \A f, g \in fetchExpenses' : f = g
<1>1. PICK n \in 1..MaxFetches :
        fetchExpenses' = fetchExpenses \cup {[n |-> n, month |-> m, asks |-> "month"]}
  BY DEF FetchFor
<1> QED  BY <1>1 DEF FetchFor, ExpensesTypeOK, MonthLoad

\* No action leads out of the types.
LEMMA FormTypePreserved ==
  ExpensesTypeOK /\ SaveIsOfAMonth /\ [ExpensesNext]_expenseVars => ExpensesTypeOK' /\ SaveIsOfAMonth'
<1> SUFFICES ASSUME ExpensesTypeOK, SaveIsOfAMonth, [ExpensesNext]_expenseVars
             PROVE  ExpensesTypeOK' /\ SaveIsOfAMonth'
  OBVIOUS
<1>0. /\ selectedMonth \in Months /\ fetchExpenses \subseteq MonthLoad
      /\ formData \in Months \cup {NoMonth} /\ prevMonthData \in Months \cup {NoMonth}
      /\ handleImport \in Months \cup {NoMonth}
      /\ unsaved \in BOOLEAN /\ hasChanges \in BOOLEAN /\ initialData \in BOOLEAN
      /\ formLoading \in BOOLEAN /\ crossed \in BOOLEAN
      /\ handleSave \in [month : Months \cup {NoMonth}, data : Months \cup {NoMonth}]
      /\ expenses \in [Months -> Months \cup {NoMonth}]
  BY DEF ExpensesTypeOK, MonthLoad
<1> USE DEF formVars
<1>1. ASSUME NEW m \in Months, SelectMonth(m) PROVE ExpensesTypeOK'
  <2>1. fetchExpenses' \subseteq MonthLoad /\ formLoading' \in BOOLEAN
    BY <1>1, MonthLoadStarts DEF SelectMonth
  <2>2. crossed' \in BOOLEAN
    BY <1>0, <1>1 DEF SelectMonth
  <2> QED  BY <1>0, <1>1, <2>1, <2>2 DEF SelectMonth, ExpensesTypeOK, MonthLoad
<1>2. ASSUME NEW f \in fetchExpenses, RecordFetched(f) \/ NothingFetched(f) \/ BeforeFetched(f)
      PROVE  ExpensesTypeOK'
  <2>1. f.month \in Months /\ [f EXCEPT !.asks = "before"] \in MonthLoad
    BY <1>0, <1>2 DEF MonthLoad
  <2>2. CASE RecordFetched(f)
    BY <1>0, <2>1, <2>2, ZenonT(40) DEF RecordFetched, ExpensesTypeOK, MonthLoad
  <2>3. CASE NothingFetched(f)
    BY <1>0, <2>1, <2>3 DEF NothingFetched, ExpensesTypeOK, MonthLoad
  <2>4. CASE BeforeFetched(f)
    <3>1. f.month > 1 => f.month - 1 \in Months
      BY <2>1, LastMonthAssumption DEF Months
    <3> QED  BY <1>0, <2>1, <2>4, <3>1 DEF BeforeFetched, ExpensesTypeOK, MonthLoad
  <2> QED  BY <1>2, <2>2, <2>3, <2>4
<1>3. ASSUME handleValuesChange \/ handleCopyFromPrevMonth \/ ClearForm PROVE ExpensesTypeOK'
  BY <1>0, <1>3 DEF handleValuesChange, handleCopyFromPrevMonth, ClearForm, ExpensesTypeOK
<1>4. ASSUME SubmitExpenses PROVE ExpensesTypeOK'
  BY <1>0, <1>4 DEF SubmitExpenses, ExpensesTypeOK
<1>5. ASSUME SaveSucceeds PROVE ExpensesTypeOK'
  <2>1. handleSave.month \in Months /\ handleSave.data \in Months
    BY <1>5 DEF SaveSucceeds, SaveIsOfAMonth
  <2>2. expenses' \in [Months -> Months \cup {NoMonth}]
    BY <1>0, <1>5, <2>1 DEF SaveSucceeds
  <2>3. handleSave' \in [month : Months \cup {NoMonth}, data : Months \cup {NoMonth}]
    BY <1>5 DEF SaveSucceeds, NoSave
  <2>4. fetchExpenses' \subseteq MonthLoad /\ formLoading' \in BOOLEAN
    BY <1>5, <2>1, MonthLoadStarts DEF SaveSucceeds
  <2> QED  BY <1>0, <1>5, <2>2, <2>3, <2>4 DEF SaveSucceeds, ExpensesTypeOK, MonthLoad
<1>6. ASSUME SaveFails PROVE ExpensesTypeOK'
  BY <1>0, <1>6 DEF SaveFails, NoSave, ExpensesTypeOK
<1>7. ASSUME BeginImport \/ ImportSucceeds \/ ImportFails PROVE ExpensesTypeOK'
  BY <1>0, <1>7 DEF BeginImport, ImportSucceeds, ImportFails, ExpensesTypeOK
<1>8. ASSUME UNCHANGED expenseVars PROVE ExpensesTypeOK'
  BY <1>8 DEF expenseVars, ExpensesTypeOK
<1>9. SaveIsOfAMonth'
  <2>1. handleSave' \in {handleSave, NoSave} => SaveIsOfAMonth'
    BY DEF SaveIsOfAMonth
  <2>2. CASE SubmitExpenses
    <3>1. handleSave' = [month |-> selectedMonth,
                         data |-> IF formData = NoMonth THEN selectedMonth ELSE formData]
      BY <2>2 DEF SubmitExpenses
    <3> QED  BY <1>0, <3>1 DEF SaveIsOfAMonth
  <2>3. CASE ~SubmitExpenses
    <3>1. handleSave' \in {handleSave, NoSave}
      BY <2>3
         DEF ExpensesNext, SelectMonth, RecordFetched, NothingFetched, BeforeFetched,
             handleValuesChange, handleCopyFromPrevMonth, ClearForm, SaveSucceeds, SaveFails,
             BeginImport, ImportSucceeds, ImportFails, expenseVars
    <3> QED  BY <2>1, <3>1
  <2> QED  BY <2>2, <2>3
<1> QED  BY <1>1, <1>2, <1>3, <1>4, <1>5, <1>6, <1>7, <1>8, <1>9 DEF ExpensesNext

\* Without a change of the month during a save or an import, every step keeps
\* the form, the wire and the records to their months.
LEMMA MonthsPreserved ==
  ASSUME FormInv, [ExpensesNext]_expenseVars, ~crossed'
  PROVE  /\ OneLoadOfTheMonth' /\ WireOfTheMonth' /\ FormOfTheMonth'
         /\ (\A m \in Months : expenses[m] \in {m, NoMonth})'
<1>0. /\ selectedMonth \in Months /\ fetchExpenses \subseteq MonthLoad
      /\ formLoading \in BOOLEAN /\ unsaved \in BOOLEAN /\ hasChanges \in BOOLEAN
      /\ handleSave # NoSave => handleSave \in [month : Months, data : Months]
      /\ expenses \in [Months -> Months \cup {NoMonth}]
      /\ NoMonth \notin Months
  BY MonthsAreNumbers DEF FormInv, ExpensesTypeOK, MonthLoad, SaveIsOfAMonth
<1>1. ~crossed
  BY DEF ExpensesNext, SelectMonth, RecordFetched, NothingFetched, BeforeFetched,
         handleValuesChange, handleCopyFromPrevMonth, ClearForm, SubmitExpenses, SaveSucceeds,
         SaveFails, BeginImport, ImportSucceeds, ImportFails, expenseVars
<1>2. /\ OneLoadOfTheMonth /\ WireOfTheMonth /\ FormOfTheMonth
      /\ \A m \in Months : expenses[m] \in {m, NoMonth}
  BY <1>1 DEF FormInv
<1> DEFINE Goal == /\ OneLoadOfTheMonth' /\ WireOfTheMonth' /\ FormOfTheMonth'
                   /\ (\A m \in Months : expenses[m] \in {m, NoMonth})'
<1> USE DEF OneLoadOfTheMonth, WireOfTheMonth, FormOfTheMonth, Filled, FormDrawn
<1>3. ASSUME NEW m \in Months, SelectMonth(m) PROVE Goal
  <2>1. handleSave = NoSave /\ handleImport = NoMonth /\ fetchExpenses = {}
    BY <1>1, <1>2, <1>3 DEF SelectMonth
  <2>2. /\ \A f \in fetchExpenses' : f.month = m /\ f.asks = "month"
        /\ \A f, g \in fetchExpenses' : f = g
        /\ formLoading' = TRUE
    BY <1>3, <2>1, MonthLoadStarts DEF SelectMonth, FormInv
  <2> QED  BY <1>2, <1>3, <2>1, <2>2 DEF SelectMonth, formVars
<1>4. ASSUME NEW f \in fetchExpenses, RecordFetched(f) PROVE Goal
  <2>1. fetchExpenses' = {} /\ f.month = selectedMonth /\ handleSave = NoSave
    BY <1>2, <1>4 DEF RecordFetched
  <2> QED  BY <1>0, <1>2, <1>4, <2>1 DEF RecordFetched
<1>5. ASSUME NEW f \in fetchExpenses, NothingFetched(f) PROVE Goal
  <2>1. /\ fetchExpenses' = {[f EXCEPT !.asks = "before"]} /\ f.month = selectedMonth
        /\ handleSave = NoSave /\ formLoading
    BY <1>2, <1>5 DEF NothingFetched
  <2>2. [f EXCEPT !.asks = "before"].month = selectedMonth
    BY <1>0, <2>1 DEF MonthLoad
  <2> QED  BY <1>0, <1>2, <1>5, <2>1, <2>2 DEF NothingFetched
<1>6. ASSUME NEW f \in fetchExpenses, BeforeFetched(f) PROVE Goal
  <2>1. fetchExpenses' = {} /\ handleSave = NoSave /\ f.asks = "before"
    BY <1>2, <1>6 DEF BeforeFetched
  <2> QED  BY <1>0, <1>2, <1>6, <2>1 DEF BeforeFetched
<1>7. CASE handleValuesChange \/ handleCopyFromPrevMonth \/ ClearForm
  BY <1>0, <1>2, <1>7 DEF handleValuesChange, handleCopyFromPrevMonth, ClearForm
<1>8. CASE SubmitExpenses
  <2>1. fetchExpenses = {} /\ formData \in {selectedMonth, NoMonth}
    BY <1>2, <1>8 DEF SubmitExpenses
  <2> QED  BY <1>0, <1>2, <1>8, <2>1 DEF SubmitExpenses, formVars
<1>9. CASE SaveSucceeds
  <2>1. /\ fetchExpenses = {}
        /\ handleSave = [month |-> selectedMonth, data |-> selectedMonth]
    BY <1>2, <1>9 DEF SaveSucceeds
  <2>2. /\ \A f \in fetchExpenses' : f.month = selectedMonth /\ f.asks = "month"
        /\ \A f, g \in fetchExpenses' : f = g
        /\ formLoading' = TRUE
    BY <1>0, <1>9, <2>1, MonthLoadStarts DEF SaveSucceeds, FormInv
  <2>3. (\A m \in Months : expenses[m] \in {m, NoMonth})'
    BY <1>0, <1>2, <1>9, <2>1 DEF SaveSucceeds
  <2> QED  BY <1>2, <1>9, <2>1, <2>2, <2>3 DEF SaveSucceeds
<1>10. CASE SaveFails
  <2>1. handleSave = [month |-> selectedMonth, data |-> selectedMonth]
    BY <1>2, <1>10 DEF SaveFails
  <2>2. (\A m \in Months : expenses[m] \in {m, NoMonth})'
    BY <1>0, <1>2, <1>10, <2>1 DEF SaveFails
  <2> QED  BY <1>0, <1>2, <1>10, <2>2 DEF SaveFails, formVars
<1>11. CASE BeginImport \/ ImportSucceeds \/ ImportFails
  BY <1>0, <1>2, <1>11 DEF BeginImport, ImportSucceeds, ImportFails, formVars
<1>12. CASE UNCHANGED expenseVars
  BY <1>2, <1>12 DEF expenseVars
<1> QED  BY <1>3, <1>4, <1>5, <1>6, <1>7, <1>8, <1>9, <1>10, <1>11, <1>12 DEF ExpensesNext

\* No step of the form or of its calls breaks the invariant.
LEMMA FormPreserved == FormInv /\ [ExpensesNext]_expenseVars => FormInv'
BY FormTypePreserved, MonthsPreserved DEF FormInv

\* The form opens with the load of its month.
LEMMA FormInitially == ExpensesInit => FormInv
<1> SUFFICES ASSUME ExpensesInit PROVE FormInv
  OBVIOUS
<1>1. 1 \in 1..MaxFetches
  BY MaxFetchesAssumption
<1>2. ExpensesTypeOK /\ SaveIsOfAMonth
  <2>1. fetchExpenses \subseteq [n : 1..MaxFetches, month : Months, asks : {"month", "before"}]
    BY <1>1 DEF ExpensesInit
  <2>2. handleSave \in [month : Months \cup {NoMonth}, data : Months \cup {NoMonth}]
        /\ SaveIsOfAMonth
    BY DEF ExpensesInit, NoSave, SaveIsOfAMonth
  <2>3. /\ unsaved \in BOOLEAN /\ hasChanges \in BOOLEAN /\ initialData \in BOOLEAN
        /\ formLoading \in BOOLEAN /\ crossed \in BOOLEAN
    BY DEF ExpensesInit
  <2> QED  BY <2>1, <2>2, <2>3 DEF ExpensesInit, ExpensesTypeOK
<1>3. OneLoadOfTheMonth /\ WireOfTheMonth /\ FormOfTheMonth
  BY DEF ExpensesInit, OneLoadOfTheMonth, WireOfTheMonth, FormOfTheMonth, Filled, FormDrawn
<1>4. \A m \in Months : expenses[m] \in {m, NoMonth}
  BY DEF ExpensesInit
<1> QED  BY <1>2, <1>3, <1>4 DEF FormInv

\* Every reachable state of the form is typed.
THEOREM ExpensesTypeCorrect == ExpensesSpec => []ExpensesTypeOK
<1>1. FormInv => ExpensesTypeOK
  BY DEF FormInv
<1> QED  BY <1>1, FormInitially, FormPreserved, PTL DEF ExpensesSpec

\* For any number of months and loads, no month's figures are saved as
\* another's and what the user put into the form can be saved, as long as the
\* month is not changed while a save or an import is on the wire.
THEOREM FormOfOneMonth == ExpensesSpec => []FormKeepsItsMonth
<1>1. FormInv => FormKeepsItsMonth
  BY DEF FormInv, FormKeepsItsMonth, FiguresOfTheirMonth, UnsavedIsSavable, FormOfTheMonth, Filled
<1> QED  BY <1>1, FormInitially, FormPreserved, PTL DEF ExpensesSpec

\* The answers cannot be mixed up: no two loads were awaited together, or the
\* later one cancels the earlier.
AnswersInOrder == ~lapped \/ This.cancels

\* Then at most one load is awaited, and it is of what is selected.
LoneAwaited == AnswersInOrder => \A k, l \in Awaited : k = l
AwaitedIsSelected ==
  AnswersInOrder /\ selection # NoFigures => \A l \in Awaited : l.of = selection

\* The drawer knows one thing to load.
Directive == CHOOSE s \in Selections : TRUE
DrawerHolds ==
  This.opens = "drawer" =>
    /\ \A l \in tabLoads : l.of = Directive
    /\ figures \in {NoFigures, Directive} /\ selection \in {NoFigures, Directive}

\* What SelectedIsShown says, in terms of AnswersInOrder.
RestShowsSelected ==
  tabShown /\ selection # NoFigures /\ Awaited = {} /\ ~trouble /\ ~kept /\ AnswersInOrder
    => figures = selection \/ (figures = MadeUp /\ This.onFailure = "made up")

\* A tab that is gone has nothing selected.
GoneSelectsNothing == ~tabShown => selection = NoFigures

TabInv ==
  /\ TabTypeOK /\ LoneAwaited /\ AwaitedIsSelected
  /\ DrawerHolds /\ RestShowsSelected /\ GoneSelectsNothing

USE SelectionsAssumption, TabLoadsAssumption

(* --------------------------------- tabs --------------------------------- *)

\* What the proofs need to know of the seven tabs: only the plan and fact
\* cancels loads, and what a tab does about a failure goes with how it opens.
LEMMA TabsKnown ==
  /\ This.cancels \in BOOLEAN /\ This.spins \in BOOLEAN /\ This.selects \in BOOLEAN
  /\ This.cancels => tab = "planfact"
  /\ tab = "planfact" => This.cancels
  /\ This.opens \in {"at once", "panel", "drawer"}
  /\ This.onFailure \in {"error", "made up", "keeps"}
  /\ This.opens = "drawer" => This.onFailure = "error"
BY DEF This, TabNamed, LoadingTab, SalonMainTab, SalonProductsTab, SalonTeamTab,
   SalonTeamHistory, TerritoryMapDetails, TerritoryPlanFactTab, DealerDirectives

\* The tab is the same one throughout.
LEMMA SameTab == tab' = tab => This' = This
BY DEF This

\* The drawer's directive is one of the selections.
LEMMA DirectiveSelected == Directive \in Selections
BY DEF Directive

\* A load sent is awaited; it is the only one where it cancels the others.
LEMMA SendAwaits ==
  ASSUME TabTypeOK, NEW s \in Selections, SendLoad(s), tab' = tab
  PROVE  \E new \in [n : 1..MaxTabLoads, of : {s}, awaited : {TRUE}] :
           /\ new \in Awaited'
           /\ Awaited' \subseteq (IF This.cancels THEN {} ELSE Awaited) \cup {new}
           /\ tabLoads' \subseteq [n : 1..MaxTabLoads, of : Selections, awaited : BOOLEAN]
           /\ \A l \in tabLoads' : l = new \/ \E k \in tabLoads : l.of = k.of
           /\ lapped' = (Awaited # {}) /\ kept' = FALSE
<1>1. PICK n \in 1..MaxTabLoads :
        tabLoads' = {IF This.cancels THEN [l EXCEPT !.awaited = FALSE] ELSE l : l \in tabLoads}
                      \cup {[n |-> n, of |-> s, awaited |-> TRUE]}
  BY DEF SendLoad
<1> DEFINE new == [n |-> n, of |-> s, awaited |-> TRUE]
           older == {IF This.cancels THEN [l EXCEPT !.awaited = FALSE] ELSE l : l \in tabLoads}
<1>2. \A l \in tabLoads : l \in [n : 1..MaxTabLoads, of : Selections, awaited : BOOLEAN]
  BY DEF TabTypeOK
<1>3. ASSUME NEW l \in older
      PROVE  /\ l \in [n : 1..MaxTabLoads, of : Selections, awaited : BOOLEAN]
             /\ \E k \in tabLoads : l.of = k.of
             /\ l.awaited => ~This.cancels /\ l \in Awaited
  <2>1. PICK k \in tabLoads : l = IF This.cancels THEN [k EXCEPT !.awaited = FALSE] ELSE k
    OBVIOUS
  <2>2. CASE This.cancels
    BY <1>2, <2>1, <2>2
  <2>3. CASE ~This.cancels
    BY <1>2, <2>1, <2>3 DEF Awaited
  <2> QED  BY <2>2, <2>3
<1>4. tabLoads' = older \cup {new} /\ new.awaited
  BY <1>1
<1>5. new \in [n : 1..MaxTabLoads, of : {s}, awaited : {TRUE}]
  OBVIOUS
<1>6. lapped' = (Awaited # {}) /\ kept' = FALSE
  BY DEF SendLoad
<1>7. tabLoads' \subseteq [n : 1..MaxTabLoads, of : Selections, awaited : BOOLEAN]
  <2>1. new \in [n : 1..MaxTabLoads, of : Selections, awaited : BOOLEAN]
    OBVIOUS
  <2> QED  BY <1>3, <1>4, <2>1
<1>8. \A l \in tabLoads' : l = new \/ \E k \in tabLoads : l.of = k.of
  BY <1>3, <1>4
<1>9. new \in Awaited'
  BY <1>4 DEF Awaited
<1>10. Awaited' \subseteq (IF This.cancels THEN {} ELSE Awaited) \cup {new}
  BY <1>3, <1>4 DEF Awaited
<1> HIDE DEF new
<1> QED  BY <1>5, <1>6, <1>7, <1>8, <1>9, <1>10

\* What is sent by a step, and what a step that sends does besides.
SomethingSends ==
  \E s \in Selections :
    /\ SendLoad(s) /\ selection' = s /\ UNCHANGED tab /\ tabShown'
    /\ This.opens = "drawer" => s = Directive

\* The steps that send are these; the drawer may also be opened without.
LEMMA SendingSteps ==
  ASSUME TabTypeOK
  PROVE  /\ TabAppears /\ This.opens = "at once" => SomethingSends
         /\ \A s \in Selections : SelectPeriod(s) \/ OpenRow(s) => SomethingSends
         /\ OpenDrawer /\ figures = NoFigures => SomethingSends
<1>1. TabAppears /\ This.opens = "at once" => SomethingSends
  BY DEF TabAppears, SomethingSends
<1>2. ASSUME NEW s \in Selections, SelectPeriod(s) \/ OpenRow(s) PROVE SomethingSends
  <2>1. CASE SelectPeriod(s)
    BY <2>1 DEF SelectPeriod, SomethingSends
  <2>2. CASE OpenRow(s)
    BY <2>2 DEF OpenRow, SomethingSends
  <2> QED  BY <1>2, <2>1, <2>2
<1>3. OpenDrawer /\ figures = NoFigures => SomethingSends
  BY DirectiveSelected DEF OpenDrawer, SomethingSends, Directive
<1> QED  BY <1>1, <1>2, <1>3

\* The same for the link beside an error.
LEMMA RetrySends == TabTypeOK /\ DrawerHolds /\ RetryLoad => SomethingSends
<1> SUFFICES ASSUME TabTypeOK, DrawerHolds, RetryLoad PROVE SomethingSends
  OBVIOUS
<1>1. selection \in Selections
  BY DEF RetryLoad, TabTypeOK
<1>2. This.opens = "drawer" => selection = Directive
  BY <1>1 DEF RetryLoad, DrawerHolds
<1> QED  BY <1>1, <1>2 DEF RetryLoad, SomethingSends

(* -------------------------------- types --------------------------------- *)

\* What a load answered or failed leaves is typed.
LEMMA EndTyped ==
  ASSUME TabTypeOK, NEW l \in tabLoads, LoadAnswered(l) \/ LoadFails(l)
  PROVE  TabTypeOK'
<1>1. l.of \in Selections
  BY DEF TabTypeOK
<1>2. /\ tabLoads' = tabLoads \ {l} /\ UNCHANGED <<tab, tabShown, selection, lapped>>
      /\ figures' \in {l.of, figures, MadeUp}
      /\ {trouble', tabSpinner', kept'} \subseteq BOOLEAN
  <2>1. CASE LoadAnswered(l)
    BY <2>1 DEF LoadAnswered, TabTypeOK
  <2>2. CASE LoadFails(l)
    BY <2>2 DEF LoadFails, TabTypeOK
  <2> QED  BY <2>1, <2>2
<1> QED  BY <1>1, <1>2 DEF TabTypeOK

\* No action leads out of the types.
LEMMA TabTypePreserved ==
  TabTypeOK /\ DrawerHolds /\ [TabNext]_tabVars => TabTypeOK'
<1> SUFFICES ASSUME TabTypeOK, DrawerHolds, [TabNext]_tabVars PROVE TabTypeOK'
  OBVIOUS
<1>1. ASSUME SomethingSends, figures' \in {figures, FirstFigures},
             tabShown' \in BOOLEAN, trouble' \in BOOLEAN, tabSpinner' \in BOOLEAN
      PROVE  TabTypeOK'
  <2>1. PICK s \in Selections : SendLoad(s) /\ selection' = s /\ tab' = tab
    BY <1>1 DEF SomethingSends
  <2>2. tabLoads' \subseteq [n : 1..MaxTabLoads, of : Selections, awaited : BOOLEAN]
        /\ lapped' \in BOOLEAN /\ kept' \in BOOLEAN
    BY <2>1, SendAwaits
  <2> QED  BY <1>1, <2>1, <2>2 DEF TabTypeOK, FirstFigures
<1>2. CASE TabAppears
  <2>1. CASE This.opens = "at once"
    BY <1>1, <1>2, <2>1, SendingSteps DEF TabAppears, TabTypeOK
  <2>2. CASE This.opens # "at once"
    BY <1>2, <2>2 DEF TabAppears, TabTypeOK, FirstFigures
  <2> QED  BY <2>1, <2>2
<1>3. ASSUME NEW s \in Selections, SelectPeriod(s) \/ OpenRow(s) PROVE TabTypeOK'
  <2>1. SomethingSends
    BY <1>3, SendingSteps
  <2>2. tabSpinner' = (tabSpinner \/ This.spins) /\ UNCHANGED <<tabShown, figures, trouble>>
    BY <1>3 DEF SelectPeriod, OpenRow
  <2> QED  BY <1>1, <2>1, <2>2 DEF TabTypeOK
<1>4. CASE RetryLoad
  <2>1. SomethingSends
    BY <1>4, RetrySends
  <2>2. tabSpinner' = (tabSpinner \/ This.spins) /\ UNCHANGED <<tabShown, figures, trouble>>
    BY <1>4 DEF RetryLoad
  <2> QED  BY <1>1, <2>1, <2>2 DEF TabTypeOK
<1>5. CASE OpenDrawer
  <2>1. CASE figures = NoFigures
    BY <1>1, <1>5, <2>1, SendingSteps DEF OpenDrawer, TabTypeOK
  <2>2. CASE figures # NoFigures
    BY <1>5, <2>2, DirectiveSelected DEF OpenDrawer, TabTypeOK, Directive
  <2> QED  BY <2>1, <2>2
<1>6. CASE TabLeaves \/ CloseRow \/ CloseDrawer \/ UNCHANGED tabVars
  BY <1>6 DEF TabLeaves, CloseRow, CloseDrawer, tabVars, TabTypeOK
<1> QED  BY <1>2, <1>3, <1>4, <1>5, <1>6, EndTyped DEF TabNext

(* ------------------------------- spinners ------------------------------- *)

\* A spinner that starts has a load to wait for, and the first answer stops it.
LEMMA TabSpinnerPreserved ==
  TabTypeOK /\ DrawerHolds /\ SpinnerAwaitsLoad /\ [TabNext]_tabVars => SpinnerAwaitsLoad'
<1> SUFFICES ASSUME TabTypeOK, DrawerHolds, SpinnerAwaitsLoad, [TabNext]_tabVars
             PROVE  SpinnerAwaitsLoad'
  OBVIOUS
<1>1. ASSUME SomethingSends PROVE SpinnerAwaitsLoad'
  BY <1>1, SendAwaits DEF SomethingSends, SpinnerAwaitsLoad
<1>2. ASSUME NEW l \in tabLoads, LoadAnswered(l) \/ LoadFails(l) PROVE SpinnerAwaitsLoad'
  <2>1. CASE l.awaited
    BY <1>2, <2>1 DEF LoadAnswered, LoadFails, SpinnerAwaitsLoad
  <2>2. CASE ~l.awaited
    BY <1>2, <2>2 DEF LoadAnswered, LoadFails, SpinnerAwaitsLoad, Awaited
  <2> QED  BY <2>1, <2>2
<1>3. ASSUME UNCHANGED <<tabSpinner, tabLoads>> PROVE SpinnerAwaitsLoad'
  BY <1>3 DEF SpinnerAwaitsLoad, Awaited
<1>4. CASE TabLeaves
  BY <1>4 DEF TabLeaves, SpinnerAwaitsLoad
<1>5. CASE TabAppears \/ OpenDrawer
  BY <1>1, <1>3, <1>5, SendingSteps DEF TabAppears, OpenDrawer
<1> QED
  BY <1>1, <1>2, <1>3, <1>4, <1>5, SendingSteps, RetrySends
     DEF TabNext, CloseRow, CloseDrawer, tabVars

(* --------------------------- figures at rest --------------------------- *)

\* A load sent for what is now selected keeps the invariant: it is alone where
\* answers cannot be mixed up, and nothing is at rest while it is awaited.
LEMMA SendPreserves ==
  ASSUME TabInv, TabTypeOK', SomethingSends, figures' \in {figures, NoFigures, FirstFigures}
  PROVE  TabInv'
<1>1. PICK s \in Selections :
        /\ SendLoad(s) /\ selection' = s /\ tab' = tab /\ tabShown'
        /\ This.opens = "drawer" => s = Directive
  BY DEF SomethingSends
<1>2. PICK new \in [n : 1..MaxTabLoads, of : {s}, awaited : {TRUE}] :
        /\ new \in Awaited'
        /\ Awaited' \subseteq (IF This.cancels THEN {} ELSE Awaited) \cup {new}
        /\ \A l \in tabLoads' : l = new \/ \E k \in tabLoads : l.of = k.of
        /\ lapped' = (Awaited # {})
  BY <1>1, SendAwaits DEF TabInv
<1>3. This' = This /\ new.of = s
  BY <1>1, SameTab
<1>4. AnswersInOrder' => Awaited' = {new}
  BY <1>2, <1>3, TabsKnown DEF AnswersInOrder
<1>5. LoneAwaited' /\ AwaitedIsSelected' /\ RestShowsSelected' /\ GoneSelectsNothing'
  BY <1>1, <1>2, <1>3, <1>4 DEF LoneAwaited, AwaitedIsSelected, RestShowsSelected,
     GoneSelectsNothing
<1>6. DrawerHolds'
  <2>1. ASSUME This.opens = "drawer" PROVE \A l \in tabLoads' : l.of = Directive
    BY <1>1, <1>2, <1>3, <2>1 DEF TabInv, DrawerHolds
  <2>2. This.opens = "drawer" => FirstFigures = NoFigures
    BY TabsKnown DEF FirstFigures
  <2> QED  BY <1>1, <1>3, <2>1, <2>2 DEF TabInv, DrawerHolds
<1> QED  BY <1>5, <1>6 DEF TabInv

\* A load that ends: an answer it cannot be mistaken for another shows what is
\* selected, and a failure says so, or makes figures up for it.
LEMMA EndPreserves ==
  ASSUME TabInv, TabTypeOK', NEW l \in tabLoads, LoadAnswered(l) \/ LoadFails(l)
  PROVE  TabInv'
<1>1. /\ UNCHANGED <<tab, tabShown, selection, lapped>> /\ tabLoads' = tabLoads \ {l}
      /\ This' = This
  BY SameTab DEF LoadAnswered, LoadFails
<1>2. (AnswersInOrder' <=> AnswersInOrder) /\ Awaited' = Awaited \ {l}
  BY <1>1 DEF AnswersInOrder, Awaited
<1>3. LoneAwaited' /\ AwaitedIsSelected' /\ GoneSelectsNothing'
  BY <1>1, <1>2 DEF TabInv, LoneAwaited, AwaitedIsSelected, GoneSelectsNothing
<1>4. DrawerHolds'
  <2>1. This.opens = "drawer" => figures' \in {figures, l.of}
    BY TabsKnown DEF LoadAnswered, LoadFails
  <2> QED  BY <1>1, <2>1 DEF TabInv, DrawerHolds
<1>5. RestShowsSelected'
  <2>1. CASE ~l.awaited
    <3>1. Awaited' = Awaited /\ UNCHANGED <<figures, trouble, kept>>
      BY <1>2, <2>1 DEF LoadAnswered, LoadFails, Awaited
    <3> QED  BY <1>1, <1>2, <3>1 DEF TabInv, RestShowsSelected
  <2>2. CASE l.awaited
    <3>1. AnswersInOrder /\ selection # NoFigures => l.of = selection
      BY <2>2 DEF TabInv, AwaitedIsSelected, Awaited
    <3>2. CASE LoadAnswered(l)
      BY <1>1, <1>2, <2>2, <3>1, <3>2 DEF LoadAnswered, RestShowsSelected
    <3>3. CASE LoadFails(l)
      <4>1. This.onFailure = "error" => trouble'
        BY <2>2, <3>3 DEF LoadFails
      <4>2. This.onFailure = "keeps" => kept'
        BY <2>2, <3>3 DEF LoadFails
      <4>3. This.onFailure = "made up" => figures' = MadeUp \/ figures' = l.of
        BY <2>2, <3>3 DEF LoadFails
      <4> QED  BY <1>1, <1>2, <3>1, <4>1, <4>2, <4>3, TabsKnown DEF RestShowsSelected
    <3> QED  BY <3>2, <3>3
  <2> QED  BY <2>1, <2>2
<1> QED  BY <1>3, <1>4, <1>5 DEF TabInv

\* What closes, or opens without a load, loses nothing the invariant needs.
LEMMA CloseAndReopenPreserve ==
  ASSUME TabInv, TabTypeOK',
         TabLeaves \/ CloseRow \/ CloseDrawer \/ (OpenDrawer /\ figures # NoFigures)
           \/ (TabAppears /\ This.opens # "at once") \/ UNCHANGED tabVars
  PROVE  TabInv'
<1> USE DEF TabInv, LoneAwaited, AwaitedIsSelected, DrawerHolds, RestShowsSelected, AnswersInOrder,
        GoneSelectsNothing
<1>1. tab' = tab /\ This' = This
  BY SameTab DEF TabLeaves, CloseRow, CloseDrawer, OpenDrawer, TabAppears, tabVars
<1>2. CASE TabLeaves
  BY <1>1, <1>2 DEF TabLeaves, Awaited
<1>3. CASE CloseRow
  BY <1>1, <1>3 DEF CloseRow, Awaited
<1>4. CASE CloseDrawer
  BY <1>1, <1>4 DEF CloseDrawer, Awaited
<1>5. CASE OpenDrawer /\ figures # NoFigures
  <2>1. /\ selection' = Directive /\ figures = Directive /\ This.opens = "drawer"
        /\ UNCHANGED <<tab, tabShown, figures, trouble, tabSpinner, tabLoads, lapped, kept>>
    BY <1>5 DEF OpenDrawer, Directive
  <2>2. Awaited' = Awaited /\ \A l \in Awaited : l.of = Directive
    BY <2>1 DEF Awaited
  <2>3. /\ LoneAwaited' /\ AwaitedIsSelected' /\ DrawerHolds' /\ RestShowsSelected'
    BY <1>1, <2>1, <2>2
  <2>4. tabShown'
    BY <1>5 DEF OpenDrawer
  <2> QED  BY <2>3, <2>4
<1>6. CASE TabAppears /\ This.opens # "at once"
  <2>1. /\ Awaited' = Awaited /\ UNCHANGED <<selection, tabLoads, lapped, kept>>
        /\ selection = NoFigures
    BY <1>6 DEF TabAppears, Awaited
  <2>2. figures' = FirstFigures /\ (This.opens = "drawer" => FirstFigures = NoFigures)
    BY <1>6, TabsKnown DEF TabAppears, FirstFigures
  <2> QED  BY <1>1, <2>1, <2>2
<1>7. CASE UNCHANGED tabVars
  BY <1>1, <1>7 DEF tabVars, Awaited
<1> QED  BY <1>2, <1>3, <1>4, <1>5, <1>6, <1>7

\* A tab not yet shown has nothing selected and nothing on the wire.
LEMMA TabInitially == TabInit => TabInv /\ SpinnerAwaitsLoad
<1> SUFFICES ASSUME TabInit PROVE TabInv /\ SpinnerAwaitsLoad
  OBVIOUS
<1>1. Awaited = {} /\ tabLoads = {} /\ selection = NoFigures /\ figures = NoFigures
  BY DEF TabInit, Awaited
<1>2. TabTypeOK
  BY DEF TabInit, TabTypeOK
<1>3. ~tabShown /\ ~tabSpinner
  BY DEF TabInit
<1> QED
  BY <1>1, <1>2, <1>3 DEF TabInv, LoneAwaited, AwaitedIsSelected, DrawerHolds,
     RestShowsSelected, GoneSelectsNothing, SpinnerAwaitsLoad

\* Every step is one that sends, one that ends a load, or one of the rest.
LEMMA TabPreserved == TabInv /\ [TabNext]_tabVars => TabInv'
<1> SUFFICES ASSUME TabInv, [TabNext]_tabVars PROVE TabInv'
  OBVIOUS
<1>0. TabTypeOK /\ DrawerHolds /\ TabTypeOK'
  BY TabTypePreserved DEF TabInv
<1>1. CASE TabAppears
  <2>1. CASE This.opens = "at once"
    BY <1>0, <1>1, <2>1, SendingSteps, SendPreserves DEF TabAppears
  <2>2. CASE This.opens # "at once"
    BY <1>0, <1>1, <2>2, CloseAndReopenPreserve
  <2> QED  BY <2>1, <2>2
<1>2. ASSUME NEW s \in Selections, SelectPeriod(s) \/ OpenRow(s) PROVE TabInv'
  BY <1>0, <1>2, SendingSteps, SendPreserves DEF SelectPeriod, OpenRow
<1>3. CASE RetryLoad
  BY <1>0, <1>3, RetrySends, SendPreserves DEF RetryLoad
<1>4. CASE OpenDrawer
  <2>1. CASE figures = NoFigures
    BY <1>0, <1>4, <2>1, SendingSteps, SendPreserves DEF OpenDrawer
  <2>2. CASE figures # NoFigures
    BY <1>0, <1>4, <2>2, CloseAndReopenPreserve
  <2> QED  BY <2>1, <2>2
<1>5. CASE TabLeaves \/ CloseRow \/ CloseDrawer \/ UNCHANGED tabVars
  BY <1>0, <1>5, CloseAndReopenPreserve
<1> QED  BY <1>0, <1>1, <1>2, <1>3, <1>4, <1>5, EndPreserves DEF TabNext

\* Every reachable state of a tab is typed.
THEOREM TabsTypeCorrect == TabSpec => []TabTypeOK
<1>1. TabInv => TabTypeOK
  BY DEF TabInv
<1> QED  BY <1>1, TabInitially, TabPreserved, PTL DEF TabSpec

\* A spinner turns only while a load that will stop it is on the wire, whatever
\* was cancelled, closed or left meanwhile.
THEOREM SpinnersEnd == TabSpec => []SpinnerAwaitsLoad
<1>1. TabInv /\ SpinnerAwaitsLoad /\ [TabNext]_tabVars => SpinnerAwaitsLoad'
  BY TabSpinnerPreserved DEF TabInv
<1> QED  BY <1>1, TabInitially, TabPreserved, PTL DEF TabSpec

\* A tab at rest shows what is selected in it, unless its loads overlapped and
\* it does not cancel, or the last one failed.
THEOREM SelectionShown == TabSpec => []SelectedIsShown
<1>1. TabInv => SelectedIsShown
  BY TabsKnown DEF TabInv, RestShowsSelected, AnswersInOrder, SelectedIsShown
<1> QED  BY <1>1, TabInitially, TabPreserved, PTL DEF TabSpec
=============================================================================
