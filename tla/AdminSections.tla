--------------------------- MODULE AdminSections ---------------------------
(***************************************************************************)
(* The super administrator's sections that load several lists together:    *)
(* billing, activity, audit and technical health. A load is one request    *)
(* per list, waited for together; when the last is answered all lists are  *)
(* set, and when one fails all lists are made up.                          *)
(*                                                                         *)
(* The lists, the period and a spinner are in a store that outlives the    *)
(* section; a second spinner is state of the component. While either turns *)
(* nothing of the section is drawn, so nothing of it can be changed.       *)
(***************************************************************************)
EXTENDS Naturals, FiniteSets

CONSTANTS
  Sections,          \* the sections a behaviour may be about, by name
  Periods,           \* periods or filters a section may be asked for
  NoPeriod,          \* none: a list that was not loaded, or is made up
  MaxSectionVisits,  \* bound: times the section is opened
  MaxSectionLoads    \* bound: loads on the wire

ASSUME PeriodsAssumption == NoPeriod \notin Periods /\ Periods # {}
ASSUME VisitsAssumption == MaxSectionVisits \in Nat /\ MaxSectionLoads \in Nat

(* ------------------------------ sections ------------------------------ *)

\* The lists a section loads together, what the user may choose on it,
\* whether a choice loads the lists again, and the saves that do.
Section(lists, choice, reloads, stores) ==
  [lists |-> lists, choice |-> choice, reloads |-> reloads, saves |-> stores]

\* The billing section has a period in its store and no control to change it.
BillingSection ==
  Section({"invoices", "settings", "history"}, "none", TRUE, {"invoice", "payment", "settings"})

ActivitySection ==
  Section({"overview", "dynamics", "byTenant", "featureAdoption", "ttv"}, "period", TRUE, {})

\* The audit's filters go with the next load, which only ending a session asks for.
AuditSection ==
  Section({"adminActions", "impersonations", "activeSessions", "userLogins"}, "filters", FALSE,
          {"session"})

TechHealthSection ==
  Section({"status", "performance", "errors", "services", "securityEvents"}, "period", TRUE, {})

SectionNamed(s) ==
  CASE s = "billing"  -> BillingSection
    [] s = "activity" -> ActivitySection
    [] s = "audit"    -> AuditSection
    [] OTHER          -> TechHealthSection

VARIABLES
  section,       \* the section this behaviour is about
  sectionShown,  \* whether it is on the screen
  sectionVisit,  \* how often it was opened
  period,        \* the choice in the store
  listsShown,    \* the lists in the store: where each comes from, and for which choice
  isLoading,     \* the store's isLoading
  localLoading,  \* the component's localLoading
  sectionLoads,  \* loads on the wire: the answers each still waits for
  saving,        \* saves on the wire
  stray          \* whether the last load to end was of an earlier visit

sectionVars == <<section, sectionShown, sectionVisit, period, listsShown, isLoading,
                 localLoading, sectionLoads, saving, stray>>

Lists == SectionNamed(section).lists

List(origin, p) == [origin |-> origin, period |-> p]

\* The section is drawn, and can be used.
Drawn == sectionShown /\ ~localLoading /\ ~isLoading

(* -------------------------------- loads -------------------------------- *)

Numbers == {l.n : l \in sectionLoads}

\* fetchData of the visit v, for the choice p of its render: both spinners,
\* the component's only while that visit lasts.
fetchData(v, p) ==
  \E n \in (1..MaxSectionLoads) \ Numbers :
    /\ sectionLoads' = sectionLoads
         \cup {[n |-> n, visit |-> v, period |-> p, waits |-> Cardinality(Lists)]}
    /\ isLoading' = TRUE
    /\ localLoading' = (localLoading \/ (sectionShown' /\ v = sectionVisit'))

Mine(l) == sectionShown /\ l.visit = sectionVisit

\* The finally clause.
LoadEnds(l) ==
  /\ sectionLoads' = sectionLoads \ {l}
  /\ isLoading' = FALSE
  /\ localLoading' = (localLoading /\ ~Mine(l))
  /\ stray' = ~Mine(l)
  /\ UNCHANGED <<section, sectionShown, sectionVisit, period, saving>>

\* One answer of several.
AnswerWaits(l) ==
  /\ l.waits > 1
  /\ sectionLoads' = (sectionLoads \ {l}) \cup {[l EXCEPT !.waits = @ - 1]}
  /\ UNCHANGED <<section, sectionShown, sectionVisit, period, listsShown, isLoading,
                 localLoading, saving, stray>>

\* The mutated form: a list is set as soon as its own answer is there.
AnswerShown(l) ==
  /\ l.waits > 1
  /\ sectionLoads' = (sectionLoads \ {l}) \cup {[l EXCEPT !.waits = @ - 1]}
  /\ \E li \in Lists : listsShown' = [listsShown EXCEPT ![li] = List("server", l.period)]
  /\ UNCHANGED <<section, sectionShown, sectionVisit, period, isLoading, localLoading,
                 saving, stray>>

Answered(l) == AnswerWaits(l)

\* The last answer: every list is set, for the period the load was sent with.
AllAnswered(l) ==
  /\ l.waits = 1
  /\ listsShown' = [li \in Lists |-> List("server", l.period)]
  /\ LoadEnds(l)

\* One request fails: the answers of the others are not read.
SectionLoadFails(l) ==
  /\ listsShown' = [li \in Lists |-> List("mock", l.period)]
  /\ LoadEnds(l)

(* ------------------------------- the user ------------------------------- *)

SectionsInit ==
  /\ section \in Sections
  /\ sectionShown = FALSE
  /\ sectionVisit = 0
  /\ period \in IF SectionNamed(section).choice = "none"
                  THEN {CHOOSE p \in Periods : TRUE} ELSE Periods
  /\ listsShown = [li \in Lists |-> List("none", NoPeriod)]
  /\ isLoading = FALSE
  /\ localLoading = FALSE
  /\ sectionLoads = {}
  /\ saving = {}
  /\ stray = FALSE

\* The section's menu entry: a new component, whose spinner turns at once.
SectionOpens ==
  /\ ~sectionShown /\ sectionVisit < MaxSectionVisits
  /\ sectionShown' = TRUE
  /\ sectionVisit' = sectionVisit + 1
  /\ fetchData(sectionVisit', period)
  /\ UNCHANGED <<section, period, listsShown, saving, stray>>

\* Another menu entry, which a spinner does not cover.
SectionLeaves ==
  /\ sectionShown
  /\ sectionShown' = FALSE
  /\ localLoading' = FALSE
  /\ UNCHANGED <<section, sectionVisit, period, listsShown, isLoading, sectionLoads, saving,
                 stray>>

\* The mutated form: the controls stay while the lists load.
SetPeriodAnyTime(p) ==
  /\ sectionShown /\ SectionNamed(section).choice # "none" /\ p # period
  /\ period' = p
  /\ IF SectionNamed(section).reloads
       THEN UNCHANGED <<sectionShown, sectionVisit>> /\ fetchData(sectionVisit, p)
       ELSE UNCHANGED <<sectionShown, sectionVisit, sectionLoads, isLoading, localLoading>>
  /\ UNCHANGED <<section, listsShown, saving, stray>>

SetPeriod(p) ==
  /\ Drawn /\ SectionNamed(section).choice # "none" /\ p # period
  /\ period' = p
  /\ IF SectionNamed(section).reloads
       THEN UNCHANGED <<sectionShown, sectionVisit>> /\ fetchData(sectionVisit, p)
       ELSE UNCHANGED <<sectionShown, sectionVisit, sectionLoads, isLoading, localLoading>>
  /\ UNCHANGED <<section, listsShown, saving, stray>>

\* A form or button of the section: its handler keeps the choice of its render.
SectionSave(kind) ==
  /\ Drawn /\ kind \notin {s.kind : s \in saving}
  /\ saving' = saving \cup {[kind |-> kind, visit |-> sectionVisit, period |-> period]}
  /\ UNCHANGED <<section, sectionShown, sectionVisit, period, listsShown, isLoading,
                 localLoading, sectionLoads, stray>>

\* The save succeeds, and its handler loads the lists again, even when its
\* component has gone.
SectionSaved(s) ==
  /\ saving' = saving \ {s}
  /\ UNCHANGED <<sectionShown, sectionVisit>>
  /\ fetchData(s.visit, s.period)
  /\ UNCHANGED <<section, period, listsShown, stray>>

SectionSaveFails(s) ==
  /\ saving' = saving \ {s}
  /\ UNCHANGED <<section, sectionShown, sectionVisit, period, listsShown, isLoading,
                 localLoading, sectionLoads, stray>>

SectionsNext ==
  \/ SectionOpens
  \/ SectionLeaves
  \/ \E p \in Periods : SetPeriod(p)
  \/ \E kind \in SectionNamed(section).saves : SectionSave(kind)
  \/ \E s \in saving : SectionSaved(s) \/ SectionSaveFails(s)
  \/ \E l \in sectionLoads : Answered(l) \/ AllAnswered(l) \/ SectionLoadFails(l)

SectionsSpec == SectionsInit /\ [][SectionsNext]_sectionVars

(* ------------------------------ properties ------------------------------ *)

\* Every variable has its type.
SectionsTypeOK ==
  /\ section \in Sections /\ period \in Periods /\ sectionVisit \in 0..MaxSectionVisits
  /\ {sectionShown, isLoading, localLoading, stray} \subseteq BOOLEAN
  /\ listsShown \in [Lists -> [origin : {"none", "mock", "server"},
                              period : Periods \cup {NoPeriod}]]
  /\ sectionLoads \subseteq [n : 1..MaxSectionLoads, visit : 1..MaxSectionVisits,
                             period : Periods, waits : 1..Cardinality(Lists)]
  /\ saving \subseteq [kind : SectionNamed(section).saves, visit : 1..MaxSectionVisits,
                       period : Periods]

\* The lists of a section are of one load: the user never reads invoices of
\* the server beside made-up payments, or the activity of two periods.
OneLoad == \A a, b \in Lists : listsShown[a] = listsShown[b]

\* Where a choice loads the lists, what is drawn is what was chosen, unless
\* the last load to end belonged to a visit of the section that had ended:
\* the two spinners keep the controls away while a load of this visit runs.
ChosenIsShown ==
  Drawn /\ SectionNamed(section).reloads /\ ~stray
    => \A li \in Lists : listsShown[li].period = period

\* The component's own spinner turns only while a load of its visit is on the
\* wire, so that a section whose loads all end is drawn.
NoIdleLocalSpinner == localLoading => \E l \in sectionLoads : Mine(l)
=============================================================================
