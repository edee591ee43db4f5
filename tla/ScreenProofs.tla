---------------------------- MODULE ScreenProofs ----------------------------
(***************************************************************************)
(* The screens of the web client together. The super administrator's       *)
(* sections never mix two loads and never turn for nothing, for any number *)
(* of visits, loads, saves and periods. The two colours of the dealer's    *)
(* calculator agree, for every amount, share and discount typed. And a     *)
(* behaviour of all the screens is one of each: what is proved of a screen *)
(* alone holds of it among the others.                                     *)
(***************************************************************************)
EXTENDS MCFrontend, StoreProofs, ListProofs, PanelProofs, FiniteSetTheorems, TLAPS

(* ------------------------ the sections: their types ---------------------- *)

\* Each section loads some lists, and finitely many.
LEMMA ListsCounted == Cardinality(Lists) \in Nat \ {0}
<1>1. \A a, b, c : IsFiniteSet({a, b, c})
  <2> TAKE a, b, c
  <2>1. IsFiniteSet({}) /\ IsFiniteSet({} \cup {a})
    BY FS_EmptySet, FS_AddElement
  <2>2. IsFiniteSet(({} \cup {a}) \cup {b})
    BY <2>1, FS_AddElement
  <2>3. IsFiniteSet((({} \cup {a}) \cup {b}) \cup {c})
    BY <2>2, FS_AddElement
  <2>4. (({} \cup {a}) \cup {b}) \cup {c} = {a, b, c}
    OBVIOUS
  <2> QED  BY <2>3, <2>4
<1>2. \A a, b, c, d : IsFiniteSet({a, b, c, d})
  <2> TAKE a, b, c, d
  <2>1. IsFiniteSet({a, b, c} \cup {d})
    BY <1>1, FS_AddElement
  <2>2. {a, b, c} \cup {d} = {a, b, c, d}
    OBVIOUS
  <2> QED  BY <2>1, <2>2
<1>3. \A a, b, c, d, e : IsFiniteSet({a, b, c, d, e})
  <2> TAKE a, b, c, d, e
  <2>1. IsFiniteSet({a, b, c, d} \cup {e})
    BY <1>2, FS_AddElement
  <2>2. {a, b, c, d} \cup {e} = {a, b, c, d, e}
    OBVIOUS
  <2> QED  BY <2>1, <2>2
<1>4. IsFiniteSet(Lists) /\ Lists # {}
  <2>1. BillingSection.lists = {"invoices", "settings", "history"}
    BY DEF BillingSection, Section
  <2>2. ActivitySection.lists = {"overview", "dynamics", "byTenant", "featureAdoption", "ttv"}
    BY DEF ActivitySection, Section
  <2>3. AuditSection.lists = {"adminActions", "impersonations", "activeSessions", "userLogins"}
    BY DEF AuditSection, Section
  <2>4. TechHealthSection.lists
          = {"status", "performance", "errors", "services", "securityEvents"}
    BY DEF TechHealthSection, Section
  <2>5. SectionNamed(section) \in
          {BillingSection, ActivitySection, AuditSection, TechHealthSection}
    BY DEF SectionNamed
  <2>6. /\ IsFiniteSet(BillingSection.lists) /\ IsFiniteSet(ActivitySection.lists)
        /\ IsFiniteSet(AuditSection.lists) /\ IsFiniteSet(TechHealthSection.lists)
    <3>1. IsFiniteSet(BillingSection.lists)
      <4>1. IsFiniteSet({"invoices", "settings", "history"})
        BY <1>1, Zenon
      <4> QED  BY <4>1, <2>1, Zenon
    <3>2. IsFiniteSet(ActivitySection.lists)
      <4>1. IsFiniteSet({"overview", "dynamics", "byTenant", "featureAdoption", "ttv"})
        BY <1>3, Zenon
      <4> QED  BY <4>1, <2>2, Zenon
    <3>3. IsFiniteSet(AuditSection.lists)
      <4>1. IsFiniteSet({"adminActions", "impersonations", "activeSessions", "userLogins"})
        BY <1>2, Zenon
      <4> QED  BY <4>1, <2>3, Zenon
    <3>4. IsFiniteSet(TechHealthSection.lists)
      <4>1. IsFiniteSet({"status", "performance", "errors", "services", "securityEvents"})
        BY <1>3, Zenon
      <4> QED  BY <4>1, <2>4, Zenon
    <3> QED  BY <3>1, <3>2, <3>3, <3>4
  <2>7. /\ BillingSection.lists # {} /\ ActivitySection.lists # {}
        /\ AuditSection.lists # {} /\ TechHealthSection.lists # {}
    BY <2>1, <2>2, <2>3, <2>4
  <2> QED  BY <2>5, <2>6, <2>7, Zenon DEF Lists
<1> QED  BY <1>4, FS_EmptySet, FS_CardinalityType

\* A section that is drawn was opened.
ShownIsVisited == sectionShown => sectionVisit >= 1

SectionsTypeInv == SectionsTypeOK /\ ShownIsVisited

\* Loads and saves of a typed state are records of these fields.
SectionLoadRecord == [n : 1..MaxSectionLoads, visit : 1..MaxSectionVisits, period : Periods,
         waits : 1..Cardinality(Lists)]
SectionSaveRecord == [kind : SectionNamed(section).saves, visit : 1..MaxSectionVisits, period : Periods]

\* A load that starts is typed, and its spinners turn.
LEMMA FetchTyped ==
  ASSUME SectionsTypeOK, NEW v \in 1..MaxSectionVisits, NEW p \in Periods, fetchData(v, p),
         sectionShown' \in BOOLEAN
  PROVE  sectionLoads' \subseteq SectionLoadRecord /\ isLoading' \in BOOLEAN /\ localLoading' \in BOOLEAN
<1>1. PICK n \in 1..MaxSectionLoads :
        sectionLoads' = sectionLoads
          \cup {[n |-> n, visit |-> v, period |-> p, waits |-> Cardinality(Lists)]}
  BY DEF fetchData
<1>2. Cardinality(Lists) \in 1..Cardinality(Lists)
  BY ListsCounted
<1>3. sectionLoads' \subseteq SectionLoadRecord
  BY <1>1, <1>2 DEF SectionsTypeOK, SectionLoadRecord
<1>4. isLoading' \in BOOLEAN /\ localLoading' \in BOOLEAN
  BY DEF fetchData, SectionsTypeOK
<1> QED  BY <1>3, <1>4

\* No action leads out of the types.
LEMMA SectionsTypePreserved == SectionsTypeInv /\ [SectionsNext]_sectionVars => SectionsTypeInv'
<1> SUFFICES ASSUME SectionsTypeInv, [SectionsNext]_sectionVars PROVE SectionsTypeInv'
  OBVIOUS
<1> USE PeriodsAssumption, VisitsAssumption
<1>0. SectionsTypeOK /\ ShownIsVisited /\ sectionVisit \in Nat
      /\ sectionLoads \subseteq SectionLoadRecord /\ saving \subseteq SectionSaveRecord
  BY DEF SectionsTypeInv, SectionsTypeOK, SectionLoadRecord, SectionSaveRecord
<1>1. CASE SectionOpens
  <2>1. sectionVisit' \in 1..MaxSectionVisits /\ sectionShown' = TRUE
    BY <1>0, <1>1 DEF SectionOpens
  <2>2. fetchData(sectionVisit', period) /\ period \in Periods
    BY <1>0, <1>1 DEF SectionOpens, SectionsTypeOK
  <2>3. sectionLoads' \subseteq SectionLoadRecord /\ isLoading' \in BOOLEAN /\ localLoading' \in BOOLEAN
    BY <1>0, <2>1, <2>2, FetchTyped
  <2> QED  BY <1>0, <1>1, <2>1, <2>3
           DEF SectionOpens, SectionsTypeInv, SectionsTypeOK, ShownIsVisited, SectionLoadRecord, Lists
<1>2. CASE SectionLeaves
  BY <1>0, <1>2 DEF SectionLeaves, SectionsTypeInv, SectionsTypeOK, ShownIsVisited, Lists
<1>3. ASSUME NEW p \in Periods, SetPeriod(p) PROVE SectionsTypeInv'
  <2>1. sectionVisit \in 1..MaxSectionVisits /\ sectionShown
    BY <1>0, <1>3 DEF SetPeriod, Drawn, ShownIsVisited, SectionsTypeOK
  <2>2. CASE SectionNamed(section).reloads
    <3>1. fetchData(sectionVisit, p) /\ UNCHANGED <<sectionShown, sectionVisit>>
      BY <1>3, <2>2 DEF SetPeriod
    <3>2. sectionLoads' \subseteq SectionLoadRecord /\ isLoading' \in BOOLEAN /\ localLoading' \in BOOLEAN
      BY <1>0, <2>1, <3>1, FetchTyped
    <3> QED  BY <1>0, <1>3, <2>1, <3>1, <3>2
             DEF SetPeriod, SectionsTypeInv, SectionsTypeOK, ShownIsVisited, SectionLoadRecord, Lists
  <2>3. CASE ~SectionNamed(section).reloads
    BY <1>0, <1>3, <2>1, <2>3 DEF SetPeriod, SectionsTypeInv, SectionsTypeOK, ShownIsVisited, Lists
  <2> QED  BY <2>2, <2>3
<1>4. ASSUME NEW kind \in SectionNamed(section).saves, SectionSave(kind) PROVE SectionsTypeInv'
  <2>1. sectionVisit \in 1..MaxSectionVisits /\ period \in Periods
    BY <1>0, <1>4 DEF SectionSave, Drawn, ShownIsVisited, SectionsTypeOK
  <2>2. saving' \subseteq SectionSaveRecord
    BY <1>0, <1>4, <2>1 DEF SectionSave, SectionSaveRecord
  <2> QED  BY <1>0, <1>4, <2>2
           DEF SectionSave, SectionsTypeInv, SectionsTypeOK, ShownIsVisited, SectionSaveRecord, Lists
<1>5. ASSUME NEW s \in saving, SectionSaved(s) PROVE SectionsTypeInv'
  <2>1. s.visit \in 1..MaxSectionVisits /\ s.period \in Periods
    BY <1>0 DEF SectionSaveRecord
  <2>2. fetchData(s.visit, s.period) /\ sectionShown' \in BOOLEAN
    BY <1>0, <1>5 DEF SectionSaved, SectionsTypeOK
  <2>3. sectionLoads' \subseteq SectionLoadRecord /\ isLoading' \in BOOLEAN /\ localLoading' \in BOOLEAN
    BY <1>0, <2>1, <2>2, FetchTyped
  <2> QED  BY <1>0, <1>5, <2>3
           DEF SectionSaved, SectionsTypeInv, SectionsTypeOK, ShownIsVisited, SectionLoadRecord, Lists
<1>6. ASSUME NEW s \in saving, SectionSaveFails(s) PROVE SectionsTypeInv'
  BY <1>0, <1>6 DEF SectionSaveFails, SectionsTypeInv, SectionsTypeOK, ShownIsVisited, Lists
<1>7. ASSUME NEW l \in sectionLoads, Answered(l) PROVE SectionsTypeInv'
  <2>1. l \in SectionLoadRecord /\ l.waits > 1
    BY <1>0, <1>7 DEF Answered, AnswerWaits
  <2>2. [l EXCEPT !.waits = @ - 1] \in SectionLoadRecord
    BY <2>1, ListsCounted DEF SectionLoadRecord
  <2>3. sectionLoads' \subseteq SectionLoadRecord
    BY <1>0, <1>7, <2>2 DEF Answered, AnswerWaits
  <2> QED  BY <1>0, <1>7, <2>3
           DEF Answered, AnswerWaits, SectionsTypeInv, SectionsTypeOK, ShownIsVisited, SectionLoadRecord, Lists
<1>8. ASSUME NEW l \in sectionLoads, AllAnswered(l) \/ SectionLoadFails(l) PROVE SectionsTypeInv'
  <2>1. l.period \in Periods
    BY <1>0 DEF SectionLoadRecord
  <2>2. \E o \in {"mock", "server"} : listsShown' = [li \in Lists |-> List(o, l.period)]
    BY <1>8 DEF AllAnswered, SectionLoadFails
  <2>3. listsShown' \in [Lists -> [origin : {"none", "mock", "server"},
                                  period : Periods \cup {NoPeriod}]]
    BY <2>1, <2>2 DEF List
  <2>4. LoadEnds(l)
    BY <1>8 DEF AllAnswered, SectionLoadFails
  <2>5. stray' \in BOOLEAN /\ localLoading' \in BOOLEAN /\ isLoading' \in BOOLEAN
    BY <1>0, <2>4 DEF LoadEnds, Mine, SectionsTypeOK
  <2> QED  BY <1>0, <2>3, <2>4, <2>5
           DEF LoadEnds, SectionsTypeInv, SectionsTypeOK, ShownIsVisited, Lists
<1>9. CASE UNCHANGED sectionVars
  BY <1>0, <1>9 DEF sectionVars, SectionsTypeInv, SectionsTypeOK, ShownIsVisited, Lists
<1> QED  BY <1>1, <1>2, <1>3, <1>4, <1>5, <1>6, <1>7, <1>8, <1>9 DEF SectionsNext

\* A browser that has opened no section yet is typed.
LEMMA SectionsTypeInitially == SectionsInit => SectionsTypeInv
<1> SUFFICES ASSUME SectionsInit PROVE SectionsTypeInv
  OBVIOUS
<1>1. period \in Periods
  BY PeriodsAssumption DEF SectionsInit
<1>2. listsShown \in [Lists -> [origin : {"none", "mock", "server"},
                               period : Periods \cup {NoPeriod}]]
  BY DEF SectionsInit, List
<1>3. sectionVisit = 0 /\ sectionVisit \in 0..MaxSectionVisits
  BY VisitsAssumption DEF SectionsInit
<1>4. /\ section \in Sections /\ sectionLoads = {} /\ saving = {}
      /\ sectionShown = FALSE /\ isLoading = FALSE /\ localLoading = FALSE /\ stray = FALSE
  BY DEF SectionsInit
<1> QED  BY <1>1, <1>2, <1>3, <1>4 DEF SectionsTypeInv, SectionsTypeOK, ShownIsVisited

\* Every reachable state of the sections is typed.
THEOREM SectionsTypeCorrect == SectionsSpec => []SectionsTypeOK
<1>1. SectionsSpec => []SectionsTypeInv
  BY SectionsTypeInitially, SectionsTypePreserved, PTL DEF SectionsSpec
<1>2. SectionsTypeInv => SectionsTypeOK
  BY DEF SectionsTypeInv
<1> QED  BY <1>1, <1>2, PTL

(* ------------------------------- one load ------------------------------- *)

\* What a section shows is of one load, whichever of the loads on the wire end first
\* and however each of them ends.
THEOREM ListsOfOneLoad == SectionsSpec => []OneLoad
<1>1. SectionsInit => OneLoad
  BY DEF SectionsInit, OneLoad
<1>2. OneLoad /\ [SectionsNext]_sectionVars => OneLoad'
  <2> SUFFICES ASSUME OneLoad, [SectionsNext]_sectionVars PROVE OneLoad'
    OBVIOUS
  <2>1. Lists' = Lists /\ listsShown' = listsShown => OneLoad'
    BY DEF OneLoad
  <2>2. section' = section => Lists' = Lists
    BY DEF Lists
  <2>3. ASSUME NEW l \in sectionLoads, AllAnswered(l) \/ SectionLoadFails(l) PROVE OneLoad'
    <3>1. \E o \in {"mock", "server"} : listsShown' = [li \in Lists |-> List(o, l.period)]
      BY <2>3 DEF AllAnswered, SectionLoadFails
    <3>2. section' = section
      BY <2>3 DEF AllAnswered, SectionLoadFails, LoadEnds
    <3> QED  BY <2>2, <3>1, <3>2 DEF OneLoad
  <2> QED  BY <2>1, <2>2, <2>3
           DEF SectionsNext, SectionOpens, SectionLeaves, SetPeriod, SectionSave, SectionSaved,
               SectionSaveFails, Answered, AnswerWaits, sectionVars
<1> QED  BY <1>1, <1>2, PTL DEF SectionsSpec


(* ------------------------------- spinners ------------------------------- *)

\* A load that has one answer more is the load of the same visit and the same choice.
LEMMA WaitingLoad ==
  ASSUME SectionsTypeInv, NEW l \in sectionLoads, Answered(l)
  PROVE  \E k : /\ sectionLoads' = (sectionLoads \ {l}) \cup {k}
                /\ k.visit = l.visit /\ k.period = l.period
<1>1. l \in SectionLoadRecord
  BY DEF SectionsTypeInv, SectionsTypeOK, SectionLoadRecord
<1>2. [l EXCEPT !.waits = @ - 1].visit = l.visit
      /\ [l EXCEPT !.waits = @ - 1].period = l.period
  BY <1>1 DEF SectionLoadRecord
<1> QED  BY <1>2 DEF Answered, AnswerWaits

\* A load that starts is one more, for the visit and the choice it is started with.
LEMMA LoadStarts ==
  ASSUME NEW v, NEW p, fetchData(v, p)
  PROVE  \E k : /\ sectionLoads' = sectionLoads \cup {k}
                /\ k.visit = v /\ k.period = p
<1>1. PICK n : sectionLoads' = sectionLoads
        \cup {[n |-> n, visit |-> v, period |-> p, waits |-> Cardinality(Lists)]}
  BY DEF fetchData
<1>2. [n |-> n, visit |-> v, period |-> p, waits |-> Cardinality(Lists)].visit = v
      /\ [n |-> n, visit |-> v, period |-> p, waits |-> Cardinality(Lists)].period = p
  OBVIOUS
<1> QED  BY <1>1, <1>2

\* However the visits of a section overlap with its loads, its own spinner does not
\* outlast the loads of its visit.
THEOREM SpinnersStop == SectionsSpec => []NoIdleLocalSpinner
<1>1. SectionsInit => NoIdleLocalSpinner
  BY DEF SectionsInit, NoIdleLocalSpinner
<1>2. SectionsTypeInv /\ NoIdleLocalSpinner /\ [SectionsNext]_sectionVars => NoIdleLocalSpinner'
  <2> SUFFICES ASSUME SectionsTypeInv, NoIdleLocalSpinner, [SectionsNext]_sectionVars, localLoading'
               PROVE  \E l \in sectionLoads' : Mine(l)'
    BY DEF NoIdleLocalSpinner
  <2>1. ASSUME NEW v, NEW p, fetchData(v, p),
               sectionShown' = sectionShown /\ sectionVisit' = sectionVisit
        PROVE  \E l \in sectionLoads' : Mine(l)'
    <3>1. PICK k : sectionLoads' = sectionLoads \cup {k} /\ k.visit = v
      BY <2>1, LoadStarts
    <3>2. localLoading \/ (sectionShown' /\ v = sectionVisit')
      BY <2>1 DEF fetchData
    <3>3. CASE localLoading
      BY <2>1, <3>1, <3>3 DEF NoIdleLocalSpinner, Mine
    <3>4. CASE sectionShown' /\ v = sectionVisit'
      BY <3>1, <3>4 DEF Mine
    <3> QED  BY <3>2, <3>3, <3>4
  <2>2. CASE SectionOpens
    <3>1. PICK k : sectionLoads' = sectionLoads \cup {k} /\ k.visit = sectionVisit'
      BY <2>2, LoadStarts DEF SectionOpens
    <3> QED  BY <2>2, <3>1 DEF SectionOpens, Mine
  <2>3. CASE SectionLeaves
    BY <2>3 DEF SectionLeaves
  <2>4. ASSUME NEW p \in Periods, SetPeriod(p) PROVE \E l \in sectionLoads' : Mine(l)'
    <3>1. CASE SectionNamed(section).reloads
      BY <2>1, <2>4, <3>1 DEF SetPeriod
    <3>2. CASE ~SectionNamed(section).reloads
      BY <2>4, <3>2 DEF SetPeriod, Drawn
    <3> QED  BY <3>1, <3>2
  <2>5. ASSUME NEW s \in saving, SectionSaved(s) PROVE \E l \in sectionLoads' : Mine(l)'
    BY <2>1, <2>5 DEF SectionSaved
  <2>6. ASSUME NEW l \in sectionLoads, Answered(l) PROVE \E k \in sectionLoads' : Mine(k)'
    <3>1. PICK k : sectionLoads' = (sectionLoads \ {l}) \cup {k} /\ k.visit = l.visit
      BY <2>6, WaitingLoad
    <3>2. UNCHANGED <<sectionShown, sectionVisit, localLoading>>
      BY <2>6 DEF Answered, AnswerWaits
    <3>3. PICK m \in sectionLoads : Mine(m)
      BY <3>2 DEF NoIdleLocalSpinner
    <3> QED  BY <3>1, <3>2, <3>3 DEF Mine
  <2>7. ASSUME NEW l \in sectionLoads, AllAnswered(l) \/ SectionLoadFails(l)
        PROVE  \E k \in sectionLoads' : Mine(k)'
    <3>1. LoadEnds(l)
      BY <2>7 DEF AllAnswered, SectionLoadFails
    <3>2. localLoading /\ ~Mine(l) /\ sectionLoads' = sectionLoads \ {l}
          /\ UNCHANGED <<sectionShown, sectionVisit>>
      BY <3>1 DEF LoadEnds
    <3>3. PICK k \in sectionLoads : Mine(k)
      BY <3>2 DEF NoIdleLocalSpinner
    <3> QED  BY <3>2, <3>3 DEF Mine
  <2>8. CASE UNCHANGED sectionVars
    BY <2>8 DEF sectionVars, NoIdleLocalSpinner, Mine
  <2>9. ASSUME (\E kind \in SectionNamed(section).saves : SectionSave(kind))
               \/ (\E s \in saving : SectionSaveFails(s))
        PROVE  \E k \in sectionLoads' : Mine(k)'
    BY <2>9 DEF SectionSave, SectionSaveFails, NoIdleLocalSpinner, Mine
  <2> QED  BY <2>2, <2>3, <2>4, <2>5, <2>6, <2>7, <2>8, <2>9 DEF SectionsNext
<1> QED  BY <1>1, <1>2, SectionsTypeInitially, SectionsTypePreserved, PTL DEF SectionsSpec

(* ----------------------------- what is chosen ---------------------------- *)

\* Loads and saves belong to visits that have begun.
VisitsPast ==
  /\ \A l \in sectionLoads : l.visit <= sectionVisit
  /\ \A s \in saving : s.visit <= sectionVisit

\* A load of this visit asks for what is chosen, and the controls are away while it
\* runs: where there is a choice at most one such load exists.
ChoiceHeld ==
  SectionNamed(section).reloads =>
    /\ \A l \in sectionLoads : Mine(l) => l.period = period
    /\ \A s \in saving : s.period = period
    /\ SectionNamed(section).choice # "none" =>
         /\ \A l \in sectionLoads : Mine(l) => localLoading
         /\ \A k, l \in sectionLoads : Mine(k) /\ Mine(l) => k = l
    /\ sectionShown /\ ~localLoading /\ ~stray
         => \A li \in Lists : listsShown[li].period = period

ChoiceInv == SectionsTypeInv /\ VisitsPast /\ ChoiceHeld

\* A section with a choice that loads its lists again has nothing to save.
LEMMA NothingToSave ==
  SectionNamed(section).reloads /\ SectionNamed(section).choice # "none"
    => SectionNamed(section).saves = {}
<1>1. BillingSection.choice = "none" /\ ~AuditSection.reloads
      /\ ActivitySection.saves = {} /\ TechHealthSection.saves = {}
  BY DEF Section, BillingSection, ActivitySection, AuditSection, TechHealthSection
<1> QED  BY <1>1 DEF SectionNamed

\* Every action keeps the load of this visit and the choice together.
LEMMA ChoicePreserved == ChoiceInv /\ [SectionsNext]_sectionVars => ChoiceInv'
<1> SUFFICES ASSUME ChoiceInv, [SectionsNext]_sectionVars PROVE VisitsPast' /\ ChoiceHeld'
  BY SectionsTypePreserved DEF ChoiceInv
<1> USE DEF VisitsPast, ChoiceHeld, Mine, Lists
<1>0. /\ SectionsTypeInv /\ VisitsPast /\ ChoiceHeld /\ sectionVisit \in Nat
      /\ sectionLoads \subseteq SectionLoadRecord /\ saving \subseteq SectionSaveRecord
      /\ \A l \in sectionLoads : l.visit \in Nat
      /\ \A s \in saving : s.visit \in Nat /\ s.kind \in SectionNamed(section).saves
  BY VisitsAssumption DEF ChoiceInv, SectionsTypeInv, SectionsTypeOK, SectionLoadRecord, SectionSaveRecord
<1>1. CASE SectionOpens
  <2>1. PICK k : /\ sectionLoads' = sectionLoads \cup {k}
                 /\ k.visit = sectionVisit' /\ k.period = period
    BY <1>1, LoadStarts DEF SectionOpens
  <2>2. /\ sectionVisit' = sectionVisit + 1 /\ sectionShown' /\ localLoading'
        /\ UNCHANGED <<section, period, saving>>
    BY <1>1 DEF SectionOpens, fetchData
  <2>3. \A l \in sectionLoads : l.visit # sectionVisit'
    BY <1>0, <2>2
  <2> QED  BY <1>0, <2>1, <2>2, <2>3
<1>2. CASE SectionLeaves
  BY <1>0, <1>2 DEF SectionLeaves
<1>3. ASSUME NEW p \in Periods, SetPeriod(p) PROVE VisitsPast' /\ ChoiceHeld'
  <2>1. /\ sectionShown /\ ~localLoading /\ SectionNamed(section).choice # "none"
        /\ UNCHANGED <<section, saving, sectionShown, sectionVisit>> /\ period' = p
    BY <1>3 DEF SetPeriod, Drawn
  <2>2. CASE SectionNamed(section).reloads
    <3>1. fetchData(sectionVisit, p)
      BY <1>3, <2>2 DEF SetPeriod
    <3>2. PICK k : /\ sectionLoads' = sectionLoads \cup {k}
                   /\ k.visit = sectionVisit /\ k.period = p
      BY <3>1, LoadStarts
    <3>3. localLoading'
      BY <2>1, <3>1 DEF fetchData
    <3>4. saving = {}
      BY <1>0, <2>1, <2>2, NothingToSave
    <3>5. \A l \in sectionLoads : ~Mine(l)
      BY <1>0, <2>1, <2>2
    <3> QED  BY <1>0, <2>1, <3>2, <3>3, <3>4, <3>5
  <2>3. CASE ~SectionNamed(section).reloads
    BY <1>0, <1>3, <2>1, <2>3 DEF SetPeriod
  <2> QED  BY <2>2, <2>3
<1>4. ASSUME NEW kind, SectionSave(kind) PROVE VisitsPast' /\ ChoiceHeld'
  <2> DEFINE s == [kind |-> kind, visit |-> sectionVisit, period |-> period]
  <2>1. saving' = saving \cup {s} /\ s.visit = sectionVisit /\ s.period = period
        /\ UNCHANGED <<section, sectionShown, sectionVisit, period, listsShown, isLoading,
                       localLoading, sectionLoads, stray>>
    BY <1>4 DEF SectionSave
  <2> HIDE DEF s
  <2> QED  BY <1>0, <2>1
<1>5. ASSUME NEW s \in saving, SectionSaved(s) PROVE VisitsPast' /\ ChoiceHeld'
  <2>1. PICK k : /\ sectionLoads' = sectionLoads \cup {k}
                 /\ k.visit = s.visit /\ k.period = s.period
    BY <1>5, LoadStarts DEF SectionSaved
  <2>2. /\ saving' = saving \ {s} /\ (localLoading => localLoading')
        /\ UNCHANGED <<section, sectionShown, sectionVisit, period, listsShown, stray>>
    BY <1>5 DEF SectionSaved, fetchData
  <2>3. SectionNamed(section).reloads
          => s.period = period /\ SectionNamed(section).choice = "none"
    BY <1>0, NothingToSave
  <2> QED  BY <1>0, <2>1, <2>2, <2>3
<1>6. ASSUME NEW s \in saving, SectionSaveFails(s) PROVE VisitsPast' /\ ChoiceHeld'
  BY <1>0, <1>6 DEF SectionSaveFails
<1>7. ASSUME NEW l \in sectionLoads, Answered(l) PROVE VisitsPast' /\ ChoiceHeld'
  <2>1. PICK k : /\ sectionLoads' = (sectionLoads \ {l}) \cup {k}
                 /\ k.visit = l.visit /\ k.period = l.period
    BY <1>0, <1>7, WaitingLoad
  <2>2. UNCHANGED <<section, sectionShown, sectionVisit, period, listsShown, isLoading,
                    localLoading, saving, stray>>
    BY <1>7 DEF Answered, AnswerWaits
  <2> QED  BY <1>0, <2>1, <2>2
<1>8. ASSUME NEW l \in sectionLoads, AllAnswered(l) \/ SectionLoadFails(l)
      PROVE  VisitsPast' /\ ChoiceHeld'
  <2>1. /\ sectionLoads' = sectionLoads \ {l}
        /\ localLoading' = (localLoading /\ ~Mine(l)) /\ stray' = ~Mine(l)
        /\ UNCHANGED <<section, sectionShown, sectionVisit, period, saving>>
    BY <1>8 DEF AllAnswered, SectionLoadFails, LoadEnds
  <2>2. \A li \in Lists : listsShown'[li].period = l.period
    BY <1>8 DEF AllAnswered, SectionLoadFails, List
  <2>3. VisitsPast'
    BY <1>0, <2>1
  <2>4. CASE Mine(l)
    BY <1>0, <2>1, <2>2, <2>4
  <2>5. CASE ~Mine(l)
    BY <1>0, <2>1, <2>5
  <2> QED  BY <2>3, <2>4, <2>5
<1>9. CASE UNCHANGED sectionVars
  BY <1>0, <1>9 DEF sectionVars
<1> QED  BY <1>1, <1>2, <1>3, <1>4, <1>5, <1>6, <1>7, <1>8, <1>9 DEF SectionsNext

\* Whatever loads and visits overlap, a section that is drawn shows what is chosen,
\* unless the last load to end belonged to a visit that had ended.
THEOREM ChosenPeriodShown == SectionsSpec => []ChosenIsShown
<1>1. SectionsInit => ChoiceInv
  <2>1. SectionsInit => VisitsPast /\ ChoiceHeld
    BY DEF SectionsInit, VisitsPast, ChoiceHeld
  <2> QED  BY <2>1, SectionsTypeInitially DEF ChoiceInv
<1>2. ChoiceInv => ChosenIsShown
  BY DEF ChoiceInv, ChoiceHeld, ChosenIsShown, Drawn
<1> QED  BY <1>1, <1>2, ChoicePreserved, PTL DEF SectionsSpec

(* ----------------------- the calculator: its types ----------------------- *)

\* What a new calculator starts with is typed.
LEMMA DefaultsTyped == defaultInput \in UnitEconomyInput /\ defaultShares \in Shares
<1>1. defaultInput \in UnitEconomyInput
  BY DEF defaultInput, UnitEconomyInput
<1>2. \A f \in PercentFields : defaultShares[f] \in 0..100
  BY DEF defaultShares, PercentFields
<1>3. defaultShares = [f \in PercentFields |-> defaultShares[f]]
  BY DEF defaultShares, PercentFields
<1> QED  BY <1>1, <1>2, <1>3 DEF Shares

\* No action leads out of the types: whatever is typed, saved or loaded again.
LEMMA UnitTypePreserved ==
  UnitTypeOK /\ [UnitNext]_unitVars => UnitTypeOK'
<1> SUFFICES ASSUME UnitTypeOK, [UnitNext]_unitVars PROVE UnitTypeOK'
  OBVIOUS
<1> USE RoublesAssumption, DiscountsAssumption, PercentsAssumption, MountsAssumption
        DEF UnitTypeOK, queryVars
<1>1. ASSUME NEW f \in AmountsTyped, NEW v \in Roubles, TypeAmount(f, v) PROVE UnitTypeOK'
  <2>1. input' \in UnitEconomyInput
    BY <1>1 DEF TypeAmount, UnitEconomyInput
  <2> QED  BY <1>1, <2>1 DEF TypeAmount
<1>2. ASSUME NEW f \in PercentFields, NEW v \in Percents, TypeShare(f, v) PROVE UnitTypeOK'
  <2>1. shares' \in Shares
    BY <1>2 DEF TypeShare, Shares
  <2> QED  BY <1>2, <2>1 DEF TypeShare
<1>3. ASSUME NEW d \in Discounts, setDiscount(d) PROVE UnitTypeOK'
  BY <1>3 DEF setDiscount
<1>4. ASSUME NEW n \in TemplateNames \cup {NoName}, setTemplateName(n) PROVE UnitTypeOK'
  BY <1>4 DEF setTemplateName
<1>5. ASSUME NEW t \in templates, handleLoadTemplate(t) PROVE UnitTypeOK'
  BY <1>5 DEF handleLoadTemplate, Template
<1>6. CASE handleSaveTemplate
  <2>1. PICK n \in 1..MaxTemplates :
          templateSaves' = templateSaves \cup
            {[n |-> n, name |-> templateName, input |-> input, shares |-> shares,
              mount |-> mount]}
    BY <1>6 DEF handleSaveTemplate
  <2>2. templateSaves' \subseteq Template
    BY <1>6, <2>1 DEF handleSaveTemplate, Template
  <2> QED  BY <1>6, <2>2 DEF handleSaveTemplate
<1>7. CASE Remount
  <2>1. input' \in UnitEconomyInput /\ shares' \in Shares
    BY <1>7, DefaultsTyped DEF Remount
  <2>2. mount' \in Nat /\ templateSaves' \subseteq Template /\ templates' \subseteq Template
    BY <1>7 DEF Remount
  <2>3. discount' = 0 /\ templateName' = NoName /\ templateSaving' = FALSE
    BY <1>7 DEF Remount
  <2> QED  BY <2>1, <2>2, <2>3
<1>8. ASSUME NEW c \in templateSaves, TemplateSaved(c) PROVE UnitTypeOK'
  BY <1>8 DEF TemplateSaved, SaveSettled
<1>9. ASSUME NEW c \in templateSaves, TemplateNotSaved(c) PROVE UnitTypeOK'
  BY <1>9 DEF TemplateNotSaved, SaveSettled
<1>10. CASE UNCHANGED unitVars
  BY <1>10 DEF unitVars
<1> QED  BY <1>1, <1>2, <1>3, <1>4, <1>5, <1>6, <1>7, <1>8, <1>9, <1>10 DEF UnitNext

\* The state of a new calculator is typed.
LEMMA UnitTypeInitially == UnitInit => UnitTypeOK
<1> SUFFICES ASSUME UnitInit PROVE UnitTypeOK
  OBVIOUS
<1>1. input \in UnitEconomyInput /\ shares \in Shares
  BY DefaultsTyped DEF UnitInit
<1>2. mount \in Nat /\ templateSaves \subseteq Template /\ templates \subseteq Template
  BY DEF UnitInit
<1>3. discount = 0 /\ templateName = NoName /\ templateSaving = FALSE
  BY DEF UnitInit
<1> QED  BY <1>1, <1>2, <1>3 DEF UnitTypeOK

\* Every reachable state of the calculator is typed.
THEOREM UnitTypeCorrect == UnitSpec => []UnitTypeOK
BY UnitTypeInitially, UnitTypePreserved, PTL DEF UnitSpec

(* ------------------------------- figures -------------------------------- *)

\* The amounts and shares of a typed input are numbers in their ranges.
LEMMA FieldsOfInput ==
  ASSUME UnitTypeOK
  PROVE  /\ input.salePrice \in Nat /\ input.purchasePrice \in Nat
         /\ input.deliveryCost \in Nat /\ input.rentAmortization \in Nat
         /\ input.additionalServices \in Nat
         /\ KeptPercent(shares) \in Int
         /\ discount \in 0..30
         /\ LaterCosts(input) \in Nat /\ Costs(input) \in Nat
<1>1. \A f \in RoubleFields : input[f] \in Nat
  BY DEF UnitTypeOK, UnitEconomyInput
<1>2. \A f \in PercentFields : shares[f] \in 0..100
  BY DEF UnitTypeOK, Shares
<1>3. discount \in 0..30
  BY DiscountsAssumption DEF UnitTypeOK
<1>4. /\ input["salePrice"] \in Nat /\ input["purchasePrice"] \in Nat
      /\ input["deliveryCost"] \in Nat /\ input["rentAmortization"] \in Nat
      /\ input["additionalServices"] \in Nat
  BY <1>1 DEF RoubleFields
<1>5. shares["managerPercent"] \in 0..100 /\ shares["acquiringPercent"] \in 0..100
  BY <1>2 DEF PercentFields
<1>6. KeptPercent(shares) \in Int
  <2>1. shares.managerPercent \in Int /\ shares.acquiringPercent \in Int
    BY <1>5
  <2> QED  BY <2>1 DEF KeptPercent
<1>7. LaterCosts(input) \in Nat /\ Costs(input) \in Nat
  BY <1>4 DEF LaterCosts, Costs
<1> QED  BY <1>3, <1>4, <1>6, <1>7

\* However the calculator is used, the two colours judge one sale.
THEOREM ColoursOfOneSale == UnitSpec => []ColoursAgree
<1>1. UnitTypeOK => ColoursAgree
  <2> SUFFICES ASSUME UnitTypeOK, input.salePrice > 0 PROVE ColoursAgree
    BY DEF ColoursAgree
  <2> DEFINE p == input.salePrice
             n == NetProfit(input, shares, discount)
             a == PriceAfterDiscount(input, discount)
  <2>1. p \in Nat /\ p > 0 /\ discount \in 0..30
    BY FieldsOfInput
  <2>2. p * (100 - discount) \in Int /\ p * (100 - discount) >= p * 70
        /\ p * (100 - discount) <= p * 100
    <3>1. \A x \in Nat, u, v \in Nat : u <= v => x * u <= x * v
      OBVIOUS
    <3>2. 100 - discount \in Nat /\ 70 <= 100 - discount /\ 100 - discount <= 100
      BY <2>1
    <3> HIDE DEF p
    <3> QED  BY <2>1, <3>1, <3>2
  <2>3. a \in Int /\ a > 0 /\ a <= 10000 * p
    BY <2>1, <2>2 DEF PriceAfterDiscount
  <2>4. n \in Int
    BY FieldsOfInput DEF NetProfit
  <2> HIDE DEF p, n, a
  <2>5. ProfitColor(input, shares, discount)
          = IF n < 0 THEN "red" ELSE IF n < 500 * p THEN "orange" ELSE "green"
    BY DEF ProfitColor, n, p
  <2>6. ProfitabilityColor(input, shares, discount)
          = IF n < 0 THEN "red" ELSE IF 20 * n < a THEN "orange" ELSE "green"
    BY <2>3 DEF ProfitabilityColor, n, a
  <2>7. n >= 500 * p => ~(20 * n < a)
    BY <2>1, <2>3, <2>4
  <2> QED  BY <2>1, <2>3, <2>4, <2>5, <2>6, <2>7 DEF ColoursAgree
<1> QED  BY <1>1, UnitTypeCorrect, PTL

(* -------------------------------- saves --------------------------------- *)

\* However often the tab is left during a save, a button that turns has a save of its
\* own calculator to wait for.
THEOREM ButtonsStop == UnitSpec => []SavingHasCall
<1>1. UnitInit => SavingHasCall
  BY DEF UnitInit, SavingHasCall
<1>2. SavingHasCall /\ [UnitNext]_unitVars => SavingHasCall'
  <2> SUFFICES ASSUME SavingHasCall, [UnitNext]_unitVars PROVE SavingHasCall'
    OBVIOUS
  <2> USE DEF SavingHasCall, queryVars
  <2>1. ASSUME NEW f, NEW v, TypeAmount(f, v) \/ TypeShare(f, v) PROVE SavingHasCall'
    BY <2>1 DEF TypeAmount, TypeShare
  <2>2. ASSUME NEW v, setDiscount(v) \/ setTemplateName(v) \/ handleLoadTemplate(v)
        PROVE  SavingHasCall'
    BY <2>2 DEF setDiscount, setTemplateName, handleLoadTemplate
  <2>3. CASE handleSaveTemplate
    <3>1. PICK n \in 1..MaxTemplates :
            templateSaves' = templateSaves \cup
              {[n |-> n, name |-> templateName, input |-> input, shares |-> shares,
                mount |-> mount]}
      BY <2>3 DEF handleSaveTemplate
    <3> DEFINE c == [n |-> n, name |-> templateName, input |-> input, shares |-> shares,
                     mount |-> mount]
    <3>2. c \in templateSaves' /\ c.mount = mount
      BY <3>1
    <3>3. mount' = mount
      BY <2>3 DEF handleSaveTemplate
    <3> HIDE DEF c
    <3> QED  BY <3>2, <3>3
  <2>4. CASE Remount
    BY <2>4 DEF Remount
  <2>5. ASSUME NEW c \in templateSaves, TemplateSaved(c) \/ TemplateNotSaved(c)
        PROVE  SavingHasCall'
    <3>1. templateSaves' = templateSaves \ {c} /\ mount' = mount
          /\ templateSaving' = (templateSaving /\ c.mount # mount)
      BY <2>5 DEF TemplateSaved, TemplateNotSaved, SaveSettled
    <3>2. ASSUME templateSaving' PROVE \E b \in templateSaves' : b.mount = mount'
      <4>1. templateSaving /\ c.mount # mount
        BY <3>1, <3>2
      <4>2. PICK b \in templateSaves : b.mount = mount
        BY <4>1
      <4> QED  BY <3>1, <4>1, <4>2
    <3> QED  BY <3>2
  <2>6. CASE UNCHANGED unitVars
    BY <2>6 DEF unitVars
  <2> QED  BY <2>1, <2>2, <2>3, <2>4, <2>5, <2>6 DEF UnitNext
<1> QED  BY <1>1, <1>2, PTL DEF UnitSpec

(* -------------------------- the screens together -------------------------- *)

\* Every screen opens as it does alone.
LEMMA ScreensOpen ==
  MCInit => /\ SessionInit /\ CacheInit /\ AdminInit /\ SectionsInit
            /\ FeedInit /\ TabInit /\ ExpensesInit /\ SliceInit /\ UnitInit
BY DEF MCInit

\* A step of the screens is a step of one of them, and a stutter of the others.
LEMMA ScreensStep ==
  [MCNext]_screenVars =>
    /\ [SessionNext]_sessionVars /\ [CacheNext]_cacheVars /\ [AdminNext]_adminVars
    /\ [SectionsNext]_sectionVars /\ [FeedNext]_feedVars /\ [TabNext]_tabVars
    /\ [ExpensesNext]_expenseVars /\ [SliceNext]_sliceVars /\ [UnitNext]_unitVars
<1> SUFFICES ASSUME [MCNext]_screenVars
             PROVE  /\ [SessionNext]_sessionVars /\ [CacheNext]_cacheVars /\ [AdminNext]_adminVars
                    /\ [SectionsNext]_sectionVars /\ [FeedNext]_feedVars /\ [TabNext]_tabVars
                    /\ [ExpensesNext]_expenseVars /\ [SliceNext]_sliceVars
                    /\ [UnitNext]_unitVars
  OBVIOUS
<1>1. CASE UNCHANGED screenVars
  BY <1>1 DEF screenVars
<1>2. CASE MCNext
  BY <1>2 DEF MCNext
<1> QED  BY <1>1, <1>2

\* What happens on the screens is, of each of them, what its own specification
\* allows: the store or state of one is no other's.
THEOREM EachScreenAlone ==
  ScreensSpec => /\ SessionSpec /\ CacheSpec /\ AdminSpec /\ SectionsSpec
                 /\ FeedSpec /\ TabSpec /\ ExpensesSpec /\ SliceSpec /\ UnitSpec
BY ScreensOpen, ScreensStep, PTL
   DEF ScreensSpec, SessionSpec, CacheSpec, AdminSpec, SectionsSpec,
       FeedSpec, TabSpec, ExpensesSpec, SliceSpec, UnitSpec

\* Whatever screen is used, and however, every variable of every one keeps its type.
THEOREM ScreensTypeCorrect == ScreensSpec => []FrontendTypeOK
<1>1. SessionTypeInv => SessionTypeOK
  BY DEF SessionTypeInv
<1>2. /\ SessionTypeOK /\ CacheTypeOK /\ AdminTypeOK /\ SectionsTypeOK
      /\ FeedTypeOK /\ TabTypeOK /\ ExpensesTypeOK /\ SliceTypeOK /\ UnitTypeOK
      => FrontendTypeOK
  BY DEF FrontendTypeOK
<1> QED
  BY <1>1, <1>2, EachScreenAlone, SessionTypeCorrect, CacheTypeCorrect, TenantsTypeCorrect,
     SectionsTypeCorrect, FeedTypeCorrect, TabsTypeCorrect, ExpensesTypeCorrect,
     SliceTypeCorrect, UnitTypeCorrect, PTL

\* No spinner turns, no flag of a load is up and no button is busy on any
\* screen without a call on the wire that will end it.
THEOREM WhatTurnsIsAnswered == ScreensSpec => []WhatTurnsHasACall
<1>1. NoIdleSpinner /\ NoIdleLocalSpinner /\ SpinnerAwaitsLoad /\ FlagAwaitsCall /\ SavingHasCall
      => WhatTurnsHasACall
  BY DEF WhatTurnsHasACall
<1> QED
  BY <1>1, EachScreenAlone, TableSpinnerStops, SpinnersStop, SpinnersEnd, FlagIsTruthful,
     ButtonsStop, PTL
=============================================================================
