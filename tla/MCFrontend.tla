----------------------------- MODULE MCFrontend -----------------------------
(***************************************************************************)
(* The screens of the web client, for model checking. Each has a store or  *)
(* component state of its own and its own calls on the wire, so one        *)
(* behaviour is about one screen, chosen at the start, and the numbers of  *)
(* their states add up instead of multiplying.                             *)
(***************************************************************************)
EXTENDS BrowserSession, QueryCache, TenantAdmin, AdminSections, LiveFeeds, SelectionTabs,
        ExpenseForm, ChecklistSlice, UnitEconomy, TLC

CONSTANTS Screens,            \* the screens a behaviour may be about
          ada, fay, eve, sal  \* users of the browser

VARIABLE screen

screenVars == <<screen, sessionVars, cacheVars, adminVars, sectionVars, feedVars,
                tabVars, expenseVars, sliceVars, unitVars>>

\* An administrator, a salon manager, and two users of one role.
MCRoleOf ==
  [u \in Users |-> CASE u = ada -> "super_admin" [] u = sal -> "salon_manager"
                     [] OTHER -> "franchiser"]

\* The screens a behaviour is not about start in one state, and stay in it.
Pinned ==
  /\ screen # "cache" => component = CHOOSE c \in Components : TRUE
  /\ screen # "sections" => section = (CHOOSE s \in Sections : TRUE)
                              /\ period = CHOOSE p \in Periods : TRUE
  /\ screen # "feeds" => feed = (CHOOSE f \in Feeds : TRUE) /\ storedId
  /\ screen # "tabs" => tab = CHOOSE t \in Tabs : TRUE
  /\ screen # "expenses" => selectedMonth = LastMonth

MCInit ==
  /\ screen \in Screens
  /\ SessionInit /\ CacheInit /\ AdminInit /\ SectionsInit
  /\ FeedInit /\ TabInit /\ ExpensesInit /\ SliceInit /\ UnitInit
  /\ Pinned

MCNext ==
  \/ /\ screen = "session" /\ SessionNext
     /\ UNCHANGED <<screen, cacheVars, adminVars, sectionVars, feedVars,
                    tabVars, expenseVars, sliceVars, unitVars>>
  \/ /\ screen = "cache" /\ CacheNext
     /\ UNCHANGED <<screen, sessionVars, adminVars, sectionVars, feedVars,
                    tabVars, expenseVars, sliceVars, unitVars>>
  \/ /\ screen = "tenants" /\ AdminNext
     /\ UNCHANGED <<screen, sessionVars, cacheVars, sectionVars, feedVars,
                    tabVars, expenseVars, sliceVars, unitVars>>
  \/ /\ screen = "sections" /\ SectionsNext
     /\ UNCHANGED <<screen, sessionVars, cacheVars, adminVars, feedVars,
                    tabVars, expenseVars, sliceVars, unitVars>>
  \/ /\ screen = "feeds" /\ FeedNext
     /\ UNCHANGED <<screen, sessionVars, cacheVars, adminVars, sectionVars,
                    tabVars, expenseVars, sliceVars, unitVars>>
  \/ /\ screen = "tabs" /\ TabNext
     /\ UNCHANGED <<screen, sessionVars, cacheVars, adminVars, sectionVars,
                    feedVars, expenseVars, sliceVars, unitVars>>
  \/ /\ screen = "expenses" /\ ExpensesNext
     /\ UNCHANGED <<screen, sessionVars, cacheVars, adminVars, sectionVars,
                    feedVars, tabVars, sliceVars, unitVars>>
  \/ /\ screen = "checklists" /\ SliceNext
     /\ UNCHANGED <<screen, sessionVars, cacheVars, adminVars, sectionVars,
                    feedVars, tabVars, expenseVars, unitVars>>
  \/ /\ screen = "calculator" /\ UnitNext
     /\ UNCHANGED <<screen, sessionVars, cacheVars, adminVars, sectionVars,
                    feedVars, tabVars, expenseVars, sliceVars>>

ScreensSpec == MCInit /\ [][MCNext]_screenVars

\* Every variable of every screen has its type.
FrontendTypeOK ==
  /\ SessionTypeOK /\ CacheTypeOK /\ AdminTypeOK /\ SectionsTypeOK
  /\ FeedTypeOK /\ TabTypeOK /\ ExpensesTypeOK /\ SliceTypeOK /\ UnitTypeOK

\* Nothing turns for ever: a spinner, a flag of a load or a button that says it
\* is saving has a call on the wire whose answer, whatever it is, will stop it,
\* on each of the screens that have one.
WhatTurnsHasACall ==
  /\ NoIdleSpinner /\ NoIdleLocalSpinner /\ SpinnerAwaitsLoad
  /\ FlagAwaitsCall /\ SavingHasCall
=============================================================================
