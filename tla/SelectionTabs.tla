--------------------------- MODULE SelectionTabs ---------------------------
(***************************************************************************)
(* The tabs and panels that load the figures of what their user selected:  *)
(* a period, a salesperson, a dealer. Each selection sends a load, nothing *)
(* orders the answers, and only one tab tells a late one from its own.     *)
(*                                                                         *)
(* Figures are represented by the selection they are of.                   *)
(***************************************************************************)
EXTENDS Naturals, FiniteSets

CONSTANTS
  Tabs,        \* the tabs a behaviour may be about, by name
  Selections,  \* periods, salespersons or dealers
  NoFigures,   \* nothing selected, or nothing loaded
  MadeUp,      \* the figures a tab has without the server: a stub, or none at all
  MaxTabLoads  \* bound: loads on the wire

ASSUME SelectionsAssumption ==
  Selections # {} /\ {NoFigures, MadeUp} \cap Selections = {} /\ NoFigures # MadeUp
ASSUME TabLoadsAssumption == MaxTabLoads \in Nat

(* -------------------------------- tabs -------------------------------- *)

\* Whether a tab loads when it appears or once its panel is opened; whether it
\* can be asked for something else; whether a load turns its spinner (the first
\* always does, in a tab that loads at once); whether a load is cancelled by the
\* next; and what a failure leaves: an error in place of the figures, made-up
\* ones, or the ones there were.
LoadingTab(opens, selects, spins, cancels, onFailure) ==
  [opens |-> opens, selects |-> selects, spins |-> spins, cancels |-> cancels,
   onFailure |-> onFailure]

SalonMainTab == LoadingTab("at once", FALSE, FALSE, FALSE, "error")
SalonProductsTab == LoadingTab("at once", FALSE, FALSE, FALSE, "error")
SalonTeamTab == LoadingTab("at once", TRUE, FALSE, FALSE, "error")

\* A salesperson's months in a modal, and a dealer's details below its row.
SalonTeamHistory == LoadingTab("panel", TRUE, TRUE, FALSE, "made up")
TerritoryMapDetails == LoadingTab("panel", TRUE, FALSE, FALSE, "made up")

\* The mutated form: without the flag its effect's cleanup sets.
TerritoryPlanFactUncancelled == LoadingTab("at once", TRUE, TRUE, FALSE, "keeps")

TerritoryPlanFactTab == LoadingTab("at once", TRUE, TRUE, TRUE, "keeps")

\* The drawer keeps its figures when it is closed, and loads only without any.
DealerDirectives == LoadingTab("drawer", FALSE, TRUE, FALSE, "error")

TabNamed(t) ==
  CASE t = "main"       -> SalonMainTab
    [] t = "products"   -> SalonProductsTab
    [] t = "team"       -> SalonTeamTab
    [] t = "history"    -> SalonTeamHistory
    [] t = "details"    -> TerritoryMapDetails
    [] t = "planfact"   -> TerritoryPlanFactTab
    [] OTHER            -> DealerDirectives

VARIABLES
  tab,         \* the tab this behaviour is about
  tabShown,    \* whether it is on the screen
  selection,   \* what is selected in it
  figures,     \* the figures it holds
  trouble,     \* its error
  tabSpinner,  \* its spinner
  tabLoads,    \* loads on the wire; a cancelled one has no effect
  lapped,      \* whether the last load was sent while another was awaited
  kept         \* whether the last load to end left older figures

tabVars == <<tab, tabShown, selection, figures, trouble, tabSpinner, tabLoads, lapped, kept>>

This == TabNamed(tab)
Awaited == {l \in tabLoads : l.awaited}

\* What the tab shows when it appears.
FirstFigures == IF This.onFailure = "keeps" THEN MadeUp ELSE NoFigures

TabInit ==
  /\ tab \in Tabs
  /\ tabShown = FALSE
  /\ selection = NoFigures
  /\ figures = NoFigures
  /\ trouble = FALSE
  /\ tabSpinner = FALSE
  /\ tabLoads = {}
  /\ lapped = FALSE
  /\ kept = FALSE

(* -------------------------------- loads -------------------------------- *)

\* A load of s; where loads are cancelled, those before it no longer matter.
SendLoad(s) ==
  \E n \in 1..MaxTabLoads :
    /\ \A l \in tabLoads : l.n # n
    /\ tabLoads' = {IF This.cancels THEN [l EXCEPT !.awaited = FALSE] ELSE l : l \in tabLoads}
                     \cup {[n |-> n, of |-> s, awaited |-> TRUE]}
    /\ lapped' = (Awaited # {})
    /\ kept' = FALSE

\* The tab appears: where it loads at once, for the selection it starts with.
TabAppears ==
  /\ ~tabShown
  /\ tabShown' = TRUE
  /\ figures' = FirstFigures
  /\ IF This.opens = "at once"
       THEN \E s \in Selections : selection' = s /\ SendLoad(s) /\ tabSpinner' = TRUE
       ELSE UNCHANGED <<selection, tabSpinner, tabLoads, lapped, kept>>
  /\ UNCHANGED <<tab, trouble>>

\* The tab goes, its state with it; what is answered then changes nothing.
TabLeaves ==
  /\ tabShown
  /\ tabShown' = FALSE
  /\ selection' = NoFigures /\ figures' = NoFigures
  /\ trouble' = FALSE /\ tabSpinner' = FALSE
  /\ tabLoads' = {} /\ lapped' = FALSE /\ kept' = FALSE
  /\ UNCHANGED tab

\* Another period: its control is there unless the first load or an error
\* stands in the tab's place.
SelectPeriod(s) ==
  /\ tabShown /\ This.opens = "at once" /\ This.selects /\ s # selection
  /\ This.onFailure = "error" => ~tabSpinner /\ ~trouble
  /\ selection' = s
  /\ SendLoad(s)
  /\ tabSpinner' = (tabSpinner \/ This.spins)
  /\ UNCHANGED <<tab, tabShown, figures, trouble>>

\* A row is clicked. The modal of the months covers the rows; a dealer's row
\* may be opened while another's is, whose details stay until the answer.
OpenRow(s) ==
  /\ tabShown /\ This.opens = "panel" /\ s # selection
  /\ This.spins => selection = NoFigures
  /\ selection' = s
  /\ SendLoad(s)
  /\ tabSpinner' = (tabSpinner \/ This.spins)
  /\ UNCHANGED <<tab, tabShown, figures, trouble>>

CloseRow ==
  /\ tabShown /\ This.opens = "panel" /\ selection # NoFigures
  /\ selection' = NoFigures /\ figures' = NoFigures
  /\ UNCHANGED <<tab, tabShown, trouble, tabSpinner, tabLoads, lapped, kept>>

\* The drawer's effect: a load when it is opened without figures. There is one
\* thing to load.
OpenDrawer ==
  /\ tabShown /\ This.opens = "drawer" /\ selection = NoFigures
  /\ LET s == CHOOSE x \in Selections : TRUE IN
     /\ selection' = s
     /\ IF figures = NoFigures THEN SendLoad(s) /\ tabSpinner' = TRUE
                               ELSE UNCHANGED <<tabSpinner, tabLoads, lapped, kept>>
  /\ UNCHANGED <<tab, tabShown, figures, trouble>>

CloseDrawer ==
  /\ tabShown /\ This.opens = "drawer" /\ selection # NoFigures
  /\ selection' = NoFigures
  /\ UNCHANGED <<tab, tabShown, figures, trouble, tabSpinner, tabLoads, lapped, kept>>

\* The link beside an error.
RetryLoad ==
  /\ tabShown /\ trouble /\ ~tabSpinner /\ selection # NoFigures
  /\ SendLoad(selection)
  /\ tabSpinner' = (tabSpinner \/ This.spins)
  /\ UNCHANGED <<tab, tabShown, selection, figures, trouble>>

\* An answer, whatever is selected by then. The plan and fact may be empty,
\* which leaves the figures as they are.
LoadAnswered(l) ==
  /\ tabLoads' = tabLoads \ {l}
  /\ IF l.awaited
       THEN /\ \/ figures' = l.of /\ kept' = FALSE
               \/ This.onFailure = "keeps" /\ kept' = TRUE /\ UNCHANGED figures
            /\ trouble' = FALSE /\ tabSpinner' = FALSE
       ELSE UNCHANGED <<figures, trouble, tabSpinner, kept>>
  /\ UNCHANGED <<tab, tabShown, selection, lapped>>

\* A failure. The details it makes up are named for the dealer they were asked
\* for, the months of a salesperson are gone.
LoadFails(l) ==
  /\ tabLoads' = tabLoads \ {l}
  /\ IF l.awaited
       THEN /\ tabSpinner' = FALSE
            /\ trouble' = (trouble \/ This.onFailure = "error")
            /\ kept' = (This.onFailure = "keeps")
            /\ figures' = IF This.onFailure # "made up" THEN figures
                          ELSE IF This.spins THEN MadeUp ELSE l.of
       ELSE UNCHANGED <<figures, trouble, tabSpinner, kept>>
  /\ UNCHANGED <<tab, tabShown, selection, lapped>>

TabNext ==
  \/ TabAppears \/ TabLeaves
  \/ \E s \in Selections : SelectPeriod(s) \/ OpenRow(s)
  \/ CloseRow \/ OpenDrawer \/ CloseDrawer \/ RetryLoad
  \/ \E l \in tabLoads : LoadAnswered(l) \/ LoadFails(l)

TabSpec == TabInit /\ [][TabNext]_tabVars

(* ------------------------------ properties ------------------------------ *)

\* Every variable has its type.
TabTypeOK ==
  /\ tab \in Tabs
  /\ {tabShown, trouble, tabSpinner, lapped, kept} \subseteq BOOLEAN
  /\ selection \in Selections \cup {NoFigures}
  /\ figures \in Selections \cup {NoFigures, MadeUp}
  /\ tabLoads \subseteq [n : 1..MaxTabLoads, of : Selections, awaited : BOOLEAN]

\* Once every awaited load has ended, the figures under a selection are of that
\* selection, or are made up and not of another. Loads that were awaited
\* together may be answered in the wrong order, except in the plan and fact,
\* where a load cancels those before it; and a failure may have kept older ones.
SelectedIsShown ==
  /\ tabShown /\ selection # NoFigures /\ Awaited = {} /\ ~trouble /\ ~kept
  /\ ~lapped \/ tab = "planfact"
  => figures = selection \/ (figures = MadeUp /\ This.onFailure = "made up")

\* A spinner turns only while a load it will stop for is on the wire.
SpinnerAwaitsLoad == tabSpinner => Awaited # {}
=============================================================================
