---------------------------- MODULE UnitEconomy ----------------------------
(***************************************************************************)
(* The calculator of a dealer's profit on one unit sold, and its templates.*)
(* The input and the discount are state of the component; the figures and  *)
(* their colours are computed from them at every render. The list of       *)
(* templates is a query's, read again after a save.                        *)
(*                                                                         *)
(* Amounts of the input are whole roubles and its shares whole percents.   *)
(* Computed amounts are exact, in ten-thousandths of a rouble, where the   *)
(* code rounds in its binary fractions.                                    *)
(***************************************************************************)
EXTENDS Integers

CONSTANTS
  Roubles,        \* amounts that may be typed
  AmountsTyped,   \* bound: the fields they are typed into
  Percents,       \* shares that may be typed
  Discounts,      \* discounts that may be chosen, all within the slider's range
  TemplateNames,  \* names that may be typed for a template
  NoName,         \* an empty name
  MaxMounts,      \* bound: times the profit tab is opened
  MaxTemplates    \* bound: saves made

RoubleFields ==
  {"salePrice", "purchasePrice", "deliveryCost", "rentAmortization", "additionalServices"}
PercentFields == {"managerPercent", "acquiringPercent"}

ASSUME RoublesAssumption == Roubles \subseteq Nat /\ AmountsTyped \subseteq RoubleFields
ASSUME DiscountsAssumption == Discounts \subseteq 0..30
ASSUME PercentsAssumption == Percents \subseteq 0..100
ASSUME NamesAssumption == NoName \notin TemplateNames
ASSUME MountsAssumption == MaxMounts \in Nat /\ MaxTemplates \in Nat

UnitEconomyInput == [RoubleFields -> Nat]
Shares == [PercentFields -> 0..100]

VARIABLES
  input,           \* the amounts in roubles
  shares,          \* the shares of the manager and of the bank, part of the code's input
  discount,        \* the customer's, in percent
  templateName,    \* the name typed
  templateSaving,  \* whether the save button turns
  mount,           \* how often the tab was opened
  templateSaves,   \* saves on the wire, and the mount they belong to
  templates        \* the rows of the query

unitVars == <<input, shares, discount, templateName, templateSaving, mount, templateSaves,
              templates>>

queryVars == <<mount, templateSaves, templates>>

defaultInput == [f \in RoubleFields |-> 0]
defaultShares == [managerPercent |-> 5, acquiringPercent |-> 2]

(* ------------------------------ the figures ------------------------------ *)

\* Costs of a unit beside the shares: all of them, and those after the purchase.
LaterCosts(i) == i.deliveryCost + i.rentAmortization + i.additionalServices
Costs(i) == i.purchasePrice + LaterCosts(i)

\* The percent of the price that the shares leave; they may exceed it together.
KeptPercent(s) == 100 - s.managerPercent - s.acquiringPercent

PriceAfterDiscount(i, d) == 100 * (i.salePrice * (100 - d))

NetProfit(i, s, d) == (i.salePrice * (100 - d)) * KeptPercent(s) - 10000 * Costs(i)

\* Its amount beside the net profit, "without discount", drawn when there is one.
WithoutDiscount(i, s, d) ==
  NetProfit(i, s, d) + (i.salePrice * d) * KeptPercent(s) - 10000 * LaterCosts(i)

\* The mutated form: five percent of what the unit was bought for.
ProfitColorOfPurchase(i, s, d) ==
  IF NetProfit(i, s, d) < 0 THEN "red"
  ELSE IF NetProfit(i, s, d) < 500 * i.purchasePrice THEN "orange" ELSE "green"

\* Five percent of the price before the discount.
ProfitColor(i, s, d) ==
  IF NetProfit(i, s, d) < 0 THEN "red"
  ELSE IF NetProfit(i, s, d) < 500 * i.salePrice THEN "orange" ELSE "green"

\* Five percent of the price after it; without a price the share is zero.
ProfitabilityColor(i, s, d) ==
  IF PriceAfterDiscount(i, d) <= 0 THEN "orange"
  ELSE IF NetProfit(i, s, d) < 0 THEN "red"
  ELSE IF 20 * NetProfit(i, s, d) < PriceAfterDiscount(i, d) THEN "orange" ELSE "green"

(* ------------------------------- the form -------------------------------- *)

UnitInit ==
  /\ input = defaultInput /\ shares = defaultShares /\ discount = 0
  /\ templateName = NoName /\ templateSaving = FALSE
  /\ mount = 1 /\ templateSaves = {} /\ templates = {}

TypeAmount(f, v) ==
  /\ input' = [input EXCEPT ![f] = v]
  /\ UNCHANGED <<shares, discount, templateName, templateSaving, queryVars>>

TypeShare(f, v) ==
  /\ shares' = [shares EXCEPT ![f] = v]
  /\ UNCHANGED <<input, discount, templateName, templateSaving, queryVars>>

setDiscount(d) ==
  /\ discount' = d
  /\ UNCHANGED <<input, shares, templateName, templateSaving, queryVars>>

setTemplateName(n) ==
  /\ templateName' = n
  /\ UNCHANGED <<input, shares, discount, templateSaving, queryVars>>

\* A template has no discount; the one set stays.
handleLoadTemplate(t) ==
  /\ input' = t.input /\ shares' = t.shares
  /\ UNCHANGED <<discount, templateName, templateSaving, queryVars>>

\* A button that turns cannot be clicked. An empty name is refused.
handleSaveTemplate ==
  /\ ~templateSaving /\ templateName # NoName
  /\ \E n \in 1..MaxTemplates :
       /\ \A c \in templateSaves \cup templates : c.n # n
       /\ templateSaves' = templateSaves \cup
            {[n |-> n, name |-> templateName, input |-> input, shares |-> shares,
              mount |-> mount]}
  /\ templateSaving' = TRUE
  /\ UNCHANGED <<input, shares, discount, templateName, mount, templates>>

\* Another tab and back: a new calculator, whatever the old one's call does.
Remount ==
  /\ mount < MaxMounts
  /\ mount' = mount + 1
  /\ input' = defaultInput /\ shares' = defaultShares /\ discount' = 0
  /\ templateName' = NoName /\ templateSaving' = FALSE
  /\ UNCHANGED <<templateSaves, templates>>

\* The end of a save reaches the calculator that made it, if it is still there.
SaveSettled(c) ==
  /\ templateSaves' = templateSaves \ {c}
  /\ templateSaving' = (templateSaving /\ c.mount # mount)
  /\ UNCHANGED <<input, shares, discount, mount>>

\* The name is emptied, be it the one saved or typed since; the list is read again.
TemplateSaved(c) ==
  /\ SaveSettled(c)
  /\ templateName' = (IF c.mount = mount THEN NoName ELSE templateName)
  /\ templates' = templates \cup {c}

TemplateNotSaved(c) ==
  /\ SaveSettled(c)
  /\ UNCHANGED <<templateName, templates>>

UnitNext ==
  \/ \E f \in AmountsTyped, v \in Roubles : TypeAmount(f, v)
  \/ \E f \in PercentFields, v \in Percents : TypeShare(f, v)
  \/ \E d \in Discounts : setDiscount(d)
  \/ \E n \in TemplateNames \cup {NoName} : setTemplateName(n)
  \/ \E t \in templates : handleLoadTemplate(t)
  \/ handleSaveTemplate
  \/ Remount
  \/ \E c \in templateSaves : TemplateSaved(c) \/ TemplateNotSaved(c)

UnitSpec == UnitInit /\ [][UnitNext]_unitVars

(* ------------------------------ correctness ------------------------------ *)

Template ==
  [n : Nat, name : TemplateNames, input : UnitEconomyInput, shares : Shares, mount : Nat]

\* Every variable has its type.
UnitTypeOK ==
  /\ input \in UnitEconomyInput /\ shares \in Shares /\ discount \in Discounts \cup {0}
  /\ templateName \in TemplateNames \cup {NoName} /\ templateSaving \in BOOLEAN
  /\ mount \in Nat
  /\ templateSaves \subseteq Template /\ templates \subseteq Template

\* The amount drawn, when there is a discount, as the net profit "without
\* discount" is the net profit the calculator computes without one. (It is not:
\* delivery, rent and services are taken off twice.)
UndiscountedFigure ==
  discount > 0 => WithoutDiscount(input, shares, discount) = NetProfit(input, shares, 0)

\* The two colours judge one sale: with a price, both are red or neither is, and
\* a profit drawn green never stands above a profitability that is not.
ColoursAgree ==
  input.salePrice > 0
    => LET profit == ProfitColor(input, shares, discount)
           profitability == ProfitabilityColor(input, shares, discount)
       IN  /\ profit = "red" <=> profitability = "red"
           /\ profit = "green" => profitability = "green"

\* The save button turns only while a save of this calculator is on the wire, so
\* that a calculator that was left during a save and opened again can save.
SavingHasCall == templateSaving => \E c \in templateSaves : c.mount = mount
=============================================================================
