----------------------------- MODULE LeadFunnel -----------------------------
(***************************************************************************)
(* The funnel of a salon's leads: a change of status is checked against    *)
(* the row as it was read and written without a condition.                 *)
(*                                                                         *)
(* A lead is changed by its manager alone: the row of another's lead is    *)
(* not found, and such a call ends before it changes anything.             *)
(***************************************************************************)
CONSTANTS
  Leads,    \* leads of one salon that may be created
  Updates,  \* requests of their managers to change a status, one at a time each
  NoLead    \* neither a lead, a status nor a request

validLeadStatuses ==
  {"new", "contact", "meeting", "wait", "sale", "paid", "contract", "archive",
   "cancelled", "other"}

leadStatusTransitions ==
  [s \in validLeadStatuses |->
     CASE s = "new"       -> {"contact", "meeting", "archive", "cancelled", "other"}
       [] s = "contact"   -> {"meeting", "wait", "sale", "archive", "cancelled", "other"}
       [] s = "meeting"   -> {"wait", "sale", "archive", "cancelled", "other"}
       [] s = "wait"      -> {"contact", "meeting", "sale", "archive", "cancelled", "other"}
       [] s = "sale"      -> {"paid", "contract", "archive", "other"}
       [] s = "paid"      -> {"archive"}
       [] s = "contract"  -> {"paid", "archive"}
       [] s = "cancelled" -> {"new"}
       [] s = "archive"   -> {}
       [] s = "other"     -> {"archive"}]

ASSUME NoneAssumption == NoLead \notin validLeadStatuses

VARIABLES
  leadStatus,  \* of each lead; NoLead until it is created
  call,        \* the change a request is about to write, with the status it read
  sold         \* history: leads that have been in the status "sale"

funnelVars == <<leadStatus, call, sold>>

Change == [lead : Leads, read : validLeadStatuses, asked : validLeadStatuses]

FunnelTypeOK ==
  /\ leadStatus \in [Leads -> validLeadStatuses \cup {NoLead}]
  /\ sold \subseteq Leads
  /\ call \in [Updates -> Change \cup {NoLead}]

FunnelInit ==
  /\ leadStatus = [l \in Leads |-> NoLead]
  /\ sold = {}
  /\ call = [c \in Updates |-> NoLead]

CreateLead(l) ==
  /\ leadStatus[l] = NoLead
  /\ leadStatus' = [leadStatus EXCEPT ![l] = "new"]
  /\ UNCHANGED <<call, sold>>

\* The mutated form: any status may follow one that is not the last.
MayFollowLoosely(current, asked) ==
  current = asked \/ leadStatusTransitions[current] # {}

\* A status may always be written again.
MayFollow(current, asked) ==
  current = asked \/ asked \in leadStatusTransitions[current]

\* The row is read and the change checked; one not allowed ends here.
UpdateStatus(c, l, s) ==
  /\ call[c] = NoLead /\ leadStatus[l] # NoLead
  /\ MayFollow(leadStatus[l], s)
  /\ call' = [call EXCEPT ![c] = [lead |-> l, read |-> leadStatus[l], asked |-> s]]
  /\ UNCHANGED <<leadStatus, sold>>

\* Whatever the row holds by now.
UpdateLeadStatus(c) ==
  /\ call[c] # NoLead
  /\ LET l == call[c].lead IN
     /\ leadStatus' = [leadStatus EXCEPT ![l] = call[c].asked]
     /\ sold' = IF call[c].asked = "sale" THEN sold \cup {l} ELSE sold
  /\ call' = [call EXCEPT ![c] = NoLead]

\* The database answers with an error.
UpdateFails(c) ==
  /\ call[c] # NoLead
  /\ call' = [call EXCEPT ![c] = NoLead]
  /\ UNCHANGED <<leadStatus, sold>>

FunnelNext ==
  \/ \E l \in Leads : CreateLead(l)
  \/ \E c \in Updates :
       \/ \E l \in Leads, s \in validLeadStatuses : UpdateStatus(c, l, s)
       \/ UpdateLeadStatus(c) \/ UpdateFails(c)

FunnelSpec == FunnelInit /\ [][FunnelNext]_funnelVars

(* ------------------------------ properties ------------------------------- *)

\* However late a change is written over another one, no lead becomes paid or
\* contracted, and counts as revenue, that was never a sale: the check against
\* a status read earlier loses the order of changes, but not this.
NoPaymentWithoutSale == \A l \in Leads : leadStatus[l] \in {"paid", "contract"} => l \in sold
=============================================================================
