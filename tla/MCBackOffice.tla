---------------------------- MODULE MCBackOffice ----------------------------
(***************************************************************************)
(* Protocols of the back office, for model checking: the changes of the    *)
(* hierarchy of a network, the counter of failed logins, the funnel of     *)
(* leads, the reminders to pay, and the goals and checklists. Each has     *)
(* rows, counters and calls of its own, so one behaviour is about one of   *)
(* them, chosen at the start, and the numbers of their states add up.      *)
(***************************************************************************)
EXTENDS MCManagerTree, LoginLimiter, LeadFunnel, PaymentReminders, SharedRecords

CONSTANTS Protocols,  \* the protocols a behaviour may be about
          other       \* a second network

VARIABLE protocol

officeVars == <<protocol, vars, limiterVars, funnelVars, paymentVars, recordVars>>

\* A super administrator, a franchiser, and a dealer of another network.
MCCallerRole ==
  [u \in Callers |-> CASE u = boss -> "super_admin" [] u = owner -> "franchiser"
                       [] OTHER -> "dealer"]
MCNetworkOf ==
  [u \in Callers |-> CASE u = boss -> Nobody [] u = ann -> other [] OTHER -> net]

\* Protocols a behaviour is not about start in one state, and stay in it.
OfficeInit ==
  /\ protocol \in Protocols
  /\ Init /\ LimiterInit /\ FunnelInit /\ PaymentInit /\ RecordsInit
  /\ protocol # "lock" =>
       client /\ servedBy = [a \in Attempts |-> CHOOSE r \in Replicas : TRUE]

\* The bounds, and not the code, end what these two protocols do: no hour is
\* left, or no identifier.
Bounded ==
  /\ \/ protocol = "mornings" /\ clock + Step > MaxHours
     \/ protocol = "records" /\ gone = RecordIds
  /\ UNCHANGED officeVars

OfficeNext ==
  \/ /\ protocol = "walks" /\ Next
     /\ UNCHANGED <<protocol, limiterVars, funnelVars, paymentVars, recordVars>>
  \/ /\ protocol = "lock" /\ LimiterNext
     /\ UNCHANGED <<protocol, vars, funnelVars, paymentVars, recordVars>>
  \/ /\ protocol = "leads" /\ FunnelNext
     /\ UNCHANGED <<protocol, vars, limiterVars, paymentVars, recordVars>>
  \/ /\ protocol = "mornings" /\ PaymentNext
     /\ UNCHANGED <<protocol, vars, limiterVars, funnelVars, recordVars>>
  \/ /\ protocol = "records" /\ RecordsNext
     /\ UNCHANGED <<protocol, vars, limiterVars, funnelVars, paymentVars>>
  \/ Bounded

OfficeSpec == OfficeInit /\ [][OfficeNext]_officeVars /\ Fairness /\ TimePasses

\* Every variable of every protocol has its type.
OfficeTypeOK ==
  TypeOK /\ LimiterTypeOK /\ FunnelTypeOK /\ PaymentTypeOK /\ RecordsTypeOK
=============================================================================
