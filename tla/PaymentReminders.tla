-------------------------- MODULE PaymentReminders --------------------------
(***************************************************************************)
(* The job that runs every morning and tells each network that its paid    *)
(* time ends soon or has ended. It reads the networks once, then makes one *)
(* notice after the other while the administrator may prolong them. A      *)
(* morning on which the server is down, or the networks cannot be read, is *)
(* not made up for.                                                        *)
(*                                                                         *)
(* Time is counted in whole hours; the code's clock is finer.              *)
(***************************************************************************)
EXTENDS Integers, FiniteSets

CONSTANTS
  Payers,       \* networks
  NotPaid,      \* paid_until is not set
  PaidDates,    \* hours at which a paid time may be set to end
  OfficeHours,  \* bound: hours of the day at which the administrator sets it
  Step,         \* bound: hours the clock advances at once; divides 24 and JobHour
  MaxHours      \* bound: hours a behaviour lasts

JobHour == 9
DaysAhead == 3

ASSUME HoursAssumption ==
  /\ PaidDates \subseteq Nat /\ NotPaid \notin Nat
  /\ Step \in Nat \ {0} /\ 24 % Step = 0 /\ JobHour % Step = 0
  /\ \A h \in OfficeHours \cup PaidDates : h % Step = 0
  /\ MaxHours \in Nat

VARIABLES
  clock,      \* hours passed since a midnight
  paidUntil,  \* of each network
  setAt,      \* history: the hour paidUntil was set
  missed,     \* history: mornings since then without a word to the network
  job,        \* the networks the running job has still to look at, as it read them
  ran,        \* whether this morning's job has been started, or missed
  sent        \* the notices made

paymentVars == <<clock, paidUntil, setAt, missed, job, ran, sent>>

PaidRow == [tenant : Payers, paid : PaidDates]
Notice == [to : Payers, kind : {"ending", "overdue"}, paid : PaidDates]

PaymentTypeOK ==
  /\ clock \in 0..MaxHours
  /\ paidUntil \in [Payers -> PaidDates \cup {NotPaid}]
  /\ setAt \in [Payers -> 0..MaxHours]
  /\ missed \in [Payers -> Nat]
  /\ job \subseteq PaidRow
  /\ ran \in BOOLEAN
  /\ sent \subseteq Notice

PaymentInit ==
  /\ clock = 0
  /\ paidUntil = [t \in Payers |-> NotPaid]
  /\ setAt = [t \in Payers |-> 0] /\ missed = [t \in Payers |-> 0]
  /\ job = {} /\ ran = FALSE /\ sent = {}

Morning == clock % 24 = JobHour

\* Whole days, towards zero: on both sides of the end there is a day "0".
DaysLeft(paid) ==
  IF paid >= clock THEN (paid - clock) \div 24 ELSE -((clock - paid) \div 24)

\* The mutated form: the last morning before the day "0" is the second.
NoticeKindsShort(paid) ==
  (IF DaysLeft(paid) \in 0..(DaysAhead - 1) THEN {"ending"} ELSE {})
    \cup (IF DaysLeft(paid) < 0 THEN {"overdue"} ELSE {})

NoticeKinds(paid) ==
  (IF DaysLeft(paid) \in 0..DaysAhead THEN {"ending"} ELSE {})
    \cup (IF DaysLeft(paid) < 0 THEN {"overdue"} ELSE {})

SetPaidUntil(t, paid) ==
  /\ clock % 24 \in OfficeHours
  /\ paidUntil' = [paidUntil EXCEPT ![t] = paid]
  /\ setAt' = [setAt EXCEPT ![t] = clock]
  /\ missed' = [missed EXCEPT ![t] = 0]
  /\ UNCHANGED <<clock, job, ran, sent>>

Run ==
  /\ Morning /\ ~ran
  /\ ran' = TRUE
  /\ job' = {[tenant |-> t, paid |-> paidUntil[t]] :
               t \in {u \in Payers : paidUntil[u] # NotPaid}}
  /\ UNCHANGED <<clock, paidUntil, setAt, missed, sent>>

\* No server at that hour, or no answer to the query for the networks.
RunMissed ==
  /\ Morning /\ ~ran
  /\ ran' = TRUE
  /\ missed' = [t \in Payers |-> missed[t] + 1]
  /\ UNCHANGED <<clock, paidUntil, setAt, job, sent>>

CreateNotification(row) ==
  /\ row \in job
  /\ job' = job \ {row}
  /\ sent' = sent \cup {[to |-> row.tenant, kind |-> k, paid |-> row.paid] :
                          k \in NoticeKinds(row.paid)}
  /\ UNCHANGED <<clock, paidUntil, setAt, missed, ran>>

\* An error is logged and the next network looked at.
CreateFails(row) ==
  /\ row \in job
  /\ job' = job \ {row}
  /\ missed' = [missed EXCEPT ![row.tenant] = @ + 1]
  /\ UNCHANGED <<clock, paidUntil, setAt, ran, sent>>

\* The server stops in the middle of a run.
RunCut ==
  /\ job # {}
  /\ job' = {}
  /\ missed' = [t \in Payers |->
                  IF \E row \in job : row.tenant = t THEN missed[t] + 1 ELSE missed[t]]
  /\ UNCHANGED <<clock, paidUntil, setAt, ran, sent>>

\* A run takes less than an hour.
HoursPass ==
  /\ job = {} /\ (Morning => ran)
  /\ clock + Step <= MaxHours
  /\ clock' = clock + Step
  /\ ran' = FALSE
  /\ UNCHANGED <<paidUntil, setAt, missed, job, sent>>

PaymentNext ==
  \/ \E t \in Payers, p \in PaidDates : SetPaidUntil(t, p)
  \/ Run \/ RunMissed \/ RunCut \/ HoursPass
  \/ \E row \in PaidRow : CreateNotification(row) \/ CreateFails(row)

PaymentSpec == PaymentInit /\ [][PaymentNext]_paymentVars

(* ------------------------------ properties ------------------------------- *)

Told(t, kind) == [to |-> t, kind |-> kind, paid |-> paidUntil[t]] \in sent

\* The date was set so many hours before it.
SetBefore(t, hours) == setAt[t] + hours <= paidUntil[t]

\* A network whose paid time was set four days ahead hears that it ends before
\* it has ended, though up to three mornings in between were missed: a morning
\* on which a day or three are left counts as much as the last.
WarnedBeforeEnd ==
  \A t \in Payers :
    /\ paidUntil[t] # NotPaid
    /\ clock > paidUntil[t] /\ SetBefore(t, 96) /\ missed[t] <= 3
    => Told(t, "ending")

\* The first day after the end still counts as the day it ends. Even so, two
\* days after it the network has heard that its time is over, unless a morning
\* was missed.
OverdueIsTold ==
  \A t \in Payers :
    /\ paidUntil[t] # NotPaid
    /\ clock > paidUntil[t] + 48 /\ SetBefore(t, 0) /\ missed[t] = 0
    => Told(t, "overdue")

\* Between the days that are counted as none, every network is told in time.
ToldInTime == WarnedBeforeEnd /\ OverdueIsTold
=============================================================================
