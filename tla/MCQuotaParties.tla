--------------------------- MODULE MCQuotaParties ---------------------------
(***************************************************************************)
(* An instance of TenantQuota in which all that can wait for a row takes   *)
(* part, but not all of it in one behaviour.                               *)
(***************************************************************************)
EXTENDS MCTenantQuota

(* What takes part in a behaviour, chosen at its start: creations of users *)
(* and salons that overlap; edits of a plan that wait for the networks on  *)
(* it; moves between plans; removals, which wait for a deletion as well.   *)
First(S) == {CHOOSE x \in S : TRUE}

MCParties == {
    [tenants |-> First(Tenants), plans |-> First(Plans), kinds |-> {"user", "salon"},
     employers |-> Tenants, contacts |-> Tenants,
     calls |-> Creations \cup First(Edits) \cup SalonEdits],
    [tenants |-> Tenants, plans |-> First(Plans), kinds |-> {"user"},
     employers |-> Tenants, contacts |-> {},
     calls |-> First(Creations) \cup Edits \cup Moves],
    [tenants |-> Tenants, plans |-> Plans, kinds |-> {},
     employers |-> {}, contacts |-> {},
     calls |-> First(Edits) \cup Moves \cup Deletions],
    [tenants |-> First(Tenants), plans |-> Plans, kinds |-> {},
     employers |-> Tenants, contacts |-> {},
     calls |-> Moves \cup Removals \cup Deletions]}

VARIABLE party

takePart ==
    /\ \A t \in Tenants : exists(t) => t \in party.tenants
    /\ \A t \in Tenants : staff[t] > 0 => t \in party.employers
    /\ contacts \subseteq party.contacts
    /\ \A p \in Plans : plans[p].st # "none" => p \in party.plans
    /\ \A c \in Creations : creations[c].pc # "idle" =>
           c \in party.calls /\ creations[c].kind \in party.kinds
    /\ \A e \in Edits : edits[e].pc # "idle" => e \in party.calls
    /\ \A d \in SalonEdits : salonEdits[d] # None => d \in party.calls
    /\ \A m \in Moves : moves[m] # IdleMove => m \in party.calls
    /\ \A r \in Removals : removals[r].pc # "idle" => r \in party.calls
    /\ \A d \in Deletions : deletions[d] # IdleDeletion => d \in party.calls

(* Only calls that begin, and rows that are made, are kept out by this, so *)
(* what Fairness demands of a call that has begun is never out of reach.   *)
MCInit == party \in MCParties /\ Init

MCNext == Next /\ UNCHANGED party /\ takePart'

MCSpec == MCInit /\ [][MCNext]_<<party, vars>> /\ Fairness
=============================================================================
