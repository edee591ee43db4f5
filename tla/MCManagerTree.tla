---------------------------- MODULE MCManagerTree ----------------------------
(* Small instances of ManagerTree for TLC. *)
EXTENDS ManagerTree

CONSTANTS boss, owner, ann, bob, net

(* owner, ann and bob work in the network net; boss is the super_admin.    *)
MCUsers == {boss, owner, ann, bob}
MCNetwork == {owner, ann, bob}
MCTenantOf == [u \in Users |-> IF u = boss THEN None ELSE net]
MCCreatedAs ==
    [u \in Users |-> CASE u = boss  -> "super_admin"
                       [] u = owner -> "franchiser"
                       [] u = ann   -> "franchiser_manager"
                       [] u = bob   -> "dealer"]
=============================================================================
