---------------------------- MODULE MCTenantQuota ----------------------------
(* Small instances of TenantQuota for TLC. *)
EXTENDS TenantQuota

(* A network may have two users whatever its plan says.                    *)
MCOwnLimit == [t \in Tenants |-> 2]
=============================================================================
