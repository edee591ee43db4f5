--------------------------- MODULE MCAuthSessions ---------------------------
(* Small instances of AuthSessions for TLC. *)
EXTENDS AuthSessions

CONSTANTS ann, boss, net

MCUsers == {ann, boss}

(* ann works in the network net; boss is the super_admin, outside it.      *)
MCTenantOf == [u \in Users |-> IF u = ann THEN net ELSE None]
=============================================================================
