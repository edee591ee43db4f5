\* Creations of both kinds against every writer of the limits and the counts,
\* and what waits for rows: edits of a plan that two networks may be on, moves,
\* a removal and the deletion of a plan.
CONSTANTS
    Tenants = {1, 2}
    Plans = {basic, large}
    Salons = {s1}
    Creations = {c1, c2}
    Edits = {e1, e2}
    SalonEdits = {d1}
    Moves = {m1}
    Removals = {r1}
    Deletions = {x1}
    None = None
    OwnLimit <- MCOwnLimit
    Limits = {1}
    Offered = {basic, large}
    MaxStaff = 1
SPECIFICATION MCSpec
INVARIANTS
    TypeOK
    CheckedQuotaStillHolds
    CirclesHaveADeletion
PROPERTIES
    EveryTransactionEnds
