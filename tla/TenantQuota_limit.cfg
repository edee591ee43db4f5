\* One creation against an edit of the plan the network is moved to.
CONSTANTS
    Tenants = {1}
    Plans = {basic}
    Salons = {}
    Creations = {c1}
    Edits = {e1}
    SalonEdits = {}
    Moves = {m1}
    Removals = {}
    Deletions = {}
    None = None
    OwnLimit <- MCOwnLimit
    Limits = {1, 2}
    Offered = {basic}
    MaxStaff = 1
SPECIFICATION Spec
INVARIANTS
    CheckedLimitIsInForce
