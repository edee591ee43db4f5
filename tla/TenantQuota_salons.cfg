\* One creation of a salon against one update of another, no plan is edited.
CONSTANTS
    Tenants = {1}
    Plans = {basic}
    Salons = {s1, s2}
    Creations = {c1}
    Edits = {}
    SalonEdits = {d1}
    Moves = {}
    Removals = {}
    Deletions = {}
    None = None
    OwnLimit <- MCOwnLimit
    Limits = {1, 2}
    Offered = {}
    MaxStaff = 1
SPECIFICATION Spec
INVARIANTS
    SalonQuotaHolds
