\* One removal of a network against one new employee.
CONSTANTS
    Tenants = {1}
    Plans = {basic}
    Salons = {}
    Creations = {c1}
    Edits = {}
    SalonEdits = {}
    Moves = {}
    Removals = {r1}
    Deletions = {}
    None = None
    OwnLimit <- MCOwnLimit
    Limits = {1, 2}
    Offered = {}
    MaxStaff = 1
SPECIFICATION Spec
PROPERTIES
    DeletesOnlyEmptyTenants
