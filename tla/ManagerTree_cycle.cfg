\* Two overlapping reassignments in a network of an owner and two employees.
CONSTANTS
    boss = boss
    owner = owner
    ann = ann
    bob = bob
    net = net
    None = None
    Users <- MCNetwork
    TenantOf <- MCTenantOf
    CreatedAs <- MCCreatedAs
    Edits = {e1, e2}
    NewRoles = {}
    WalkBound = 2
SPECIFICATION Spec
INVARIANTS
    NoManagerCycle
