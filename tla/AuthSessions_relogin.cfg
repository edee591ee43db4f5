\* One login against one change of password.
CONSTANTS
    ann = ann
    boss = boss
    net = net
    None = None
    Users = {ann}
    Tenants = {net}
    TenantOf <- MCTenantOf
    Statuses = {"active"}
    Sids = {s1}
    Logins = {l1}
    Requests = {}
    AccessLife = 1
    RefreshLife = 1
    ChainLife = 1
    CleanupLimit = 1
    MaxTime = 0
    MaxVersion = 2
    MaxRotations = 0
SPECIFICATION Spec
INVARIANTS
    OpenSessionProvedCurrentPassword
