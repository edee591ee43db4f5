\* Security changes and blocks against a login and a request in flight: one
\* member of a network, two sessions, no time.
CONSTANTS
    ann = ann
    boss = boss
    net = net
    None = None
    Users = {ann}
    Tenants = {net}
    TenantOf <- MCTenantOf
    Statuses = {"active", "inactive"}
    Sids = {s1, s2}
    Logins = {l1}
    Requests = {r1}
    AccessLife = 1
    RefreshLife = 1
    ChainLife = 1
    CleanupLimit = 2
    MaxTime = 0
    MaxVersion = 3
    MaxRotations = 0
SPECIFICATION Spec
INVARIANTS
    TypeOK
    OpenSessionReadCurrentPassword
    NoGrantAfterClose
    BlockedTenantHasNoOpenSession
PROPERTIES
    ImplementsAuthority
