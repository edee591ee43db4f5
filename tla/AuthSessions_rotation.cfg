\* Lifetimes, rotation, reuse and cleanup: one user, two sessions, time passes.
CONSTANTS
    ann = ann
    boss = boss
    net = net
    None = None
    Users = {ann}
    Tenants = {net}
    TenantOf <- MCTenantOf
    Statuses = {"active"}
    Sids = {s1, s2}
    Logins = {l1}
    Requests = {}
    AccessLife = 2
    RefreshLife = 2
    ChainLife = 3
    CleanupLimit = 1
    MaxTime = 4
    MaxVersion = 1
    MaxRotations = 2
SPECIFICATION FairSpec
INVARIANTS
    OneRefreshTokenPerSession
    ChainIsBounded
PROPERTIES
    CleanupDeletesOnlyDeadSessions
    DeadSessionsArePurged
