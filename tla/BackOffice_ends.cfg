\* Every call ends: creations, and two changes of the hierarchy whose walks
\* overlap; attempts to log in on two replicas; two changes of one lead; a
\* network told of its paid time; two requests on one goal or checklist.
CONSTANTS
    Users <- MCNetwork
    TenantOf <- MCTenantOf
    CreatedAs <- MCCreatedAs
    Edits = {e1, e2}
    NewRoles = {}
    WalkBound = 2
    None = None
    Protocols = {"walks", "lock", "leads", "mornings", "records"}
    Attempts = {a1, a2, a3}
    Replicas = {r1, r2}
    redis = redis
    maxLoginAttempts = 2
    captchaThreshold = 1
    Window = 2
    MaxFaults = 1
    Leads = {l1}
    Updates = {u1, u2}
    NoLead = NoLead
    Payers = {t1}
    NotPaid = NotPaid
    PaidDates = {111, 129}
    OfficeHours = {9}
    Step = 3
    MaxHours = 186
    boss = boss
    owner = owner
    ann = ann
    bob = bob
    net = net
    other = other
    Callers = {boss, owner, ann}
    CallerRole <- MCCallerRole
    NetworkOf <- MCNetworkOf
    RecordIds = {i1}
    GoalRoles = {"dealer", "dealer_manager"}
    Texts = {x, y}
    Statuses = {p, q}
    completed = q
    Calls = {w1, w2}
    Nobody = Nobody
SPECIFICATION OfficeSpec
INVARIANTS
    OfficeTypeOK
    OnlyRacesMakeCycles
    OvershootBounded
    NoPaymentWithoutSale
    ToldInTime
    AssigneeInNetwork
PROPERTIES
    EveryEditEnds
    LockEnds
