SPECIFICATION FairPlatform
CONSTANTS
    Parts = {"projects", "notifications", "replacements", "logins", "cache", "jobs", "orders"}
    Requests = {r1, r2}
    Callers = {r1, r2, r3}
    MaxInFlight = 2
    MaxAttempts = 2
    i1 = i1
    i2 = i2
    o1 = o1
    o2 = o2
    Items = {i1, i2}
    Orders = {o1, o2}
    Lines <- Crossed
    InitialStock <- TwoOfEach
    InitialStatus <- SecondGoing
    PoolSize = 2
    m1 = m1
    d1 = d1
    u1 = u1
    Things = {m1, d1, u1}
    KindOf <- ThreeKinds
    Project = p
    Notifications = {n1}
    Owners = {w1, w2}
    Keyed = {w2}
    Keys = {k1, k2}
    Logins = {r1, r2}
    MaxFailed = 2
    Duration = 2
    MaxStreak = 4
    Readers = {r1, r2}
    TTL = 2
    MaxLoad = 2
    MaxValue = 1
    Horizon = 5
    Jobs = {r1, r2}
INVARIANTS
    TablesTyped
    ActivityTells
    RetriesAreAudited
    FailuresCounted
    StalenessBounded
PROPERTIES
    EveryJobIsSettled
    EveryRequestEnds
