\* Two orders on one item, and one that cannot be placed for want of its second
\* line: completion, cancellation and release race; or orders are placed and
\* moved while nothing else happens.
SPECIFICATION MCSpec
CONSTANTS
    early = o1
    late = o2
    Handlings = {"overlapping", "in turn"}
    large = o3
    stocked = stocked
    soldOut = soldOut
    Items = {stocked, soldOut}
    Orders = {o1, o2, o3}
    Lines <- OneOrTwo
    InitialStock <- OnlyFirst
    InitialStatus <- EarlyGoing
    Requests = {r1, r2, r3}
    MaxInFlight = 1
    MaxAttempts = 2
    PoolSize = 4
SYMMETRY AlikeRequests
INVARIANTS TypeOK ShippedExactlyOnce OrdersHoldTheirStock CountersAddUp
PROPERTIES FollowsLifecycleInTurn
