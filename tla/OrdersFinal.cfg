\* A cancellation and a status change of the same order overlap.
SPECIFICATION MCSpec
CONSTANTS
    early = o1
    late = o2
    Handlings = {"overlapping"}
    large = o3
    stocked = stocked
    soldOut = soldOut
    Items = {stocked, soldOut}
    Orders = {o1, o2, o3}
    Lines <- OneOrTwo
    InitialStock <- OnlyFirst
    InitialStatus <- EarlyGoing
    Requests = {r1, r2}
    MaxInFlight = 1
    MaxAttempts = 1
    PoolSize = 4
PROPERTIES FinalStatusesAreFinal
