\* Two reservations and two more requests of any kind, three of the four at
\* once, on two items, one of them without a row yet: reservations that overlap
\* each other, one reservation settled twice, first receipts that race.
SPECIFICATION MCSpec
CONSTANTS
    i1 = i1
    i2 = i2
    v1 = v1
    v2 = v2
    Items = {i1, i2}
    Ids = {1, 2}
    Requests = {1, 2, 3, 4}
    Quantities = {1}
    Deltas <- DownAndUp
    InitialStock <- StockedAndNew
    MaxInFlight = 3
    MaxAttempts = 2
INVARIANTS TypeOK LedgerBalances ReservedIsAccountedFor
PROPERTIES HistoryIsKept BehavesAsAccount EveryRequestEnds
