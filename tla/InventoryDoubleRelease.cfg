\* Two requests settle the same reservation.
SPECIFICATION Spec
CONSTANTS
    i1 = i1
    i2 = i2
    v1 = v1
    v2 = v2
    Items = {i1}
    Ids = {v1, v2}
    Requests = {r1, r2, r3, r4}
    Quantities = {1}
    Deltas = {1}
    InitialStock <- OneItem
    MaxInFlight = 2
    MaxAttempts = 2
SYMMETRY AlikeIds
INVARIANTS SettledOnce
