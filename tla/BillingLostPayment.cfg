\* Two payments on one invoice read the same amountPaid.
SPECIFICATION MCSpec
CONSTANTS
    i1 = i1
    i2 = i2
    i3 = i3
    i4 = i4
    Handlings = {"overlapping"}
    Invoices = {i1}
    Payments = {p1, p2}
    Requests = {r1, r2, r3}
    Subtotals = {2}
    Rates = {0, 50}
    Amounts = {1}
    NumberAttempts = 2
    MaxAttempts = 1
    MaxInFlight = 2
    LastYear = 1
SYMMETRY AlikeIds
INVARIANTS PaidIsRunningTotal
