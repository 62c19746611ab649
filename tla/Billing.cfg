\* Up to three of four requests overlap: invoices compete for numbers, also over
\* New Year, payments for one invoice, edits with payments; or they are handled
\* one after the other, with retries.
SPECIFICATION MCSpec
CONSTANTS
    i1 = i1
    i2 = i2
    i3 = i3
    i4 = i4
    Handlings = {"overlapping", "in turn"}
    Invoices = {i1, i2, i3, i4}
    Payments = {p1, p2}
    Requests = {r1, r2, r3, r4}
    Subtotals = {2}
    Rates = {0, 50}
    Amounts = {1, 2}
    NumberAttempts = 2
    MaxAttempts = 2
    MaxInFlight = 1
    LastYear = 1
SYMMETRY AlikeIds
INVARIANTS
    TypeOK
    NextNumberIsFree
    RefusedOnlyWhenOvertaken
    PaidIsCovered
    PaidIsRunningTotalInTurn
    AllocationsWithinPaymentInTurn
PROPERTIES FollowsLifecycleInTurn
