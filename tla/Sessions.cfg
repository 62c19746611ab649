\* Two tabs of one browser and a phone, with failures and lost answers: two
\* requests at a time and a limit of one session, or one request at a time, a
\* limit of two and more sessions.
SPECIFICATION MCSpec
CONSTANTS
    t1 = t1
    t2 = t2
    t3 = t3
    desktop = desktop
    phone = phone
    Handlings = {"overlapping", "in turn"}
    Tabs = {t1, t2, t3}
    BrowserOf <- TwoTabsAndPhone
    Limit = 2
    MaxIssued = 4
    MaxInFlight = 1
SYMMETRY AlikeTabs
INVARIANTS TypeOK DeliveredInExchange RefusedOnlyIfEnded WithinLimitInTurn OneHeirInTurn
PROPERTIES OldestGoesFirst
