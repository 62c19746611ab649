\* A device is signed out from another one, and refreshes its session later.
SPECIFICATION AlarmSpec
CONSTANTS
    t1 = t1
    t2 = t2
    t3 = t3
    desktop = desktop
    phone = phone
    Handlings = {"in turn"}
    Tabs = {t1, t3}
    BrowserOf <- TwoDevices
    Limit = 2
    MaxIssued = 3
    MaxInFlight = 1
INVARIANTS AlarmOnlyAfterRotation
