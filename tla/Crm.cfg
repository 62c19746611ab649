SPECIFICATION CrmSpec
CONSTANTS
    Requests = {r1, r2, r3}
    Drafts = {q1}
    Emails = {"a", "b"}
    OpenLeads = {"a"}
    Contacts = {"a", "b"}
    Tasks = {t1}
    Opening = 104
    Default <- Stages
    Contents <- Inputs
    NumberAttempts = 2
    MaxAttempts = 2
    MaxInFlight = 3
    MaxOpenQuotations = 2
SYMMETRY Alike
INVARIANTS
    TablesTyped
    TotalIsScheduled
    ItemsAddUp
    DocumentBeforeSent
    OneLeadPerAddress
    ConversionIsWhole
    ConvertedOnce
PROPERTIES
    QuotationsFollowLifecycle
    FollowUpsFollowLifecycle
