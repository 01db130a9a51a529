SPECIFICATION OfficeSpec
CONSTANTS
    Forms <- SomeForms
    MaxTemplates = 1
    MaxVersions = 2
    Clients = {c1, c2}
    Requests <- SomeRequests
    Sources <- SomeSources
    MaxToggles = 1
    Jobs <- SomeJobs
    Results <- SomeResults
    JobOf <- SomeJobOf
    ItemOf <- SomeItemOf
    KindOf <- SomeKindOf
    LocalesOf <- SomeLocalesOf
    Texts <- SomeTexts
    Valid <- NotBad
    MaxEdits = 2
    Keys <- SomeKeys
    Fingerprint <- SomeFingerprint
    Accepts <- NotBadKey
    ModelsOf <- SomeModelsOf
    Configurations <- SomeConfigurations
    Administrators = {a1, a2}
    Calls = {call1, call2}
    Ledgers = {"l1", "l2"}
    Metrics <- SomeMetrics
    Quantity <- SomeQuantity
    TierOf <- SomeTierOf
    UsedAt <- SomeUsedAt
    UnitSize = 2
    RateVersions <- SomeRateVersions
    Authors = {"a1", "a2"}
    Pricers = {"p1", "p2"}
    MaxRates = 2
    Buckets = {"b2"}
    DayOf <- SomeDayOf
    MonthOf <- SomeMonthOf
    UsageJobs <- SomeJobs
    Syncs = {"s1", "s2"}
    Ranges <- SomeRanges
    Amounts = {2, 3}
    MaxBills = 1
    MaxUsage = 2
    MaxCloses = 1
SYMMETRY Symmetry
\* Every request is answered and every bound reached.
CHECK_DEADLOCK FALSE
INVARIANT OfficeTypeOK
INVARIANT OneJobPerKey
INVARIANT JobsServeRequests
INVARIANT ReviewedTextStands
INVARIANT CostsAddUp
INVARIANT CapabilityProven
INVARIANT TemplateShowsVersions
PROPERTY TemplateLifecycle
PROPERTY ClosedBooksStand
