SPECIFICATION OfficeSpec
CONSTANTS
    case = case
    charger = charger
    SKUs = {case, charger}
    Documents <- SomeDocuments
    Recosts <- SomeRecosts
    Quantities <- SomeQuantities
    Opening <- SomeOpening
    MaxRows = 4
    MaxPostings = 1
    MaxRecosts = 1
    Edited = {charger}
    Editors = {"e1", "e2"}
    Uploads = {}
    Tickets = {}
    ViewForms <- SomeViewForms
    MaxVersions = 2
    MaxViews = 1
    MaxTime = 0
    MaxRevision = 3
    MaxKeys = 2
    Families = {"f1", "f2"}
    Variants = {"s1"}
    Assets = {}
    Owner <- SomeOwner
    Dimensions <- SomeDimensions
    Forms <- SomeForms
    Writers = {"w1"}
    Granters = {}
    MaxManifests = 2
    MaxGrants = 0
    Requests = {"r1", "r2"}
    Tokens = {}
    Masks <- SomeMasks
    Texts = {"a"}
    MaxReferences = 3
    MaxPictures = 1
    Width = 3
    Height = 2
\* Every document may be posted, every version published and every bound reached.
CHECK_DEADLOCK FALSE
INVARIANT OfficeTypeOK
INVARIANT LedgerAddsUp
INVARIANT BookedAsEntered
INVARIANT HistoryHasNoGaps
INVARIANT VoidsUndoTheLast
INVARIANT ValueTracksAverage
INVARIANT SOPsStayWhole
INVARIANT ReferencesAreSingle
PROPERTY WritesStayInScope
PROPERTY LifecycleKept
