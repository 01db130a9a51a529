SPECIFICATION Spec
CONSTANTS
    w1 = w1
    w2 = w2
    w3 = w3
    Workers = {w1, w2, w3}
    MaxFaults = 2
    MaxRegenerations = 1
SYMMETRY Symmetry
\* Nothing is left to do once the item is completed.
CHECK_DEADLOCK FALSE
INVARIANT TypeOK
INVARIANT CallsAreAskedFor
INVARIANT UsageMatchesCompletion
INVARIANT FailureHidesNoResult
PROPERTY StoredAnswerStays
