SPECIFICATION Spec
CONSTANTS
    w1 = w1
    w2 = w2
    Workers = {w1, w2}
    MaxFaults = 2
    MaxRegenerations = 1
    MaxRevisions = 1
SYMMETRY Symmetry
\* Nothing is left to do once the item is completed and all is asked for.
CHECK_DEADLOCK FALSE
INVARIANT TypeOK
INVARIANT ResultsHaveImages
INVARIANT TurnsAreSingle
