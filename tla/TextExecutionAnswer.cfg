SPECIFICATION Spec
CONSTANTS
    w1 = w1
    w2 = w2
    w3 = w3
    Workers = {w1, w2}
    MaxFaults = 1
    MaxRegenerations = 0

\* Nothing is left to do once the item is completed.
CHECK_DEADLOCK FALSE
INVARIANT AnswersAreRecorded
