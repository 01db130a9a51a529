SPECIFICATION Spec
CONSTANTS
    case = case
    charger = charger
    SKUs = {case, charger}
    Documents <- SomeDocuments
    Recosts <- SomeRecosts
    Quantities <- SomeQuantities
    Opening <- SomeOpening
    MaxRows = 2
    MaxPostings = 1
    MaxRecosts = 0
    Edited = {case, charger}
\* Every document may be posted and every bound reached.
CHECK_DEADLOCK FALSE
INVARIANT StockIsBooked
