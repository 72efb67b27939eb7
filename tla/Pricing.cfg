SPECIFICATION Spec
CONSTANTS
    Times = {1, 2}
    Prices = {p1, p2}
    NoPrice = NoPrice
    MaxRows = 2
    MaxEdits = 1
    Admins = {a1}
    Workers = {w1, w2}
    RedisFails = TRUE
    MaxLookups = 2
    MaxBatches = 2
SYMMETRY Symmetry
INVARIANT PriceWasListed
INVARIANT SettledPriceIsRight
INVARIANT StaleIsExplained
\* the batches are over
CHECK_DEADLOCK FALSE
