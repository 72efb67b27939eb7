SPECIFICATION Spec
CONSTANTS
    Requests = {r1, r2, r3}
    Keys = {k1}
    Bodies = {b1}
    NoKey = NoKey
    None = None
    Faults = {}
INVARIANT OriginalBatchReturned
CHECK_DEADLOCK FALSE
