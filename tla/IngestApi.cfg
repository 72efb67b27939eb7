SPECIFICATION Spec
CONSTANTS
    Requests = {r1, r2, r3}
    Keys = {k1}
    Bodies = {b1, b2}
    NoKey = NoKey
    None = None
    Faults = {"db", "crash"}
INVARIANT TypeOK
INVARIANT AcceptedWasEnqueued
INVARIANT OneBatchUntilFailure
INVARIANT PendingIsOwned
PROPERTY ImplementsIdempotentIngest
PROPERTY EveryReservationResolves
\* every request has been answered or its process died
CHECK_DEADLOCK FALSE
