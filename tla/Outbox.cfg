SPECIFICATION Spec
CONSTANTS
    Events = {e1, e2}
    Workers = {w1, w2}
    MaxAttempts = 2
    MaxRetries = 2
    Limit = 2
    Scheduled = TRUE
    Faults = {"publish", "kiq", "db", "crash"}
INVARIANT ClaimsAreExclusive
INVARIANT PublishesAreBounded
PROPERTY MarksAreFinal
