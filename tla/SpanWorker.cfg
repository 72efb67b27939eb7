SPECIFICATION Spec
CONSTANTS
    Batches = {"b1", "b2", "b3"}
    Workers = {w1, w2}
    Spans <- MCSpans
    BatchSpans <- MCBatchSpans
    IdOf <- MCIdOf
    TraceOf <- MCTraceOf
    StartOf <- MCStartOf
    Minute = 4
    Bad <- MCBad
    Wanted <- MCWanted
    MaxRetries = 2
    DlqConsumed = TRUE
    Faults = {"transient", "ack", "post", "redis", "aggregate", "crash"}
SYMMETRY Symmetry
INVARIANT BucketsMatchSpans
INVARIANT ProcessedMeansStored
INVARIANT StoredSpanIsComplete
INVARIANT TraceRowIsStable
INVARIANT AggregatesConverge
INVARIANT BatchIsAccountedFor
\* all batches processed or given up
CHECK_DEADLOCK FALSE
