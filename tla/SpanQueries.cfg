SPECIFICATION QueriesSpec
CONSTANTS
    Batches = {"b1", "b2"}
    Workers = {w1, w2}
    Spans <- MCSpans
    BatchSpans <- MCBatchSpans
    IdOf <- MCIdOf
    TraceOf <- MCTraceOf
    StartOf <- MCStartOf
    Minute = 2
    Bad <- MCBad
    Wanted <- MCWanted
    MaxRetries = 2
    DlqConsumed = TRUE
    Faults = {"transient", "s3"}
    PageSize = 1
    Windows <- MCWindows
    Cutoffs = {1}
    Interval = 2
    BucketSize = 2
    GroupLimit = 1
    Errors <- MCErrors
    ModelOf <- MCModelOf
    ProviderOf <- MCProviderOf
    ErrorOf <- MCErrorOf
    Values = {"7s", "9s"}
    MessageLength = 3
    FingerprintLength = 2
SYMMETRY Symmetry
INVARIANT PagingMissesNothing
INVARIANT DetailShowsWholeTrace
INVARIANT PanelsAgree
\* all batches processed or given up
CHECK_DEADLOCK FALSE
