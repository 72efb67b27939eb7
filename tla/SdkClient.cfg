SPECIFICATION ClientSpec
CONSTANTS
    MaxSpans = 3
    BufferSize = 3
    MaxBatch = 3
    MaxAttempts = 1
    Faults = {"exit"}
    Calls = {1, 2, 3}
    KindOf <- MCKindOf
    Tasks = {"main", "child"}
    Main = "main"
    BadUsage = TRUE
INVARIANT OneSpanPerCall
INVARIANT SpanTreeIsSound
\* the tracer is closed or the process has exited
CHECK_DEADLOCK FALSE
