SPECIFICATION Spec
CONSTANTS
    MaxSpans = 5
    BufferSize = 3
    MaxBatch = 2
    MaxAttempts = 2
    Faults = {"unexpected", "exit", "reject", "midsend"}
INVARIANT SpansAreAccounted
INVARIANT OneKeyPerSpan
INVARIANT DeliveredInOrder
PROPERTY ShutdownEnds
\* the tracer is closed or the process has exited
CHECK_DEADLOCK FALSE
