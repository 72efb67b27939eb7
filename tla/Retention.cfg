CONSTANTS
    Projects = {"p", "q"}
    Rows = {"a", "b", "c", "d", "f", "x"}
    ProjectOf <- MCProjectOf
    TraceOf <- MCTraceOf
    StartOf <- MCStartOf
    Keys = {"ka", "kb", "kx"}
    NoKey = "none"
    KeyOf <- MCKeyOf
    HomeOf <- MCHomeOf
    Old = {"a", "b", "c", "f", "x"}
    Arriving = {"a", "d"}
    Refused = {"kb"}
    Limit = 2
    Runs = {1}
    Retentions = {2, 3}
    Today = 4
    MaxNow = 5
    MaxDeliveries = 1
    MaxOutages = 1
SPECIFICATION Spec
INVARIANTS SpansKeepTheirTrace
PROPERTIES DeletionIsSafe ExpiredRowsGo
