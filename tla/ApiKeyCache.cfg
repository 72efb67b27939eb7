CONSTANTS
    Keys = {"h0", "h1", "s"}
    Legacy = {"h0", "h1"}
    First = "h0"
    ScopeOf <- MCScopeOf
    Requests = {1, 2}
    NeedOf <- MCNeedOf
    Admins = {"a", "b"}
    TTL = 1
    MaxFaults = 1
SPECIFICATION KeySpec
INVARIANTS WithdrawnKeyIsRefused LiveKeyIsAccepted
PROPERTIES WithdrawalTakesHold
