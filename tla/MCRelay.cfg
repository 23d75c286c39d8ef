CONSTANTS
    manual = manual
    fast = fast
    slow = slow
    Candidate = {manual, fast, slow}
    Priority <- MCPriority
    LatencyBound = 2
    FailureCap = 2
    Connection = {k1}
    Direct = Direct
    NoRoute = NoRoute
    Publishable <- MCPublishable

SPECIFICATION FairRelaySpec
INVARIANTS
    RelayTypeOK
    BestRouteFirst
    FailClosed
PROPERTIES
    Answered
