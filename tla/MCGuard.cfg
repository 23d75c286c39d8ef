CONSTANTS
    proxy = proxy
    Candidate = {proxy}
    Priority <- MCPriority
    LatencyBound = 1
    FailureCap = 2
    Requester = {r1}
    Loop = Loop
    Url = {}
    NoUrl = NoUrl
    Stored = NoUrl
    Static = {proxy}
    System = {}
    Edit <- MCEdits
    StartConfig <- MCStart
    Connection = {k1}
    Direct = Direct
    NoRoute = NoRoute
    Publishable <- MCPublishable

SPECIFICATION FairGuardSpec
INVARIANTS
    RoutesWereProven
PROPERTIES
    ImplementsRelay
    PausedRefuses
    NextConnectionRecovers
