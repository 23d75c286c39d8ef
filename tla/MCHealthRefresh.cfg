CONSTANTS
    proxy = proxy
    ftp = ftp
    Candidate = {proxy}
    Priority <- MCPriority
    LatencyBound = 1
    FailureCap = 2
    Requester = {r1}
    Loop = Loop
    Url = {ftp}
    NoUrl = NoUrl
    Stored = proxy
    Static = {}
    System = {proxy}
    Edit <- MCEdits
    StartConfig <- MCStart

SPECIFICATION FairRefreshSpec
INVARIANTS
    RefreshTypeOK
    RecordsCoherent
    UsableWasProven
PROPERTIES
    RecoversWhenUp
    DropsWhenDown
    FollowsSelection
