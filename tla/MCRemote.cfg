CONSTANTS
    Requester = {r1}
    Keeper = Keeper
    Process = {p1, p2, p3}
    NoProcess = NoProcess
    MaxBackoff = 3
    MaxStrays = 1

SPECIFICATION FairRemoteSpec
INVARIANTS
    RemoteTypeOK
    ChildReachable
PROPERTIES
    KeptAlive
    Replied
