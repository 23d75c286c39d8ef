CONSTANTS
    Requester = {r1}
    Keeper = Keeper
    Process = {p1, p2, p3}
    NoProcess = NoProcess
    MaxBackoff = 3
    MaxStrays = 1

SPECIFICATION RemoteSpec
PROPERTIES
    StopHolds
