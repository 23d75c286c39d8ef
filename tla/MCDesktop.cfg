CONSTANTS
    Daemon = {d1, d2}
    Timer = Timer
    Call = {Timer, k1}
    Lines <- MCLines
    Bests <- MCBests
    NoLine = NoLine
    Nothing = Nothing
    Nobody = Nobody
    Stale = Stale

SPECIFICATION FairDesktopSpec
INVARIANTS
    DesktopTypeOK
    SocketReachesDaemon
    GuidanceFits
    LastRequestHolds
PROPERTIES
    ShowsCurrent
    DownIsShown
