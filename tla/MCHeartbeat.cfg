SPECIFICATION FairSpec
CONSTANTS
    fast = fast
    silent = silent
    CLIENTS <- MCClients
    Responsive <- MCResponsive
    HEARTBEAT_INTERVAL_S = 5
    WS_JOIN_TIMEOUT_S = 4
    AnswerTime = 1
    ShortStall = 2
    MaxQueue = 2
INVARIANTS
    FlagMatchesQueue
    ResponsiveIsKept
PROPERTIES
    SweepsGoOn
    SilentIsClosed
