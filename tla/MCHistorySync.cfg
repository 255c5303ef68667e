SPECIFICATION Spec
CONSTANTS
    reader = reader
    peer = peer
    BROWSERS <- MCBrowsers
    Audiences <- MCAudiences
    MAX_MESSAGES = 1
    MAX_LOCAL_MESSAGES = 2
    MaxId = 3
    MaxInbox = 3
    Fragile <- MCReader
    Asking <- MCReader
    MaxRequests = 1
    MaxErases = 0
INVARIANTS
    CursorSafe
    NothingHidden
    RecoveredIsHistory
    RecoveryIsComplete
