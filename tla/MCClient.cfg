SPECIFICATION Spec
CONSTANTS
    s1 = s1
    s2 = s2
    SOCKETS <- MCSockets
    None = None
    URLS = 2
    MAX_OUTBOX_MESSAGES = 2
    MaxMessages = 3
    Reports = {TRUE, FALSE}
    MaxShort = 2
    Writes = {TRUE, FALSE}
SYMMETRY Symmetry
INVARIANTS
    OneLiveSocket
    NeverStranded
    WatchedSocket
    SentInOrder
PROPERTIES
    KeptOrSent
    ReplacedStaysAway
