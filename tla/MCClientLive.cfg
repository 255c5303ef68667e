SPECIFICATION FairSpec
CONSTANTS
    s1 = s1
    s2 = s2
    SOCKETS <- MCSockets
    None = None
    URLS = 2
    MAX_OUTBOX_MESSAGES = 2
    MaxMessages = 1
    Reports = {TRUE}
    MaxShort = 1
    Writes = {TRUE}
PROPERTIES
    JoinsAndSends
    DeadIsNoticed
