SPECIFICATION FairSpec
CONSTANTS
    reader = reader
    peer = peer
    BROWSERS <- MCReader
    Audiences <- MCAlone
    MAX_MESSAGES = 2
    MAX_LOCAL_MESSAGES = 2
    MaxId = 3
    MaxInbox = 4
    Fragile <- MCReader
    Asking <- MCReader
    MaxRequests = 0
    MaxErases = 0
PROPERTIES
    CatchesUp
