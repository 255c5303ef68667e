SPECIFICATION Spec
CONSTANTS
    Header = 2
    Payload = 2
    FrameCount = 3
    HTTP_SEND_TIMEOUT = 3
    SendWait = 2
INVARIANTS
    HeldBriefly
PROPERTIES
    ImplementsStream
CHECK_DEADLOCK FALSE
