SPECIFICATION Spec
CONSTANTS
    CLIENTS = {c1, c2, c3, c4, c5}
    Honest = {c1, c2, c3}
    VALID_EPOCH_START_S = 10
    VALID_EPOCH_END_S = 40
    TIME_SYNC_TOLERANCE_S = 1
    PowerOnTime = 20
    Latest = 1
    Claims = {9, 18, 20, 22, 40}
    MaxUptime = 1
    None = None
    MAX_JSON_NESTING_DEPTH = 2
    BYTES = {65, 128, 143, 144, 159, 160, 191, 193, 194, 223, 224, 237, 239, 240, 244, 245}
    MaxBytes = 4
    MaxLetters = 6
CHECK_DEADLOCK FALSE
INVARIANTS
    StampNearTruth
    AgreementDecides
    TextExact
