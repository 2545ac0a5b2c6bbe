\* Every use of the client, one at a time.
SPECIFICATION ClientSpec
CONSTANTS
    Conn = {x1, x2}
    None = None
    Uses = {"mixed", "early", "race", "forget", "outlive", "overtake", "lateReset", "fatal"}
    MaxConnects = 2
    MaxQueue = 2
INVARIANTS ClientAsserts DisconnectIsFinal
PROPERTIES TriesUntilConnected
CHECK_DEADLOCK FALSE
