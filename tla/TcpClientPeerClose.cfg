\* The peer closes a connection of which the application keeps no shared_ptr.
SPECIFICATION ClientSpec
CONSTANTS
    Conn = {x1}
    None = None
    Uses = {"forget"}
    MaxConnects = 1
    MaxQueue = 1
INVARIANTS EndedAssertion
CHECK_DEADLOCK FALSE
