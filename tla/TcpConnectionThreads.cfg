\* The other thread sends or shuts down while the peer closes the connection.
SPECIFICATION Spec
CONSTANTS
    Msg = {m1}
    Applications = {{"sendUser", "shutdownUser"}}
INVARIANTS ThreadSafeMethods
CHECK_DEADLOCK FALSE
