\* An application that keeps to what the code can take, but for a shutdown() that
\* meets a reset.
SPECIFICATION FairSpec
CONSTANTS
    Msg = {m1}
    Applications = {{"send", "close", "shutdown", "stop", "closeUser"}}
PROPERTIES PeerEndNoticed CloseDone OutputFlushed Released
CHECK_DEADLOCK FALSE
