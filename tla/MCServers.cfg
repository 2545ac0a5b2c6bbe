\* Both servers, with each use alone.
SPECIFICATION MCSpec
CONSTANTS
    Conn = {c1, c2}
    Key = {k1, k2}
    Worker = {w1, w2}
    None = None
    Uses = {"hurry", "reuse", "again", "overtake", "closeUser", "shutdownUser", "limit"}
    MaxDatagrams = 2
    MaxDatagramsCalled = 1
INVARIANTS OnlyKnownCrashes NoOrphan StopIsComplete UdpOutputLeaves
PROPERTIES ServerReleases
CHECK_DEADLOCK FALSE
