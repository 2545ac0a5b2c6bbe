CONSTANTS
    Task = {k1, k2}
    Timer = {t1}
    MaxActive = 1
SPECIFICATION FairSpec
INVARIANTS
    ExactlyOnceInOrder
    StopDrains
    DestructorDrains
    CancelIsFinal
PROPERTIES
    QueuedRuns
    StopReturns
    ImplementsQueue
CHECK_DEADLOCK FALSE
