\* Logger, thread pool, buffer and pipeline, one at a time.
SPECIFICATION PartsSpec
CONSTANTS
    Line <- MCLine
    Size = 4
    MaxLaunches = 2
    PoolTask = {t1, t2, t3}
    MaxWorkers = 2
    MaxStarts = 2
    Base = 3
    Bits = 2
    InitialSize = 2
    Extra = 3
    MaxContent = 3
    Width = 2
    Payload <- MCPayload
    MaxFrames = 3
INVARIANTS LogInOrder NoLostWakeup IndexOrder FramesInOrder
PROPERTIES LoggerProgress PoolProgress BufferIsQueue
CHECK_DEADLOCK FALSE
