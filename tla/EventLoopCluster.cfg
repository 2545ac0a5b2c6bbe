CONSTANTS
    MaxPairs = 3
    HalfInt = 4
    SizeRange = 16
    MaxWork = 1
SPECIFICATION Spec
INVARIANTS
    LoopsReady
    StopLeavesNothing
PROPERTIES
    CallsReturn
    LoopsTakeTurns
CHECK_DEADLOCK FALSE
