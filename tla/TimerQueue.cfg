CONSTANTS
    Timer = {t1, t2, t3, t4}
    Repeated = {t4}
    Delay = {0, 1}
    MaxTime = 2
SPECIFICATION FairSpec
INVARIANTS
    HeapMatchesMap
    HeapOrdered
PROPERTIES
    NoFireAfterEnd
    TimersFire
CHECK_DEADLOCK FALSE
