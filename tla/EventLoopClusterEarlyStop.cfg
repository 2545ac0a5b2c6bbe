CONSTANTS
    MaxPairs = 2
    HalfInt = 4
    SizeRange = 16
    MaxWork = 1
SPECIFICATION Spec
INVARIANTS
    StartAssertion
CHECK_DEADLOCK FALSE
