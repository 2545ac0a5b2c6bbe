CONSTANTS
    Watcher = {w1, w2}
    Number = {1, 2}
    None = None
    Uses = {"attached", "handling", "pending"}
SPECIFICATION Spec
INVARIANTS
    KernelInStep
    NoDangling
    AssertionsHold
CHECK_DEADLOCK FALSE
