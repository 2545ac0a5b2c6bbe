\* Three applications, each with uses that can end the program, and what can end it.
SPECIFICATION Spec
CONSTANTS
    Msg = {m1, m2}
    Applications <- SomeApplications
SYMMETRY Symmetry
INVARIANTS StreamIntegrity NotificationOrder OnlyKnownFaults
CHECK_DEADLOCK FALSE
