SPECIFICATION Spec
CONSTANTS
    N = 2
    NSIMMAX = 5
    BIDIRECTIONAL = FALSE
    MaxInFlight = 2
    CorruptForms = {"payload", "seqnum", "acknum"}
CHECK_DEADLOCK FALSE
INVARIANT
    NothingInvented
