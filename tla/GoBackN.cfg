SPECIFICATION BuildSpec
CONSTANTS
    N = 2
    NSIMMAX = 4
    BIDIRECTIONAL = TRUE
    MaxInFlight = 2
    CorruptForms = {"payload"}
CHECK_DEADLOCK FALSE
INVARIANTS
    TimerIffOutstanding
    CopiesKept
    AckedWasDeliveredButFirst
    InOrderButFirst
