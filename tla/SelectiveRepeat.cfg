SPECIFICATION Spec
CONSTANTS
    N = 2
    NSIMMAX = 4
    BIDIRECTIONAL = TRUE
    MaxInFlight = 2
    CorruptForms = {"payload"}
CHECK_DEADLOCK FALSE
INVARIANTS
    IInv
    DeliveredInOrder
PROPERTIES
    OutstandingKept
    ImplementsRDT
