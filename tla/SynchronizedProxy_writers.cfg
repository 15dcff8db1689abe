SPECIFICATION Spec
CONSTANTS
    Child = {"c1", "c2"}
    Url = {"p1"}
    MainUrl = {"p1"}
    Pieces = 2
    MaxStarts = 1
CHECK_DEADLOCK FALSE
INVARIANTS
    OneWriter
