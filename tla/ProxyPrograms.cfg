SPECIFICATION ProgramsSpec
CONSTANTS
    Client = {"c1", "c2"}
    Url = {"u1"}
    MaxLines = 3
    FdLimit = 2
    Number = {1, 2}
    MaxTyped = 3
    Asked = {"a", "timeout", "pic"}
    Main = {"a", "timeout"}
    Slow = {"timeout"}
    Pieces = 2
CHECK_DEADLOCK FALSE
INVARIANTS
    SessionLogTrue
    VerdictsInOrder
    SocketMissedOnce
    MissesOverlap
    FilesWholeWhenQuiet
PROPERTIES
    ChildrenServe
    ChildrenLeave
