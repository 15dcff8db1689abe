SPECIFICATION DataSpec
CONSTANTS
    order = 3
    Name = {1, 2, 3}
    Dept = {1, 3}
    Income = {1, 2}
    employee_txt <- FirstStaff
    MaxHeap = 4
    Names = {1, 2, 3, 4, 5, 6, 7}
    Shelf <- FirstShelf
    Fewer <- FirstFewer
    Music_List <- FirstList
    QueueMax = 2
    PlayListMax = 2
    INF = 1000
    Files <- GraphFiles
CHECK_DEADLOCK FALSE
INVARIANTS
    LibraryConsistent
    SearchesAgreed
    WinnersKept
    TraversalsComplete
    NoTreeCheaper
    NoPathShorter
