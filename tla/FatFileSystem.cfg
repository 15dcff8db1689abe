SPECIFICATION DiskSpec
CONSTANTS
    Name = {"f", "g"}
    Content <- Texts
    MAX_FILES = 2
    NUM_BLKS = 4
    BLK_SZ = 2
CHECK_DEADLOCK FALSE
INVARIANTS
    RoomyFilesDisjoint
    RoomyBlocksAccounted
PROPERTIES
    RoomyImplementsStore
    ReadAfterWrite
