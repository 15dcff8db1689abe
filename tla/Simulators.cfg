SPECIFICATION SimulatorsSpec
CONSTANTS
    Pid <- ThreePids
    Arrivals = {0, 2}
    Bursts = {0, 3, 4}
    Quanta = {1, 2}
    QCap = 12
    MaxTime = 14
    Frames = {1, 2, 3}
    Pages = 4
    References = 7
    Width = 4
    Votes = 4
    Process = {1, 2}
    File = {"f", ""}
    Call = {"openat", "read"}
    MaxCalls = 1
    MaxLoaded = 2
    Task = {1, 2, 3}
    Flags <- FourFlags
    max_threads = 3
    NPROC = 4
    MaxForks = 2
    MAX_PROCESSES = 4
    StatusMax = 15
CHECK_DEADLOCK FALSE
INVARIANTS
    SchedulesHold
    ReplacementsHold
    OutputsMean
    CountsExact
    TidyUnload
    ForksGiveBack
    ForksAreCounted
    SumsAgree
