\* Two threads, fair scheduling.
CONSTANTS
    Threads = {t1, t2}
    Names = {n1, n2}
    Blocks = {b0, b1}
    Block0 = b0
    MaxFiles = 3
    MaxFileBlocks = 2
    Capacity = 2
    BlockSize = 2
    FilesPerPage = 2
    Offsets = {0, 3}
    Ops = {"create", "extend", "shrink", "unlink"}
    MaxCrashes = 0
    MaxFailures = 0
SPECIFICATION LiveSpec
PROPERTY OperationsReturn
CHECK_DEADLOCK FALSE
