\* One thread, no shrink, the process ends at any moment.
CONSTANTS
    Threads = {t1}
    Names = {n1, n2}
    Blocks = {b0, b1, b2}
    Block0 = b0
    MaxFiles = 3
    MaxFileBlocks = 2
    Capacity = 2
    BlockSize = 2
    FilesPerPage = 2
    Offsets = {0, 1, 2, 4}
    Ops = {"create", "extend", "unlink", "rename"}
    MaxCrashes = 2
    MaxFailures = 0
SPECIFICATION Spec
INVARIANTS
    Mountable
    DurableWhenSettled
    NothingLost
SYMMETRY Symmetric
PROPERTY CrashAtomic
CHECK_DEADLOCK FALSE
