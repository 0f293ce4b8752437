\* One thread: what a crash inside ShrinkFile would leave on the device.
CONSTANTS
    Threads = {t1}
    Names = {n1, n2}
    Blocks = {b0, b1, b2}
    Block0 = b0
    MaxFiles = 3
    MaxFileBlocks = 3
    Capacity = 2
    BlockSize = 2
    FilesPerPage = 2
    Offsets = {0, 1, 2, 4}
    Ops = {"create", "extend", "shrink"}
    MaxCrashes = 0
    MaxFailures = 0
SPECIFICATION Spec
INVARIANT BlocksClaimedOnce
CHECK_DEADLOCK FALSE
