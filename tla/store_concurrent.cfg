\* Two threads, every operation, resources that run out.
CONSTANTS
    Threads = {t1, t2}
    Names = {n1, n2}
    Blocks = {b0, b1, b2}
    Block0 = b0
    MaxFiles = 3
    MaxFileBlocks = 3
    Capacity = 2
    BlockSize = 2
    FilesPerPage = 2
    Offsets = {0, 1, 2, 4}
    Ops = {"create", "extend", "shrink", "unlink", "rename"}
    MaxCrashes = 0
    MaxFailures = 0
SPECIFICATION Spec
SYMMETRY Symmetric
INVARIANTS
    BlockExclusive
    SizeCovered
\* Unlink never returns an fh: once all are gone every call is refused.
CHECK_DEADLOCK FALSE
