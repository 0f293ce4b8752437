\* One thread, every operation, crashes and failed writes.
CONSTANTS
    Threads = {t1}
    Names = {n1, n2}
    Blocks = {b0, b1}
    Block0 = b0
    MaxFiles = 3
    MaxFileBlocks = 2
    Capacity = 2
    BlockSize = 2
    FilesPerPage = 2
    Offsets = {0, 1, 3}
    Ops = {"create", "extend", "shrink", "unlink", "rename"}
    MaxCrashes = 1
    MaxFailures = 1
SPECIFICATION Spec
INVARIANTS
    TypeOK
    FreeFhsSound
    FreeFbsSound
    FreeMetasValid
SYMMETRY Symmetric
CHECK_DEADLOCK FALSE
