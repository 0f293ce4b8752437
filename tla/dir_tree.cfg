\* Two threads, every operation, a crash and failed writes.
CONSTANTS
    Threads = {t1, t2}
    Comps = {a, b}
    MaxDepth = 2
    MaxDirs = 4
    DirsPerPage = 2
    Ops = {"mkdir", "rmdir", "rename", "opendir"}
    MkdirTries = 2
    LeafRenames = TRUE
    MaxOpens = 1
    MaxCrashes = 1
    MaxFaults = 2
SPECIFICATION Spec
SYMMETRY Symmetric
INVARIANTS
    TypeOK
    FreeDhsSound
    OccupiedKept
    DirsDurable
    Mountable
PROPERTY TreeAtomic
\* rmdir never returns a dh: once all are gone every call is refused.
CHECK_DEADLOCK FALSE
