\* One thread that renames directories.
CONSTANTS
    Threads = {t1}
    Comps = {a, b}
    MaxDepth = 2
    MaxDirs = 4
    DirsPerPage = 2
    Ops = {"mkdir", "rename"}
    MkdirTries = 2
    LeafRenames = FALSE
    MaxOpens = 0
    MaxCrashes = 0
    MaxFaults = 0
SPECIFICATION Spec
SYMMETRY Symmetric
INVARIANT ParentsExist
\* rmdir never returns a dh: once all are gone every call is refused.
CHECK_DEADLOCK FALSE
