\* Two threads, every operation; descriptors can run out.
CONSTANTS
    Threads = {t1, t2}
    Names = {n1}
    Files = {f1, f2}
    Handles = {h1, h2}
    Streams = {d1}
    MaxFds = 3
    MaxLinks = 1
    Ops = {"open", "create", "tmpfile", "mknod", "flush", "lock", "unlink", "opendir"}
    LateOps = {"open", "flush"}
    PathLocks = TRUE
SPECIFICATION Spec
SYMMETRY Symmetric
INVARIANTS
    TypeOK
    HandleOwnFile
    LinkCountExact
    OpenFileKept
    ReapedWhenClosed
    LockNeedsOpenFile
CHECK_DEADLOCK FALSE
