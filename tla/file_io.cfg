\* Two threads, two files that compete for three blocks.
CONSTANTS
    Threads = {t1, t2}
    Files = {f1, f2}
    Blocks = {b0, b1, b2}
    Block0 = b0
    BlockSize = 2
    Offsets = {1}
    Lengths = {2}
    Sizes = {1}
    Seeks = {0}
    MaxSize = 3
    MaxPos = 0
    Ops = {"pread", "pwrite", "read", "lseek", "extend", "shrink"}
    MaxFailures = 1
SPECIFICATION Spec
SYMMETRY Symmetric
PROPERTY FilesAreBytes
CHECK_DEADLOCK FALSE
