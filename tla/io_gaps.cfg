\* One thread, two files, a block that goes from one file to the other.
CONSTANTS
    Threads = {t1}
    Files = {f1, f2}
    Blocks = {b0, b1}
    Block0 = b0
    BlockSize = 2
    Offsets = {1}
    Lengths = {2}
    Sizes = {0, 1}
    Seeks = {0}
    MaxSize = 3
    MaxPos = 0
    Ops = {"pwrite", "lseek", "shrink"}
    MaxFailures = 0
SPECIFICATION Spec
SYMMETRY Symmetric
PROPERTY GapsAreZero
CHECK_DEADLOCK FALSE
