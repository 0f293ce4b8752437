\* One device of a supported size with more blocks than locks.
CONSTANTS
    PageSize = 2
    BlockSize = 4
    MaxFileNum = 2
    DirMetaSize = 2
    FileMetaSize = 2
    FileBlockMetaSize = 2
    Capacity = 6
    MaxUDiskSize = 26
    Width = 64
    Devices = {d1}
    DeviceSizes = {26}
    NumLocks = 1
    MaxFailures = 0
    MaxEvents = 0
SPECIFICATION Spec
SYMMETRY Symmetric
INVARIANT LocksCoverDevice
