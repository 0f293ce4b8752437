\* Two devices; three directories and files, and as few FileBlocks as Layout admits;
\* a device may be too small for its metadata.
CONSTANTS
    PageSize = 2
    BlockSize = 4
    MaxFileNum = 3
    DirMetaSize = 1
    FileMetaSize = 1
    FileBlockMetaSize = 2
    Capacity = 6
    MaxUDiskSize = 4
    Width = 64
    Devices = {d1, d2}
    DeviceSizes = {1, 9, 15, 24}
    NumLocks = 1
    MaxFailures = 2
    MaxEvents = 3
SPECIFICATION Spec
SYMMETRY Symmetric
INVARIANTS
    TypeOK
    FilesAllOrNone
    BlocksInDevice
    DescriptorsAgree
    
