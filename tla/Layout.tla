------------------------------- MODULE Layout -------------------------------
(***************************************************************************)
(* Where SuperBlock::FormatAllMeta puts the areas of a device: the super   *)
(* block, the tables of DirMetas, FileMetas and FileBlockMetas, and the    *)
(* data blocks (lib/super_block.cc, lib/meta_defines.h, lib/comm_utils.h). *)
(***************************************************************************)
EXTENDS Integers

CONSTANTS
    PageSize,          \* kBlockFsPageSize, also the size of the super block
    BlockSize,         \* kBlockSize
    MaxFileNum,        \* kMaxFileNum
    DirMetaSize,       \* kBlockFsDirMetaSize
    FileMetaSize,      \* kBlockFsFileMetaSize
    FileBlockMetaSize, \* kBlockFsFileBlockMetaSize
    Capacity,          \* kFileBlockCapacity
    MaxUDiskSize,      \* kBlockFsMaxUDiskSize
    Width              \* 2^64, what unsigned arithmetic wraps at

ASSUME LayoutAssumption ==
    /\ PageSize \in Nat \ {0} /\ BlockSize \in Nat \ {0} /\ MaxFileNum \in Nat \ {0}
    /\ DirMetaSize \in Nat \ {0} /\ FileMetaSize \in Nat \ {0}
    /\ FileBlockMetaSize \in Nat \ {0} /\ Capacity \in Nat \ {0}
    /\ MaxUDiskSize \in Nat /\ Width \in Nat \ {0}
    /\ (MaxFileNum - 1) * FileBlockMetaSize <= MaxUDiskSize

ALIGN_UP(s, a) == (s + (a - 1)) \div a
ROUND_UP(s, a) == ALIGN_UP(s, a) * a

dir_meta_offset == PageSize
dir_meta_total_size == ROUND_UP(DirMetaSize * MaxFileNum, PageSize)

file_meta_offset == dir_meta_offset + dir_meta_total_size
file_meta_total_size == ROUND_UP(FileMetaSize * MaxFileNum, PageSize)

\* One FileBlock for each file but one, and for that one as many as the largest
\* device needs.
small_files_size == (MaxFileNum - 1) * FileBlockMetaSize
large_file_num == ALIGN_UP(MaxUDiskSize - small_files_size, BlockSize * Capacity)
max_file_block_num == (MaxFileNum - 1) + large_file_num

file_block_meta_offset == file_meta_offset + file_meta_total_size
file_block_meta_total_size ==
    ROUND_UP(small_files_size + large_file_num * FileBlockMetaSize, PageSize)

block_data_start_offset ==
    ROUND_UP(file_block_meta_offset + file_block_meta_total_size, BlockSize)

SignedBlockNum(device_size) == (device_size - block_data_start_offset) \div BlockSize

\* The subtraction is unsigned: it wraps on a device smaller than its metadata.
curr_block_num(device_size) ==
    ((device_size - block_data_start_offset) % Width) \div BlockSize
=============================================================================
