# blockfs: TLA+ specifications and proofs

blockfs is a user-space file system on a raw block device, mounted through FUSE
or linked as a library. All of its metadata (a table of directories, a table of
files, a table of FileBlocks that list the data blocks of files) lives in memory
and is written through to the device one 4K page at a time; a mount reads the
tables back and refuses the device when it finds them inconsistent. There is no
journal and no recovery. What keeps the file system correct is therefore the
order of the page writes, the one mutex of each table, and the error paths that
give back what an operation took. That is what these specifications are about.

## Inventory

| Component | State | Operations | Interacts with |
|---|---|---|---|
| `FileHandle`, `File`, `ParentFile` (`lib/file_handle.cc`, `lib/file.cc`) | `FileMeta` table, `free_fhs_`, `created_files_`, `parent_files_`, `mutex_`; per file `item_maps_`, `nlink_`, deleted, locked | create, unlink, rename, truncate (extend, shrink), open, close, dup, mount | takes FileBlocks and block ids, writes pages to the device, enters files in `Directory` |
| `FileBlockHandle`, `FileBlock` | `FileBlockMeta` table, `free_fbhs_`, `mutex_` | take, fill, persist, `ReleaseAll`, `ReleaseMyself`, mount | attached to files; claims block ids at mount |
| `BlockHandle` | `block_id_pool_`, `block_locks_` | `GetFreeBlockIdLock`, `PutFreeBlockId`, `GetSpecificBlockId`, `block_lock` | used by the two above and by the data path |
| `DirHandle`, `Directory` | `DirMeta` table, `free_dhs_`, `created_dirs_`, child maps, `nlink_` | mkdir, rmdir, rename, opendir, releasedir, mount | parent of files and directories |
| `FdHandle`, `open_files_`, `UDiskBFS::open_dirs_` | pool of descriptors, descriptor to file, descriptor of a stream | open, create, mknod, dup, flush, close, lock, opendir | link counts of files, the unlink that a close completes |
| `OpenFile`, `FileReader`, `FileWriter` | `append_pos_` | pread, pwrite, read, lseek | the block ids of a file, the bytes of the blocks |
| `SuperBlock` | layout and limits | format, check | every table's offset and size |
| `Device`, `ShmManager` | two descriptors, the device's size; the metadata in memory | open, close, bounded reads and writes; read all metadata | everything that touches the device |
| `FileSystem` | the handles above, the mount point | format, check, mount, dispatch of rename and truncate, fcntl locks | everything |
| FUSE front end (`lib/bfs_fuse.cc`) | `fi->fh` | one handler per call | `FileSystem` |
| Configuration, logging, tests, token bucket | no state of the file system | | |

What is hard here:

* concurrency: FUSE runs the handlers on several threads. A table's mutex is
  taken and dropped several times within one operation, `ShrinkFile` writes
  metadata pages outside it, a page holds the records of several files, link
  counts and flags of a file are read and written without a mutex, and a read
  computes its block ids without one;
* crashes: an operation is several page writes, a format several area writes, and
  nothing repairs a half-done one;
* failed writes and exhausted resources: the early returns of the code, some of
  which undo and some of which do not, and some of which their callers ignore;
* the boundaries of the arithmetic: sizes at and around a block, a device smaller
  than its metadata, the capacity of a FileBlock, the length of an array of locks;
* the test programs under `test/` write data and read it back; none of
  them exercises any of the above.

What makes the components correct: a data block has one owner; what a free list
holds is free; a file has blocks for all its bytes, and its bytes are its own;
the device can be mounted after a crash at any moment, and every operation is
then done or not done; what an operation that returned did is on the device;
directories form a tree; a descriptor stays with its file and an open file stays;
a mount finds all files or none; every operation returns.

## Modules

| Module | Models | Role |
|---|---|---|
| `FileStore` | `file_handle.cc`, `file.cc` (metadata part), `file_block.cc`, `file_block_handle.cc`, `block_handle.*` | the metadata engine of files |
| `NameTable` | | abstract specification: a table from names to sizes on which every file operation is one step |
| `DirTree` | `dir_handle.cc`, `directory.cc`, parts of `file_system.cc`, handlers of `bfs_fuse.cc` | the directories |
| `PathTree` | | abstract specification: a prefix-closed set of paths that changes at its leaves |
| `OpenFiles` | `fd_handle.h`, `file_handle.cc` (open, close, dup, unlink), `file_system.cc` (locks), handlers of `bfs_fuse.cc` | descriptors and the life of an open file |
| `FileIO` | `file.cc` (data part), handlers of `bfs_fuse.cc` | reads, writes and sizes, down to the bytes |
| `ByteFiles` | | abstract specification: files are independent sequences of bytes |
| `Layout` | `super_block.cc`, `comm_utils.h`, `meta_defines.h` | offsets and counts of a device, as operators |
| `Mount` | `file_system.cc`, `super_block.cc`, `device.cc`, `shm_manager.cc`, the `FormatAllMeta` and `InitializeMeta` of the handles, the tools | format, check and mount; extends `Layout` |
| `FileStoreProofs`, `FileHandleProofs`, `FileBlockProofs` | | theorems about the state in memory of `FileStore` |
| `CrashProofs` | | theorems about the device of `FileStore`, and that it implements `NameTable` |
| `DirTreeProofs` | | theorems about `DirTree`, and that it implements `PathTree` |
| `OpenFilesProofs`, `UnlinkProofs` | | theorems about `OpenFiles` |
| `MountProofs` | | theorems about `Mount` |
| `MCFileStore`, `MCDirTree`, `MCOpenFiles`, `MCFileIO`, `MCMount` | | symmetry sets for TLC |

The modules meet where the components do. `FileStore` and `OpenFiles` share the
files: `FileStore` has what happens to the metadata and blocks of a file that is
not open, `OpenFiles` who keeps a file alive and when it is removed. `FileIO` takes
a file as `FileStore` leaves it after each operation, a size and a list of block
ids. `Mount` sees of `FileStore` and `DirTree` which metas point to which, and the
checks under which the operations use, move and clear one; it has in return the
format, the search for the device and the refusals of the mount in full.

### FileStore

The variables `fmeta`, `fbmeta` are the tables in memory and `disk_fmeta`,
`disk_fbmeta` the device. `free_fhs`, `free_fbhs` and `pool` are the free lists
and the pool of data blocks, `created_files` the map from a name to its handle,
`item` the FileBlock attached to a file. `item_maps_` is a map from cuts to
FileBlocks, but cut 0 is the only one the code ever takes. `pc` and
`loc` are each thread's place in the code and its locals, `fh_mutex` the holder
of `FileHandle::mutex_` where it is held over several steps.

A step is one critical section or one device write. A section that the code
runs entirely under `FileHandle::mutex_` is one step with the guard `MetaGuard`.
The section of `RemoveParentFile`, which holds the mutex over two device writes,
takes three steps. The two `WriteMeta` calls of `ShrinkFile` that are made
without the mutex are split in two: the page content is read, and lands on the
device later. A record's `ok` says that its crc matches its content: a
record that was changed in memory and not yet sealed by its own `WriteMeta` may
go to the device with a neighbour's page and then fail the mount.

The operations:

* `CreateFile`: `CreateNew` (claim the head of the free list), `CreateWrite`
  (persist), `CreateAdd` (enter in the maps);
* `ExtendFile`: `ExtendStart`, `ExtendBlocks` (take block ids, or put a new
  FileBlock back), `ExtendFb` (fill and persist the FileBlock), `ExtendSize`;
* `ShrinkFile`: a file is shrunk by making a new one, copying the part that
  stays, exchanging the two under the name and recycling the old one.
  `ShrinkStart`, `ShrinkFb`, `ShrinkCopy`, `ShrinkDetach`, `ShrinkAttach`,
  `ShrinkWrite`/`ShrinkLand`, `ShrinkWriteFb`, `ShrinkWriteOld`/`ShrinkLandOld`,
  then `RecycleBlocks`, `RecycleFb`, `RecycleMeta`, `RecycleChild`.
  `ShrinkFault` is the null FileBlock that the code dereferences for a file with
  a size and no FileBlock; the process ends;
* `unlink` of a closed file: `UnlinkStart`, `UnlinkFb`, `UnlinkMeta`,
  `UnlinkNames`;
* `rename`: `RenameFile`, one section under the mutex;
* `Mount` (the three `InitializeMeta` and their refusals, `MountOk`), `Crash`.

`Init` is a formatted device that is not mounted. Every device write may fail,
at most `MaxFailures` times, and then takes the code's error path.

Operations on one name do not overlap (`Free`): the kernel holds the inode or
directory lock during truncate, unlink, rename and create. Users of the library
that do not serialise these calls are outside the model.

### DirTree

A path is a sequence of components, and every `DirMeta` stores its full path, as
in the code. `CreateDirectory`, `MkdirWrite` (`MkdirTries` attempts, three in the
code), `MkdirAdd`; `DeleteDirectory`, `RmdirWrite`, `RmdirRemove`;
`RenameDirectory`; `OpenDirectory`, `OpenInc`, `CloseDirectory`; `Mount`,
`MakeMountPoint`, `Crash`. The handlers `mfs_mkdir`, `bfs_rmdir`, `mfs_rename`,
`bfs_opendir` and `bfs_releasedir` quantify over their arguments. All page writes
are made under `DirHandle::mutex_`, so each is one step. `Unlocked` is the kernel's
lock of the directories that an operation changes, `Opening` and `Removing` libfuse's
path locks. With `LeafRenames` clients rename only directories without
subdirectories, to paths that are free; without it the code's behaviour on the rest
is in the model too (`dir_rename`).

`TreeAtomic` maps the device to `PathTree` by the paths of the used metas whose crc
matches (`DurableNames`). The crc matters: a meta that a mkdir has claimed may reach
the device with another thread's page, but it is no directory before its own write.

### OpenFiles

`free_fd_pool` is the pool of `FdHandle`, `open_files`, `created_files` and
`created_fhs` are the maps of `FileHandle`, `file` the `File` objects with their
link count and flags, `handle` the kernel's open files with the `fi->fh` that
blockfs gave them, `stream` the descriptors of directory streams. `kept` says that
the file still has its metadata and blocks.

* open and create: `OpenLookup` (the flags, `VerifyOpenExistFileFlag`), `NewFile`,
  `CreateAdd`, `GetFd`, `AddOpenFile`, `IncLink`; `OpenTmp` for `O_TMPFILE`, `Mknod`.
  The handlers store the -1 of a failed open in `fi->fh` and report success
  (`OpenFails`), and a pool that is empty gives out -1 as a descriptor, because the
  test `fd < 0` is made on an unsigned variable (`GetFd`);
* flush is close of dup (`Flush`, `Dup`), release is close: `Close`, `CloseCheck`,
  `CloseRemove`, `CloseEnd` under one hold of the mutex (`fh_mutex`). The unguarded
  accesses of other threads to the link count and the flags interleave with them;
* unlink: `Unlink`, `UnlinkCheck`, and `UnlinkMark` or `UnlinkBlocks` and
  `UnlinkNames`; the test of the link count and the flag are not under the mutex;
* `Lock`, `LockSet`: `FcntlFile` tests and sets without a lock.

The client discipline: the kernel sends the release of a handle last (`Unused`). With
`PathLocks`, requests on one path are kept apart as far as libfuse and the kernel do it
and no further (`Free`, `MayOverlap`):

* libfuse has a reader/writer lock for the path of each node. open, flush, release and
  lock take it shared, so that two opens, or an open and the close of another handle, of
  one file overlap; unlink takes it exclusively;
* create, mknod and unlink of one name exclude each other through the kernel's lock of
  the directory, and create overlaps with the requests on the handles of that name;
* once an unlink returned, the nodes of the open handles have no name
  (`NodesUnlinked`), and their flush, release and lock take no lock at all. `O_TMPFILE`
  has none from the beginning (as far as it is used: the kernel does not pass it on to
  libfuse, and only a user of the library reaches that code).

By default libfuse renames a file that is open instead of sending its unlink; an unlink
reaches an open file with the option `hard_remove`, and from users of the library.
`PathLocks = FALSE` are direct users of the library, who have none of these locks.

`lost`, in a handle, is history. A file that was unlinked while it was open keeps its
name in `created_files_` until its last close, and open finds it by that name (also a
temporary file by the name made of its handle). When such an open counts its link after
the last close has read a count of 0, or after the file was removed (`RemovalDecided`),
the handle it returns is on a file without blocks. That is what the code does, and what
`OpenFileKept` excepts.

### FileIO and ByteFiles

A file is its size and its block ids, `disk` the bytes of every block. A byte
is zero or names the file and the offset it was written for, so that a byte in the
wrong place shows. Requests are split (`Split`, `Pieces`) into pieces of one block;
each piece is one step (`Move`), since the code moves it under the lock of its block
(`ReadBlockData`, `WriteBlockData`); the end of a request moves `append_pos_`, that of
a pread or pwrite too (`Done`). `Pwrite` past the end goes through `Extend`; `Shrink`,
`ShrinkSwitch` and `Recycle` are the steps of `ShrinkFile` that change what a reader
sees. The kernel's inode lock admits one write or truncate of a file at a time
(`NoWriter`); direct reads overlap everything. Two things are coarser than the code:
the truncation to 0 that `open` with `O_TRUNC` makes is taken for one of these
truncates, although the kernel does not hold the inode lock over every such open, and
`ShrinkSwitch` is one step for the exchange of the two files, whose parts `FileStore`
has one by one.

`ByteFiles` is what users expect: a request moves the bytes it asked for, from its
offset on and in order, of its own file; a change of size keeps the bytes below both
sizes. What a file's new bytes hold is left open there, and so is what a read returns
whose file is shrunk under it (the blocks may be another file's by then). The
refinement maps `content` to the bytes that the size and the block ids give, and
`io` to the pieces moved so far.

### Layout and Mount

`Layout` computes the offsets and counts of `SuperBlock::FormatAllMeta` with the
rounding of the code and the unsigned subtraction (`% Width`, 2^64).

`Mount` is one process on several devices. A table is a function from index to what
the record there points to, or `Free`, `Bad` (the crc does not match, nor will it),
`Temp` (of a temporary file) or `Spoilt` (in use, and refused by `InitializeMeta`). `Format`, `FormatSuper`, `FormatArea` write the super block and the
three tables in the code's order; `FormatStops` leaves any part of a table written.
`MountFileSystem` and `OpenTarget` go through the devices, `Open` keeps in the members
what the calls before the failing one stored, `PrefetchUuid` takes the first device
with the uuid (every format writes the same one), `ShmInitialize` reads all metadata
within the device's bounds, `InitializeMeta` accepts or refuses it and clears the
records of temporary files, each with a device write that may fail. `Check` is the
tool's. `Stop` is a crash or an unmount anywhere.

What a mounted file system does to its metadata is seen here as writes of one meta, under
the checks of the operations and in their order. No step asks whether a mount would
accept the result:

* `Use`: mkdir and create find the directory they make something in, an extension is one
  of a file (`Owners`) and takes a block (`BlockLeft`); rename moves a file or a
  directory without subdirectories to a directory that exists (`Movable`);
* `Clear`: rmdir finds the directory empty and refuses the mount point, and a file's
  meta is cleared after its FileBlocks (`PointedTo`). A `Stop` between any two of these
  writes is a crash within unlink, create or extend;
* three steps spoil a meta, each of them a way in which the code does so. `StalePath`: a
  rename leaves the stored path of a subdirectory without a parent, or goes onto an
  existing path (`dir_rename`). `ClaimedTwice`: a FileBlock is written with a block that
  another one still has on the device (`store_shrink_crash`; with two threads also
  behind `ReleaseAll`). `StaleCrc`: a page is written while one of its metas was claimed
  by a create or mkdir, or had its time stamps set, and has no crc yet. A spoilt meta is
  made good by the write it was waiting for, by another rename or by its removal.

Writes made while mounted succeed here; the failing ones are those of `FileStore` and
`DirTree`.

## Runs

Bounds common to the store runs: two names, up to three blocks of two units
each, two block ids per FileBlock, two file metas per page (so that a page has a
neighbour and there is more than one page), and offsets inside a block, at its
boundary and past it. The number of handles is finite and unlink and rmdir do not
return a handle to the list (as in the code), so the number of operations
between two mounts is bounded without a counter, and where that means that the
system really stops, deadlock is not checked.

| Run | Threads | Shows |
|---|---|---|
| `store_concurrent` | 2 | all operations over a pool too small for both: no block has two owners (`BlockExclusive`), every byte has a block (`SizeCovered`) |
| `store_crash` | 1 | no shrink, two crashes at any moment: `Mountable`, `DurableWhenSettled`, `NothingLost`, and refinement of `NameTable` (`CrashAtomic`) |
| `store_faults` | 1 | all operations, a failed write and a crash: `TypeOK`, `FreeFhsSound`, `FreeFbsSound`, `FreeMetasValid` |
| `store_live` | 2 | fair scheduling: every operation returns (`OperationsReturn`) |
| `dir_tree` | 2 | all directory operations, a crash and up to two faults: `TypeOK`, `FreeDhsSound`; rmdir removes nothing that is open or has a child (`OccupiedKept`); a directory that can be found is on the device (`DirsDurable`); `Mountable`, and refinement of `PathTree` (`TreeAtomic`) |
| `fd_table` | 2 | all operations on open files over three descriptors: `TypeOK`; a descriptor stays with its file (`HandleOwnFile`), link counts are exact (`LinkCountExact`), an open file is kept, the lost handles excepted (`OpenFileKept`), a deleted or temporary one is removed by the last close (`ReapedWhenClosed`), no lock outlives its descriptors (`LockNeedsOpenFile`) |
| `file_io` | 2 | reads, writes, seeks and changes of size of two files over three blocks, a device error: refinement of `ByteFiles` (`FilesAreBytes`) |
| `mount` | 1 process | two devices of four sizes, three of them too small to be mounted, three failures or metas written in all, at most two of them failures: `TypeOK`, all files or none after an interrupted format (`FilesAllOrNone`), `BlocksInDevice`, `DescriptorsAgree`; a formatted device is refused only while a meta is spoilt (`FormattedMounts`) |
| `store_shrink_crash` | 1 | violation of `BlocksClaimedOnce` |
| `dir_rename` | 1 | violation of `ParentsExist` |
| `io_gaps` | 1 | violation of `GapsAreZero` |
| `mount_locks` | 1 process | violation of `LocksCoverDevice` |

Why the bounds are enough for the cases to happen:

* `store_crash` and `store_faults` have one thread for a reason: the window between
  the claim of a meta and its own `WriteMeta` in `CreateFile`, or between
  `PutFreeBlockId` and the clearing of the FileBlock in `ReleaseAll`, is open to a
  second thread's page write, and a crash then leaves a device that cannot be
  mounted. With one thread the claim is about the order of the writes alone. Shrink
  is left out of `store_crash` because `store_shrink_crash` shows that it does not
  have the property. `DirTree!Mountable`, with two threads, names the window
  instead: it excuses the crc of a meta that a running mkdir has claimed.
* `dir_tree`: paths of depth two over two components give siblings, parents and
  cousins; two metas per page and four in all give pages with neighbours. Two
  attempts of mkdir and two faults let it fail for good. `OccupiedKept`,
  `DirsDurable` and `TreeAtomic` speak of executions without failed writes,
  `Mountable` also of the time before the first crash; a failed rmdir or a mkdir
  that gives up leaves memory and device apart, as the code does.
* `fd_table`: one name, two files and two kernel handles, so that a name is unlinked
  and made again while the first file is open, next to a temporary file; three
  descriptors, one of which a directory stream takes, so that they run out and are
  reused. The pool runs out when flushes and opens overlap; after that the count of
  a file that shares -1 may grow, so `MaxLinks` bounds it, and no further stream is
  opened. The properties with
  `~exhausted` speak of the time before that, and after it only opens, flushes and
  releases go on (`LateOps`), which is what passes -1 around. The run has about three and
  a half million states.
* `file_io`: a write at offset 1 of length 2 starts inside a block and ends in the
  next one, and extends the file to 3; the size 1 cuts inside a block, with the copy
  into a new block, and the three blocks go from one file to the other. `read` starts
  at whatever position earlier requests left; the others start at a position of at
  most `MaxPos`, since pread and pwrite would move it without end, and lseek goes
  back to the start.
* `mount`: the four sizes are a device without room for its super block, without room
  for its tables, without room for its metadata rounded to a block (where the count
  wraps and the bounds of `ReadAllMeta` must refuse), and one with blocks. There are
  three directories and three files, and two FileBlocks, as few as `Layout` admits.
  Failures and writes of metas are bounded together (`MaxEvents`, three): they make two
  directories and rename one, or a file and its FileBlock and fail once while the
  temporary file is cleaned, or make, spoil and repair a meta; the root is made by the
  mount.

### Findings

* `ShrinkFile` persists the new FileBlock while the old one still claims the same
  blocks. A crash before `ParentFile::Recycle` leaves a device that the mount
  refuses (`store_shrink_crash`).
* `Directory::rename` does not change the stored paths of subdirectories, and the
  next mount does not find their parent (`dir_rename`).
* A write past the end of a file does not fill the gap with zeros, as the comments at
  `pwrite` and `lseek` say; the gap holds what the blocks' last owner wrote
  (`io_gaps`).
* The array of block locks has a fixed length that a device of a supported size
  exceeds, and is indexed unchecked (`mount_locks`).

### Known behaviours without a run

Seen while modelling; each follows from the modules or from the lines named.

* `ExtendFile` persists a new FileBlock before the size. A crash in between leaves
  an empty file with a FileBlock, against the assertion at `file.cc:297`.
* A shrink that runs out of FileBlocks or blocks leaves its new FileMeta claimed
  with a stale crc, and, for want of a block, its new FileBlock
  in use until the next mount. A neighbour's page write makes the claim durable, and the
  next mount fails without any crash.
* The two page writes that `ShrinkFile` makes outside the mutex (`file.cc:571`,
  `:582`) can land after a newer write of the same page and undo another thread's
  finished operation on the device.
* Once the pool of descriptors ran out, every further open file has descriptor -1,
  and they share one entry of `open_files_`.
* An unlinked file that is still open, and a temporary one, can be opened by name. When
  such an open overlaps the last close, libfuse locking the path for neither against the
  other, the handle it gets is on a file whose blocks are in the pool
  (`file_handle.cc:690` against `:707`). A second unlink of such a name, sent while the
  last close removes the file, can read the list of blocks before that close clears it,
  and give the blocks back a second time (`file_block.cc:53`).
* Without libfuse's path locks, a close between the test and the flag of unlink, or an
  unlink between the look-up and the link count of open, loses or removes an open
  file, unlinked before or not. Direct users of the library have no such locks.
* Rename onto an existing directory leaves two used metas with one path
  (`directory.cc:281`); `RenameDirectory` reports success as failure and failure as
  success (`dir_handle.cc:583`).
* Every format writes the same uuid, and the mount takes the first device that has
  it, not the one the caller names. An `Open` that fails leaves its descriptors open.

### Fairness

`LiveSpec` asks for weak fairness of `Mount` and strong fairness of each
thread's `Continue`. The operating system runs every thread. Strong fairness
is needed because a thread waiting for `FileHandle::mutex_` is enabled only
while nobody holds it; a waiter on a mutex that is released again and again gets
it in the end since futex wake-ups are queued. Nothing is assumed about
`Begin`: no client is obliged to issue calls.

## Proofs

The runs show the properties on small instances, the theorems for every value of the
constants that the named assumptions admit. Each rests on an inductive invariant,
which TLC checked on the constants of the run before it was proved; there is one lemma
per action, and lemmas for the kinds of steps that many actions share.

### FileStore

The theorems hold for every value of the constants that `StoreAssumption` admits:
any sets of threads and names, any finite set of blocks, any number of handles,
any page and block size, any bounds on crashes and failures. The assumptions say
that the sizes are positive, that block 0 is a block and that `None` is neither a
name nor a thread.

    THEOREM TypeCorrect == Spec => [](TypeOK /\ LocalsSet)       (FileStoreProofs)

`TypeOK` is not inductive: a thread in the middle of an operation uses
`loc[t].fh`, `loc[t].new` or `loc[t].fb` as an index of a table, and these are
`None` while they are unset. The strengthening `LocalsSet` says for each place
in the code which locals are set there: the name and the handle from the first
step on, the new handle from `ShrinkStart` on, the FileBlock where the code
dereferences it. That is the fact on which the absence of a wild index rests.
There is one lemma per action, and lemmas on `BlocksNeeded`, `First`, `Last`,
`PageWritten`, `WriteMeta` and the other operators say what these return.

    THEOREM FreeFhsAreFree == Spec => []FreeFhsSound              (FileHandleProofs)

The free list of file handles holds no handle twice and none that a name, a
FileBlock or a thread still has. The inductive invariant `HandlesOwned` adds
the reasons:

* `IdleHoldsNothing`: a thread between two operations has no locals, and a file
  system that is not mounted has no thread in an operation (for the mount);
* `HeldApart`: no two threads hold a handle or a name in common. It rests on the
  serialisation of operations on one name and on the list being free of
  repetitions;
* `NewIsNew`: the file a shrink makes is not the one it replaces;
* `NamedOnce`: a handle has at most one name, and a thread's handle at most the
  thread's;
* `OldDetached`: between `RemoveFileFromoDirectory` and the return of the old
  meta, the name is not the old file's, and the FileBlock is gone before the
  meta is given back. Without this the handle that `ParentFile::Recycle` puts
  into the list might still be a file's.

Most actions neither take nor give up a handle and follow from one lemma
(`KeptOwned`); the first steps of the operations follow from `StartOwned`, the
changes of the name maps from `NamedOwned`; `RecycleMeta` and `Mount`, the only
steps that put handles into the list, have proofs of their own. For the mount
the refusal of a FileBlock without its file is what shows that an unused meta has
no FileBlock.

    THEOREM FreeMetasAreValid == Spec => []FreeMetasValid         (FileHandleProofs)

As long as no device write failed, every handle in the list passes the test that
`NewFreeFileNolock` makes of the head, so the list is never blocked by a meta that is
used or has a size. `MetasUsed` says that a meta without use has no size, in memory, on
the device and in the page that a `WriteMeta` outside the mutex is about to write
(`TablesSized`, `PagesSized`: a mount reads what such a page left), that the metas of a
running operation and of a named file are used (`HeldUsed`, `NamedUsed`; the exception
is the moment in unlink between clearing the meta and taking the name away), and that
the list has unused ones. It holds while `failures = 0`: an unlink whose write fails
returns with the meta cleared and still named, and a later extend gives it a size.

    THEOREM FreeFbsAreFree == Spec => []FreeFbsSound              (FileBlockProofs)

No extend and no shrink takes from `free_fbhs_` a FileBlock that has ids or that a file
or another thread has, whatever fails. The invariant `FbsOwned` is about ownership of
FileBlocks, on top of `HandlesOwned`:

* `FbsBlank`: a FileBlock that is not used is as formatted, in memory and on the device;
  the mount lists by the flag alone;
* `ItemOnce`: a FileBlock is attached to one file;
* `FbsApart`, `ItemHeld`: no two threads have a FileBlock in common, and one that a
  thread has is attached to no file but the thread's own, so what it clears or fills is
  nobody else's;
* `FbsPlaced`: what the code relies on at each place. A new FileBlock is unattached until
  it is persisted and still fresh when `ExtendFile` puts it back; unlink and recycle
  clear the FileBlock that is attached to their own file, and detach it.

    THEOREM BlocksAreExclusive == Spec => [](Calm => BlockExclusive)  (FileBlockProofs)
    THEOREM SizesAreCovered == Spec => []SizeCovered                  (FileBlockProofs)

No data block has two owners, and no byte of a file is without a block, until the first
crash or failed write (`Calm`; `SizeCovered` has the condition in itself). Both need one
invariant, since ownership depends on the sizes: `ShrinkFile` copies as many ids as the new
size has blocks, and where the old FileBlock has fewer, it copies unused slots, which hold
block 0. `BlocksOwned` says:

* `BlocksApart`: the pool, the threads and the files that no thread has are disjoint. What
  a thread has (`Claim`) are the ids that it took, those of its files and those in its
  FileBlock, except between giving the blocks of a file back and clearing its FileBlock;
* `IdsOnce`: a FileBlock lists no id twice, and no more than fit;
* `NamedCovered`: a named file that no thread has is covered, and has a FileBlock only if
  it has a size;
* `BlocksPlaced`: what the code relies on at each place. `ExtendFile` holds exactly the ids
  that the new size needs besides those of the FileBlock; the FileBlock that `ShrinkFile`
  made has none of the ids that `ParentFile::Recycle` will give back;
* `FirstMount`: what is mounted before the first crash is a formatted device.

`OwnOnly` is what a step of a thread leaves alone, `BlockStep` shows that such a step
keeps the invariant if what the thread hands around was its own, the pool's or of a file
it takes; each action then accounts for its blocks. The lemmas about `KeptBlocks`,
`BlocksNeeded` and `NumBlocks` are the arithmetic of rounding. The condition cannot be
dropped: after an unlink whose FileBlock could not be written, a file has a size and a
cleared FileBlock; after a crash between the FileBlock and the size of the first extend, a
file has size 0 and a FileBlock, the next extend fills another one that is not attached,
and the size exceeds the blocks. A shrink of either file then takes block 0, whoever has it.

The last four theorems are about what the metadata writes leave on the device. They are
about clients that do not shrink files (`NoShrink`): `store_shrink_crash` shows that the
device cannot be mounted at one moment of a shrink, and a shrink that runs out of blocks or
FileBlocks loses its new FileBlock and leaves its new meta, which the next write of the page
makes durable (TLC finds both with one thread, where the pool or the list runs out).

    THEOREM ReturnedIsDurable ==                                      (CrashProofs)
        ASSUME NoShrink PROVE Spec => [](failures = 0 => DurableWhenSettled)
    THEOREM OperationsAreAtomic ==
        ASSUME NoShrink, PagesApart PROVE Spec /\ [](failures = 0) => CrashAtomic
    THEOREM AlwaysMountable ==
        ASSUME NoShrink, OneThread PROVE Spec => [](failures = 0 => Mountable)
    THEOREM NoBlockIsLost ==
        ASSUME NoShrink, OffsetsFit PROVE Spec => [](failures = 0 => NothingLost)

The condition on failures stands in the theorems and not in the properties, since the runs
of these make no device write fail. After a failed write memory and device differ and stay
so, as the code leaves them.

`ReturnedIsDurable` is for any number of threads, crashes and mounts, and for truncates
past what a FileBlock holds, which `store_crash` leaves out for the sake of
`NothingLost`: an extend refused for that reason leaves its FileBlock fuller in memory
than on the device, the one difference that `Persisted` allows. `store_crash` checks the
property with one thread; with `Threads = {t1, t2}`, `Offsets = {2, 6}` and one crash
TLC finds no error either. `Plain` says that no thread is at a step of a shrink. The
invariant `Synced` says of all metas at once, because every page write carries the
neighbours along:

* `MetasWritten`: a meta is on the device as it is in memory, except that of a create that
  has not written it, of which the device has the old one or the claimed one;
* `NamesKnown`: the map of names and the metas agree, and a used meta has its name in the
  map or is being created. It holds through rename, which changes meta, map and device in
  one critical section, and through the steps of unlink;
* `DiskNamed`, which follows: no name is on the device twice, so that the mount, which takes
  the last of two, makes no choice.

`FbsWritten` is the same for FileBlocks: one that a file has is `Persisted`.

`OperationsAreAtomic` is the refinement of `NameTable`. `TableFound` gives the entry of a
name in `DiskTable` from its meta, `TableStep` the step of the table from a write that
changes one meta; create, the size of an extend, the clearing of an unlink and the rename
are one step of `NameTable` each (`CreateAtomic`, `TruncateAtomic`, `UnlinkAtomic`,
`RenameAtomic`), and every other step, the crash and the mount included, changes nothing.
`Intact` says why a write changes one entry only. With two threads and pages of several
metas it does not: the page write of a neighbour makes the meta that a create has claimed
durable before its own `WriteMeta`, the file is then on the device although its crc is
not valid, and a crash leaves a device that the mount refuses. `PagesApart` (one thread or
one meta per page) excludes this and nothing else.

`AlwaysMountable` needs one thread for a second reason: `ReleaseAll` puts the blocks of an
unlinked file into the pool before the FileBlock is cleared on the device, and another
thread can persist them in its own. `Filed` says that each used FileBlock on the device is
the one its file has, that the file is on the device, and that unlink clears them in that
order; `FilesApart` takes from `BlocksOwned` that no two files have a block in common,
except the one whose blocks are just in the pool.

`NoBlockIsLost` is again for any number of threads. `NothingLost` speaks of moments when
nothing is in flight; the invariant `Lossless` says where everything is in between: each
block in the pool, in a file that no unlink is giving back, or in the hands of an extend
(`BlocksKept`), each FileBlock in the list, attached, or new in an extend (`FbsListed`), and
no file has more blocks than its size needs (`FilesFit`), which makes the ids of an extend
fit (`Needs`, `NeededFits`). `OffsetsFit`, that no truncate asks for more than
`kFileBlockCapacity` blocks, is needed: `ExtendFile` refuses such a request after it took
the ids, and does not give them back.

### DirTree

    THEOREM DirTypeCorrect == Spec => []TypeOK
    THEOREM FreeDhsAlwaysSound == Spec => []FreeDhsSound
    THEOREM OccupiedAlwaysKept == ASSUME LeafRenames PROVE Spec => []OccupiedKept
    THEOREM DirsAlwaysDurable == ASSUME LeafRenames PROVE Spec => []DirsDurable
    THEOREM AlwaysMountable == ASSUME LeafRenames PROVE Spec => []Mountable
    THEOREM TreeAlwaysAtomic == ASSUME LeafRenames PROVE Spec => TreeAtomic

`DirAssumption` asks for positive sizes and a `None` that is no thread; components,
depth, threads, table, page size, faults and crashes are arbitrary. The first two
theorems need nothing else: not even renames of directories with subdirectories, which
break the tree, make two mkdirs get one meta. Their invariant `DInv` adds to the two
properties that a Directory has one path (`PathsOnce`), that the meta of a running
mkdir has no path and no second mkdir (`MadeApart`), what is in the locals
(`LocalsFit`), and that the mount point is in the table before anything else
(`RootFirst`), so that the list has a head when `MakeMountPoint` takes it.

The others speak of the time before the first failed device write, and of clients that
rename directories without subdirectories, to free paths: `dir_rename` shows that the
code does not have them otherwise. The invariant `TInv` is `failures = 0 => Tree`,
which describes the tree twice, in memory and on the device:

* `Family` and `Rooted`: the maps of children and the map of paths are the same tree;
* `MetasNamed`, `UsedKnown`, `OpenUsed`: each meta agrees with the path it is found
  under, and a used meta is a directory's or a running mkdir's;
* `Making`, `Unmaking`, `OpeningFound`: what a mkdir, rmdir or opendir checked still
  holds when it acts on it. This is where `LocksApart` is used, the kernel's locks of
  the path and of its parent: without them another thread makes a child under a
  directory between the check and the write of its rmdir;
* `Synced`: the device has the metas of the memory, except that a claimed one may be
  there with a stale crc or not yet. Every page write carries its neighbours along, so
  this must hold for all metas at once.

`TreeAlwaysAtomic` is the refinement of `PathTree`. `DurablePaths` says what
`DurableNames` is in terms of the memory; then the four writes that change it are each
one step of `PathTree` (`MkdirWriteAtomic`, `RmdirWriteAtomic`, `RenameAtomic`,
`MakeMountPointAtomic`) and every other step, the crash and the mount included, changes
nothing (`AtomicStep`).

### OpenFiles

    THEOREM OpenTypeCorrect == Spec => []TypeOK                    (OpenFilesProofs)
    THEOREM HandleAlwaysOwnFile == Spec => []HandleOwnFile
    THEOREM LinkCountAlwaysExact == Spec => []LinkCountExact
    THEOREM LockAlwaysNeedsOpenFile == Spec => []LockNeedsOpenFile
    THEOREM OpenFileAlwaysKept ==                                  (UnlinkProofs)
        ASSUME PathLocks PROVE Spec => []OpenFileKept
    THEOREM AlwaysReapedWhenClosed ==
        ASSUME PathLocks PROVE Spec => []ReapedWhenClosed

`OpenAssumption` asks for finitely many files and threads and for names, files and the
markers of "nothing" being different things. The first four theorems do not need
any path locks. The invariant `OInv` is about ownership of
descriptors: each is in the pool once (`PoolOnce`), or with exactly one handle, stream
or thread (`NotPooled`, `OneHolder`), and the table has under it the file its owner
entered (`TableAgrees`). Descriptor -1, which an empty pool gives out to everybody, is
excepted, and `NoBadFd` says that there is none until the pool was found empty.
`LinksCounted` states the link count as the cardinality of one set, `Linked`, so that
each step adds or removes one element; `CountedOnce` derives `LinkCountExact`, whose
sets of threads are in bijection with descriptors because a descriptor has one owner.
`LocksLinked` and `HandlesInUse` are what the two steps of `FcntlFile` need: the
release of the handle waits for them.

What becomes of an open or an unlinked file does depend on the path locks: test and
act of unlink are separate steps, and so are look-up and link of open. But open, flush,
release and lock of one file overlap freely, and the requests of an unlinked node
overlap with everything, so a thread cannot rely on being alone on its file. The
invariant `SInv`, that `Shared` holds until descriptors run out, says what is left:

* `Apart`: two requests on one path are of kinds that may overlap; `FilesNamed` and
  `Named`: a request has the path of its file, or a handle whose node lost its name,
  and then the file is to be removed (`Doomed`);
* `ThreadsKnow` (`Knows`): what holds at each place of the code although others work on
  the file. A thread that opens a file has it kept or doomed; an unlink that read a
  count of 0 still has that count, unless the file is doomed, since it alone has the path
  (`UnlinkAlone`) and no handle is on it (`NoHandleOn`);
* `FreshAlone`: a file that was made and is not in the maps is its maker's;
* `MapsAgree`, `KeptInMaps`: the two maps have the same files, and a file has its
  metadata exactly while it is in them, up to the threads in between;
* `HandlesKnown`: the file of a handle is kept or the handle is lost, only a doomed file
  has lost handles, and when a thread has decided to remove a file, all its handles are
  lost;
* `Reaped`: a doomed file without links is removed, or some thread is about to link it,
  close it or remove it. Overlapping closes do not forget it, because the one that
  brings the count to 0 tests it under the same hold of the mutex.

`ChangesOne` and `Undisturbed` say what a step on one file leaves to the other threads,
and `FileShared` that this is enough.

### Mount

    THEOREM BlocksAlwaysInDevice == Spec => []BlocksInDevice       (MountProofs)
    THEOREM DescriptorsAlwaysAgree == Spec => []DescriptorsAgree
    THEOREM MountTypeCorrect == Spec => []TypeOK
    THEOREM FilesAlwaysAllOrNone == Spec => []FilesAllOrNone
    THEOREM FormattedAlwaysMounts == Spec => []FormattedMounts

These hold for any devices of any sizes, any layout and any width of the arithmetic
that `LayoutAssumption` and `MountAssumption` admit (positive sizes; `NoDev` is not a
device; the metas of the small files fit the largest device, which makes the
subtraction for `large_file_num` a natural number). `BlocksInDevice` is about the
moment after a mount, but its reasons lie at the format and at the reading of the
metadata, possibly in another process. The invariant `MInv` therefore carries:

* `DeviceTypes`, the types of the device's state;
* `DescriptorsAgree` itself, so that what is read through one descriptor and bounded
  by `dev_size` is the same device's;
* `SuperCounts`: a super block counts the blocks of its own device, in wrapping
  arithmetic, whatever the size;
* `MetaRead`: once the metadata was read, the data area starts within the device,
  which is what excludes a wrapped count;
* `PoolCounts`: the pool has what the super block counts.

`CountFits` is the arithmetic: where the data area starts within the device, the
wrapped count times the block size stays in it, even when `Width` is small, because
wrapping only makes a natural number smaller. Steps that end the process follow from
`ExitStep`, steps that only move on from `KeptStep`, opens from `OpenStep`.

The last three theorems follow the metadata through the steps of a format and
of the cleaning of temporary files, each of which may stop half way, and through later
processes. `FInv` says which areas a running format has written (`WrittenInOrder`),
that the loaded metadata is that of the device and acceptable once accepted
(`LoadedIsThere`, `LoadedAccepted`), and, the heart of it, that metadata is lost in
order (`LostInOrder`): once the record of a file is lost that was not temporary, all
directories are gone, and once that of a FileBlock is, all files are too. Since
`InitializeMeta` refuses a file without its directory and a FileBlock without its file,
a mixture of old and new is either complete or not accepted (`LeftAllOrNone`). Written
in another order, directories last, a format would not have the property.

`FormattedAlwaysMounts` is about what happens to a device after a format: mounts,
cleanings, every use and crashes. `Linked(m, E)` says that each used meta points to a
used one or holds a value in `E`: without exceptions it is what `InitializeMeta` accepts
(`LinkedAccepted`), and with `{Spoilt}` it is what the operations preserve
(`LoadedAccepted`, `FormattedAccepted`). `OneMetaLinked` is the argument: a meta that
comes into use or is moved points to one in use, because the operation found it, and one
that is cleared has nothing that points to it, because the directory was empty or the
FileBlocks went first (`UseKeeps`, `ClearKeeps`). The mount point points to itself and
stays. So a formatted device is refused only while a meta is spoilt
(`UnspoiltAccepted`), and the three ways to spoil one are the ones listed above.

### Only model-checked

* `OperationsReturn`, liveness: fairness and `ENABLED` are outside the prover.
* `FilesAreBytes`, the refinement of `ByteFiles` by `FileIO`: requests are divided into
  pieces by recursion over their length, and what a recursion returns for every length is
  an induction over data that the provers cannot do.

Every other property of a passing run is stated by a theorem, some under the hypotheses
named above.

## Not modelled

* Directory listing (`readdir`, `rewinddir`) and the cached entries of a stream;
  `DeleteDirectory` by handle and `ForceRemoveAllFiles`, which nothing calls.
* `stat`, `statvfs`, dumps and exports, which only read; `copy_file_range`, which passes
  the file system's descriptors to the system call; extended attributes and the other
  handlers that do nothing.
* Time stamps, modes and owners; `parent_fh_` and `parent_size_`, which are written and
  never steer the control. `parent_files_` is determined by the thread that shrinks.
* `File::mutex_`: the operations on one file are serialised by the guards `Free` and
  `NoWriter`, which stand for the kernel's locks. The order in which rename and
  ftruncate take `FileHandle::mutex_` and `File::mutex_` is a hazard for direct users
  of the library and has no property.
* Torn writes: a 4K page lands entirely or not at all (a table of a format may land in
  part). Short transfers, which `wrapFull` repeats, are one transfer.
* Files inside directories: a key of `created_files_` is the pair of a directory
  handle and a name, and a name of `FileStore` stands for such a pair. `rmdir` of
  a directory that contains files is therefore not covered by `DirTree`.
* Shared memory segments under `/dev/shm` and their removal; `FormatFSData`, which
  nothing calls.
* Configuration parser, logging, option parsing and daemonising of the tools: text and
  process handling without state that the file system depends on. The token bucket is
  third-party code that nothing uses.

## Plan

* Files inside directories (composition of `DirTree` with the files' part of the
  directory maps), and directory listings.
