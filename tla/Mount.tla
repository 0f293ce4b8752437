------------------------------- MODULE Mount -------------------------------
(***************************************************************************)
(* Formatting, checking and mounting: how one process opens a device,      *)
(* writes the areas of Layout one after the other, or finds a device by    *)
(* its uuid, reads the areas into memory and accepts or refuses them       *)
(* (lib/file_system.cc, lib/super_block.cc, lib/device.cc,                 *)
(* lib/shm_manager.cc, the InitializeMeta and FormatAllMeta of the         *)
(* handles, tool/block_fs_tool.cc, tool/block_fs_mount.cc).                *)
(*                                                                         *)
(* A meta is bad (its crc does not match), free, or used and then known by *)
(* what it points to: a directory to its parent, a file to its directory,  *)
(* a FileBlock to its file, unless it is of a temporary file or is spoilt, *)
(* which is to say that a mount refuses it whatever it points to.  A page  *)
(* of an area is written or not; a write of an area that fails, or is cut  *)
(* short by the end of the process, leaves any of its metas rewritten.     *)
(* Every format writes the same uuid, and the mount takes the first device *)
(* that has it, whichever the caller named.                                *)
(***************************************************************************)
EXTENDS Layout, FiniteSets

CONSTANTS
    Devices,        \* block devices under /sys/block
    DeviceSizes,    \* sizes a device may have
    NumLocks,       \* length of BlockHandle::block_locks_
    MaxFailures,    \* bound on failed opens and writes
    MaxEvents       \* bound on those and the metas written while mounted, together

NoDev == "no device"

ASSUME MountAssumption ==
    /\ DeviceSizes \subseteq Nat /\ NumLocks \in Nat
    /\ MaxFailures \in Nat /\ MaxEvents \in Nat
    /\ NoDev \notin Devices

Dhs == 0 .. MaxFileNum - 1
Fhs == 0 .. MaxFileNum - 1
Fbs == 0 .. max_file_block_num - 1

Spoilt == -4    \* used, and refused by InitializeMeta: its path, its crc or a block
Temp == -3      \* used, and of a temporary file
Bad == -2
Free == -1
RootDh == 0

\* The areas of a device, as the metas in them.
Areas == [dirs : [Dhs -> {Spoilt, Bad, Free} \cup Dhs],
          files : [Fhs -> {Spoilt, Temp, Bad, Free} \cup Dhs],
          fbs : [Fbs -> {Spoilt, Temp, Bad, Free} \cup Fhs]]
Raw == [dirs |-> [i \in Dhs |-> Bad], files |-> [i \in Fhs |-> Bad],
        fbs |-> [i \in Fbs |-> Bad]]
Fresh == [dirs |-> [i \in Dhs |-> Free], files |-> [i \in Fhs |-> Free],
          fbs |-> [i \in Fbs |-> Free]]

VARIABLES
    device_size,    \* device -> its size
    super,          \* device -> curr_block_num in its super block, Bad if it has none
    areas,          \* device -> its metadata areas
    pc, job, todo,  \* the process: its place, what it was called for, devices to scan
    dev_fd_direct, dev_fd_cache, dev_size,   \* Device's members
    loaded,         \* the areas in memory
    block_num,      \* BlockHandle::max_block_num_
    saved,          \* history: the areas before the last format, or as last used
    formatted,      \* history: devices whose last format was reported a success
    failures, uses

device == <<dev_fd_direct, dev_fd_cache, dev_size>>
memory == <<loaded, block_num>>
history == <<saved, formatted>>
vars == <<device_size, super, areas, pc, job, todo, device, memory, history, failures, uses>>

NoJob == "none"

Init ==
    /\ device_size \in [Devices -> DeviceSizes]
    /\ super = [d \in Devices |-> Bad]
    /\ areas = [d \in Devices |-> Raw]
    /\ pc = "idle" /\ job = NoJob /\ todo = {}
    /\ dev_fd_direct = NoDev /\ dev_fd_cache = NoDev /\ dev_size = 0
    /\ loaded = Raw /\ block_num = 0
    /\ saved = [d \in Devices |-> Raw] /\ formatted = {}
    /\ failures = 0 /\ uses = 0

-----------------------------------------------------------------------------
(* Device *)

At(l) == pc = l
Goto(l) == pc' = l

\* The process ends; the kernel closes its descriptors and frees its memory.
Exit ==
    /\ pc' = "idle" /\ job' = NoJob /\ todo' = {}
    /\ dev_fd_direct' = NoDev /\ dev_fd_cache' = NoDev /\ dev_size' = 0
    /\ loaded' = Raw /\ block_num' = 0

\* Device::Open stops at the first call that fails: stat, the two opens, or
\* the ioctls.  The members keep what the calls before it stored.
OpenKeepsCache(d, stop) ==
    /\ dev_fd_direct' = CASE stop = "stat" -> dev_fd_direct [] stop = "direct" -> NoDev [] OTHER -> d
    /\ UNCHANGED dev_fd_cache
    /\ dev_size' = IF stop = "none" THEN device_size[d] ELSE dev_size
Open(d, stop) ==
    /\ dev_fd_direct' = CASE stop = "stat" -> dev_fd_direct
                          [] stop = "direct" -> NoDev
                          [] OTHER -> d
    /\ dev_fd_cache' = CASE stop \in {"stat", "direct"} -> dev_fd_cache
                         [] stop = "cache" -> NoDev
                         [] OTHER -> d
    /\ dev_size' = IF stop = "none" THEN device_size[d] ELSE dev_size

Stops == {"none", "stat", "direct", "cache", "ioctl"}

Close == dev_fd_direct' = NoDev /\ dev_fd_cache' = NoDev /\ UNCHANGED dev_size

\* The test before each read or write.
Anywhere(offset, len) == TRUE
InDevice(offset, len) == offset + len <= dev_size

Fails ==
    /\ failures < MaxFailures /\ failures + uses < MaxEvents
    /\ failures' = failures + 1

-----------------------------------------------------------------------------
(* Format: the super block first, then dirs, files, FileBlocks. *)

FilesSkipped(a) == CASE a = "dirs" -> "fbs" [] a = "files" -> "fbs" [] a = "fbs" -> "done"
NextArea(a) == CASE a = "dirs" -> "files" [] a = "files" -> "fbs" [] a = "fbs" -> "done"
FirstArea == "dirs"

AreaOffset(a) == CASE a = "dirs" -> dir_meta_offset [] a = "files" -> file_meta_offset
                   [] a = "fbs" -> file_block_meta_offset
AreaSize(a) == CASE a = "dirs" -> dir_meta_total_size [] a = "files" -> file_meta_total_size
                 [] a = "fbs" -> file_block_meta_total_size

Format(d, stop) ==
    /\ At("idle")
    /\ IF stop = "none"
       THEN /\ Open(d, stop) /\ Goto("format_super")
            /\ job' = "format"
            /\ UNCHANGED <<todo, memory, failures>>
       ELSE Fails /\ Exit
    /\ UNCHANGED <<device_size, super, areas, history, uses>>

FormatSuper(good) ==
    LET d == dev_fd_direct IN
    /\ At("format_super")
    /\ IF InDevice(0, PageSize) /\ good
       THEN /\ super' = [super EXCEPT ![d] = curr_block_num(dev_size)]
            /\ formatted' = formatted \ {d}
            /\ Goto(FirstArea)
            /\ UNCHANGED <<job, todo, device, memory, failures>>
       ELSE /\ IF InDevice(0, PageSize) THEN Fails ELSE UNCHANGED failures
            /\ Exit
            /\ UNCHANGED <<super, formatted>>
    /\ UNCHANGED <<device_size, areas, saved, uses>>

\* FormatAllMeta of one handle.
FormatArea(a) ==
    LET d == dev_fd_direct IN
    /\ At(a) /\ InDevice(AreaOffset(a), AreaSize(a))
    /\ areas' = [areas EXCEPT ![d][a] = Fresh[a]]
    /\ Goto(NextArea(a))
    /\ UNCHANGED <<device_size, super, job, todo, device, memory, history, failures, uses>>

\* The write of the area is refused, fails, or the process is killed in it.
FormatStops(a, S) ==
    LET d == dev_fd_direct IN
    /\ At(a)
    /\ IF InDevice(AreaOffset(a), AreaSize(a)) THEN Fails
       ELSE S = {} /\ UNCHANGED failures
    /\ areas' = [areas EXCEPT ![d][a] =
                    [i \in DOMAIN @ |-> IF i \in S THEN Free ELSE @[i]]]
    /\ Exit
    /\ UNCHANGED <<device_size, super, history, uses>>

FormatDone ==
    LET d == dev_fd_direct IN
    /\ At("done")
    /\ formatted' = formatted \cup {d}
    /\ saved' = [saved EXCEPT ![d] = areas[d]]
    /\ Exit
    /\ UNCHANGED <<device_size, super, areas, failures, uses>>

-----------------------------------------------------------------------------
(* MountFileSystem: OpenTarget goes through the devices in whatever order  *)
(* the directory lists them.  Check opens the one device it is given.      *)

MountFileSystem ==
    /\ At("idle")
    /\ job' = "mount" /\ todo' = Devices
    /\ Goto("scan")
    /\ UNCHANGED <<device_size, super, areas, device, memory, history, failures, uses>>

OpenTarget(d, stop) ==
    /\ At("scan") /\ d \in todo
    /\ Open(d, stop)
    /\ IF stop = "none" THEN UNCHANGED failures ELSE Fails
    /\ Goto(IF stop = "none" THEN "prefetch" ELSE "scan")
    /\ todo' = todo \ {d}
    /\ UNCHANGED <<device_size, super, areas, job, memory, history, uses>>

\* The super block is read through the cache descriptor and its uuid compared.
PrefetchUuid ==
    LET d == dev_fd_cache IN
    /\ At("prefetch")
    /\ IF InDevice(0, PageSize) /\ super[d] # Bad
       THEN Goto("read_all") /\ UNCHANGED device
       ELSE Goto("scan") /\ Close
    /\ UNCHANGED <<device_size, super, areas, job, todo, memory, history, failures, uses>>

NoTarget ==
    /\ At("scan") /\ todo = {}
    /\ Exit
    /\ UNCHANGED <<device_size, super, areas, history, failures, uses>>

Check(d, stop) ==
    /\ At("idle")
    /\ IF stop = "none"
       THEN /\ Open(d, stop) /\ Goto("read_all")
            /\ job' = "check"
            /\ UNCHANGED <<todo, memory, failures>>
       ELSE Fails /\ Exit
    /\ UNCHANGED <<device_size, super, areas, history, uses>>

\* ShmManager::Initialize: the super block again, with its crc and magic, then
\* everything before the data blocks through the direct descriptor.
PrefetchSuperMeta == InDevice(0, PageSize) /\ super[dev_fd_cache] # Bad
ReadAllMeta == InDevice(0, block_data_start_offset)

ShmInitialize ==
    /\ At("read_all")
    /\ IF PrefetchSuperMeta /\ ReadAllMeta
       THEN /\ loaded' = areas[dev_fd_direct]
            /\ Goto("initialize")
            /\ UNCHANGED <<job, todo, device, block_num>>
       ELSE Exit
    /\ UNCHANGED <<device_size, super, areas, history, failures, uses>>

\* InitializeMeta of the handles, in their order.  A spoilt meta counts as used and
\* points nowhere.
UsedIn(table) == {i \in DOMAIN table : table[i] >= 0 \/ table[i] = Spoilt}
CrcsMatch(table) == \A i \in DOMAIN table : table[i] # Bad
DirsAccepted(m) ==
    CrcsMatch(m.dirs) /\ \A i \in UsedIn(m.dirs) : m.dirs[i] \in UsedIn(m.dirs)
FilesAcceptedAlone(m) == CrcsMatch(m.files)
FilesAccepted(m) ==
    CrcsMatch(m.files) /\ \A i \in UsedIn(m.files) : m.files[i] \in UsedIn(m.dirs)
FbsAccepted(m) ==
    CrcsMatch(m.fbs) /\ \A i \in UsedIn(m.fbs) : m.fbs[i] \in UsedIn(m.files)
SuperAccepted(d) == super[d] # Bad
Accepted(m) == DirsAccepted(m) /\ FilesAccepted(m) /\ FbsAccepted(m)

\* The metas of temporary files are cleared on the way, each with a write of
\* its page, and not entered into the maps.
TempsIn(m) == {x \in {"files", "fbs"} \X (Fhs \cup Fbs) :
                  x[2] \in DOMAIN m[x[1]] /\ m[x[1]][x[2]] = Temp}
Cleared(m, X) ==
    [a \in DOMAIN m |-> [i \in DOMAIN m[a] |-> IF <<a, i>> \in X THEN Free ELSE m[a][i]]]

\* The temporary metas cleared before the mount is refused or a write fails:
\* those of files once the directories are accepted, of FileBlocks after all
\* those of files.
ClearedFirst(m, X) ==
    \A x \in X : /\ DirsAccepted(m)
                 /\ x[1] = "fbs" => /\ FilesAccepted(m)
                                    /\ \A y \in TempsIn(m) : y[1] = "files" => y \in X

\* BlockHandle fills its pool with as many ids as the super block counts.
BlockIds(d) == super[d]

InitializeMeta(X) ==
    LET d == dev_fd_direct IN
    /\ At("initialize") /\ X \subseteq TempsIn(loaded)
    /\ IF SuperAccepted(d) /\ Accepted(loaded) /\ X = TempsIn(loaded)
       THEN /\ loaded' = Cleared(loaded, X)
            /\ block_num' = BlockIds(d)
            /\ Goto("accepted")
            /\ UNCHANGED <<job, todo, device, failures>>
       ELSE /\ ClearedFirst(loaded, X)
            /\ IF Accepted(loaded) THEN Fails ELSE UNCHANGED failures
            /\ Exit
    /\ areas' = [areas EXCEPT ![d] = Cleared(@, X)]
    /\ UNCHANGED <<device_size, super, history, uses>>

\* Check is done; a mount makes the mount point unless it is there.
MakeMountPoint ==
    LET d == dev_fd_direct
        m == IF UsedIn(loaded.dirs) = {} THEN [loaded EXCEPT !.dirs[RootDh] = RootDh]
             ELSE loaded
    IN
    /\ At("accepted") /\ job = "mount"
    /\ loaded' = m
    /\ areas' = [areas EXCEPT ![d] = m]
    /\ saved' = [saved EXCEPT ![d] = m]
    /\ Goto("mounted")
    /\ UNCHANGED <<device_size, super, job, todo, device, block_num, formatted, failures, uses>>

Checked ==
    /\ At("accepted") /\ job = "check"
    /\ Exit
    /\ UNCHANGED <<device_size, super, areas, history, failures, uses>>

-----------------------------------------------------------------------------
(* What a mounted file system does to its metadata, seen from here: one    *)
(* meta is written after the other, in the order and under the checks of   *)
(* the operations (FileStore and DirTree have all of it, and the writes    *)
(* that fail).                                                             *)

WriteMeta(m) ==
    LET d == dev_fd_direct IN
    /\ At("mounted") /\ failures + uses < MaxEvents /\ uses' = uses + 1
    /\ loaded' = m
    /\ areas' = [areas EXCEPT ![d] = m]
    /\ saved' = [saved EXCEPT ![d] = m]
    /\ UNCHANGED <<device_size, super, pc, job, todo, device, block_num, formatted, failures>>

\* What a new meta may point to: mkdir and create find the directory they are
\* to make it in, an extension is one of a file, temporary or not.
Owners(a, i) ==
    CASE a = "dirs" -> UsedIn(loaded.dirs) \ {i}
      [] a = "files" -> UsedIn(loaded.dirs) \cup {Temp}
      [] a = "fbs" -> UsedIn(loaded.files) \cup ({Temp} \cap {loaded.files[j] : j \in Fhs})

\* A FileBlock has a block at least.
BlockLeft(i) == Cardinality({j \in Fbs \ {i} : loaded.fbs[j] # Free}) < block_num

\* rmdir finds the directory empty, and the mount point is not removed (it is
\* its own parent here); a file goes after its FileBlocks.
PointedToByNames(a, i) == a = "dirs" /\ \E j \in Dhs : i \in {loaded.dirs[j], loaded.files[j]}
PointedTo(a, i) ==
    \/ a = "dirs" /\ \E j \in Dhs : i \in {loaded.dirs[j], loaded.files[j]}
    \/ a = "files" /\ \E j \in Fbs : loaded.fbs[j] = i
    \/ a = "files" /\ loaded.files[i] = Temp /\ \E j \in Fbs : loaded.fbs[j] = Temp

\* A rename moves neither the mount point nor, but for StalePath, a directory that
\* has a subdirectory.
Movable(a, i) ==
    \/ a = "dirs" /\ i \in UsedIn(loaded.dirs) /\ \A j \in Dhs : loaded.dirs[j] # i
    \/ a = "files" /\ loaded.files[i] \in UsedIn(loaded.dirs)

\* mkdir, create, the extension of a file: a free meta comes into use.  A spoilt
\* one is made good by the write that it was waiting for, or by another rename.
\* A rename moves a meta to another directory.  Temporary files are new.
Use(a, i, owner) ==
    /\ i \in DOMAIN loaded[a]
    /\ loaded[a][i] \in {Free, Spoilt} \/ (owner # Temp /\ Movable(a, i))
    /\ owner \in Owners(a, i)
    /\ owner = Temp => ~PointedTo(a, i)
    /\ a = "fbs" => BlockLeft(i)
    /\ WriteMeta([loaded EXCEPT ![a][i] = owner])

\* rmdir, unlink, the last close of a temporary or deleted file, the recycling of
\* a shrunk file's old meta: a meta is cleared.
Clear(a, i) ==
    /\ i \in DOMAIN loaded[a] /\ loaded[a][i] # Free
    /\ ~PointedTo(a, i)
    /\ WriteMeta([loaded EXCEPT ![a][i] = Free])

\* Of two directories, neither the mount point: the rename of e leaves the stored
\* path of its subdirectory i without a parent; that of i onto e leaves two
\* directories with one path.
StalePath(i) ==
    /\ i \in UsedIn(loaded.dirs) /\ loaded.dirs[i] # i
    /\ \E e \in UsedIn(loaded.dirs) \ {i} : loaded.dirs[e] # e
    /\ WriteMeta([loaded EXCEPT !.dirs[i] = Spoilt])

\* FileBlock i is written with a block that FileBlock j still has on the device:
\* the shrunk file's new one before the old one is cleared, or one that took a
\* block which an unlink had given back before it cleared its FileBlock.
ClaimedTwice(i) ==
    /\ loaded.fbs[i] # Temp
    /\ \E j \in UsedIn(loaded.fbs) : j # i
    /\ WriteMeta([loaded EXCEPT !.fbs[i] = Spoilt])

\* A page is written while another of its metas was claimed, or had its time
\* stamps set, but has no crc yet.
StaleCrc(a, i) ==
    /\ loaded[a][i] = Free \/ (a = "files" /\ loaded[a][i] # Temp)
    /\ WriteMeta([loaded EXCEPT ![a][i] = Spoilt])

\* The process ends, by unmount or by a crash, at any moment but within the
\* write of an area.
Stop ==
    /\ pc # "idle" /\ Exit
    /\ UNCHANGED <<device_size, super, areas, history, failures, uses>>

\* The steps of the mounted file system, but for its end.
MountedStep ==
    \/ \E a \in {"dirs", "files", "fbs"}, i \in Dhs \cup Fbs :
          Clear(a, i) \/ \E owner \in Dhs \cup Fhs \cup {Temp} : Use(a, i, owner)
    \/ \E i \in Dhs : StalePath(i) \/ \E a \in {"dirs", "files"} : StaleCrc(a, i)
    \/ \E i \in Fbs : ClaimedTwice(i)

Next ==
    \/ \E d \in Devices, stop \in Stops :
          Format(d, stop) \/ OpenTarget(d, stop) \/ Check(d, stop)
    \/ \E good \in BOOLEAN : FormatSuper(good)
    \/ \E a \in {"dirs", "files", "fbs"} :
          FormatArea(a) \/ \E S \in SUBSET DOMAIN Fresh[a] : FormatStops(a, S)
    \/ FormatDone
    \/ MountFileSystem \/ PrefetchUuid \/ NoTarget \/ ShmInitialize
    \/ \E X \in SUBSET TempsIn(loaded) : InitializeMeta(X)
    \/ MakeMountPoint \/ Checked
    \/ At("mounted") /\ MountedStep
    \/ Stop

Spec == Init /\ [][Next]_vars

-----------------------------------------------------------------------------
(* Properties *)

\* Every variable has its type.
TypeOK ==
    /\ super \in [Devices -> {Bad} \cup Nat]
    /\ areas \in [Devices -> Areas] /\ loaded \in Areas /\ saved \in [Devices -> Areas]
    /\ todo \subseteq Devices
    /\ {dev_fd_direct, dev_fd_cache} \subseteq Devices \cup {NoDev}
    /\ dev_size \in Nat /\ block_num \in Nat

\* A mount sees all the files there were when the device was last used, or none,
\* whatever part of a later format or of the cleaning of temporary files went
\* through: the order super block, dirs, files, FileBlocks never leaves some of
\* the files, or files without their blocks, that InitializeMeta accepts, and of
\* a temporary file nothing is left (file_system.cc:379, file_handle.cc:29 and
\* :66, file_block_handle.cc:40 and :51).
FilesAllOrNone ==
    LET was == Cleared(saved[dev_fd_direct], TempsIn(saved[dev_fd_direct])) IN
    At("accepted") =>
        <<loaded.files, loaded.fbs>> \in {<<was.files, was.fbs>>, <<Fresh.files, Fresh.fbs>>}

\* A mounted device has room for every block it counts, though the count is
\* computed unsigned and on devices that are too small (super_block.cc:97,
\* shm_manager.cc:163).
BlocksInDevice ==
    pc \in {"accepted", "mounted"} =>
        block_data_start_offset + block_num * BlockSize <= device_size[dev_fd_direct]

\* Once a device is chosen, both descriptors are open on it and the size that
\* bounds every access is its size, whatever failed on the devices tried before
\* (device.cc:114, file_system.cc:437).
DescriptorsAgree ==
    pc \notin {"idle", "scan"} =>
        /\ dev_fd_direct = dev_fd_cache /\ dev_fd_direct # NoDev
        /\ dev_size = device_size[dev_fd_direct]

\* No meta is in one of the three states that a mount is known to refuse.
Unspoilt(m) ==
    /\ \A i \in Dhs : m.dirs[i] # Spoilt
    /\ \A i \in Fhs : m.files[i] # Spoilt
    /\ \A i \in Fbs : m.fbs[i] # Spoilt

\* A device whose format was reported a success and that can hold its metadata
\* is accepted by every later mount, wherever the operations on it and the cleaning
\* of temporary files were interrupted: no crc is bad, and no directory, file or
\* FileBlock points to one that is not there.  The exceptions are a stored path
\* that a rename made stale (directory.cc:279), a block that two FileBlocks have
\* (file.cc:576, file_block.cc:57) and a meta written while it was being filled in
\* (file_handle.cc:433, file.cc:612), as long as they last.
FormattedMounts ==
    \A d \in formatted : device_size[d] >= block_data_start_offset =>
        /\ super[d] # Bad
        /\ Unspoilt(areas[d]) => Accepted(areas[d])

\* meta_defines.h:64, "max supported udisk size 128T": every block of a device of
\* a supported size has its lock in block_locks_.
LocksCoverDevice ==
    At("mounted") /\ dev_size <= MaxUDiskSize => block_num <= NumLocks
=============================================================================
