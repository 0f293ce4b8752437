------------------------------ MODULE DirTree ------------------------------
(***************************************************************************)
(* The directories of blockfs: the DirMeta table in memory and on the      *)
(* device, the map of created directories by full path, the child maps of  *)
(* the Directory objects, and mkdir, rmdir, rename, opendir and releasedir *)
(* over them (lib/dir_handle.cc, lib/directory.cc, lib/file_system.cc).    *)
(*                                                                         *)
(* A path is the sequence of its components; the mount point "/" is <<>>.  *)
(* Every directory stores its full path, so a path is also a key.          *)
(* Operations that change the same directory do not overlap (the kernel's  *)
(* directory locks): the guard Unlocked.  Nor does opendir overlap the     *)
(* removal of its path (libfuse's path locks): Opening and Removing.       *)
(***************************************************************************)
EXTENDS Integers, Sequences, FiniteSets, Functions

CONSTANTS
    Threads,        \* worker threads of the FUSE loop
    Comps,          \* path components
    MaxDepth,       \* bound on the length of a path
    MaxDirs,        \* super_meta()->max_file_num, DirMetas in the table
    DirsPerPage,    \* DirMetas per 4K page (DIR_ALIGN)
    Ops,            \* operations the clients issue
    MkdirTries,     \* attempts of mkdir to write its meta, 3 in the code
    LeafRenames,    \* clients rename only directories without subdirectories,
                    \* and only to paths that are free
    MaxOpens,       \* bound on the open handles of a directory before the next opendir
    MaxCrashes,     \* bound on crashes
    MaxFaults       \* bound on crashes and failed device writes together

None == -1
Dhs == 0 .. MaxDirs - 1
Paths == UNION {[1 .. k -> Comps] : k \in 0 .. MaxDepth}
Root == <<>>
Parent(p) == SubSeq(p, 1, Len(p) - 1)

ASSUME DirAssumption ==
    /\ MaxDirs \in Nat \ {0} /\ DirsPerPage \in Nat \ {0} /\ MkdirTries \in Nat \ {0}
    /\ MaxDepth \in Nat /\ MaxOpens \in Nat /\ LeafRenames \in BOOLEAN
    /\ MaxCrashes \in Nat /\ MaxFaults \in Nat
    /\ Ops \subseteq {"mkdir", "rmdir", "rename", "opendir"}
    /\ None \notin Threads

VARIABLES
    status,         \* "up" (mounted) or "down"
    dmeta,          \* DirMeta table in memory
    disk_dmeta,     \* DirMeta table on the device
    free_dhs,       \* DirHandle::free_dhs_
    created_dirs,   \* DirHandle::created_dirs_, path -> dh
    children,       \* Directory::child_dir_maps_ of the Directory over dh
    nlink,          \* Directory::nlink_ of the Directory over dh
    pc, loc,        \* each thread's place in the code and its locals
    crashes, failures

memory == <<dmeta, free_dhs, created_dirs, children, nlink>>
vars == <<status, memory, disk_dmeta, pc, loc, crashes, failures>>

\* "ok" says that crc_ matches the record's content.
DirMeta == [used : BOOLEAN, name : Paths, ok : BOOLEAN]
FreshDir == [used |-> FALSE, name |-> Root, ok |-> TRUE]
NoLoc == [locks |-> {}, path |-> Root, dh |-> None, tries |-> 0]

Init ==
    /\ status = "down"
    /\ dmeta = [d \in Dhs |-> FreshDir] /\ disk_dmeta = [d \in Dhs |-> FreshDir]
    /\ free_dhs = <<>>
    /\ created_dirs = [p \in Paths |-> None]
    /\ children = [d \in Dhs |-> {}] /\ nlink = [d \in Dhs |-> 0]
    /\ pc = [t \in Threads |-> "idle"] /\ loc = [t \in Threads |-> NoLoc]
    /\ crashes = 0 /\ failures = 0

-----------------------------------------------------------------------------
(* Helpers *)

\* No thread holds the kernel's lock of one of the directories.
Unlocked(S) == \A t \in Threads : loc[t].locks \cap S = {}
Opening(p) == \E t \in Threads : pc[t] = "opendir_inc" /\ loc[t].path = p
Removing(p) ==
    \E t \in Threads : pc[t] \in {"rmdir_write", "rmdir_remove"} /\ loc[t].path = p

Start(t, op) == status = "up" /\ op \in Ops /\ pc[t] = "idle"
At(t, l) == pc[t] = l
Goto(t, l) == pc' = [pc EXCEPT ![t] = l]
Return(t) ==
    /\ pc' = [pc EXCEPT ![t] = "idle"]
    /\ loc' = [loc EXCEPT ![t] = NoLoc]

PageOf(d) == {e \in Dhs : e \div DirsPerPage = d \div DirsPerPage}

\* One device write, which may fail.
DeviceWrite(good) ==
    /\ good \/ crashes + failures < MaxFaults
    /\ failures' = IF good THEN failures ELSE failures + 1

FirstPageWritten(dm, d) == [e \in Dhs |-> IF e \in PageOf(0) THEN dm[e] ELSE disk_dmeta[e]]

\* The device after the page of d was written with content dm.
PageWritten(dm, d) == [e \in Dhs |-> IF e \in PageOf(d) THEN dm[e] ELSE disk_dmeta[e]]

WriteMetaUnsealed(dm, d, good) ==
    /\ DeviceWrite(good)
    /\ dmeta' = dm
    /\ disk_dmeta' = IF good THEN PageWritten(dm, d) ELSE disk_dmeta

\* Directory::WriteMeta when the table's content is dm: the crc of d, then
\* its whole page.  Every caller holds DirHandle::mutex_.
WriteMeta(dm, d, good) ==
    LET sealed == [dm EXCEPT ![d].ok = TRUE] IN
    /\ DeviceWrite(good)
    /\ dmeta' = sealed
    /\ disk_dmeta' = IF good THEN PageWritten(sealed, d) ELSE disk_dmeta

\* The path is a directory and so is its parent.
FindDirectory(p) == created_dirs[Parent(p)] # None /\ created_dirs[p] # None

-----------------------------------------------------------------------------
(* mkdir *)

HeadKept == free_dhs
HeadTaken == Tail(free_dhs)

\* NewDirectory and NewFreeDirectoryNolock: the name is new, the parent is
\* there, and the free meta at the head becomes used and named; its crc is
\* now stale.
CreateDirectory(t, p) ==
    LET d == Head(free_dhs) IN
    /\ Start(t, "mkdir") /\ p # Root
    /\ created_dirs[p] = None /\ created_dirs[Parent(p)] # None
    /\ Unlocked({p, Parent(p)})
    /\ free_dhs # <<>> /\ ~dmeta[d].used
    /\ dmeta' = [dmeta EXCEPT ![d] = [used |-> TRUE, name |-> p, ok |-> FALSE]]
    /\ free_dhs' = HeadTaken
    /\ loc' = [loc EXCEPT ![t].locks = {p, Parent(p)}, ![t].path = p, ![t].dh = d]
    /\ Goto(t, "mkdir_write")
    /\ UNCHANGED <<status, disk_dmeta, created_dirs, children, nlink,
                   crashes, failures>>

\* The meta is persisted under the mutex; a failed write is repeated, and the
\* last failure ends the call with the meta still used.
MkdirWrite(t, good) ==
    /\ At(t, "mkdir_write")
    /\ WriteMeta(dmeta, loc[t].dh, good)
    /\ \/ good /\ Goto(t, "mkdir_add") /\ UNCHANGED loc
       \/ /\ ~good /\ loc[t].tries + 1 < MkdirTries
          /\ loc' = [loc EXCEPT ![t].tries = @ + 1]
          /\ UNCHANGED pc
       \/ ~good /\ loc[t].tries + 1 = MkdirTries /\ Return(t)
    /\ UNCHANGED <<status, free_dhs, created_dirs, children, nlink, crashes>>

\* AddDirectory: the parent's child map, then the map of created directories.
MkdirAdd(t) ==
    LET p == loc[t].path IN
    /\ At(t, "mkdir_add")
    /\ children' = [children EXCEPT ![created_dirs[Parent(p)]] = @ \cup {loc[t].dh}]
    /\ created_dirs' = [created_dirs EXCEPT ![p] = loc[t].dh]
    /\ Return(t)
    /\ UNCHANGED <<status, dmeta, disk_dmeta, free_dhs, nlink, crashes, failures>>

-----------------------------------------------------------------------------
(* rmdir *)

RemovableIfEmpty(d) == children[d] = {}
RemovableIfClosed(d) == nlink[d] = 0
Removable(d) == children[d] = {} /\ nlink[d] = 0

\* DeleteDirectory: found with its parent, empty and not open.
DeleteDirectory(t, p) ==
    LET d == created_dirs[p] IN
    /\ Start(t, "rmdir") /\ p # Root
    /\ FindDirectory(p) /\ Removable(d)
    /\ Unlocked({p, Parent(p)}) /\ ~Opening(p)
    /\ loc' = [loc EXCEPT ![t].locks = {p, Parent(p)}, ![t].path = p, ![t].dh = d]
    /\ Goto(t, "rmdir_write")
    /\ UNCHANGED <<status, memory, disk_dmeta, crashes, failures>>

\* Suicide: ClearMeta and WriteMeta under the mutex.
RmdirWrite(t, good) ==
    /\ At(t, "rmdir_write")
    /\ WriteMeta([dmeta EXCEPT ![loc[t].dh].used = FALSE], loc[t].dh, good)
    /\ IF good THEN Goto(t, "rmdir_remove") /\ UNCHANGED loc ELSE Return(t)
    /\ UNCHANGED <<status, free_dhs, created_dirs, children, nlink, crashes>>

\* RemoveDirectory; nothing when the parent does not know the child.  The dh
\* is not put back into free_dhs_.
RmdirRemove(t) ==
    LET p == loc[t].path
        parent == created_dirs[Parent(p)]
    IN
    /\ At(t, "rmdir_remove")
    /\ IF loc[t].dh \in children[parent]
       THEN /\ children' = [children EXCEPT ![parent] = @ \ {loc[t].dh}]
            /\ created_dirs' = [created_dirs EXCEPT ![p] = None]
       ELSE UNCHANGED <<children, created_dirs>>
    /\ Return(t)
    /\ UNCHANGED <<status, dmeta, disk_dmeta, free_dhs, nlink, crashes, failures>>

-----------------------------------------------------------------------------
(* rename of a directory *)

\* The kernel refuses to move a directory into itself or over its ancestor.
Within(p, q) == Len(p) <= Len(q) /\ SubSeq(q, 1, Len(p)) = p

\* Directory::rename, one section under the mutex.  The name is looked up by
\* path, so the descendants keep the names they had.  When q is already a
\* directory, AddDirectory2CreateNolock refuses and its result is ignored.
Rename(p, q, good) ==
    LET d == created_dirs[p]
        from == created_dirs[Parent(p)]
        to == created_dirs[Parent(q)]
    IN
    /\ to # None
    /\ children' = [e \in Dhs |->
                      (IF e = from THEN children[e] \ {d} ELSE children[e])
                        \cup (IF e = to THEN {d} ELSE {})]
    /\ created_dirs' = [created_dirs EXCEPT
                          ![p] = None, ![q] = IF @ = None THEN d ELSE @]
    /\ WriteMeta([dmeta EXCEPT ![d].name = q], d, good)

RenameDirectory(t, p, q, good) ==
    /\ Start(t, "rename") /\ p # Root /\ q # Root
    /\ FindDirectory(p)
    /\ LeafRenames => children[created_dirs[p]] = {} /\ created_dirs[q] = None
    /\ ~Within(p, q) /\ ~Within(q, p)
    /\ Unlocked({p, q, Parent(p), Parent(q)}) /\ ~Opening(p) /\ ~Opening(q)
    /\ Rename(p, q, good)
    /\ UNCHANGED <<status, free_dhs, nlink, pc, loc, crashes>>

-----------------------------------------------------------------------------
(* opendir and releasedir *)

\* The Directory is looked up and its link count raised in two sections.
OpenDirectory(t, p) ==
    /\ Start(t, "opendir") /\ ~Removing(p)
    /\ created_dirs[p] # None /\ \A d \in Dhs : nlink[d] < MaxOpens
    /\ loc' = [loc EXCEPT ![t].path = p, ![t].dh = created_dirs[p]]
    /\ Goto(t, "opendir_inc")
    /\ UNCHANGED <<status, memory, disk_dmeta, crashes, failures>>

OpenInc(t) ==
    /\ At(t, "opendir_inc")
    /\ nlink' = [nlink EXCEPT ![loc[t].dh] = @ + 1]
    /\ Return(t)
    /\ UNCHANGED <<status, dmeta, disk_dmeta, free_dhs, created_dirs, children,
                   crashes, failures>>

\* The handle keeps the Directory whatever became of its name.
CloseDirectory(t, d) ==
    /\ Start(t, "opendir") /\ nlink[d] > 0
    /\ nlink' = [nlink EXCEPT ![d] = @ - 1]
    /\ UNCHANGED <<status, dmeta, disk_dmeta, free_dhs, created_dirs, children,
                   pc, loc, crashes, failures>>

-----------------------------------------------------------------------------
(* Mount and crash *)

UsedDhs == {d \in Dhs : disk_dmeta[d].used}
UsedNames == {disk_dmeta[d].name : d \in UsedDhs}

\* InitializeMeta accepts the table: every crc matches, no path is used twice
\* and every directory but the mount point has its parent.
CrcsMatch == \A d \in Dhs : disk_dmeta[d].ok
NamesUnique == \A d, e \in UsedDhs : disk_dmeta[d].name = disk_dmeta[e].name => d = e
ParentsExist == \A p \in UsedNames \ {Root} : Parent(p) \in UsedNames
MountOk == CrcsMatch /\ NamesUnique /\ ParentsExist

LoadedDirOrEnd(p) ==
    IF p \in UsedNames THEN CHOOSE d \in UsedDhs : disk_dmeta[d].name = p ELSE MaxDirs
LoadedDir(p) ==
    IF p \in UsedNames THEN CHOOSE d \in UsedDhs : disk_dmeta[d].name = p ELSE None
LoadedChildren(d) ==
    {e \in UsedDhs : d \in UsedDhs /\ disk_dmeta[e].name # Root
                        /\ Parent(disk_dmeta[e].name) = disk_dmeta[d].name}

\* The sequences that list a set of numbers in ascending order.
Ascending(S) ==
    {s \in [1 .. Cardinality(S) -> S] : \A i, j \in DOMAIN s : i < j => s[i] < s[j]}

Mount ==
    /\ status = "down" /\ MountOk
    /\ status' = "up"
    /\ dmeta' = disk_dmeta
    /\ created_dirs' = [p \in Paths |-> LoadedDir(p)]
    /\ children' = [d \in Dhs |-> LoadedChildren(d)]
    /\ nlink' = [d \in Dhs |-> 0]
    /\ free_dhs' \in Ascending(Dhs \ UsedDhs)
    /\ UNCHANGED <<disk_dmeta, pc, loc, crashes, failures>>

\* The mount ends by creating the mount point on a formatted device; should
\* that fail, the process ends.
MakeMountPoint ==
    LET d == Head(free_dhs) IN
    /\ status = "up" /\ created_dirs[Root] = None
    /\ WriteMeta([dmeta EXCEPT ![d] = [used |-> TRUE, name |-> Root, ok |-> FALSE]], d, TRUE)
    /\ free_dhs' = HeadTaken
    /\ created_dirs' = [created_dirs EXCEPT ![Root] = d]
    /\ UNCHANGED <<status, children, nlink, pc, loc, crashes>>

\* The process ends at any moment, unmounted or killed; the device stays.
Crash ==
    /\ status = "up" /\ crashes < MaxCrashes /\ crashes + failures < MaxFaults
    /\ crashes' = crashes + 1
    /\ status' = "down"
    /\ dmeta' = [d \in Dhs |-> FreshDir] /\ free_dhs' = <<>>
    /\ created_dirs' = [p \in Paths |-> None]
    /\ children' = [d \in Dhs |-> {}] /\ nlink' = [d \in Dhs |-> 0]
    /\ pc' = [t \in Threads |-> "idle"] /\ loc' = [t \in Threads |-> NoLoc]
    /\ UNCHANGED <<disk_dmeta, failures>>

\* The handlers of the FUSE front end.
mfs_mkdir(t) == \E p \in Paths : CreateDirectory(t, p)
bfs_rmdir(t) == \E p \in Paths : DeleteDirectory(t, p)
mfs_rename(t) == \E p, q \in Paths, good \in BOOLEAN : RenameDirectory(t, p, q, good)
bfs_opendir(t) == \E p \in Paths : OpenDirectory(t, p)
bfs_releasedir(t) == \E d \in Dhs : CloseDirectory(t, d)

Operation(t) ==
    \/ mfs_mkdir(t) \/ bfs_rmdir(t) \/ mfs_rename(t) \/ bfs_opendir(t) \/ bfs_releasedir(t)
    \/ MkdirAdd(t) \/ RmdirRemove(t) \/ OpenInc(t)
    \/ \E good \in BOOLEAN : MkdirWrite(t, good) \/ RmdirWrite(t, good)

Next == Mount \/ MakeMountPoint \/ Crash \/ \E t \in Threads : Operation(t)

Spec == Init /\ [][Next]_vars

-----------------------------------------------------------------------------
(* Properties *)

\* Every variable has its type.
TypeOK ==
    /\ status \in {"up", "down"}
    /\ dmeta \in [Dhs -> DirMeta] /\ disk_dmeta \in [Dhs -> DirMeta]
    /\ free_dhs \in Seq(Dhs)
    /\ created_dirs \in [Paths -> Dhs \cup {None}]
    /\ children \in [Dhs -> SUBSET Dhs] /\ nlink \in [Dhs -> Nat]
    /\ pc \in [Threads -> {"idle", "mkdir_write", "mkdir_add", "rmdir_write",
                           "rmdir_remove", "opendir_inc"}]
    /\ loc \in [Threads -> [locks : SUBSET Paths, path : Paths,
                            dh : Dhs \cup {None}, tries : 0 .. MkdirTries - 1]]
    /\ crashes \in Nat /\ failures \in Nat

\* A dh in the free list is listed once, is unused, and is known to no path,
\* no parent and no thread: two mkdirs never get the same DirMeta.
FreeDhsSound ==
    /\ IsInjective(free_dhs)
    /\ \A d \in Range(free_dhs) :
        /\ ~dmeta[d].used /\ children[d] = {} /\ nlink[d] = 0
        /\ \A p \in Paths : created_dirs[p] # d
        /\ \A e \in Dhs : d \notin children[e]
        /\ \A t \in Threads : loc[t].dh # d

\* Where every device write succeeded, rmdir took away no directory that is open
\* or has a child, whatever overlapped its check (DirHandle::DeleteDirectory).
OccupiedKept ==
    failures = 0 => \A d \in Dhs :
        children[d] # {} \/ nlink[d] > 0 => dmeta[d].used

\* Where every device write succeeded, a directory that can be found and that no
\* thread is creating, removing or renaming is on the device under its path.
DirsDurable ==
    failures = 0 => \A p \in Paths :
        created_dirs[p] # None /\ Unlocked({p}) =>
            disk_dmeta[created_dirs[p]] = [used |-> TRUE, name |-> p, ok |-> TRUE]

\* The metas that a mkdir has claimed and not written yet.
Claimed == {loc[t].dh : t \in {u \in Threads : pc[u] = "mkdir_write"}}

\* Before the first failed write and the first crash, DirHandle::InitializeMeta
\* would accept the device at every moment, except for the crc of a meta that a
\* mkdir has claimed and that the page write of another thread carried along.
Mountable ==
    failures = 0 /\ crashes = 0 =>
        /\ \A d \in Dhs : disk_dmeta[d].ok \/ d \in Claimed
        /\ NamesUnique /\ ParentsExist

\* The directories on the device.  A meta that a mkdir has claimed and the page write
\* of another thread carried along is none yet: its crc does not match.
DurableNames == {disk_dmeta[d].name : d \in {e \in UsedDhs : disk_dmeta[e].ok}}
DurableTree == INSTANCE PathTree WITH tree <- DurableNames

\* Until a device write fails, the device changes by one mkdir, rmdir or rename
\* of an empty directory at a time, so that a crash leaves each of them done or
\* not done and the tree whole.
TreeAtomic ==
    DurableTree!Init /\ [][failures' = 0 => [DurableTree!Next]_DurableNames]_vars
=============================================================================
